------------------------- MODULE ClientAccessProofs -------------------------
(***************************************************************************)
(* Proofs about the accounting, from a core's counters to a client's, for  *)
(* any nodes, connections, users, limit and bounds.  Of ClientAccess: type *)
(* correctness, the two facts about the client's counters, AccountingExact *)
(* and NeverOvercharged, and ClosedStaysClosed; of TrafficReporter:        *)
(* ReportsAreExact.  The two share no state.                               *)
(***************************************************************************)
EXTENDS ClientAccess, TrafficReporter, FiniteSetTheorems, TLAPS

\* A client just created has the types its row and its tasks declare.
LEMMA ClientTypeInit == ClientInit => ClientTypeOK
<1> SUFFICES ASSUME ClientInit PROVE ClientTypeOK
  OBVIOUS
<1>1. Resets \in BOOLEAN
  BY ClientAssumption
<1>2. /\ status \in Status /\ expiry \in {"none", "future", "past"}
      /\ hold \in {"none", "future", "past"}
  BY DEF ClientInit, Status
<1>3. {used, allTime, recorded, forgiven, unrecorded, unbilled} \subseteq Nat
  BY DEF ClientInit
<1>4. {edits, errors, periods} \subseteq Nat
  BY DEF ClientInit
<1> QED
  BY <1>1, <1>2, <1>3, <1>4 DEF ClientInit, ClientTypeOK, Status, Step, Actor

\* Forgetting a read keeps the types of what was read.
LEMMA SettlesType ==
  ASSUME ClientTypeOK, Settles
  PROVE  /\ readUsed' \in [Actor -> Nat]
         /\ readStatus' \in [Actor -> Status]
  BY DEF ClientTypeOK, Settles, Status

LEMMA HoldingIsActors ==
  /\ Holding \subseteq Actor
  /\ Holding' \subseteq Actor
  BY DEF Holding, Actor

LEMMA ReportType ==
  ASSUME ClientTypeOK, NEW n \in Node, ReportStep(n)
  PROVE  ClientTypeOK'
<1> USE DEF ClientTypeOK, Exists, row, pass, pushing, bounds, ledger, overtake
<1>0. n \in Actor
  BY DEF Actor
<1>1. CASE ReadTraffic(n)
  <2>1. PICK k \in 1..MaxEntries : entries' = [entries EXCEPT ![n] = k]
    BY <1>1 DEF ReadTraffic
  <2>2. k \in Nat
    BY ClientAssumption
  <2> QED
    BY <1>0, <1>1, <2>1, <2>2 DEF ReadTraffic, ReadsUsed, ReadsStatus
<1>2. CASE BillEntry(n)
  <2>1. PICK c \in Chunk, kept \in BOOLEAN, billed \in BOOLEAN :
          /\ errors' = IF kept /\ (billed \/ ~Exists \/ readStatus[n] = "on_hold")
                       THEN errors ELSE errors + 1
          /\ IF kept
             THEN recorded' = recorded + c /\ UNCHANGED unrecorded
             ELSE unrecorded' = unrecorded + c /\ UNCHANGED recorded
          /\ IF billed
             THEN /\ used' = readUsed[n] + c
                  /\ WritesCounters(n)
                  /\ overReset' = overReset \intersect Holding'
                  /\ UNCHANGED unbilled
             ELSE /\ unbilled' = unbilled + c
                  /\ LeavesCounters
                  /\ outdated' = outdated \intersect Holding'
                  /\ UNCHANGED used
    BY <1>2 DEF BillEntry
  <2>2. c \in Nat
    BY ClientAssumption
  <2>3. Settles
    BY <2>1 DEF WritesCounters, LeavesCounters
  <2>4. /\ {used, recorded, unrecorded, unbilled, errors}' \subseteq Nat
        /\ stale' \subseteq Actor /\ overReset' \subseteq Actor
        /\ outdated' \subseteq Actor
        /\ lostUpdate' \in BOOLEAN /\ crossedReset' \in BOOLEAN
    BY <1>0, <2>1, <2>2, HoldingIsActors DEF WritesCounters, LeavesCounters
  <2>5. /\ entries' \in [Node -> Nat]
        /\ phase' \in [Node -> {"idle", "traffic", "online"}]
        /\ \A m \in Node : phase'[m] = "traffic" => entries'[m] > 0
    BY <1>2 DEF BillEntry
  <2> QED
    BY <1>2, <2>3, <2>4, <2>5, SettlesType DEF BillEntry
<1>3. CASE ReadOnline(n)
  BY <1>0, <1>3 DEF ReadOnline, ReadsStatus
<1>4. CASE ActivateOnline(n)
  <2>1. errors' \in {errors, errors + 1}
    BY <1>4 DEF ActivateOnline
  <2> QED
    BY <1>4, <2>1, SettlesType, HoldingIsActors
       DEF ActivateOnline, LeavesCounters, Status
<1> QED
  BY <1>1, <1>2, <1>3, <1>4 DEF ReportStep

LEMMA PassType ==
  ASSUME ClientTypeOK, PassStep
  PROVE  ClientTypeOK'
<1> USE DEF ClientTypeOK, Exists, row, reports, pass, pushing, bounds, ledger,
            overtake, Step
<1>0. Scheduler \in Actor /\ Scheduler \in Pusher
  BY ClientAssumption DEF Actor
<1>1. CASE ReadResets
  BY <1>0, <1>1 DEF ReadResets, Looks, ReadsUsed, ReadsStatus
<1>2. CASE WriteReset
  <2>1. allTime' \in Nat /\ used' \in Nat
    BY <1>0, <1>2 DEF WriteReset
  <2>2. status' \in Status
    BY <1>2 DEF WriteReset, Status
  <2>3. Settles
    BY <1>2 DEF WriteReset, WritesCounters
  <2> QED
    BY <1>0, <1>2, <2>1, <2>2, <2>3, SettlesType, HoldingIsActors
       DEF WriteReset, WritesCounters
<1>3. CASE ReadLimits \/ ReadHolds
  BY <1>3 DEF ReadLimits, ReadHolds, Looks
<1>4. ASSUME NEW s \in Status, NEW next \in Step, Closes(s, next),
             affected' \in BOOLEAN
      PROVE  ClientTypeOK'
  <2>1. Settles
    BY <1>4 DEF Closes, LeavesCounters
  <2> QED
    BY <1>4, <2>1, SettlesType, HoldingIsActors DEF Closes, LeavesCounters
<1>5. CASE WriteExpired \/ WriteLimited \/ WriteHoldExpired
  <2>1. {"expired", "limited"} \subseteq Status
    BY DEF Status
  <2> QED
    BY <1>4, <1>5, <2>1 DEF WriteExpired, WriteLimited, WriteHoldExpired
<1>6. CASE StartPushes \/ EndPushes
  <2>1. /\ pc' \in Step /\ queue' \subseteq Node
        /\ touched' \in BOOLEAN /\ affected' \in BOOLEAN
    BY <1>6 DEF StartPushes, EndPushes
  <2> QED
    BY <1>6, <2>1 DEF StartPushes, EndPushes
<1>7. CASE Abort
  <2>1. Settles
    BY <1>7 DEF Abort, LeavesCounters
  <2>2. errors' \in {errors, errors + 1}
    BY <1>7 DEF Abort
  <2>3. errors' \in Nat /\ readAll' \in Nat
    BY <1>7, <2>2 DEF Abort
  <2>4. /\ stale' \subseteq Actor /\ overReset' \subseteq Actor
        /\ outdated' \subseteq Actor
        /\ lostUpdate' \in BOOLEAN /\ crossedReset' \in BOOLEAN
    BY <1>7, HoldingIsActors DEF Abort, LeavesCounters
  <2>5. /\ pc' \in Step /\ queue' \subseteq Node /\ missed' \subseteq Node
        /\ touched' \in BOOLEAN /\ affected' \in BOOLEAN
    BY <1>7 DEF Abort
  <2> QED
    BY <1>7, <2>1, <2>3, <2>4, <2>5, SettlesType DEF Abort
<1>8. ASSUME NEW p \in Pusher, NEW n \in Node, Build(p, n)
      PROVE  ClientTypeOK'
  BY <1>8 DEF Build
<1>9. ASSUME NEW p \in Pusher, NEW n \in Node, Send(p, n)
      PROVE  ClientTypeOK'
  <2>1. /\ served' \in [Node -> {"never", "yes", "before"}]
        /\ missed' \subseteq Node
    BY <1>9 DEF Send, Delivers, Loses
  <2> QED
    BY <1>9, <2>1 DEF Send
<1> QED
  BY <1>0, <1>1, <1>2, <1>3, <1>5, <1>6, <1>7, <1>8, <1>9 DEF PassStep

LEMMA OtherType ==
  ASSUME ClientTypeOK, AdminStep \/ Clock \/ HubRestart
  PROVE  ClientTypeOK'
<1> USE DEF ClientTypeOK, Exists, row, reports, pass, pushing, bounds, ledger,
            overtake
<1>1. ASSUME NEW s \in Status, EditStatus(s) PROVE ClientTypeOK'
  BY <1>1, HoldingIsActors DEF EditStatus, Edit
<1>2. CASE ResetTraffic
  <2>1. due' \in BOOLEAN
    BY <1>2 DEF ResetTraffic
  <2>2. used' \in Nat /\ forgiven' \in Nat /\ edits' \in Nat
    BY <1>2 DEF ResetTraffic, Edit
  <2>3. stale' \subseteq Actor /\ overReset' \subseteq Actor
    BY <1>2, HoldingIsActors DEF ResetTraffic
  <2> QED
    BY <1>2, <2>1, <2>2, <2>3 DEF ResetTraffic
<1>3. CASE DeleteClient
  BY <1>3, HoldingIsActors DEF DeleteClient, Edit, Status
<1>4. ASSUME NEW p \in Pusher, NEW n \in Node, Build(p, n)
      PROVE  ClientTypeOK'
  BY <1>4 DEF Build
<1>5. ASSUME NEW p \in Pusher, NEW n \in Node, Send(p, n)
      PROVE  ClientTypeOK'
  <2>1. /\ served' \in [Node -> {"never", "yes", "before"}]
        /\ missed' \subseteq Node
    BY <1>5 DEF Send, Delivers, Loses
  <2> QED
    BY <1>5, <2>1 DEF Send
<1>6. CASE Clock
  <2>1. /\ expiry' \in {"none", "future", "past"}
        /\ hold' \in {"none", "future", "past"}
    BY <1>6 DEF Clock
  <2>2. due' \in BOOLEAN
    BY <1>6 DEF Clock
  <2>3. periods' \in Nat
    BY <1>6 DEF Clock
  <2> QED
    BY <1>6, <2>1, <2>2, <2>3 DEF Clock
<1>7. CASE HubRestart
  <2>1. Settles
    BY <1>7 DEF HubRestart, LeavesCounters
  <2>2. errors' \in Nat /\ readAll' \in Nat
    BY <1>7 DEF HubRestart
  <2>3. /\ stale' \subseteq Actor /\ overReset' \subseteq Actor
        /\ outdated' \subseteq Actor
        /\ lostUpdate' \in BOOLEAN /\ crossedReset' \in BOOLEAN
    BY <1>7, HoldingIsActors DEF HubRestart, LeavesCounters
  <2>4. /\ pc' \in Step /\ queue' \subseteq Node /\ missed' \subseteq Node
        /\ touched' \in BOOLEAN /\ affected' \in BOOLEAN
    BY <1>7 DEF HubRestart, Step
  <2>5. /\ phase' \in [Node -> {"idle", "traffic", "online"}]
        /\ entries' \in [Node -> Nat]
        /\ \A n \in Node : phase'[n] = "traffic" => entries'[n] > 0
        /\ build' \in [Pusher \X Node -> {"none", "with", "without"}]
    BY <1>7 DEF HubRestart
  <2> QED
    BY <1>7, <2>1, <2>2, <2>3, <2>4, <2>5, SettlesType DEF HubRestart
<1> QED
  BY <1>1, <1>2, <1>3, <1>4, <1>5, <1>6, <1>7 DEF AdminStep

\* Type correctness of the client's row, of the tasks that write it and of
\* the nodes' configurations, for any set of nodes and any bounds.
THEOREM ClientTypeCorrect == ClientSpec => []ClientTypeOK
<1>1. ClientTypeOK /\ [ClientNext]_clientVars => ClientTypeOK'
  <2> SUFFICES ASSUME ClientTypeOK, [ClientNext]_clientVars
               PROVE  ClientTypeOK'
    OBVIOUS
  <2>1. CASE UNCHANGED clientVars
    BY <2>1 DEF ClientTypeOK, clientVars, row, reports, pass, pushing, bounds,
                ledger, overtake
  <2> QED
    BY <2>1, ReportType, PassType, OtherType DEF ClientNext
<1> QED
  BY <1>1, ClientTypeInit, PTL DEF ClientSpec

-----------------------------------------------------------------------------
(* The counters.  AccountingExact says nothing of the reads that actors    *)
(* still hold, so it is not inductive: a report that nobody overtook must  *)
(* be known to hold the counter as it is (FreshReads), and one that no     *)
(* reset overtook to hold no more than what is left to bill                *)
(* (BoundedReads).                                                         *)

CountersInv ==
  /\ ClientTypeOK /\ OvertakenHold /\ FreshReads /\ BoundedReads
  /\ AccountingExact /\ NeverOvercharged

\* The scheduler's own entry in Holding, and a node's.
LEMMA HoldingNow ==
  /\ \A n \in Node : n \in Holding <=> phase[n] # "idle"
  /\ Scheduler \in Holding <=> pc \in {"resets", "expire", "limit", "holds"}
  /\ \A n \in Node : n \in Holding' <=> phase'[n] # "idle"
  /\ Scheduler \in Holding' <=> pc' \in {"resets", "expire", "limit", "holds"}
  BY ClientAssumption DEF Holding

LEMMA CountersInit == ClientInit => CountersInv
<1> SUFFICES ASSUME ClientInit PROVE CountersInv
  OBVIOUS
<1>1. OvertakenHold /\ FreshReads /\ BoundedReads
  BY DEF ClientInit, OvertakenHold, FreshReads, BoundedReads
<1>2. AccountingExact /\ NeverOvercharged
  BY DEF ClientInit, AccountingExact, NeverOvercharged
<1> QED
  BY <1>1, <1>2, ClientTypeInit DEF CountersInv

\* A step that writes no counter keeps the invariant, whichever actors stop
\* in it: those that go on still hold what they read.
LEMMA CountersAlone ==
  ASSUME CountersInv, ClientTypeOK',
         UNCHANGED <<used, allTime, recorded, ledger>>,
         UNCHANGED <<lostUpdate, crossedReset>>,
         stale' = stale \intersect Holding',
         overReset' = overReset \intersect Holding',
         \A n \in Node : phase'[n] = "traffic" =>
            phase[n] = "traffic" /\ readUsed'[n] = readUsed[n],
         pc' = "resets" => /\ pc = "resets" /\ readAll' = readAll
                           /\ readUsed'[Scheduler] = readUsed[Scheduler]
  PROVE  CountersInv'
<1>1. OvertakenHold'
  BY DEF OvertakenHold
<1>2. FreshReads'
  BY HoldingNow DEF CountersInv, FreshReads
<1>3. AccountingExact' /\ NeverOvercharged'
  BY DEF CountersInv, AccountingExact, NeverOvercharged, ledger
<1>4. BoundedReads'
  BY HoldingNow DEF CountersInv, BoundedReads, ledger
<1> QED
  BY <1>1, <1>2, <1>3, <1>4 DEF CountersInv

\* Two ways a step leaves the counters alone: actors settle, or nothing is
\* touched but the rest of the row.
LEMMA CountersLeft ==
  ASSUME CountersInv, ClientTypeOK', LeavesCounters,
         UNCHANGED <<used, allTime, recorded, ledger>>,
         \A n \in Node : phase'[n] = "traffic" => phase[n] = "traffic",
         pc' = "resets" => pc = "resets" /\ readAll' = readAll
  PROVE  CountersInv'
<1>1. \A n \in Node : phase'[n] = "traffic" => readUsed'[n] = readUsed[n]
  BY HoldingNow DEF LeavesCounters, Settles, Actor
<1>2. pc' = "resets" => readUsed'[Scheduler] = readUsed[Scheduler]
  BY HoldingNow DEF LeavesCounters, Settles, Actor
<1> QED
  BY <1>1, <1>2, CountersAlone DEF LeavesCounters

LEMMA CountersUntouched ==
  ASSUME CountersInv, ClientTypeOK', Holding \subseteq Holding',
         UNCHANGED <<used, allTime, recorded, ledger, readUsed, readAll>>,
         UNCHANGED <<stale, overReset, lostUpdate, crossedReset>>,
         \A n \in Node : phase'[n] = "traffic" => phase[n] = "traffic",
         pc' = "resets" => pc = "resets"
  PROVE  CountersInv'
<1>1. /\ stale' = stale \intersect Holding'
      /\ overReset' = overReset \intersect Holding'
  BY DEF CountersInv, OvertakenHold
<1> QED
  BY <1>1, CountersAlone

\* handle_traffic: the report is read, and each entry billed.
LEMMA ReadTrafficCounters ==
  ASSUME CountersInv, ClientTypeOK', NEW n \in Node, ReadTraffic(n)
  PROVE  CountersInv'
<1> USE DEF ReadTraffic, row, pass, ledger, overtake
<1>1. /\ n \notin Holding /\ n # Scheduler
      /\ Holding' = Holding \union {n}
  <2>1. phase \in [Node -> {"idle", "traffic", "online"}]
    BY DEF CountersInv, ClientTypeOK
  <2> QED
    BY <2>1, ClientAssumption DEF Holding
<1>2. OvertakenHold'
  BY <1>1 DEF CountersInv, OvertakenHold
<1>3. /\ readUsed'[n] = used
      /\ \A a \in Actor \ {n} : readUsed'[a] = readUsed[a]
  BY DEF CountersInv, ClientTypeOK, ReadsUsed, Actor
<1>4. \A m \in Node \ {n} : phase'[m] = phase[m]
  BY DEF CountersInv, ClientTypeOK
<1>5. AccountingExact' /\ NeverOvercharged'
  BY DEF CountersInv, AccountingExact, NeverOvercharged
<1>6. FreshReads'
  BY <1>1, <1>3, <1>4, ClientAssumption DEF CountersInv, FreshReads, Actor
<1>7. BoundedReads'
  <2>1. ~crossedReset =>
          used + allTime + forgiven + unbilled <= recorded + unrecorded
    BY DEF CountersInv, NeverOvercharged
  <2> QED
    BY <1>1, <1>3, <1>4, <2>1, ClientAssumption
       DEF CountersInv, BoundedReads, Actor
<1> QED
  BY <1>2, <1>5, <1>6, <1>7 DEF CountersInv

LEMMA BillEntryCounters ==
  ASSUME CountersInv, ClientTypeOK', NEW n \in Node, BillEntry(n)
  PROVE  CountersInv'
<1>1. PICK c \in Chunk, kept \in BOOLEAN, billed \in BOOLEAN :
        /\ IF kept
           THEN recorded' = recorded + c /\ UNCHANGED unrecorded
           ELSE unrecorded' = unrecorded + c /\ UNCHANGED recorded
        /\ IF billed
           THEN /\ used' = readUsed[n] + c
                /\ WritesCounters(n)
                /\ overReset' = overReset \intersect Holding'
                /\ UNCHANGED unbilled
           ELSE /\ unbilled' = unbilled + c
                /\ LeavesCounters
                /\ outdated' = outdated \intersect Holding'
                /\ UNCHANGED used
  BY DEF BillEntry
<1>2. /\ phase[n] = "traffic" /\ n \in Actor
      /\ \A m \in Node : phase'[m] = "traffic" => phase[m] = "traffic"
      /\ UNCHANGED <<pc, readAll, allTime, forgiven>>
  BY DEF BillEntry, CountersInv, ClientTypeOK, pass, Actor
<1>3. /\ c \in Nat /\ readUsed[n] \in Nat
      /\ {used, allTime, recorded, forgiven, unrecorded, unbilled} \subseteq Nat
      /\ readUsed \in [Actor -> Nat] /\ readAll \in Nat
  BY <1>2, ClientAssumption DEF CountersInv, ClientTypeOK
<1>4. recorded' + unrecorded' = recorded + unrecorded + c
  BY <1>1, <1>3
<1>5. \A a \in Holding' : readUsed'[a] = readUsed[a]
  BY <1>1, HoldingIsActors DEF WritesCounters, LeavesCounters, Settles
<1>6. /\ overReset' = overReset \intersect Holding'
      /\ OvertakenHold'
  BY <1>1 DEF WritesCounters, LeavesCounters, OvertakenHold
<1>7. CASE billed
  <2>1. /\ used' = readUsed[n] + c /\ unbilled' = unbilled
        /\ lostUpdate' = (lostUpdate \/ n \in stale)
        /\ crossedReset' = (crossedReset \/ n \in overReset)
        /\ stale' = Holding'
    BY <1>1, <1>7 DEF WritesCounters
  <2>2. AccountingExact'
    <3> SUFFICES ASSUME ~lostUpdate'
                 PROVE  recorded' + unrecorded' = used' + allTime' + forgiven' + unbilled'
      BY DEF AccountingExact
    <3>1. ~lostUpdate /\ n \notin stale
      BY <2>1
    <3>2. readUsed[n] = used
      BY <1>2, <3>1 DEF CountersInv, FreshReads
    <3>3. recorded + unrecorded = used + allTime + forgiven + unbilled
      BY <3>1 DEF CountersInv, AccountingExact
    <3> QED
      BY <1>2, <1>3, <1>4, <2>1, <3>2, <3>3
  <2>3. NeverOvercharged'
    <3> SUFFICES ASSUME ~crossedReset'
                 PROVE  used' + allTime' + forgiven' + unbilled' <= recorded' + unrecorded'
      BY DEF NeverOvercharged
    <3>1. ~crossedReset /\ n \notin overReset
      BY <2>1
    <3>2. readUsed[n] + allTime + forgiven + unbilled <= recorded + unrecorded
      BY <1>2, <3>1 DEF CountersInv, BoundedReads
    <3> QED
      BY <1>2, <1>3, <1>4, <2>1, <3>2
  <2>4. FreshReads'
    <3>1. \A m \in Node \ stale' : phase'[m] # "traffic"
      BY <2>1, HoldingNow
    <3>2. pc' = "resets" => Scheduler \in stale' /\ readAll' = allTime'
      BY <1>2, <2>1, HoldingNow DEF CountersInv, FreshReads
    <3> QED
      BY <3>1, <3>2 DEF FreshReads
  <2>5. BoundedReads'
    <3>1. SUFFICES ASSUME ~crossedReset'
          PROVE  /\ \A m \in Node \ overReset' : phase'[m] = "traffic" =>
                      readUsed'[m] + allTime' + forgiven' + unbilled'
                        <= recorded' + unrecorded'
                 /\ (pc' = "resets" /\ Scheduler \notin overReset') =>
                      readUsed'[Scheduler] + readAll' + forgiven' + unbilled'
                        <= recorded' + unrecorded'
      BY DEF BoundedReads
    <3>2. ~crossedReset
      BY <2>1, <3>1
    <3>3. ASSUME NEW m \in Node \ overReset', phase'[m] = "traffic"
          PROVE  readUsed'[m] + allTime' + forgiven' + unbilled'
                   <= recorded' + unrecorded'
      <4>1. m \in Holding' /\ m \notin overReset /\ phase[m] = "traffic"
        BY <1>2, <1>6, <3>3, HoldingNow
      <4>2. readUsed'[m] = readUsed[m] /\ readUsed[m] \in Nat
        BY <1>3, <1>5, <4>1, HoldingIsActors
      <4>3. readUsed[m] + allTime + forgiven + unbilled <= recorded + unrecorded
        BY <3>2, <4>1 DEF CountersInv, BoundedReads
      <4> QED
        BY <1>2, <1>3, <1>4, <2>1, <4>2, <4>3
    <3>4. ASSUME pc' = "resets", Scheduler \notin overReset'
          PROVE  readUsed'[Scheduler] + readAll' + forgiven' + unbilled'
                   <= recorded' + unrecorded'
      <4>1. Scheduler \in Holding' /\ Scheduler \notin overReset /\ pc = "resets"
        BY <1>2, <1>6, <3>4, HoldingNow
      <4>2. /\ readUsed'[Scheduler] = readUsed[Scheduler]
            /\ readUsed[Scheduler] \in Nat
        BY <1>3, <1>5, <4>1, HoldingIsActors
      <4>3. readUsed[Scheduler] + readAll + forgiven + unbilled <= recorded + unrecorded
        BY <3>2, <4>1 DEF CountersInv, BoundedReads
      <4> QED
        BY <1>2, <1>3, <1>4, <2>1, <4>2, <4>3
    <3> QED
      BY <3>3, <3>4
  <2> QED
    BY <1>6, <2>2, <2>3, <2>4, <2>5 DEF CountersInv
<1>8. CASE ~billed
  <2>1. /\ used' = used /\ unbilled' = unbilled + c
        /\ UNCHANGED <<lostUpdate, crossedReset>>
        /\ stale' = stale \intersect Holding'
    BY <1>1, <1>8 DEF LeavesCounters
  <2>2. AccountingExact'
    BY <1>2, <1>3, <1>4, <2>1 DEF CountersInv, AccountingExact
  <2>3. NeverOvercharged'
    BY <1>2, <1>3, <1>4, <2>1 DEF CountersInv, NeverOvercharged
  <2>4. FreshReads'
    BY <1>2, <1>5, <2>1, HoldingNow DEF CountersInv, FreshReads
  <2>5. BoundedReads'
    <3>1. SUFFICES ASSUME ~crossedReset
          PROVE  /\ \A m \in Node \ overReset' : phase'[m] = "traffic" =>
                      readUsed'[m] + allTime' + forgiven' + unbilled'
                        <= recorded' + unrecorded'
                 /\ (pc' = "resets" /\ Scheduler \notin overReset') =>
                      readUsed'[Scheduler] + readAll' + forgiven' + unbilled'
                        <= recorded' + unrecorded'
      BY <2>1 DEF BoundedReads
    <3>2. ASSUME NEW m \in Node \ overReset', phase'[m] = "traffic"
          PROVE  readUsed'[m] + allTime' + forgiven' + unbilled'
                   <= recorded' + unrecorded'
      <4>1. m \in Holding' /\ m \notin overReset /\ phase[m] = "traffic"
        BY <1>2, <1>6, <3>2, HoldingNow
      <4>2. readUsed'[m] = readUsed[m] /\ readUsed[m] \in Nat
        BY <1>3, <1>5, <4>1, HoldingIsActors
      <4>3. readUsed[m] + allTime + forgiven + unbilled <= recorded + unrecorded
        BY <3>1, <4>1 DEF CountersInv, BoundedReads
      <4> QED
        BY <1>2, <1>3, <1>4, <2>1, <4>2, <4>3
    <3>3. ASSUME pc' = "resets", Scheduler \notin overReset'
          PROVE  readUsed'[Scheduler] + readAll' + forgiven' + unbilled'
                   <= recorded' + unrecorded'
      <4>1. Scheduler \in Holding' /\ Scheduler \notin overReset /\ pc = "resets"
        BY <1>2, <1>6, <3>3, HoldingNow
      <4>2. /\ readUsed'[Scheduler] = readUsed[Scheduler]
            /\ readUsed[Scheduler] \in Nat
        BY <1>3, <1>5, <4>1, HoldingIsActors
      <4>3. readUsed[Scheduler] + readAll + forgiven + unbilled <= recorded + unrecorded
        BY <3>1, <4>1 DEF CountersInv, BoundedReads
      <4> QED
        BY <1>2, <1>3, <1>4, <2>1, <4>2, <4>3
    <3> QED
      BY <3>2, <3>3
  <2> QED
    BY <1>6, <2>2, <2>3, <2>4, <2>5 DEF CountersInv
<1> QED
  BY <1>7, <1>8

\* check_client_traffic_resets: the counters are read, and written.
LEMMA ReadResetsCounters ==
  ASSUME CountersInv, ClientTypeOK', ReadResets
  PROVE  CountersInv'
<1> USE DEF row, ledger, overtake
<1>1. /\ pc = "idle"
      /\ UNCHANGED <<row, phase, ledger, overtake>>
  BY DEF ReadResets, Looks
<1>2. CASE pc' # "resets"
  <2>1. UNCHANGED <<readUsed, readAll>> /\ Holding \subseteq Holding'
    BY <1>1, <1>2 DEF ReadResets, Holding
  <2> QED
    BY <1>1, <1>2, <2>1, CountersUntouched
<1>3. CASE pc' = "resets"
  <2>1. /\ readUsed'[Scheduler] = used /\ readAll' = allTime
        /\ \A n \in Node : readUsed'[n] = readUsed[n]
    BY <1>3, ClientAssumption
       DEF ReadResets, ReadsUsed, CountersInv, ClientTypeOK, Actor
  <2>2. OvertakenHold' /\ Scheduler \notin overReset
    BY <1>1, <1>3, ClientAssumption DEF CountersInv, OvertakenHold, Holding
  <2>3. AccountingExact' /\ NeverOvercharged'
    BY <1>1 DEF CountersInv, AccountingExact, NeverOvercharged
  <2>4. FreshReads'
    BY <1>1, <2>1 DEF CountersInv, FreshReads
  <2>5. BoundedReads'
    BY <1>1, <2>1 DEF CountersInv, BoundedReads, NeverOvercharged
  <2> QED
    BY <2>2, <2>3, <2>4, <2>5 DEF CountersInv
<1> QED
  BY <1>2, <1>3

LEMMA WriteResetCounters ==
  ASSUME CountersInv, ClientTypeOK', WriteReset
  PROVE  CountersInv'
<1>1. /\ pc = "resets" /\ Scheduler \in Actor
      /\ allTime' = readAll + readUsed[Scheduler] /\ used' = 0
      /\ UNCHANGED <<recorded, ledger>>
      /\ lostUpdate' = (lostUpdate \/ Scheduler \in stale)
      /\ crossedReset' = (crossedReset \/ Scheduler \in overReset)
      /\ stale' = Holding' /\ overReset' = Holding' /\ pc' = "reset"
  BY DEF WriteReset, WritesCounters, bounds, Actor
<1>2. /\ readUsed[Scheduler] \in Nat /\ readAll \in Nat
      /\ {used, allTime, recorded, forgiven, unrecorded, unbilled} \subseteq Nat
  BY <1>1 DEF CountersInv, ClientTypeOK
<1>3. AccountingExact'
  <2> SUFFICES ASSUME ~lostUpdate, Scheduler \notin stale
               PROVE  recorded + unrecorded = 0 + allTime' + forgiven + unbilled
    BY <1>1 DEF AccountingExact, ledger
  <2>1. readUsed[Scheduler] = used /\ readAll = allTime
    BY <1>1 DEF CountersInv, FreshReads
  <2>2. recorded + unrecorded = used + allTime + forgiven + unbilled
    BY DEF CountersInv, AccountingExact
  <2> QED
    BY <1>1, <1>2, <2>1, <2>2
<1>4. NeverOvercharged'
  <2> SUFFICES ASSUME ~crossedReset, Scheduler \notin overReset
               PROVE  0 + allTime' + forgiven + unbilled <= recorded + unrecorded
    BY <1>1 DEF NeverOvercharged, ledger
  <2>1. readUsed[Scheduler] + readAll + forgiven + unbilled <= recorded + unrecorded
    BY <1>1 DEF CountersInv, BoundedReads
  <2> QED
    BY <1>1, <1>2, <2>1
<1>5. OvertakenHold' /\ FreshReads' /\ BoundedReads'
  BY <1>1, HoldingNow DEF OvertakenHold, FreshReads, BoundedReads
<1> QED
  BY <1>3, <1>4, <1>5 DEF CountersInv

\* reset_client_traffic.
LEMMA ResetTrafficCounters ==
  ASSUME CountersInv, ClientTypeOK', ResetTraffic
  PROVE  CountersInv'
<1>1. /\ used' = 0 /\ forgiven' = forgiven + used
      /\ stale' = Holding /\ overReset' = Holding
      /\ UNCHANGED <<allTime, recorded, unrecorded, unbilled, lostUpdate,
                     crossedReset, phase, pc, readUsed, readAll>>
  BY DEF ResetTraffic, reports, pass
<1>2. {used, allTime, recorded, forgiven, unrecorded, unbilled} \subseteq Nat
  BY DEF CountersInv, ClientTypeOK
<1>3. Holding' = Holding
  BY <1>1 DEF Holding
<1>4. AccountingExact'
  BY <1>1, <1>2 DEF CountersInv, AccountingExact
<1>5. NeverOvercharged'
  BY <1>1, <1>2 DEF CountersInv, NeverOvercharged
<1>6. OvertakenHold' /\ FreshReads' /\ BoundedReads'
  BY <1>1, <1>3, HoldingNow DEF CountersInv, OvertakenHold, FreshReads, BoundedReads
<1> QED
  BY <1>4, <1>5, <1>6 DEF CountersInv

\* The steps that write no counter.
LEMMA ReportCounters ==
  ASSUME CountersInv, ClientTypeOK', NEW n \in Node, ReportStep(n)
  PROVE  CountersInv'
<1>0. phase \in [Node -> {"idle", "traffic", "online"}]
  BY DEF CountersInv, ClientTypeOK
<1>1. CASE ReadOnline(n)
  <2>1. /\ Holding \subseteq Holding'
        /\ \A m \in Node : phase'[m] = "traffic" => phase[m] = "traffic"
    BY <1>0, <1>1 DEF ReadOnline, Holding, pass
  <2> QED
    BY <1>1, <2>1, CountersUntouched DEF ReadOnline, row, pass, overtake
<1>2. CASE ActivateOnline(n)
  <2>1. \A m \in Node : phase'[m] = "traffic" => phase[m] = "traffic"
    BY <1>0, <1>2 DEF ActivateOnline
  <2> QED
    BY <1>2, <2>1, CountersLeft DEF ActivateOnline, pass
<1> QED
  BY <1>1, <1>2, ReadTrafficCounters, BillEntryCounters DEF ReportStep

LEMMA PassCounters ==
  ASSUME CountersInv, ClientTypeOK', PassStep
  PROVE  CountersInv'
<1> USE DEF row, pass, reports, overtake
<1>1. CASE ReadLimits \/ ReadHolds
  <2>1. /\ Holding \subseteq Holding' /\ pc' # "resets" /\ UNCHANGED phase
    BY <1>1 DEF ReadLimits, ReadHolds, Looks, Holding
  <2> QED
    BY <1>1, <2>1, CountersUntouched DEF ReadLimits, ReadHolds, Looks
<1>2. CASE WriteExpired \/ WriteLimited \/ WriteHoldExpired
  BY <1>2, CountersLeft DEF WriteExpired, WriteLimited, WriteHoldExpired, Closes
<1>3. CASE StartPushes \/ EndPushes
  <2>1. /\ Holding \subseteq Holding' /\ pc' # "resets" /\ UNCHANGED phase
    BY <1>3 DEF StartPushes, EndPushes, Holding
  <2> QED
    BY <1>3, <2>1, CountersUntouched DEF StartPushes, EndPushes
<1>4. CASE Abort
  BY <1>4, CountersLeft DEF Abort
<1>5. ASSUME NEW n \in Node, Build(Scheduler, n) \/ Send(Scheduler, n)
      PROVE  CountersInv'
  <2>1. UNCHANGED <<phase, pc>> /\ Holding' = Holding
    BY <1>5 DEF Build, Send, Holding
  <2> QED
    BY <1>5, <2>1, CountersUntouched DEF Build, Send
<1> QED
  BY <1>1, <1>2, <1>3, <1>4, <1>5, ReadResetsCounters, WriteResetCounters
     DEF PassStep

LEMMA OtherCounters ==
  ASSUME CountersInv, ClientTypeOK', AdminStep \/ Clock \/ HubRestart
  PROVE  CountersInv'
<1> USE DEF row, pass, reports, overtake
<1>1. CASE HubRestart
  BY <1>1, CountersLeft DEF HubRestart
<1>2. ASSUME \/ \E s \in Status : EditStatus(s)
             \/ DeleteClient \/ Clock
             \/ \E p \in Pusher, n \in Node : Build(p, n) \/ Send(p, n)
      PROVE  CountersInv'
  <2>1. /\ UNCHANGED <<used, allTime, recorded, ledger, readUsed, readAll>>
        /\ UNCHANGED <<stale, overReset, lostUpdate, crossedReset, phase, pc>>
    BY <1>2 DEF EditStatus, DeleteClient, Clock, Build, Send
  <2>2. Holding' = Holding
    BY <2>1 DEF Holding
  <2> QED
    BY <2>1, <2>2, CountersUntouched
<1> QED
  BY <1>1, <1>2, ResetTrafficCounters DEF AdminStep

LEMMA CountersInvariant == ClientSpec => []CountersInv
<1>1. CountersInv /\ [ClientNext]_clientVars => CountersInv'
  <2> SUFFICES ASSUME CountersInv, [ClientNext]_clientVars
               PROVE  CountersInv'
    OBVIOUS
  <2>1. ClientTypeOK
    BY DEF CountersInv
  <2>2. CASE UNCHANGED clientVars
    <3>1. ClientTypeOK' /\ Holding' = Holding
      BY <2>1, <2>2 DEF ClientTypeOK, clientVars, row, reports, pass, pushing,
                        bounds, ledger, overtake, Holding
    <3> QED
      BY <2>2, <3>1, CountersUntouched
         DEF clientVars, row, reports, pass, overtake
  <2>3. ASSUME NEW n \in Node, ReportStep(n) PROVE CountersInv'
    BY <2>1, <2>3, ReportType, ReportCounters
  <2>4. CASE PassStep
    BY <2>1, <2>4, PassType, PassCounters
  <2>5. CASE AdminStep \/ Clock \/ HubRestart
    BY <2>1, <2>5, OtherType, OtherCounters
  <2> QED
    BY <2>2, <2>3, <2>4, <2>5 DEF ClientNext
<1> QED
  BY <1>1, CountersInit, PTL DEF ClientSpec

\* The counters and the usage records agree to the byte, unless a task wrote
\* the counters from a row that was written since it had read it: the read
\* and the update of handle_traffic, of the reset check and of
\* reset_client_traffic, for any nodes, any amounts and any interleaving.
THEOREM AccountingIsExact == ClientSpec => []AccountingExact
  BY CountersInvariant, PTL DEF CountersInv

\* Reports that overlap never bill more than the nodes recorded, unless one
\* was read before a reset of the counter and billed after it.
THEOREM ClientsAreNeverOvercharged == ClientSpec => []NeverOvercharged
  BY CountersInvariant, PTL DEF CountersInv

-----------------------------------------------------------------------------
(* The status.  Only three writers open a client that is closed, and each  *)
(* holds a read of the time when it was open.                              *)

LEMMA OpenInit == ClientInit => OpenAsRead
BY DEF ClientInit, OpenAsRead, Closed

\* A step that closes nobody: who goes on holding an open read held it before,
\* and who was overtaken stays so.
LEMMA OpenLeft ==
  ASSUME OpenAsRead,
         status' \in Closed => status \in Closed,
         \A n \in Node : phase'[n] = "online" /\ readStatus'[n] = "on_hold" =>
            phase[n] = "online" /\ readStatus[n] = "on_hold",
         pc' \in {"resets", "limit"} => pc' = pc,
         outdated \intersect Holding' \subseteq outdated'
  PROVE  OpenAsRead'
<1>1. ASSUME NEW n \in Node \ outdated', phase'[n] = "online", readStatus'[n] = "on_hold"
      PROVE  status' \notin Closed
  <2>1. n \in Holding'
    BY <1>1, HoldingNow
  <2>2. n \notin outdated
    BY <1>1, <2>1
  <2> QED BY <1>1, <2>2 DEF OpenAsRead
<1>2. ASSUME Scheduler \notin outdated', pc' \in {"resets", "limit"}
      PROVE  status' \notin Closed
  <2>1. Scheduler \in Holding'
    BY <1>2, HoldingNow
  <2>2. Scheduler \notin outdated
    BY <1>2, <2>1
  <2> QED BY <1>2, <2>2 DEF OpenAsRead
<1> QED BY <1>1, <1>2 DEF OpenAsRead

\* A step that closes the client overtakes whoever still holds a read.
LEMMA OpenClosed ==
  ASSUME Holding' \subseteq outdated'
  PROVE  OpenAsRead'
<1>1. \A n \in Node : phase'[n] = "online" => n \in outdated'
  BY HoldingNow
<1>2. pc' \in {"resets", "limit"} => Scheduler \in outdated'
  BY HoldingNow
<1> QED BY <1>1, <1>2 DEF OpenAsRead

LEMMA SettledStatus ==
  ASSUME ClientTypeOK, Settles, NEW n \in Node, phase'[n] = "online"
  PROVE  readStatus'[n] = readStatus[n]
BY HoldingNow DEF Settles, Actor

LEMMA OpenReport ==
  ASSUME ClientTypeOK, OpenAsRead, NEW n \in Node, ReportStep(n)
  PROVE  OpenAsRead'
<1>0. phase \in [Node -> {"idle", "traffic", "online"}] /\ readStatus \in [Actor -> Status]
      /\ n \in Actor /\ Node \subseteq Actor
  BY DEF ClientTypeOK, Actor
<1>1. CASE ReadTraffic(n)
  <2>1. \A m \in Node : phase'[m] = "online" =>
          phase[m] = "online" /\ readStatus'[m] = readStatus[m]
    BY <1>0, <1>1 DEF ReadTraffic, ReadsStatus
  <2> QED BY <1>1, <2>1, OpenLeft DEF ReadTraffic, row, pass, overtake
<1>2. CASE BillEntry(n)
  <2>1. Settles /\ outdated' = outdated \intersect Holding'
    BY <1>2 DEF BillEntry, WritesCounters, LeavesCounters
  <2>2. \A m \in Node : phase'[m] = "online" => phase[m] = "online"
    BY <1>0, <1>2 DEF BillEntry
  <2> QED BY <1>2, <2>1, <2>2, SettledStatus, OpenLeft DEF BillEntry, pass
<1>3. CASE ReadOnline(n)
  <2>1. CASE readStatus'[n] = "on_hold"
    <3>1. status = "on_hold" /\ UNCHANGED <<status, outdated, pc>>
      BY <1>0, <1>3, <2>1 DEF ReadOnline, ReadsStatus, row, pass, overtake
    <3> QED BY <3>1 DEF OpenAsRead, Closed
  <2>2. CASE readStatus'[n] # "on_hold"
    <3>1. \A m \in Node : phase'[m] = "online" /\ readStatus'[m] = "on_hold" =>
            phase[m] = "online" /\ readStatus[m] = "on_hold"
      BY <1>0, <1>3, <2>2 DEF ReadOnline, ReadsStatus
    <3> QED BY <1>3, <3>1, OpenLeft DEF ReadOnline, row, pass, overtake
  <2> QED BY <2>1, <2>2
<1>4. CASE ActivateOnline(n)
  <2>1. Settles /\ outdated' = outdated \intersect Holding'
    BY <1>4 DEF ActivateOnline, LeavesCounters
  <2>2. \A m \in Node : phase'[m] = "online" => phase[m] = "online"
    BY <1>0, <1>4 DEF ActivateOnline
  <2>3. status' \in Closed => status \in Closed
    BY <1>4 DEF ActivateOnline, Closed
  <2> QED BY <1>4, <2>1, <2>2, <2>3, SettledStatus, OpenLeft DEF ActivateOnline, pass
<1> QED BY <1>1, <1>2, <1>3, <1>4 DEF ReportStep

LEMMA OpenPass ==
  ASSUME ClientTypeOK, OpenAsRead, PassStep
  PROVE  OpenAsRead'
<1> USE DEF row, reports, pass, overtake
<1>1. CASE ReadResets
  <2>1. CASE pc' = "resets"
    <3>1. status \in {"active", "limited"}
      BY <1>1, <2>1 DEF ReadResets, Looks
    <3> QED BY <1>1, <3>1 DEF ReadResets, Looks, OpenAsRead, Closed
  <2>2. CASE pc' # "resets"
    BY <1>1, <2>2, OpenLeft DEF ReadResets, Looks
  <2> QED BY <2>1, <2>2
<1>2. CASE ReadLimits
  <2>1. CASE pc' = "limit"
    <3>1. status = "active"
      BY <1>2, <2>1 DEF ReadLimits, Looks
    <3> QED BY <1>2, <3>1 DEF ReadLimits, Looks, OpenAsRead, Closed
  <2>2. CASE pc' # "limit"
    BY <1>2, <2>2, OpenLeft DEF ReadLimits, Looks
  <2> QED BY <2>1, <2>2
<1>3. CASE ReadHolds
  BY <1>3, OpenLeft DEF ReadHolds, Looks
<1>4. CASE WriteReset
  <2>1. Settles /\ outdated' = outdated \intersect Holding' /\ pc' = "reset"
        /\ UNCHANGED phase
    BY <1>4 DEF WriteReset, WritesCounters
  <2>2. status' \in Closed => status \in Closed
    BY <1>4 DEF WriteReset, Closed
  <2> QED BY <2>1, <2>2, SettledStatus, OpenLeft
<1>5. CASE WriteExpired \/ WriteLimited \/ WriteHoldExpired
  BY <1>5, OpenClosed DEF WriteExpired, WriteLimited, WriteHoldExpired, Closes
<1>6. CASE StartPushes \/ EndPushes
  BY <1>6, OpenLeft DEF StartPushes, EndPushes
<1>7. CASE Abort
  <2>1. Settles /\ outdated' = outdated \intersect Holding' /\ pc' = "idle"
        /\ UNCHANGED <<phase, status>>
    BY <1>7 DEF Abort, LeavesCounters
  <2> QED BY <2>1, SettledStatus, OpenLeft
<1>8. ASSUME NEW n \in Node, Build(Scheduler, n) \/ Send(Scheduler, n)
      PROVE  OpenAsRead'
  BY <1>8, OpenLeft DEF Build, Send
<1> QED BY <1>1, <1>2, <1>3, <1>4, <1>5, <1>6, <1>7, <1>8 DEF PassStep

LEMMA OpenOther ==
  ASSUME ClientTypeOK, OpenAsRead, AdminStep \/ Clock \/ HubRestart
  PROVE  OpenAsRead'
<1> USE DEF row, reports, pass, overtake
<1>1. ASSUME NEW s \in Status, EditStatus(s) PROVE OpenAsRead'
  <2>1. UNCHANGED <<phase, readStatus, pc>> /\ Holding' = Holding
    BY <1>1 DEF EditStatus, Holding
  <2>2. CASE s = "disabled"
    BY <1>1, <2>1, <2>2, OpenClosed DEF EditStatus
  <2>3. CASE s = "active"
    BY <1>1, <2>1, <2>3, OpenLeft DEF EditStatus, Closed
  <2> QED BY <1>1, <2>2, <2>3 DEF EditStatus
<1>2. CASE DeleteClient
  <2>1. Holding' = Holding
    BY <1>2 DEF DeleteClient, Holding
  <2> QED BY <1>2, <2>1, OpenClosed DEF DeleteClient
<1>3. CASE HubRestart
  BY <1>3 DEF HubRestart, OpenAsRead
<1>4. ASSUME \/ ResetTraffic \/ Clock
             \/ \E p \in Pusher, n \in Node : Build(p, n) \/ Send(p, n)
      PROVE  OpenAsRead'
  BY <1>4, OpenLeft DEF ResetTraffic, Clock, Build, Send
<1> QED BY <1>1, <1>2, <1>3, <1>4 DEF AdminStep

LEMMA OpenStep ==
  ClientTypeOK /\ OpenAsRead /\ [ClientNext]_clientVars => OpenAsRead'
<1>1. ASSUME OpenAsRead, UNCHANGED clientVars PROVE OpenAsRead'
  BY <1>1 DEF OpenAsRead, clientVars, row, reports, pass, overtake
<1> QED BY <1>1, OpenReport, OpenPass, OpenOther DEF ClientNext

\* Who may open a closed client.
Reopens ==
  \/ edits' # edits
  \/ \E n \in Node \intersect outdated : phase'[n] # phase[n]
  \/ Scheduler \in outdated /\ pc' # pc

LEMMA ReopensStep ==
  ASSUME ClientTypeOK, OpenAsRead, ClientNext, status \in Closed, status' \notin Closed
  PROVE  Reopens
<1> USE DEF row, reports, pass, overtake
<1>1. ASSUME NEW n \in Node, ReportStep(n) PROVE Reopens
  <2>1. ActivateOnline(n)
    BY <1>1 DEF ReportStep, ReadTraffic, BillEntry, ReadOnline
  <2>2. phase[n] = "online" /\ phase'[n] = "idle" /\ readStatus[n] = "on_hold"
    BY <2>1 DEF ActivateOnline, ClientTypeOK
  <2>3. n \in outdated
    BY <2>2 DEF OpenAsRead
  <2> QED BY <2>2, <2>3 DEF Reopens
<1>2. CASE PassStep
  <2>1. WriteReset \/ WriteExpired \/ WriteLimited \/ WriteHoldExpired
    BY <1>2 DEF PassStep, ReadResets, ReadLimits, ReadHolds, Looks, StartPushes, EndPushes,
                Abort, Build, Send
  <2>2. CASE WriteExpired \/ WriteHoldExpired
    BY <2>2 DEF WriteExpired, WriteHoldExpired, Closes, Closed
  <2>3. CASE WriteReset \/ WriteLimited
    <3>1. pc \in {"resets", "limit"} /\ pc' # pc
      BY <2>3 DEF WriteReset, WriteLimited, Closes
    <3> QED BY <3>1 DEF OpenAsRead, Reopens
  <2> QED BY <2>1, <2>2, <2>3
<1>3. CASE AdminStep
  <2>1. ASSUME NEW s \in Status, EditStatus(s) PROVE Reopens
    BY <2>1 DEF EditStatus, Edit, ClientTypeOK, Reopens
  <2> QED BY <1>3, <2>1 DEF AdminStep, ResetTraffic, DeleteClient, Build, Send, Closed
<1>4. CASE Clock \/ HubRestart
  BY <1>4 DEF Clock, HubRestart
<1> QED BY <1>1, <1>2, <1>3, <1>4 DEF ClientNext

\* A client that was disabled, deleted or has expired opens again only by an
\* edit, or by a task that read the row while it was open and writes it now: the
\* activation of handle_online_users, the reset check, the limit check.
THEOREM ClosedClientsStayClosed == ClientSpec => ClosedStaysClosed
<1>1. ClientSpec => []OpenAsRead
  BY ClientTypeCorrect, OpenInit, OpenStep, PTL DEF ClientSpec
<1>2. ClientTypeOK /\ OpenAsRead /\ [ClientNext]_clientVars
        => [(status \in Closed /\ status' \notin Closed) => Reopens]_clientVars
  BY ReopensStep
<1> QED BY <1>1, <1>2, ClientTypeCorrect, PTL DEF ClientSpec, ClosedStaysClosed, Reopens

-----------------------------------------------------------------------------
(***************************************************************************)
(* TrafficReporter.  ReportsAreExact, for any connections and users.  Of    *)
(* each account it adds what was reported and what no sample has seen; the *)
(* strengthening says the same while a sample is half taken, and of cores  *)
(* that started again, whose counters are below the last sample.           *)
(***************************************************************************)
Link == [open : BOOLEAN, user : Payer \cup {NoPayer}, bytes : Nat]

\* The types.
ReporterTypeOK ==
  /\ flow \in [Flow -> Link]
  /\ total \in [Counted -> Nat] /\ prevTotal \in [Counted -> Nat \cup {Unsampled}]
  /\ prevFlows \in [Flow -> Nat \cup {Unsampled}]
  /\ statusTotal \in Nat
  /\ report \in [Account -> Nat] /\ received \in [Account -> Nat]
  /\ carried \in [Account -> Nat]
  /\ outgoing \in [n : Nat, sum : [Account -> Nat]]

\* A sample starts with an empty report, and mihomo's place in it stays empty.
StagesInv ==
  /\ stage \in {"idle", "status"} => report = Nothing
  /\ stage = "mihomo" => report["mihomo"] = 0

\* The last snapshot of a connection is of that connection.
FlowsInv ==
  \A c \in Flow :
    /\ ~flow[c].open => flow[c] = NoLink /\ prevFlows[c] = Unsampled
    /\ prevFlows[c] <= flow[c].bytes

\* Of an account, what was sent and what is still owed, of all that was carried:
\* never more, and all of it unless the account is marked.
Within(a, sent, owed, all, marked) ==
  sent + owed <= all /\ (a \notin marked => sent + owed = all)

\* A core's counters, between two samples.
CoreInv ==
  \A k \in Counted :
    /\ Within(k, OnTheWay(k), TotalDelta(prevTotal[k], total[k]), carried[k], spoiled)
    /\ k \notin spoiled => prevTotal[k] <= total[k]

\* sing-box's, when the total of the sample is read and the sample not yet taken.
StatusInv ==
  stage = "status" =>
    LET k == "sing-box" IN
    /\ Within(k, OnTheWay(k),
              TotalDelta(prevTotal[k], statusTotal) + TotalDelta(statusTotal, total[k]),
              carried[k], spoiled)
    /\ k \notin spoiled => prevTotal[k] <= statusTotal /\ statusTotal <= total[k]

\* A user's connections.
UsersInv ==
  \A u \in Payer : Within(u, OnTheWay(u), UserDelta(u), carried[u], spoiled)

\* The inductive invariant.
ReporterInv ==
  /\ ReporterTypeOK /\ StagesInv /\ FlowsInv
  /\ ~outlived => CoreInv /\ StatusInv /\ UsersInv

-----------------------------------------------------------------------------
(***************************************************************************)
(* Sums.                                                                   *)
(***************************************************************************)
\* The units of a function are pairs of a place and a number up to its value.
LEMMA UnitsAre ==
  ASSUME NEW f \in [Flow -> Nat]
  PROVE  Units(f) = {p \in Flow \X Nat : 1 <= p[2] /\ p[2] <= f[p[1]]}
<1>1. Units(f) = UNION {{c} \X (1 .. f[c]) : c \in Flow}
  BY DEF Units
<1>2. ASSUME NEW p \in Units(f)
      PROVE  p \in Flow \X Nat /\ 1 <= p[2] /\ p[2] <= f[p[1]]
  <2>1. PICK c \in Flow : p \in {c} \X (1 .. f[c])
    BY <1>1
  <2>2. p = <<c, p[2]>> /\ p[1] = c /\ p[2] \in 1 .. f[c] /\ f[c] \in Nat
    BY <2>1
  <2>3. p[2] \in Nat
    BY <2>2
  <2>4. QED
    BY <2>2, <2>3
<1>3. ASSUME NEW p \in Flow \X Nat, 1 <= p[2], p[2] <= f[p[1]]
      PROVE  p \in Units(f)
  <2>1. p = <<p[1], p[2]>> /\ p[1] \in Flow /\ p[2] \in 1 .. f[p[1]]
    BY <1>3
  <2>2. p \in {p[1]} \X (1 .. f[p[1]])
    BY <2>1
  <2>3. QED
    BY <1>1, <2>1, <2>2
<1>4. QED
  BY <1>2, <1>3

\* They are finitely many.
LEMMA SumIsNat ==
  ASSUME NEW f \in [Flow -> Nat]
  PROVE  IsFiniteSet(Units(f)) /\ Sum(f) \in Nat
<1> DEFINE T == {{c} \X (1 .. f[c]) : c \in Flow}
           h == [c \in Flow |-> {c} \X (1 .. f[c])]
<1>1. h \in Surjection(Flow, T)
  BY DEF Surjection
<1>2. IsFiniteSet(T)
  <2> HIDE DEF T, h
  <2>1. IsFiniteSet(Flow)
    BY ReporterAssumption
  <2>2. QED
    BY <1>1, <2>1, FS_Surjection
<1>3. ASSUME NEW t \in T PROVE IsFiniteSet(t)
  <2>1. PICK c \in Flow : t = {c} \X (1 .. f[c])
    OBVIOUS
  <2>2. IsFiniteSet({c})
    BY FS_Singleton
  <2>3. f[c] \in Int
    OBVIOUS
  <2>4. IsFiniteSet(1 .. f[c])
    BY <2>3, FS_Interval
  <2>5. QED
    BY <2>1, <2>2, <2>4, FS_Product
<1>4. Units(f) = UNION T
  BY DEF Units
<1>5. IsFiniteSet(Units(f))
  <2> HIDE DEF T
  <2>1. QED
    BY <1>2, <1>3, <1>4, FS_UNION
<1>6. QED
  BY <1>5, FS_CardinalityType DEF Sum

\* A function that is nowhere greater has no greater sum.
LEMMA SumGrows ==
  ASSUME NEW f \in [Flow -> Nat], NEW g \in [Flow -> Nat], \A c \in Flow : f[c] <= g[c]
  PROVE  Sum(f) <= Sum(g)
<1>1. Units(f) \subseteq Units(g)
  <2> SUFFICES ASSUME NEW p \in Flow \X Nat, 1 <= p[2], p[2] <= f[p[1]]
               PROVE  p[2] <= g[p[1]]
    BY UnitsAre
  <2>1. p[1] \in Flow /\ p[2] \in Nat
    OBVIOUS
  <2>2. f[p[1]] \in Nat /\ g[p[1]] \in Nat /\ f[p[1]] <= g[p[1]]
    BY <2>1
  <2>3. QED
    BY <2>1, <2>2
<1>2. QED
  BY <1>1, SumIsNat, FS_Subset DEF Sum

\* One more in one place is one more in the sum.
LEMMA SumPlusOne ==
  ASSUME NEW f \in [Flow -> Nat], NEW g \in [Flow -> Nat], NEW c \in Flow,
         g[c] = f[c] + 1, \A d \in Flow \ {c} : g[d] = f[d]
  PROVE  Sum(g) = Sum(f) + 1
<1> DEFINE x == <<c, g[c]>>
<1>1. f[c] \in Nat /\ g[c] \in Nat /\ x \in Flow \X Nat /\ x[1] = c /\ x[2] = g[c]
  OBVIOUS
<1>2. x \notin Units(f)
  BY <1>1, UnitsAre
<1>3. Units(g) = Units(f) \cup {x}
  <2>1. x \in Units(g)
    BY <1>1, UnitsAre
  <2>2. ASSUME NEW p \in Flow \X Nat, p # x
        PROVE  (1 <= p[2] /\ p[2] <= g[p[1]]) <=> (1 <= p[2] /\ p[2] <= f[p[1]])
    <3>1. p = <<p[1], p[2]>> /\ p[1] \in Flow /\ p[2] \in Nat
      OBVIOUS
    <3>2. CASE p[1] = c
      <4>1. p[2] # g[c]
        BY <2>2, <3>1, <3>2
      <4>2. QED
        BY <1>1, <3>1, <3>2, <4>1
    <3>3. CASE p[1] # c
      BY <3>1, <3>3
    <3>4. QED
      BY <3>2, <3>3
  <2>3. QED
    BY <1>1, <2>1, <2>2, UnitsAre
<1>4. QED
  BY <1>2, <1>3, SumIsNat, FS_AddElement DEF Sum

\* The sum of nothing.
LEMMA SumOfNothing ==
  ASSUME NEW f \in [Flow -> Nat], \A c \in Flow : f[c] = 0
  PROVE  Sum(f) = 0
<1>1. Units(f) = {}
  <2> SUFFICES ASSUME NEW p \in Flow \X Nat, 1 <= p[2], p[2] <= f[p[1]]
               PROVE  FALSE
    BY UnitsAre
  <2>1. p[1] \in Flow /\ p[2] \in Nat
    OBVIOUS
  <2>2. f[p[1]] = 0
    BY <2>1
  <2>3. QED
    BY <2>1, <2>2
<1>2. QED
  BY <1>1, FS_EmptySet DEF Sum

-----------------------------------------------------------------------------
(***************************************************************************)
(* What the connections owe.                                               *)
(***************************************************************************)
\* What the next snapshot finds of a user, connection by connection.
Deltas(u) == [c \in Flow |-> IF Shows(c, u) THEN LinkDelta(c) ELSE 0]

\* A connection's difference is what it has carried since the last snapshot.
LEMMA LinkDeltas ==
  ASSUME ReporterTypeOK, FlowsInv, NEW c \in Flow
  PROVE  /\ LinkDelta(c) \in Nat
         /\ LinkDelta(c) = flow[c].bytes - NotBelowZero(prevFlows[c])
         /\ LinkDelta(c) > 0 <=> flow[c].bytes > NotBelowZero(prevFlows[c])
<1>1. flow[c].bytes \in Nat /\ prevFlows[c] \in Nat \cup {Unsampled}
      /\ prevFlows[c] <= flow[c].bytes
  BY DEF ReporterTypeOK, FlowsInv, Link
<1>2. QED
  BY <1>1 DEF LinkDelta, TotalDelta, NotBelowZero, Unsampled

\* The differences are natural numbers, and so is their sum.
LEMMA DeltasAre ==
  ASSUME ReporterTypeOK, FlowsInv, NEW u
  PROVE  Deltas(u) \in [Flow -> Nat] /\ UserDelta(u) = Sum(Deltas(u)) /\ UserDelta(u) \in Nat
<1>1. Deltas(u) \in [Flow -> Nat]
  BY LinkDeltas DEF Deltas
<1>2. UserDelta(u) = Sum(Deltas(u))
  BY DEF UserDelta, Deltas
<1>3. QED
  BY <1>1, <1>2, SumIsNat

\* What NotYet says of a user is what the next snapshot would find.
LEMMA NotYetIsDelta ==
  ASSUME ReporterTypeOK, FlowsInv, NEW u \in Payer
  PROVE  NotYet(u) = UserDelta(u)
<1>1. u \notin Counted
  BY ReporterAssumption
<1>2. [c \in Flow |-> IF Shows(c, u) THEN flow[c].bytes - NotBelowZero(prevFlows[c]) ELSE 0]
        = Deltas(u)
  BY LinkDeltas DEF Deltas
<1>3. QED
  BY <1>1, <1>2, DeltasAre DEF NotYet

\* Nothing is owed where nothing is unseen.
LEMMA NothingUnseen ==
  ASSUME ReporterTypeOK, FlowsInv, NEW C \in SUBSET Flow, NEW u \in Payer, u \notin Unseen(C),
         NEW c \in C
  PROVE  Deltas(u)[c] = 0
<1>1. CASE ~Shows(c, u)
  BY <1>1 DEF Deltas
<1>2. CASE Shows(c, u)
  <2>1. flow[c].open /\ flow[c].user = u /\ u # NoPayer
    BY <1>2, ReporterAssumption DEF Shows, Shown
  <2>2. ~(flow[c].bytes > NotBelowZero(prevFlows[c]))
    BY <2>1 DEF Unseen
  <2>3. LinkDelta(c) = 0
    <3>1. LinkDelta(c) \in Nat /\ ~(LinkDelta(c) > 0)
      BY <2>2, LinkDeltas
    <3>2. QED
      BY <3>1
  <2>4. QED
    BY <2>3 DEF Deltas
<1>3. QED
  BY <1>1, <1>2

\* The connections that end are no longer owed; where they were not, nothing changes.
LEMMA EndedFlows ==
  ASSUME ReporterTypeOK, FlowsInv, NEW C \in SUBSET Flow,
         flow' = [c \in Flow |-> IF c \in C THEN NoLink ELSE flow[c]],
         \A c \in Flow \ C : prevFlows'[c] = prevFlows[c],
         NEW u \in Payer
  PROVE  /\ UserDelta(u)' <= UserDelta(u)
         /\ u \notin Unseen(C) => UserDelta(u)' = UserDelta(u)
<1>1. ASSUME NEW c \in C PROVE Deltas(u)'[c] = 0
  <2>1. ~Shows(c, u)'
    BY DEF Shows, Shown, NoLink
  <2>2. QED
    BY <2>1 DEF Deltas
<1>2. ASSUME NEW c \in Flow \ C PROVE Deltas(u)'[c] = Deltas(u)[c]
  BY DEF Deltas, Shows, Shown, LinkDelta
<1>3. /\ Deltas(u) \in [Flow -> Nat] /\ UserDelta(u) = Sum(Deltas(u))
      /\ Deltas(u)' \in [Flow -> Nat] /\ UserDelta(u)' = Sum(Deltas(u)')
  <2>1. Deltas(u) \in [Flow -> Nat] /\ UserDelta(u) = Sum(Deltas(u))
    BY DeltasAre
  <2>2. Deltas(u)' \in [Flow -> Nat]
    <3>1. \A c \in Flow : Deltas(u)'[c] \in Nat
      BY <1>1, <1>2, <2>1
    <3>2. Deltas(u)' = [c \in Flow |-> Deltas(u)'[c]]
      BY DEF Deltas
    <3>3. QED
      BY <3>1, <3>2
  <2>3. UserDelta(u)' = Sum(Deltas(u)')
    BY DEF UserDelta, Deltas
  <2>4. QED
    BY <2>1, <2>2, <2>3
<1>4. \A c \in Flow : Deltas(u)'[c] <= Deltas(u)[c]
  BY <1>1, <1>2, <1>3
<1>5. UserDelta(u)' <= UserDelta(u)
  BY <1>3, <1>4, SumGrows
<1>6. ASSUME u \notin Unseen(C) PROVE UserDelta(u)' = UserDelta(u)
  <2>1. \A c \in C : Deltas(u)[c] = 0
    BY <1>6, NothingUnseen
  <2>2. Deltas(u)' = Deltas(u)
    BY <1>1, <1>2, <1>3, <2>1
  <2>3. QED
    BY <1>3, <2>2
<1>7. QED
  BY <1>5, <1>6

-----------------------------------------------------------------------------
(***************************************************************************)
(* The types, the stages and the snapshots.                                *)
(***************************************************************************)
\* The accounts that reports name.
LEMMA AccountsAre ==
  /\ "sing-box" \in Counted /\ "mihomo" \in Counted
  /\ Counted \subseteq Account /\ Payer \subseteq Account
  /\ \A u \in Payer : u # "sing-box" /\ u # "mihomo" /\ u # NoPayer
  /\ Nothing \in [Account -> Nat] /\ NoLink \in Link
BY ReporterAssumption DEF Counted, Account, Nothing, NoLink, Link

\* Sums of reports are reports.
LEMMA PlusIs ==
  ASSUME NEW f \in [Account -> Nat], NEW g \in [Account -> Nat]
  PROVE  /\ Plus(f, g) \in [Account -> Nat]
         /\ \A a \in Account : Plus(f, g)[a] = f[a] + g[a]
BY DEF Plus

\* The report of a sample is one.
LEMMA SampleIs ==
  ASSUME ReporterTypeOK, FlowsInv, Snapshot
  PROVE  /\ report' \in [Account -> Nat]
         /\ report'["sing-box"] = TotalDelta(prevTotal["sing-box"], statusTotal)
         /\ report'["mihomo"] = 0
         /\ \A u \in Payer : report'[u] = UserDelta(u)
<1>1. report' = [a \in Account |->
          IF a = "sing-box" THEN TotalDelta(prevTotal[a], statusTotal)
          ELSE IF a = "mihomo" THEN 0 ELSE UserDelta(a)]
  BY DEF Snapshot
<1>2. TotalDelta(prevTotal["sing-box"], statusTotal) \in Nat
  <2>1. prevTotal["sing-box"] \in Nat \cup {Unsampled} /\ statusTotal \in Nat
    BY AccountsAre DEF ReporterTypeOK
  <2>2. QED
    BY <2>1 DEF TotalDelta, NotBelowZero, Unsampled
<1>3. \A u \in Payer : UserDelta(u) \in Nat
  BY DeltasAre
<1>4. \A a \in Account : a = "sing-box" \/ a = "mihomo" \/ a \in Payer
  BY DEF Account, Counted
<1>5. \A a \in Account : report'[a] \in Nat
  BY <1>1, <1>2, <1>3, <1>4
<1>6. QED
  BY <1>1, <1>5, AccountsAre

\* Every step keeps the types.
LEMMA ReporterStepTypes ==
  ASSUME ReporterTypeOK, FlowsInv, [ReporterNext]_reporterVars
  PROVE  ReporterTypeOK'
<1> USE AccountsAre
<1>1. ASSUME NEW c \in Flow, NEW u \in Payer \cup {NoPayer}, Connect(c, u)
      PROVE  ReporterTypeOK'
  BY <1>1 DEF Connect, ReporterTypeOK, Link
<1>2. ASSUME NEW c \in Flow, Carry(c)
      PROVE  ReporterTypeOK'
  <2>1. flow' \in [Flow -> Link]
    <3>1. flow[c] \in Link /\ flow[c].bytes + 1 \in Nat
      BY DEF ReporterTypeOK, Link
    <3>2. [flow[c] EXCEPT !.bytes = flow[c].bytes + 1] \in Link
      BY <3>1 DEF Link
    <3>3. flow' = [flow EXCEPT ![c] = [flow[c] EXCEPT !.bytes = flow[c].bytes + 1]]
      BY <1>2 DEF Carry
    <3>4. QED
      BY <3>2, <3>3 DEF ReporterTypeOK
  <2>2. total' \in [Counted -> Nat]
    BY <1>2 DEF Carry, ReporterTypeOK
  <2>3. carried' \in [Account -> Nat]
    BY <1>2 DEF Carry, ReporterTypeOK
  <2>4. QED
    BY <1>2, <2>1, <2>2, <2>3 DEF Carry, ReporterTypeOK
<1>3. ASSUME NEW c \in Flow, Disconnect(c)
      PROVE  ReporterTypeOK'
  BY <1>3 DEF Disconnect, ReporterTypeOK
<1>4. CASE CarryMihomo
  BY <1>4 DEF CarryMihomo, ReporterTypeOK
<1>5. ASSUME NEW k \in Counted, CoreRestarts(k)
      PROVE  ReporterTypeOK'
  <2>1. total' \in [Counted -> Nat]
    BY <1>5 DEF CoreRestarts, ReporterTypeOK
  <2>2. flow' \in [Flow -> Link] /\ prevFlows' \in [Flow -> Nat \cup {Unsampled}]
    BY <1>5 DEF CoreRestarts, ReporterTypeOK
  <2>3. QED
    BY <1>5, <2>1, <2>2 DEF CoreRestarts, ReporterTypeOK
<1>6. CASE ReadStatus
  BY <1>6 DEF ReadStatus, ReporterTypeOK
<1>7. CASE Snapshot
  <2>1. prevFlows' \in [Flow -> Nat \cup {Unsampled}]
    BY <1>7 DEF Snapshot, ReporterTypeOK, Link
  <2>2. prevTotal' \in [Counted -> Nat \cup {Unsampled}]
    BY <1>7 DEF Snapshot, ReporterTypeOK
  <2>3. report' \in [Account -> Nat]
    BY <1>7, SampleIs
  <2>4. QED
    BY <1>7, <2>1, <2>2, <2>3 DEF Snapshot, ReporterTypeOK
<1>8. CASE SingboxFails \/ MihomoFails \/ Reconnect \/ FallsSilent \/ AnswersAgain
  BY <1>8 DEF SingboxFails, MihomoFails, Reconnect, FallsSilent, AnswersAgain, ReporterTypeOK
<1>9. CASE SampleMihomo
  <2>1. TotalDelta(prevTotal["mihomo"], total["mihomo"]) \in Nat
    <3>1. prevTotal["mihomo"] \in Nat \cup {Unsampled} /\ total["mihomo"] \in Nat
      BY DEF ReporterTypeOK
    <3>2. QED
      BY <3>1 DEF TotalDelta, NotBelowZero, Unsampled
  <2>2. QED
    BY <1>9, <2>1 DEF SampleMihomo, ReporterTypeOK
<1>10. CASE SendReport
  <2>1. Plus(outgoing.sum, report) \in [Account -> Nat] /\ outgoing.n + 1 \in Nat
    BY PlusIs DEF ReporterTypeOK
  <2>2. QED
    BY <1>10, <2>1 DEF SendReport, ReporterTypeOK
<1>11. CASE ReceiveReports
  <2>1. Plus(received, outgoing.sum) \in [Account -> Nat]
    BY PlusIs DEF ReporterTypeOK
  <2>2. QED
    BY <1>11, <2>1 DEF ReceiveReports, ReporterTypeOK
<1>12. CASE StreamFails
  BY <1>12 DEF StreamFails, ReporterTypeOK
<1>13. ASSUME NEW stay \in BOOLEAN, AgentRestarts(stay)
       PROVE  ReporterTypeOK'
  BY <1>13 DEF AgentRestarts, ReporterTypeOK
<1>14. CASE UNCHANGED reporterVars
  BY <1>14 DEF reporterVars, ReporterTypeOK
<1>15. QED
  BY <1>1, <1>2, <1>3, <1>4, <1>5, <1>6, <1>7, <1>8, <1>9, <1>10, <1>11, <1>12, <1>13, <1>14
     DEF ReporterNext, Collect

\* And what the stages and the snapshots promise.
LEMMA ReporterStepFlows ==
  ASSUME ReporterTypeOK, StagesInv, FlowsInv, [ReporterNext]_reporterVars
  PROVE  StagesInv' /\ FlowsInv'
<1> USE AccountsAre
<1>1. ASSUME NEW c \in Flow, NEW u \in Payer \cup {NoPayer}, Connect(c, u)
      PROVE  StagesInv' /\ FlowsInv'
  <2>1. flow'[c] = [open |-> TRUE, user |-> u, bytes |-> 0] /\ prevFlows'[c] = Unsampled
    BY <1>1 DEF Connect, FlowsInv, ReporterTypeOK
  <2>2. flow'[c].open /\ prevFlows'[c] <= flow'[c].bytes
    BY <2>1 DEF Unsampled
  <2>3. \A d \in Flow \ {c} : flow'[d] = flow[d] /\ prevFlows'[d] = prevFlows[d]
    BY <1>1 DEF Connect, ReporterTypeOK
  <2>4. FlowsInv'
    BY <2>2, <2>3 DEF FlowsInv
  <2>5. QED
    BY <1>1, <2>4 DEF Connect, StagesInv
<1>2. ASSUME NEW c \in Flow, Carry(c)
      PROVE  StagesInv' /\ FlowsInv'
  <2>1. flow'[c].open = flow[c].open /\ flow'[c].bytes = flow[c].bytes + 1 /\ flow[c].open
    BY <1>2 DEF Carry, ReporterTypeOK, Link
  <2>2. prevFlows'[c] <= flow'[c].bytes
    <3>1. prevFlows[c] <= flow[c].bytes /\ prevFlows[c] \in Int /\ flow[c].bytes \in Int
      BY DEF FlowsInv, ReporterTypeOK, Link, Unsampled
    <3>2. prevFlows'[c] = prevFlows[c] /\ flow'[c].bytes = flow[c].bytes + 1
      BY <1>2, <2>1 DEF Carry
    <3>3. QED
      BY <3>1, <3>2
  <2>3. \A d \in Flow \ {c} : flow'[d] = flow[d] /\ prevFlows'[d] = prevFlows[d]
    BY <1>2 DEF Carry, ReporterTypeOK
  <2>4. FlowsInv'
    BY <2>1, <2>2, <2>3 DEF FlowsInv
  <2>5. QED
    BY <1>2, <2>4 DEF Carry, StagesInv
<1>3. ASSUME NEW c \in Flow, Disconnect(c)
      PROVE  StagesInv' /\ FlowsInv'
  <2>1. flow'[c] = NoLink /\ prevFlows'[c] = Unsampled
    BY <1>3 DEF Disconnect, ReporterTypeOK
  <2>2. \A d \in Flow \ {c} : flow'[d] = flow[d] /\ prevFlows'[d] = prevFlows[d]
    BY <1>3 DEF Disconnect, ReporterTypeOK
  <2>3. Unsampled <= NoLink.bytes
    BY DEF Unsampled, NoLink
  <2>4. FlowsInv'
    BY <2>1, <2>2, <2>3 DEF FlowsInv
  <2>5. QED
    BY <1>3, <2>4 DEF Disconnect, StagesInv
<1>4. CASE UNCHANGED <<flow, prevFlows>> /\ UNCHANGED <<stage, report>>
  BY <1>4 DEF FlowsInv, StagesInv
<1>5. CASE /\ flow' = [c \in Flow |-> NoLink] /\ prevFlows' = [c \in Flow |-> Unsampled]
           /\ stage' \in {stage, "idle"} /\ report' \in {report, Nothing}
           /\ stage' = stage => report' = report
           /\ stage' # stage => report' = Nothing
  <2>1. Unsampled <= NoLink.bytes
    BY DEF Unsampled, NoLink
  <2>2. \A c \in Flow : flow'[c] = NoLink /\ prevFlows'[c] = Unsampled
    BY <1>5
  <2>3. FlowsInv'
    BY <2>1, <2>2 DEF FlowsInv
  <2>4. StagesInv'
    BY <1>5 DEF StagesInv, Nothing
  <2>5. QED
    BY <2>3, <2>4
<1>6. CASE Snapshot
  <2>1. \A c \in Flow : prevFlows'[c] = (IF Shown(c) THEN flow[c].bytes ELSE Unsampled)
                        /\ flow'[c] = flow[c] /\ flow[c].bytes \in Nat
    BY <1>6 DEF Snapshot, ReporterTypeOK, Link
  <2>2. \A c \in Flow : prevFlows'[c] <= flow'[c].bytes
    BY <2>1 DEF Unsampled
  <2>3. \A c \in Flow : ~flow[c].open => ~Shown(c) /\ flow[c] = NoLink
    BY DEF Shown, FlowsInv
  <2>4. FlowsInv'
    BY <2>1, <2>2, <2>3 DEF FlowsInv
  <2>5. StagesInv'
    BY <1>6, SampleIs DEF Snapshot, StagesInv
  <2>6. QED
    BY <2>4, <2>5
<1>7. CASE /\ UNCHANGED <<flow, prevFlows>>
           /\ ReadStatus \/ SingboxFails \/ SampleMihomo \/ MihomoFails \/ SendReport
              \/ StreamFails
  <2>1. FlowsInv'
    BY <1>7 DEF FlowsInv
  <2>2. StagesInv'
    BY <1>7 DEF ReadStatus, SingboxFails, SampleMihomo, MihomoFails, SendReport, StreamFails,
                StagesInv, Nothing
  <2>3. QED
    BY <2>1, <2>2
<1>8. ASSUME AgentRestarts(TRUE)
      PROVE  StagesInv' /\ FlowsInv'
  <2>1. flow' = flow /\ prevFlows' = [c \in Flow |-> Unsampled]
        /\ stage' = "idle" /\ report' = Nothing
    BY <1>8 DEF AgentRestarts
  <2>2. \A c \in Flow : Unsampled <= flow[c].bytes
    BY DEF ReporterTypeOK, Link, Unsampled
  <2>3. FlowsInv'
    BY <2>1, <2>2 DEF FlowsInv
  <2>4. QED
    BY <2>1, <2>3 DEF StagesInv
<1>9. ASSUME AgentRestarts(FALSE)
      PROVE  StagesInv' /\ FlowsInv'
  <2>1. /\ flow' = [c \in Flow |-> NoLink] /\ prevFlows' = [c \in Flow |-> Unsampled]
        /\ stage' = "idle" /\ report' = Nothing
    BY <1>9 DEF AgentRestarts
  <2>2. QED
    BY <1>5, <2>1 DEF StagesInv
<1>10. ASSUME NEW k \in Counted, CoreRestarts(k)
       PROVE  StagesInv' /\ FlowsInv'
  BY <1>4, <1>5, <1>10 DEF CoreRestarts
<1>11. CASE CarryMihomo \/ ReceiveReports \/ Reconnect \/ FallsSilent \/ AnswersAgain \/ UNCHANGED reporterVars
  BY <1>4, <1>11 DEF CarryMihomo, ReceiveReports, Reconnect, FallsSilent, AnswersAgain, reporterVars
<1>12. QED
  <2>1. CASE ReadStatus \/ SingboxFails \/ SampleMihomo \/ MihomoFails \/ SendReport \/ StreamFails
    BY <1>7, <2>1 DEF ReadStatus, SingboxFails, SampleMihomo, MihomoFails, SendReport, StreamFails
  <2>2. QED
    BY <1>1, <1>2, <1>3, <1>6, <1>8, <1>9, <1>10, <1>11, <2>1 DEF ReporterNext, Collect

-----------------------------------------------------------------------------
(***************************************************************************)
(* The accounts.                                                           *)
(***************************************************************************)
\* Less sent and less owed is no more than was carried; it is all of it where neither
\* changed.
LEMMA WithinLess ==
  ASSUME NEW a, NEW s \in Nat, NEW o \in Nat, NEW all \in Nat, NEW m,
         NEW t \in Nat, NEW p \in Nat, NEW q,
         Within(a, s, o, all, m), t <= s, p <= o, a \notin q => a \notin m /\ t = s /\ p = o
  PROVE  Within(a, t, p, all, q)
BY DEF Within

\* What moves from owed to sent counts once.
LEMMA WithinMoved ==
  ASSUME NEW a, NEW s \in Nat, NEW o \in Nat, NEW all \in Nat, NEW m,
         NEW t \in Nat, NEW p \in Nat,
         Within(a, s, o, all, m), t + p = s + o
  PROVE  Within(a, t, p, all, m)
BY DEF Within

\* One more carried is one more owed, or none where the account is marked.
LEMMA WithinCarried ==
  ASSUME NEW a, NEW s \in Nat, NEW o \in Nat, NEW all \in Nat, NEW m, NEW p \in Nat,
         Within(a, s, o, all, m), p <= o + 1, a \notin m => p = o + 1
  PROVE  Within(a, s, p, all + 1, m)
BY DEF Within

\* Differences of totals.
LEMMA TotalDeltas ==
  ASSUME NEW p \in Nat \cup {Unsampled}, NEW t \in Nat
  PROVE  /\ TotalDelta(p, t) \in Nat
         /\ p <= t => TotalDelta(p, t) = t - NotBelowZero(p)
         /\ TotalDelta(p, t + 1) <= TotalDelta(p, t) + 1
         /\ p <= t => TotalDelta(p, t + 1) = TotalDelta(p, t) + 1
         /\ TotalDelta(p, 0) = 0 /\ TotalDelta(t, t) = 0 /\ TotalDelta(Unsampled, t) = t
BY DEF TotalDelta, NotBelowZero, Unsampled

\* A total read in between splits a difference.
LEMMA TotalSplit ==
  ASSUME NEW p \in Nat \cup {Unsampled}, NEW s \in Nat, NEW t \in Nat, p <= s, s <= t
  PROVE  TotalDelta(p, s) + TotalDelta(s, t) = TotalDelta(p, t)
BY DEF TotalDelta, NotBelowZero, Unsampled

\* The counts of an account are natural numbers.
LEMMA CountsAre ==
  ASSUME ReporterTypeOK
  PROVE  /\ \A a \in Account : OnTheWay(a) \in Nat /\ carried[a] \in Nat
         /\ \A k \in Counted :
              /\ prevTotal[k] \in Nat \cup {Unsampled} /\ total[k] \in Nat
              /\ TotalDelta(prevTotal[k], total[k]) \in Nat
              /\ TotalDelta(prevTotal[k], statusTotal) \in Nat
              /\ TotalDelta(statusTotal, total[k]) \in Nat
<1>1. \A a \in Account : OnTheWay(a) \in Nat /\ carried[a] \in Nat
  BY DEF ReporterTypeOK, OnTheWay
<1>2. \A k \in Counted : prevTotal[k] \in Nat \cup {Unsampled} /\ total[k] \in Nat
  BY DEF ReporterTypeOK
<1>3. statusTotal \in Nat
  BY DEF ReporterTypeOK
<1>4. QED
  BY <1>1, <1>2, <1>3, TotalDeltas

\* The invariant of the accounts.
AccountsInv == CoreInv /\ StatusInv /\ UsersInv

\* What each step does to what is on its way.
LEMMA SentOrLost ==
  ASSUME ReporterTypeOK, NEW a \in Account
  PROVE  /\ UNCHANGED <<received, outgoing, report>> => OnTheWay(a)' = OnTheWay(a)
         /\ SendReport \/ ReceiveReports => OnTheWay(a)' = OnTheWay(a)
         /\ (received' = received /\ report' = Nothing /\ outgoing' = [n |-> 0, sum |-> Nothing])
              => /\ OnTheWay(a)' \in Nat /\ OnTheWay(a)' <= OnTheWay(a)
                 /\ a \notin Dropped => OnTheWay(a)' = OnTheWay(a)
<1>1. /\ received[a] \in Nat /\ outgoing.sum[a] \in Nat /\ report[a] \in Nat
      /\ outgoing.sum \in [Account -> Nat] /\ report \in [Account -> Nat]
      /\ received \in [Account -> Nat] /\ Nothing[a] = 0
  BY DEF ReporterTypeOK, Nothing
<1>2. UNCHANGED <<received, outgoing, report>> => OnTheWay(a)' = OnTheWay(a)
  BY DEF OnTheWay
<1>3. SendReport => OnTheWay(a)' = OnTheWay(a)
  BY <1>1, PlusIs DEF SendReport, OnTheWay
<1>4. ReceiveReports => OnTheWay(a)' = OnTheWay(a)
  BY <1>1, PlusIs DEF ReceiveReports, OnTheWay
<1>5. ASSUME received' = received, report' = Nothing, outgoing' = [n |-> 0, sum |-> Nothing]
      PROVE  /\ OnTheWay(a)' \in Nat /\ OnTheWay(a)' <= OnTheWay(a)
             /\ a \notin Dropped => OnTheWay(a)' = OnTheWay(a)
  <2>1. OnTheWay(a)' = received[a]
    BY <1>1, <1>5 DEF OnTheWay
  <2>2. a \notin Dropped => outgoing.sum[a] = 0 /\ report[a] = 0
    BY <1>1, PlusIs DEF Dropped
  <2>3. QED
    BY <1>1, <2>1, <2>2 DEF OnTheWay
<1>6. QED
  BY <1>2, <1>3, <1>4, <1>5

\* Steps that leave the counters and the accounts alone.
LEMMA CoresKept ==
  ASSUME CoreInv, UNCHANGED <<total, prevTotal, carried, spoiled>>,
         \A a \in Account : OnTheWay(a)' = OnTheWay(a)
  PROVE  CoreInv'
<1>1. ASSUME NEW k \in Counted
      PROVE  /\ Within(k, OnTheWay(k)', TotalDelta(prevTotal'[k], total'[k]), carried'[k], spoiled')
             /\ k \notin spoiled' => prevTotal'[k] <= total'[k]
  <2>1. OnTheWay(k)' = OnTheWay(k)
    BY AccountsAre
  <2>2. QED
    BY <2>1 DEF CoreInv
<1>2. QED
  BY <1>1 DEF CoreInv

\* The same of a total that was read.
LEMMA StatusKept ==
  ASSUME StatusInv, UNCHANGED <<total, prevTotal, carried, spoiled>>,
         \A a \in Account : OnTheWay(a)' = OnTheWay(a),
         stage' = "status" => stage = "status" /\ statusTotal' = statusTotal
  PROVE  StatusInv'
<1> SUFFICES ASSUME stage' = "status"
             PROVE  StatusInv'
  BY DEF StatusInv
<1>1. OnTheWay("sing-box")' = OnTheWay("sing-box")
  BY AccountsAre
<1>2. QED
  BY <1>1 DEF StatusInv

\* The same of the users.
LEMMA UsersKept ==
  ASSUME UsersInv, UNCHANGED <<carried, spoiled>>,
         \A a \in Account : OnTheWay(a)' = OnTheWay(a),
         \A u \in Payer : UserDelta(u)' = UserDelta(u)
  PROVE  UsersInv'
<1>1. ASSUME NEW u \in Payer
      PROVE  Within(u, OnTheWay(u)', UserDelta(u)', carried'[u], spoiled')
  <2>1. OnTheWay(u)' = OnTheWay(u) /\ UserDelta(u)' = UserDelta(u)
    BY AccountsAre
  <2>2. QED
    BY <2>1 DEF UsersInv
<1>2. QED
  BY <1>1 DEF UsersInv

\* The users' connections, when nothing happens to them.
LEMMA SameDeltas ==
  ASSUME UNCHANGED <<flow, prevFlows>>, NEW u
  PROVE  UserDelta(u)' = UserDelta(u)
BY DEF UserDelta, Shows, Shown, LinkDelta

-----------------------------------------------------------------------------
(***************************************************************************)
(* The steps.                                                              *)
(***************************************************************************)
\* Steps of the sending, and of a sample that fails.
LEMMA SendingKeepsAccounts ==
  ASSUME ReporterTypeOK, AccountsInv,
         \/ ReadStatus \/ SingboxFails \/ MihomoFails \/ SendReport \/ ReceiveReports
         \/ Reconnect \/ FallsSilent \/ AnswersAgain
  PROVE  AccountsInv'
<1>1. UNCHANGED <<flow, total, prevTotal, prevFlows, carried, spoiled>>
  BY DEF ReadStatus, SingboxFails, MihomoFails, SendReport, ReceiveReports, Reconnect, FallsSilent, AnswersAgain
<1>2. \A a \in Account : OnTheWay(a)' = OnTheWay(a)
  BY SentOrLost DEF ReadStatus, SingboxFails, MihomoFails, Reconnect, FallsSilent, AnswersAgain
<1>3. \A u \in Payer : UserDelta(u)' = UserDelta(u)
  BY <1>1, SameDeltas
<1>4. CoreInv' /\ UsersInv'
  BY <1>1, <1>2, <1>3, CoresKept, UsersKept DEF AccountsInv
<1>5. CASE ~ReadStatus
  <2>1. stage' = "status" => stage = "status" /\ statusTotal' = statusTotal
    BY <1>5 DEF SingboxFails, MihomoFails, SendReport, ReceiveReports, Reconnect, FallsSilent, AnswersAgain
  <2>2. QED
    BY <1>1, <1>2, <1>4, <2>1, StatusKept DEF AccountsInv
<1>6. CASE ReadStatus
  <2> DEFINE k == "sing-box"
  <2>1. k \in Counted /\ k \in Account
    BY AccountsAre
  <2>2. /\ Within(k, OnTheWay(k), TotalDelta(prevTotal[k], total[k]), carried[k], spoiled)
        /\ k \notin spoiled => prevTotal[k] <= total[k]
    BY <2>1 DEF AccountsInv, CoreInv
  <2>3. statusTotal' = total[k] /\ total' = total /\ prevTotal' = prevTotal
        /\ carried' = carried /\ spoiled' = spoiled /\ OnTheWay(k)' = OnTheWay(k)
    BY <1>1, <1>2, <1>6, <2>1 DEF ReadStatus
  <2>4. TotalDelta(total[k], total[k]) = 0 /\ TotalDelta(prevTotal[k], total[k]) \in Nat
        /\ total[k] \in Nat
    BY <2>1, CountsAre, TotalDeltas
  <2>5. TotalDelta(prevTotal[k], total[k]) + TotalDelta(total[k], total[k])
          = TotalDelta(prevTotal[k], total[k])
    BY <2>4
  <2>6. total[k] <= total[k]
    BY <2>4
  <2>7. StatusInv'
    BY <2>2, <2>3, <2>5, <2>6 DEF StatusInv
  <2>8. QED
    BY <1>4, <2>7 DEF AccountsInv
<1>7. QED
  BY <1>5, <1>6

\* A connection opens: it owes nothing yet.
LEMMA ConnectKeepsAccounts ==
  ASSUME ReporterTypeOK, FlowsInv, AccountsInv, NEW c \in Flow, NEW v \in Payer \cup {NoPayer},
         Connect(c, v)
  PROVE  AccountsInv'
<1>1. UNCHANGED <<total, prevTotal, prevFlows, carried, spoiled, stage, statusTotal>>
  BY DEF Connect
<1>2. \A a \in Account : OnTheWay(a)' = OnTheWay(a)
  BY SentOrLost DEF Connect
<1>3. ASSUME NEW u \in Payer PROVE UserDelta(u)' = UserDelta(u)
  <2>1. Deltas(u)[c] = 0
    BY DEF Deltas, Shows, Shown, Connect
  <2>2. flow'[c].bytes = 0 /\ prevFlows'[c] = Unsampled
    BY DEF Connect, FlowsInv, ReporterTypeOK
  <2>3. LinkDelta(c)' = 0
    BY <2>2 DEF LinkDelta, TotalDelta, Unsampled
  <2>4. Deltas(u)'[c] = 0
    BY <2>3 DEF Deltas
  <2>5. \A d \in Flow \ {c} : flow'[d] = flow[d]
    BY DEF Connect, ReporterTypeOK
  <2>6. \A d \in Flow \ {c} : Deltas(u)'[d] = Deltas(u)[d]
    BY <1>1, <2>5 DEF Deltas, Shows, Shown, LinkDelta
  <2>7. Deltas(u)' = Deltas(u)
    <3>1. \A d \in Flow : Deltas(u)'[d] = Deltas(u)[d]
      BY <2>1, <2>4, <2>6
    <3>2. Deltas(u)' = [d \in Flow |-> Deltas(u)'[d]] /\ Deltas(u) = [d \in Flow |-> Deltas(u)[d]]
      BY DEF Deltas
    <3>3. QED
      BY <3>1, <3>2
  <2>8. UserDelta(u) = Sum(Deltas(u)) /\ UserDelta(u)' = Sum(Deltas(u)')
    BY DEF UserDelta, Deltas
  <2>9. QED
    BY <2>7, <2>8
<1>4. QED
  BY <1>1, <1>2, <1>3, CoresKept, StatusKept, UsersKept DEF AccountsInv

\* A core counts one byte more: so does everything that is said of it.
LEMMA CoreCarries ==
  ASSUME ReporterTypeOK, CoreInv, StatusInv, NEW k \in Counted,
         total' = [total EXCEPT ![k] = @ + 1],
         carried'[k] = carried[k] + 1, \A l \in Counted \ {k} : carried'[l] = carried[l],
         UNCHANGED <<prevTotal, spoiled, stage, statusTotal>>,
         \A a \in Account : OnTheWay(a)' = OnTheWay(a)
  PROVE  CoreInv' /\ StatusInv'
<1>1. /\ \A l \in Counted : l \in Account /\ OnTheWay(l)' = OnTheWay(l)
      /\ "sing-box" \in Counted
  BY AccountsAre
<1>2. /\ total[k] \in Nat /\ prevTotal[k] \in Nat \cup {Unsampled} /\ total'[k] = total[k] + 1
      /\ \A l \in Counted \ {k} : total'[l] = total[l]
      /\ statusTotal \in Nat /\ OnTheWay(k) \in Nat /\ carried[k] \in Nat
  BY <1>1, CountsAre DEF ReporterTypeOK
<1>3. CoreInv'
  <2>1. ASSUME NEW l \in Counted
        PROVE  /\ Within(l, OnTheWay(l)', TotalDelta(prevTotal'[l], total'[l]), carried'[l], spoiled')
               /\ l \notin spoiled' => prevTotal'[l] <= total'[l]
    <3>1. /\ Within(l, OnTheWay(l), TotalDelta(prevTotal[l], total[l]), carried[l], spoiled)
          /\ l \notin spoiled => prevTotal[l] <= total[l]
      BY DEF CoreInv
    <3>2. CASE l # k
      BY <1>1, <1>2, <3>1, <3>2
    <3>3. CASE l = k
      <4>1. /\ TotalDelta(prevTotal[k], total[k]) \in Nat
            /\ TotalDelta(prevTotal[k], total[k] + 1) \in Nat
            /\ TotalDelta(prevTotal[k], total[k] + 1) <= TotalDelta(prevTotal[k], total[k]) + 1
            /\ k \notin spoiled =>
                 TotalDelta(prevTotal[k], total[k] + 1) = TotalDelta(prevTotal[k], total[k]) + 1
        <5>1. total[k] + 1 \in Nat
          BY <1>2
        <5>2. QED
          BY <1>2, <3>1, <3>3, <5>1, TotalDeltas
      <4>2. Within(k, OnTheWay(k), TotalDelta(prevTotal[k], total[k] + 1), carried[k] + 1, spoiled)
        BY <1>2, <3>1, <3>3, <4>1, WithinCarried
      <4>3. k \notin spoiled => prevTotal[k] <= total[k] + 1
        BY <1>2, <3>1, <3>3 DEF Unsampled
      <4>4. QED
        BY <1>1, <1>2, <3>3, <4>2, <4>3
    <3>4. QED
      BY <3>2, <3>3
  <2>2. QED
    BY <2>1 DEF CoreInv
<1>4. StatusInv'
  <2> DEFINE l == "sing-box"
  <2> SUFFICES ASSUME stage' = "status"
               PROVE  StatusInv'
    BY DEF StatusInv
  <2>1. /\ Within(l, OnTheWay(l),
                  TotalDelta(prevTotal[l], statusTotal) + TotalDelta(statusTotal, total[l]),
                  carried[l], spoiled)
        /\ l \notin spoiled => prevTotal[l] <= statusTotal /\ statusTotal <= total[l]
    BY DEF StatusInv
  <2>2. CASE l # k
    <3>1. total'[l] = total[l] /\ carried'[l] = carried[l] /\ OnTheWay(l)' = OnTheWay(l)
      BY <1>1, <1>2, <2>2
    <3>2. QED
      BY <2>1, <3>1 DEF StatusInv
  <2>3. CASE l = k
    <3> DEFINE d == TotalDelta(prevTotal[k], statusTotal)
               e == TotalDelta(statusTotal, total[k])
               f == TotalDelta(statusTotal, total[k] + 1)
    <3>1. d \in Nat /\ e \in Nat
      BY CountsAre
    <3>2. f \in Nat /\ f <= e + 1 /\ (k \notin spoiled => f = e + 1)
      <4>1. total[k] + 1 \in Nat
        BY <1>2
      <4>2. QED
        BY <1>2, <2>1, <2>3, <4>1, TotalDeltas
    <3>3. Within(k, OnTheWay(k), d + e, carried[k], spoiled)
      BY <2>1, <2>3
    <3>4. Within(k, OnTheWay(k), d + f, carried[k] + 1, spoiled)
      <4> HIDE DEF d, e, f
      <4>1. d + e \in Nat /\ d + f \in Nat /\ d + f <= (d + e) + 1
            /\ (k \notin spoiled => d + f = (d + e) + 1)
        BY <3>1, <3>2
      <4>2. QED
        BY <1>2, <3>3, <4>1, WithinCarried
    <3>5. k \notin spoiled => prevTotal[k] <= statusTotal /\ statusTotal <= total[k] + 1
      BY <1>2, <2>1, <2>3
    <3>6. QED
      BY <1>1, <1>2, <2>3, <3>4, <3>5 DEF StatusInv
  <2>4. QED
    BY <2>2, <2>3
<1>5. QED
  BY <1>3, <1>4

\* A connection carries a byte: sing-box's and its user's.
LEMMA CarryKeepsAccounts ==
  ASSUME ReporterTypeOK, FlowsInv, AccountsInv, NEW c \in Flow, Carry(c)
  PROVE  AccountsInv'
<1>1. UNCHANGED <<prevTotal, prevFlows, spoiled, stage, statusTotal>>
  BY DEF Carry
<1>2. \A a \in Account : OnTheWay(a)' = OnTheWay(a)
  BY SentOrLost DEF Carry
<1>3. \A a \in Account : carried'[a] =
        IF a = "sing-box" \/ a = flow[c].user THEN carried[a] + 1 ELSE carried[a]
  BY DEF Carry
<1>4. CoreInv' /\ StatusInv'
  <2>1. flow[c].user \in Payer \cup {NoPayer}
    BY DEF ReporterTypeOK, Link
  <2>2. flow[c].user \notin Counted
    BY <2>1, ReporterAssumption
  <2>3. carried'["sing-box"] = carried["sing-box"] + 1
        /\ \A l \in Counted \ {"sing-box"} : carried'[l] = carried[l]
    BY <1>3, <2>2, AccountsAre
  <2>4. total' = [total EXCEPT !["sing-box"] = @ + 1]
    BY DEF Carry
  <2>5. QED
    BY <1>1, <1>2, <2>3, <2>4, AccountsAre, CoreCarries DEF AccountsInv
<1>5. ASSUME NEW u \in Payer
      PROVE  Within(u, OnTheWay(u)', UserDelta(u)', carried'[u], spoiled')
  <2>1. /\ u \in Account /\ u # "sing-box" /\ u # NoPayer
        /\ Within(u, OnTheWay(u), UserDelta(u), carried[u], spoiled)
        /\ OnTheWay(u) \in Nat /\ carried[u] \in Nat /\ UserDelta(u) \in Nat
    BY AccountsAre, CountsAre, DeltasAre DEF AccountsInv, UsersInv
  <2>2. /\ flow'[c].open /\ flow[c].open /\ flow'[c].user = flow[c].user
        /\ flow'[c].bytes = flow[c].bytes + 1
        /\ \A d \in Flow \ {c} : flow'[d] = flow[d]
    BY DEF Carry, ReporterTypeOK, Link
  <2>3. \A d \in Flow \ {c} : Deltas(u)'[d] = Deltas(u)[d]
    BY <1>1, <2>2 DEF Deltas, Shows, Shown, LinkDelta
  <2>4. Shows(c, u)' <=> Shows(c, u)
    BY <2>2 DEF Shows, Shown
  <2>5. LinkDelta(c)' = LinkDelta(c) + 1
    <3>1. prevFlows[c] <= flow[c].bytes /\ prevFlows[c] \in Nat \cup {Unsampled}
          /\ flow[c].bytes \in Nat
      BY DEF FlowsInv, ReporterTypeOK, Link
    <3>2. QED
      <4>1. TotalDelta(prevFlows[c], flow[c].bytes + 1)
              = TotalDelta(prevFlows[c], flow[c].bytes) + 1
        BY <3>1, TotalDeltas
      <4>2. LinkDelta(c)' = TotalDelta(prevFlows'[c], flow'[c].bytes)
            /\ LinkDelta(c) = TotalDelta(prevFlows[c], flow[c].bytes)
        BY DEF LinkDelta
      <4>3. QED
        BY <1>1, <2>2, <4>1, <4>2
  <2>6. Deltas(u) \in [Flow -> Nat] /\ UserDelta(u) = Sum(Deltas(u))
        /\ UserDelta(u)' = Sum(Deltas(u)')
    BY DeltasAre DEF UserDelta, Deltas
  <2>7. CASE ~Shows(c, u)
    <3>1. flow[c].user # u
      BY <2>1, <2>2, <2>7 DEF Shows, Shown
    <3>2. Deltas(u)'[c] = 0 /\ Deltas(u)[c] = 0
      BY <2>4, <2>7 DEF Deltas
    <3>3. Deltas(u)' = Deltas(u)
      <4>1. \A d \in Flow : Deltas(u)'[d] = Deltas(u)[d]
        BY <2>3, <3>2
      <4>2. /\ Deltas(u)' = [d \in Flow |-> Deltas(u)'[d]]
            /\ Deltas(u) = [d \in Flow |-> Deltas(u)[d]]
        BY DEF Deltas
      <4>3. QED
        BY <4>1, <4>2
    <3>4. carried'[u] = carried[u]
      BY <1>3, <2>1, <3>1
    <3>5. QED
      BY <1>1, <1>2, <2>1, <2>6, <3>3, <3>4
  <2>8. CASE Shows(c, u)
    <3>1. flow[c].user = u
      BY <2>8 DEF Shows
    <3>2. Deltas(u)'[c] = Deltas(u)[c] + 1
      BY <2>4, <2>5, <2>8 DEF Deltas
    <3>3. Deltas(u)' \in [Flow -> Nat]
      <4>1. \A d \in Flow : Deltas(u)'[d] \in Nat
        BY <2>3, <2>6, <3>2
      <4>2. Deltas(u)' = [d \in Flow |-> Deltas(u)'[d]]
        BY DEF Deltas
      <4>3. QED
        BY <4>1, <4>2
    <3>4. UserDelta(u)' = UserDelta(u) + 1
      BY <2>3, <2>6, <3>2, <3>3, SumPlusOne
    <3>5. carried'[u] = carried[u] + 1
      BY <1>3, <2>1, <3>1
    <3>6. Within(u, OnTheWay(u), UserDelta(u) + 1, carried[u] + 1, spoiled)
      <4>1. UserDelta(u) + 1 \in Nat /\ UserDelta(u) + 1 <= UserDelta(u) + 1
        BY <2>1
      <4>2. QED
        BY <2>1, <4>1, WithinCarried
    <3>7. QED
      BY <1>1, <1>2, <2>1, <3>4, <3>5, <3>6
  <2>9. QED
    BY <2>7, <2>8
<1>6. UsersInv'
  BY <1>5 DEF UsersInv
<1>7. QED
  BY <1>4, <1>6 DEF AccountsInv

\* mihomo carries a byte.
LEMMA MihomoKeepsAccounts ==
  ASSUME ReporterTypeOK, AccountsInv, CarryMihomo
  PROVE  AccountsInv'
<1>1. UNCHANGED <<flow, prevTotal, prevFlows, spoiled, stage, statusTotal>>
  BY DEF CarryMihomo
<1>2. \A a \in Account : OnTheWay(a)' = OnTheWay(a)
  BY SentOrLost DEF CarryMihomo
<1>3. /\ carried'["mihomo"] = carried["mihomo"] + 1
      /\ \A a \in Account \ {"mihomo"} : carried'[a] = carried[a]
      /\ total' = [total EXCEPT !["mihomo"] = @ + 1]
  BY AccountsAre DEF CarryMihomo, ReporterTypeOK
<1>4. CoreInv' /\ StatusInv'
  BY <1>1, <1>2, <1>3, AccountsAre, CoreCarries DEF AccountsInv
<1>5. ASSUME NEW u \in Payer
      PROVE  Within(u, OnTheWay(u)', UserDelta(u)', carried'[u], spoiled')
  <2>1. u \in Account \ {"mihomo"} /\ OnTheWay(u)' = OnTheWay(u) /\ UserDelta(u)' = UserDelta(u)
    BY <1>1, <1>2, AccountsAre, SameDeltas
  <2>2. QED
    BY <1>1, <1>3, <2>1 DEF AccountsInv, UsersInv
<1>6. QED
  BY <1>4, <1>5 DEF AccountsInv, UsersInv

\* A step that takes from what a core's counters say, and marks the core unless it
\* takes nothing.
LEMMA CoresLess ==
  ASSUME ReporterTypeOK, CoreInv, carried' = carried,
         \A k \in Counted :
           /\ OnTheWay(k)' \in Nat /\ OnTheWay(k)' <= OnTheWay(k)
           /\ TotalDelta(prevTotal'[k], total'[k]) \in Nat
           /\ TotalDelta(prevTotal'[k], total'[k]) <= TotalDelta(prevTotal[k], total[k])
           /\ k \notin spoiled' =>
                /\ k \notin spoiled /\ OnTheWay(k)' = OnTheWay(k)
                /\ total'[k] = total[k] /\ prevTotal'[k] = prevTotal[k]
  PROVE  CoreInv'
<1>1. ASSUME NEW k \in Counted
      PROVE  /\ Within(k, OnTheWay(k)', TotalDelta(prevTotal'[k], total'[k]), carried'[k], spoiled')
             /\ k \notin spoiled' => prevTotal'[k] <= total'[k]
  <2> DEFINE d == TotalDelta(prevTotal[k], total[k])
             e == TotalDelta(prevTotal'[k], total'[k])
             t == OnTheWay(k)'
  <2>1. /\ Within(k, OnTheWay(k), d, carried[k], spoiled)
        /\ k \notin spoiled => prevTotal[k] <= total[k]
    BY DEF CoreInv
  <2>2. OnTheWay(k) \in Nat /\ d \in Nat /\ carried[k] \in Nat
    BY AccountsAre, CountsAre
  <2>3. t \in Nat /\ t <= OnTheWay(k) /\ e \in Nat /\ e <= d
        /\ (k \notin spoiled' => k \notin spoiled /\ t = OnTheWay(k) /\ e = d)
    OBVIOUS
  <2>4. Within(k, t, e, carried[k], spoiled')
    <3> HIDE DEF t, d, e
    <3>1. QED
      BY <2>1, <2>2, <2>3, WithinLess
  <2>5. QED
    BY <2>1, <2>4
<1>2. QED
  BY <1>1 DEF CoreInv

\* The same of a total that was read before the step.
LEMMA StatusLess ==
  ASSUME ReporterTypeOK, StatusInv, carried' = carried, NEW k, k = "sing-box",
         stage' = "status" => stage = "status" /\ statusTotal' = statusTotal,
         prevTotal' = prevTotal, OnTheWay(k)' = OnTheWay(k),
         total'[k] \in Nat,
         TotalDelta(statusTotal, total'[k]) <= TotalDelta(statusTotal, total[k]),
         k \notin spoiled' => k \notin spoiled /\ total'[k] = total[k]
  PROVE  StatusInv'
<1> SUFFICES ASSUME stage' = "status"
             PROVE  StatusInv'
  BY DEF StatusInv
<1> DEFINE p == TotalDelta(prevTotal[k], statusTotal)
           d == TotalDelta(statusTotal, total[k])
           e == TotalDelta(statusTotal, total'[k])
<1>1. /\ Within(k, OnTheWay(k), p + d, carried[k], spoiled)
      /\ k \notin spoiled => prevTotal[k] <= statusTotal /\ statusTotal <= total[k]
  BY DEF StatusInv
<1>2. OnTheWay(k) \in Nat /\ p \in Nat /\ d \in Nat /\ carried[k] \in Nat
  BY AccountsAre, CountsAre
<1>3. e \in Nat
  <2>1. statusTotal \in Nat
    BY DEF ReporterTypeOK
  <2>2. QED
    BY <2>1, TotalDeltas
<1>4. e <= d /\ (k \notin spoiled' => k \notin spoiled /\ e = d)
  OBVIOUS
<1>5. Within(k, OnTheWay(k), p + e, carried[k], spoiled')
  <2> HIDE DEF p, d, e
  <2>1. p + e \in Nat /\ p + d \in Nat /\ p + e <= p + d
        /\ (k \notin spoiled' => k \notin spoiled /\ p + e = p + d)
    BY <1>2, <1>3, <1>4
  <2>2. OnTheWay(k) <= OnTheWay(k)
    BY <1>2
  <2>3. QED
    BY <1>1, <1>2, <2>1, <2>2, WithinLess
<1>6. k \notin spoiled' => prevTotal[k] <= statusTotal /\ statusTotal <= total'[k]
  BY <1>1
<1>7. QED
  BY <1>5, <1>6 DEF StatusInv

\* The same of the users.
LEMMA UsersLess ==
  ASSUME ReporterTypeOK, FlowsInv, UsersInv, carried' = carried,
         \A u \in Payer :
           /\ OnTheWay(u)' \in Nat /\ OnTheWay(u)' <= OnTheWay(u)
           /\ UserDelta(u)' \in Nat /\ UserDelta(u)' <= UserDelta(u)
           /\ u \notin spoiled' =>
                /\ u \notin spoiled /\ OnTheWay(u)' = OnTheWay(u)
                /\ UserDelta(u)' = UserDelta(u)
  PROVE  UsersInv'
<1>1. ASSUME NEW u \in Payer
      PROVE  Within(u, OnTheWay(u)', UserDelta(u)', carried'[u], spoiled')
  <2> DEFINE d == UserDelta(u)
             e == UserDelta(u)'
             t == OnTheWay(u)'
  <2>1. Within(u, OnTheWay(u), d, carried[u], spoiled)
    BY DEF UsersInv
  <2>2. OnTheWay(u) \in Nat /\ d \in Nat /\ carried[u] \in Nat
    BY AccountsAre, CountsAre, DeltasAre
  <2>3. t \in Nat /\ t <= OnTheWay(u) /\ e \in Nat /\ e <= d
        /\ (u \notin spoiled' => u \notin spoiled /\ t = OnTheWay(u) /\ e = d)
    OBVIOUS
  <2>4. Within(u, t, e, carried[u], spoiled')
    <3> HIDE DEF t, d, e
    <3>1. QED
      BY <2>1, <2>2, <2>3, WithinLess
  <2>5. QED
    BY <2>4
<1>2. QED
  BY <1>1 DEF UsersInv

\* The sums of the next state are natural numbers as well.
LEMMA DeltasStay ==
  ASSUME ReporterTypeOK', FlowsInv', NEW u
  PROVE  UserDelta(u)' \in Nat
<1>1. ASSUME NEW c \in Flow
      PROVE  LinkDelta(c)' \in Nat
  <2>1. flow'[c].bytes \in Nat /\ prevFlows'[c] \in Nat \cup {Unsampled}
    BY DEF ReporterTypeOK, Link
  <2>2. LinkDelta(c)' = TotalDelta(prevFlows'[c], flow'[c].bytes)
    BY DEF LinkDelta
  <2>3. QED
    BY <2>1, <2>2, TotalDeltas
<1>2. Deltas(u)' \in [Flow -> Nat]
  BY <1>1 DEF Deltas
<1>3. UserDelta(u)' = Sum(Deltas(u)')
  BY DEF UserDelta, Deltas
<1>4. QED
  BY <1>2, <1>3, SumIsNat

\* A connection closes.
LEMMA DisconnectKeepsAccounts ==
  ASSUME ReporterTypeOK, FlowsInv, AccountsInv, ReporterTypeOK', FlowsInv',
         NEW c \in Flow, Disconnect(c)
  PROVE  AccountsInv'
<1>1. /\ UNCHANGED <<total, prevTotal, carried, stage, statusTotal>>
      /\ spoiled' = spoiled \cup Unseen({c})
  BY DEF Disconnect
<1>2. \A a \in Account : OnTheWay(a)' = OnTheWay(a) /\ OnTheWay(a) \in Nat
  BY SentOrLost, CountsAre DEF Disconnect
<1>3. CoreInv'
  <2>1. \A k \in Counted : /\ OnTheWay(k)' = OnTheWay(k) /\ OnTheWay(k) \in Nat
                           /\ TotalDelta(prevTotal[k], total[k]) \in Nat
                           /\ k \notin spoiled' => k \notin spoiled
    BY <1>1, <1>2, AccountsAre, CountsAre
  <2>2. \A n \in Nat : n <= n
    OBVIOUS
  <2>3. QED
    BY <1>1, <2>1, <2>2, CoresLess DEF AccountsInv
<1>4. StatusInv'
  <2> DEFINE k == "sing-box"
  <2>1. OnTheWay(k)' = OnTheWay(k) /\ total'[k] \in Nat /\ TotalDelta(statusTotal, total[k]) \in Nat
    BY <1>1, <1>2, AccountsAre, CountsAre
  <2>2. TotalDelta(statusTotal, total'[k]) <= TotalDelta(statusTotal, total[k])
    BY <1>1, <2>1
  <2>3. QED
    BY <1>1, <2>1, <2>2, StatusLess DEF AccountsInv
<1>5. UsersInv'
  <2>1. flow' = [d \in Flow |-> IF d \in {c} THEN NoLink ELSE flow[d]]
        /\ \A d \in Flow \ {c} : prevFlows'[d] = prevFlows[d]
    BY DEF Disconnect, ReporterTypeOK
  <2>2. ASSUME NEW u \in Payer
        PROVE  /\ OnTheWay(u)' \in Nat /\ OnTheWay(u)' <= OnTheWay(u)
               /\ UserDelta(u)' \in Nat /\ UserDelta(u)' <= UserDelta(u)
               /\ u \notin spoiled' =>
                    /\ u \notin spoiled /\ OnTheWay(u)' = OnTheWay(u)
                    /\ UserDelta(u)' = UserDelta(u)
    <3>1. UserDelta(u)' <= UserDelta(u) /\ (u \notin Unseen({c}) => UserDelta(u)' = UserDelta(u))
      BY <2>1, EndedFlows
    <3>2. UserDelta(u)' \in Nat
      BY DeltasStay
    <3>3. OnTheWay(u)' = OnTheWay(u) /\ OnTheWay(u)' \in Nat /\ OnTheWay(u)' <= OnTheWay(u)
      BY <1>2, AccountsAre
    <3>4. QED
      BY <1>1, <3>1, <3>2, <3>3
  <2>3. QED
    BY <1>1, <2>2, UsersLess DEF AccountsInv
<1>6. QED
  BY <1>3, <1>4, <1>5 DEF AccountsInv

\* A core starts again.
LEMMA RestartKeepsAccounts ==
  ASSUME ReporterTypeOK, FlowsInv, AccountsInv, ReporterTypeOK', FlowsInv',
         NEW k \in Counted, CoreRestarts(k)
  PROVE  AccountsInv'
<1>1. /\ UNCHANGED <<prevTotal, carried, stage, statusTotal>>
      /\ spoiled \cup {k} \subseteq spoiled'
      /\ total'[k] = 0 /\ \A l \in Counted \ {k} : total'[l] = total[l]
  BY DEF CoreRestarts, ReporterTypeOK
<1>2. \A a \in Account : OnTheWay(a)' = OnTheWay(a) /\ OnTheWay(a) \in Nat
                         /\ OnTheWay(a) <= OnTheWay(a)
  <2>1. \A a \in Account : OnTheWay(a)' = OnTheWay(a) /\ OnTheWay(a) \in Nat
    BY SentOrLost, CountsAre DEF CoreRestarts
  <2>2. \A n \in Nat : n <= n
    OBVIOUS
  <2>3. QED
    BY <2>1, <2>2
<1>3. CoreInv'
  <2>1. ASSUME NEW l \in Counted
        PROVE  /\ OnTheWay(l)' \in Nat /\ OnTheWay(l)' <= OnTheWay(l)
               /\ TotalDelta(prevTotal'[l], total'[l]) \in Nat
               /\ TotalDelta(prevTotal'[l], total'[l]) <= TotalDelta(prevTotal[l], total[l])
               /\ l \notin spoiled' =>
                    /\ l \notin spoiled /\ OnTheWay(l)' = OnTheWay(l)
                    /\ total'[l] = total[l] /\ prevTotal'[l] = prevTotal[l]
    <3>1. /\ OnTheWay(l)' = OnTheWay(l) /\ OnTheWay(l) \in Nat /\ OnTheWay(l) <= OnTheWay(l)
          /\ TotalDelta(prevTotal[l], total[l]) \in Nat /\ TotalDelta(prevTotal[l], 0) = 0
      BY <1>2, AccountsAre, CountsAre, TotalDeltas
    <3>2. CASE l = k
      <4>1. TotalDelta(prevTotal'[l], total'[l]) = 0 /\ l \in spoiled'
        BY <1>1, <3>1, <3>2
      <4>2. QED
        BY <3>1, <4>1
    <3>3. CASE l # k
      <4>1. TotalDelta(prevTotal'[l], total'[l]) = TotalDelta(prevTotal[l], total[l])
            /\ total'[l] = total[l] /\ prevTotal'[l] = prevTotal[l]
            /\ (l \notin spoiled' => l \notin spoiled)
        BY <1>1, <3>3
      <4>2. QED
        BY <3>1, <4>1
    <3>4. QED
      BY <3>2, <3>3
  <2>2. QED
    BY <1>1, <2>1, CoresLess DEF AccountsInv
<1>4. StatusInv'
  <2> DEFINE l == "sing-box"
  <2>1. /\ OnTheWay(l)' = OnTheWay(l) /\ total[l] \in Nat /\ statusTotal \in Nat
        /\ TotalDelta(statusTotal, total[l]) \in Nat /\ TotalDelta(statusTotal, 0) = 0
        /\ l \in Counted
    BY <1>2, AccountsAre, CountsAre, TotalDeltas DEF ReporterTypeOK
  <2>2. total'[l] = 0 \/ total'[l] = total[l]
    BY <1>1, <2>1
  <2>3. /\ total'[l] \in Nat
        /\ TotalDelta(statusTotal, total'[l]) <= TotalDelta(statusTotal, total[l])
    BY <2>1, <2>2
  <2>4. l \notin spoiled' => l \notin spoiled /\ total'[l] = total[l]
    BY <1>1, <2>1
  <2>5. QED
    BY <1>1, <2>1, <2>3, <2>4, StatusLess DEF AccountsInv
<1>5. UsersInv'
  <2>1. ASSUME NEW u \in Payer
        PROVE  /\ OnTheWay(u)' \in Nat /\ OnTheWay(u)' <= OnTheWay(u)
               /\ UserDelta(u)' \in Nat /\ UserDelta(u)' <= UserDelta(u)
               /\ u \notin spoiled' =>
                    /\ u \notin spoiled /\ OnTheWay(u)' = OnTheWay(u)
                    /\ UserDelta(u)' = UserDelta(u)
    <3>1. OnTheWay(u)' = OnTheWay(u) /\ OnTheWay(u)' \in Nat /\ OnTheWay(u)' <= OnTheWay(u)
          /\ UserDelta(u) \in Nat /\ UserDelta(u)' \in Nat
          /\ (u \notin spoiled' => u \notin spoiled)
      BY <1>1, <1>2, AccountsAre, DeltasAre, DeltasStay
    <3>2. CASE k = "mihomo"
      <4>1. UserDelta(u)' = UserDelta(u)
        BY <3>2, SameDeltas DEF CoreRestarts
      <4>2. QED
        BY <3>1, <4>1
    <3>3. CASE k # "mihomo"
      <4>1. /\ flow' = [c \in Flow |-> IF c \in Flow THEN NoLink ELSE flow[c]]
            /\ Unseen(Flow) \subseteq spoiled'
        BY <3>3 DEF CoreRestarts
      <4>2. UserDelta(u)' <= UserDelta(u) /\ (u \notin Unseen(Flow) => UserDelta(u)' = UserDelta(u))
        BY <4>1, EndedFlows
      <4>3. QED
        BY <3>1, <4>1, <4>2
    <3>4. QED
      BY <3>2, <3>3
  <2>2. QED
    BY <1>1, <2>1, UsersLess DEF AccountsInv
<1>6. QED
  BY <1>3, <1>4, <1>5 DEF AccountsInv

\* A snapshot moves what it finds to the report.
LEMMA SnapshotKeepsAccounts ==
  ASSUME ReporterTypeOK, StagesInv, FlowsInv, AccountsInv, Snapshot
  PROVE  AccountsInv'
<1> DEFINE k == "sing-box"
<1>1. /\ UNCHANGED <<flow, total, carried, spoiled>> /\ stage = "status" /\ stage' = "mihomo"
      /\ prevTotal'[k] = statusTotal /\ prevTotal'["mihomo"] = prevTotal["mihomo"]
  BY AccountsAre DEF Snapshot, ReporterTypeOK
<1>2. ASSUME NEW a \in Account
      PROVE  OnTheWay(a)' = OnTheWay(a) + report'[a]
  <2>1. report[a] = 0
    BY <1>1 DEF StagesInv, Nothing
  <2>2. received[a] \in Nat /\ outgoing.sum[a] \in Nat /\ report'[a] \in Nat
    BY SampleIs DEF ReporterTypeOK
  <2>3. received' = received /\ outgoing' = outgoing
    BY DEF Snapshot
  <2>4. QED
    BY <2>1, <2>2, <2>3 DEF OnTheWay
<1>3. CoreInv'
  <2>1. /\ Within(k, OnTheWay(k)', TotalDelta(prevTotal'[k], total'[k]), carried'[k], spoiled')
        /\ k \notin spoiled' => prevTotal'[k] <= total'[k]
    <3> DEFINE p == TotalDelta(prevTotal[k], statusTotal)
               d == TotalDelta(statusTotal, total[k])
    <3>1. /\ Within(k, OnTheWay(k), p + d, carried[k], spoiled)
          /\ k \notin spoiled => statusTotal <= total[k]
      BY <1>1 DEF AccountsInv, StatusInv
    <3>2. OnTheWay(k) \in Nat /\ p \in Nat /\ d \in Nat /\ carried[k] \in Nat
      BY AccountsAre, CountsAre
    <3>3. OnTheWay(k)' = OnTheWay(k) + p
      BY <1>2, SampleIs, AccountsAre
    <3>4. Within(k, OnTheWay(k) + p, d, carried[k], spoiled)
      <4> HIDE DEF p, d
      <4>1. p + d \in Nat /\ OnTheWay(k) + p \in Nat
            /\ (OnTheWay(k) + p) + d = OnTheWay(k) + (p + d)
        BY <3>2
      <4>2. QED
        BY <3>1, <3>2, <4>1, WithinMoved
    <3>5. QED
      BY <1>1, <3>1, <3>3, <3>4
  <2>2. /\ Within("mihomo", OnTheWay("mihomo")', TotalDelta(prevTotal'["mihomo"], total'["mihomo"]),
                  carried'["mihomo"], spoiled')
        /\ "mihomo" \notin spoiled' => prevTotal'["mihomo"] <= total'["mihomo"]
    <3>1. OnTheWay("mihomo")' = OnTheWay("mihomo")
      <4>1. OnTheWay("mihomo")' = OnTheWay("mihomo") + 0 /\ OnTheWay("mihomo") \in Nat
        BY <1>2, SampleIs, AccountsAre, CountsAre
      <4>2. QED
        BY <4>1
    <3>2. QED
      BY <1>1, <3>1, AccountsAre DEF AccountsInv, CoreInv
  <2>3. QED
    BY <2>1, <2>2 DEF CoreInv, Counted
<1>4. StatusInv'
  BY <1>1 DEF StatusInv
<1>5. ASSUME NEW u \in Payer
      PROVE  Within(u, OnTheWay(u)', UserDelta(u)', carried'[u], spoiled')
  <2>1. UserDelta(u)' = 0
    <3>1. ASSUME NEW c \in Flow PROVE Deltas(u)'[c] = 0
      <4>1. CASE ~Shows(c, u)'
        BY <4>1 DEF Deltas
      <4>2. CASE Shows(c, u)'
        <5>1. Shown(c)
          BY <1>1, <4>2 DEF Shows, Shown
        <5>2. prevFlows'[c] = flow[c].bytes /\ flow[c].bytes \in Nat
          BY <5>1 DEF Snapshot, ReporterTypeOK, Link
        <5>3. TotalDelta(flow[c].bytes, flow[c].bytes) = 0
          BY <5>2, TotalDeltas
        <5>4. LinkDelta(c)' = TotalDelta(prevFlows'[c], flow'[c].bytes)
          BY DEF LinkDelta
        <5>5. LinkDelta(c)' = 0
          BY <1>1, <5>2, <5>3, <5>4
        <5>6. QED
          BY <5>5 DEF Deltas
      <4>3. QED
        BY <4>1, <4>2
    <3>2. Deltas(u)' \in [Flow -> Nat]
      <4>1. Deltas(u)' = [c \in Flow |-> Deltas(u)'[c]]
        BY DEF Deltas
      <4>2. QED
        BY <3>1, <4>1
    <3>3. UserDelta(u)' = Sum(Deltas(u)')
      BY DEF UserDelta, Deltas
    <3>4. QED
      BY <3>1, <3>2, <3>3, SumOfNothing
  <2>2. OnTheWay(u)' = OnTheWay(u) + UserDelta(u)
    BY <1>2, SampleIs, AccountsAre
  <2>3. /\ Within(u, OnTheWay(u), UserDelta(u), carried[u], spoiled)
        /\ OnTheWay(u) \in Nat /\ UserDelta(u) \in Nat /\ carried[u] \in Nat
    BY AccountsAre, CountsAre, DeltasAre DEF AccountsInv, UsersInv
  <2>4. Within(u, OnTheWay(u) + UserDelta(u), 0, carried[u], spoiled)
    <3>1. OnTheWay(u) + UserDelta(u) \in Nat
          /\ (OnTheWay(u) + UserDelta(u)) + 0 = OnTheWay(u) + UserDelta(u)
      BY <2>3
    <3>2. QED
      BY <2>3, <3>1, WithinMoved
  <2>5. QED
    BY <1>1, <2>1, <2>2, <2>4
<1>6. QED
  BY <1>3, <1>4, <1>5 DEF AccountsInv, UsersInv

\* So does a sample of mihomo.
LEMMA SampleKeepsAccounts ==
  ASSUME ReporterTypeOK, StagesInv, AccountsInv, SampleMihomo
  PROVE  AccountsInv'
<1> DEFINE k == "mihomo"
           d == TotalDelta(prevTotal[k], total[k])
<1>1. /\ UNCHANGED <<flow, prevFlows, total, carried, spoiled>> /\ stage' = "send"
      /\ prevTotal'[k] = total[k] /\ prevTotal'["sing-box"] = prevTotal["sing-box"]
      /\ report'[k] = d /\ report[k] = 0
      /\ \A a \in Account \ {k} : report'[a] = report[a]
  BY AccountsAre DEF SampleMihomo, ReporterTypeOK, StagesInv
<1>2. \A a \in Account \ {k} : OnTheWay(a)' = OnTheWay(a)
  BY <1>1 DEF OnTheWay, SampleMihomo
<1>3. OnTheWay(k)' = OnTheWay(k) + d /\ OnTheWay(k) \in Nat /\ d \in Nat /\ carried[k] \in Nat
      /\ total[k] \in Nat
  <2>1. received[k] \in Nat /\ outgoing.sum[k] \in Nat
    BY AccountsAre DEF ReporterTypeOK
  <2>2. d \in Nat /\ OnTheWay(k) \in Nat /\ carried[k] \in Nat /\ total[k] \in Nat
    BY AccountsAre, CountsAre
  <2>3. received' = received /\ outgoing' = outgoing
    BY DEF SampleMihomo
  <2> HIDE DEF d
  <2>4. QED
    BY <1>1, <2>1, <2>2, <2>3 DEF OnTheWay
<1>4. CoreInv'
  <2>1. /\ Within(k, OnTheWay(k)', TotalDelta(prevTotal'[k], total'[k]), carried'[k], spoiled')
        /\ k \notin spoiled' => prevTotal'[k] <= total'[k]
    <3>1. Within(k, OnTheWay(k), d, carried[k], spoiled)
      BY AccountsAre DEF AccountsInv, CoreInv
    <3>2. TotalDelta(prevTotal'[k], total'[k]) = 0
      <4>1. TotalDelta(total[k], total[k]) = 0
        BY <1>3, TotalDeltas
      <4>2. QED
        BY <1>1, <4>1
    <3>3. Within(k, OnTheWay(k) + d, 0, carried[k], spoiled)
      <4> HIDE DEF d
      <4>1. OnTheWay(k) + d \in Nat /\ (OnTheWay(k) + d) + 0 = OnTheWay(k) + d
        BY <1>3
      <4>2. QED
        BY <1>3, <3>1, <4>1, WithinMoved
    <3>4. prevTotal'[k] <= total'[k]
      BY <1>1, <1>3
    <3>5. QED
      BY <1>1, <1>3, <3>2, <3>3, <3>4
  <2>2. \A l \in Counted \ {k} :
          /\ Within(l, OnTheWay(l)', TotalDelta(prevTotal'[l], total'[l]), carried'[l], spoiled')
          /\ l \notin spoiled' => prevTotal'[l] <= total'[l]
    <3>1. \A l \in Counted \ {k} : l = "sing-box"
      BY DEF Counted
    <3>2. OnTheWay("sing-box")' = OnTheWay("sing-box")
      BY <1>2, AccountsAre
    <3>3. QED
      BY <1>1, <3>1, <3>2 DEF AccountsInv, CoreInv
  <2>3. QED
    BY <2>1, <2>2 DEF CoreInv
<1>5. StatusInv'
  BY <1>1 DEF StatusInv
<1>6. ASSUME NEW u \in Payer
      PROVE  Within(u, OnTheWay(u)', UserDelta(u)', carried'[u], spoiled')
  <2>1. OnTheWay(u)' = OnTheWay(u) /\ UserDelta(u)' = UserDelta(u)
    BY <1>1, <1>2, AccountsAre, SameDeltas
  <2>2. QED
    BY <1>1, <2>1 DEF AccountsInv, UsersInv
<1>7. QED
  BY <1>4, <1>5, <1>6 DEF AccountsInv, UsersInv

\* A stream that breaks loses what is marked.
LEMMA StreamKeepsAccounts ==
  ASSUME ReporterTypeOK, FlowsInv, AccountsInv, StreamFails
  PROVE  AccountsInv'
<1>1. /\ UNCHANGED <<flow, total, prevTotal, prevFlows, received, carried>> /\ stage' = "idle"
      /\ spoiled' = spoiled \cup Dropped
      /\ report' = Nothing /\ outgoing' = [n |-> 0, sum |-> Nothing]
  BY DEF StreamFails
<1>2. \A a \in Account :
        /\ OnTheWay(a)' \in Nat /\ OnTheWay(a)' <= OnTheWay(a)
        /\ a \notin spoiled' => a \notin spoiled /\ OnTheWay(a)' = OnTheWay(a)
  BY <1>1, SentOrLost
<1>3. \A n \in Nat : n <= n
  OBVIOUS
<1>4. CoreInv'
  <2>1. \A k \in Counted : TotalDelta(prevTotal[k], total[k]) \in Nat
    BY CountsAre
  <2>2. \A k \in Counted :
          /\ OnTheWay(k)' \in Nat /\ OnTheWay(k)' <= OnTheWay(k)
          /\ k \notin spoiled' => k \notin spoiled /\ OnTheWay(k)' = OnTheWay(k)
    BY <1>2, AccountsAre
  <2>3. QED
    BY <1>1, <1>3, <2>1, <2>2, CoresLess DEF AccountsInv
<1>5. StatusInv'
  BY <1>1 DEF StatusInv
<1>6. UsersInv'
  <2>1. \A u \in Payer : UserDelta(u)' = UserDelta(u) /\ UserDelta(u) \in Nat
    BY <1>1, SameDeltas, DeltasAre
  <2>2. \A u \in Payer :
          /\ OnTheWay(u)' \in Nat /\ OnTheWay(u)' <= OnTheWay(u)
          /\ u \notin spoiled' => u \notin spoiled /\ OnTheWay(u)' = OnTheWay(u)
    BY <1>2, AccountsAre
  <2>3. QED
    BY <1>1, <1>3, <2>1, <2>2, UsersLess DEF AccountsInv
<1>7. QED
  BY <1>4, <1>5, <1>6 DEF AccountsInv

\* An Agent that ends takes its cores and its last sample with it.
LEMMA AgentKeepsAccounts ==
  ASSUME ReporterTypeOK, FlowsInv, AccountsInv, ReporterTypeOK', FlowsInv', AgentRestarts(FALSE)
  PROVE  AccountsInv'
<1>1. /\ UNCHANGED <<received, carried>> /\ stage' = "idle"
      /\ spoiled' = spoiled \cup Dropped \cup Unseen(Flow) \cup Counted
      /\ report' = Nothing /\ outgoing' = [n |-> 0, sum |-> Nothing]
      /\ total' = [k \in Counted |-> 0] /\ prevTotal' = [k \in Counted |-> Unsampled]
      /\ flow' = [c \in Flow |-> IF c \in Flow THEN NoLink ELSE flow[c]]
  BY DEF AgentRestarts
<1>2. \A a \in Account :
        /\ OnTheWay(a)' \in Nat /\ OnTheWay(a)' <= OnTheWay(a)
        /\ a \notin spoiled' => a \notin spoiled /\ OnTheWay(a)' = OnTheWay(a)
  BY <1>1, SentOrLost
<1>3. CoreInv'
  <2>1. ASSUME NEW k \in Counted
        PROVE  /\ TotalDelta(prevTotal'[k], total'[k]) \in Nat
               /\ TotalDelta(prevTotal'[k], total'[k]) <= TotalDelta(prevTotal[k], total[k])
               /\ k \in spoiled'
    <3>1. TotalDelta(prevTotal'[k], total'[k]) = 0
      BY <1>1 DEF TotalDelta
    <3>2. TotalDelta(prevTotal[k], total[k]) \in Nat
      BY CountsAre
    <3>3. QED
      BY <1>1, <3>1, <3>2
  <2>2. \A k \in Counted : OnTheWay(k)' \in Nat /\ OnTheWay(k)' <= OnTheWay(k)
    BY <1>2, AccountsAre
  <2>3. QED
    BY <1>1, <2>1, <2>2, CoresLess DEF AccountsInv
<1>4. StatusInv'
  BY <1>1 DEF StatusInv
<1>5. UsersInv'
  <2>1. ASSUME NEW u \in Payer
        PROVE  /\ UserDelta(u)' \in Nat /\ UserDelta(u)' <= UserDelta(u)
               /\ u \notin spoiled' => UserDelta(u)' = UserDelta(u)
    <3>1. UserDelta(u)' <= UserDelta(u) /\ (u \notin Unseen(Flow) => UserDelta(u)' = UserDelta(u))
      BY <1>1, EndedFlows
    <3>2. QED
      BY <1>1, <3>1, DeltasStay
  <2>2. \A u \in Payer :
          /\ OnTheWay(u)' \in Nat /\ OnTheWay(u)' <= OnTheWay(u)
          /\ u \notin spoiled' => u \notin spoiled /\ OnTheWay(u)' = OnTheWay(u)
    BY <1>2, AccountsAre
  <2>3. QED
    BY <1>1, <2>1, <2>2, UsersLess DEF AccountsInv
<1>6. QED
  BY <1>3, <1>4, <1>5 DEF AccountsInv

\* Nothing is carried at the beginning.
LEMMA ReporterInitInv == ReporterInit => ReporterInv
<1> SUFFICES ASSUME ReporterInit PROVE ReporterInv
  OBVIOUS
<1>1. ReporterTypeOK /\ StagesInv
  BY AccountsAre DEF ReporterInit, ReporterTypeOK, StagesInv, Unsampled
<1>2. FlowsInv
  BY DEF ReporterInit, FlowsInv, NoLink, Unsampled
<1>3. /\ \A a \in Account : OnTheWay(a) = 0 /\ carried[a] = 0
      /\ \A k \in Counted : prevTotal[k] = Unsampled /\ total[k] = 0
      /\ stage = "idle"
  BY AccountsAre DEF ReporterInit, OnTheWay, Nothing
<1>4. CoreInv /\ StatusInv
  BY <1>3, AccountsAre DEF CoreInv, StatusInv, Within, TotalDelta, Unsampled
<1>5. ASSUME NEW u \in Payer PROVE Within(u, OnTheWay(u), UserDelta(u), carried[u], spoiled)
  <2>1. \A c \in Flow : Deltas(u)[c] = 0
    BY DEF Deltas, Shows, Shown, ReporterInit, NoLink
  <2>2. UserDelta(u) = 0
    BY <1>1, <1>2, <2>1, DeltasAre, SumOfNothing
  <2>3. QED
    BY <1>3, <2>2, AccountsAre DEF Within
<1>6. QED
  BY <1>1, <1>2, <1>4, <1>5 DEF ReporterInv, UsersInv

\* Every step keeps the invariant.
LEMMA ReporterStepInv == ReporterInv /\ [ReporterNext]_reporterVars => ReporterInv'
<1> SUFFICES ASSUME ReporterInv, [ReporterNext]_reporterVars
             PROVE  ReporterInv'
  OBVIOUS
<1>1. /\ ReporterTypeOK /\ StagesInv /\ FlowsInv
      /\ ReporterTypeOK' /\ StagesInv' /\ FlowsInv'
  BY ReporterStepTypes, ReporterStepFlows DEF ReporterInv
<1> SUFFICES ASSUME ~outlived' PROVE AccountsInv'
  BY <1>1 DEF ReporterInv, AccountsInv
<1>2. ~outlived /\ ~AgentRestarts(TRUE)
  <2>1. ~AgentRestarts(TRUE)
    BY DEF AgentRestarts
  <2>2. ASSUME NEW stay \in BOOLEAN, AgentRestarts(stay) PROVE ~outlived
    BY <2>1, <2>2 DEF AgentRestarts
  <2>3. ASSUME NEW c \in Flow, \/ Carry(c) \/ Disconnect(c)
                               \/ \E u \in Payer \cup {NoPayer} : Connect(c, u)
        PROVE  ~outlived
    BY <2>3 DEF Carry, Disconnect, Connect
  <2>4. ASSUME NEW k \in Counted, CoreRestarts(k) PROVE ~outlived
    BY <2>4 DEF CoreRestarts
  <2>5. Collect => ~outlived
    BY DEF Collect, ReadStatus, Snapshot, SingboxFails, SampleMihomo, MihomoFails, SendReport
  <2>6. \/ CarryMihomo \/ ReceiveReports \/ StreamFails \/ Reconnect
        \/ FallsSilent \/ AnswersAgain \/ UNCHANGED reporterVars
        => ~outlived
    BY DEF CarryMihomo, ReceiveReports, StreamFails, Reconnect, FallsSilent, AnswersAgain, reporterVars
  <2>7. QED
    BY <2>1, <2>2, <2>3, <2>4, <2>5, <2>6 DEF ReporterNext
<1>3. AccountsInv
  BY <1>2 DEF ReporterInv, AccountsInv
<1>4. CASE UNCHANGED reporterVars
  <2>1. UNCHANGED <<flow, total, prevTotal, prevFlows, carried, spoiled, stage, statusTotal>>
    BY <1>4 DEF reporterVars
  <2>2. \A a \in Account : OnTheWay(a)' = OnTheWay(a)
    BY <1>1, <1>4, SentOrLost DEF reporterVars
  <2>3. \A u \in Payer : UserDelta(u)' = UserDelta(u)
    BY <2>1, SameDeltas
  <2>4. QED
    BY <1>3, <2>1, <2>2, <2>3, CoresKept, StatusKept, UsersKept DEF AccountsInv
<1>5. CASE \E stay \in BOOLEAN : AgentRestarts(stay)
  BY <1>1, <1>2, <1>3, <1>5, AgentKeepsAccounts
<1>6. QED
  BY <1>1, <1>3, <1>4, <1>5, SendingKeepsAccounts, ConnectKeepsAccounts, CarryKeepsAccounts,
     MihomoKeepsAccounts, DisconnectKeepsAccounts, RestartKeepsAccounts,
     SnapshotKeepsAccounts, SampleKeepsAccounts, StreamKeepsAccounts
     DEF ReporterNext, Collect

\* reporter.rs: no byte is reported twice, and none is forgotten that no connection, core
\* or stream took with it.
THEOREM ReportsAlwaysExact == ReporterSpec => []ReportsAreExact
<1>1. ReporterInv => ReportsAreExact
  <2> SUFFICES ASSUME ReporterInv, ~outlived, NEW a \in Account
               PROVE  /\ OnTheWay(a) <= carried[a]
                      /\ a \notin spoiled => OnTheWay(a) + NotYet(a) = carried[a]
    BY DEF ReportsAreExact
  <2>1. ReporterTypeOK /\ FlowsInv /\ CoreInv /\ UsersInv
    BY DEF ReporterInv
  <2>2. OnTheWay(a) \in Nat /\ carried[a] \in Nat
    BY <2>1, CountsAre
  <2>3. CASE a \in Counted
    <3>1. /\ Within(a, OnTheWay(a), TotalDelta(prevTotal[a], total[a]), carried[a], spoiled)
          /\ a \notin spoiled => prevTotal[a] <= total[a]
      BY <2>1, <2>3 DEF CoreInv
    <3>2. TotalDelta(prevTotal[a], total[a]) \in Nat
      BY <2>1, <2>3, CountsAre
    <3>3. a \notin spoiled => NotYet(a) = TotalDelta(prevTotal[a], total[a])
      BY <2>1, <2>3, <3>1, CountsAre, TotalDeltas DEF NotYet
    <3>4. QED
      BY <2>2, <3>1, <3>2, <3>3 DEF Within
  <2>4. CASE a \in Payer
    <3>1. /\ Within(a, OnTheWay(a), UserDelta(a), carried[a], spoiled)
          /\ UserDelta(a) \in Nat /\ NotYet(a) = UserDelta(a)
      BY <2>1, <2>4, DeltasAre, NotYetIsDelta DEF UsersInv
    <3>2. QED
      BY <2>2, <3>1 DEF Within
  <2>5. QED
    BY <2>3, <2>4 DEF Account
<1>2. QED
  BY <1>1, ReporterInitInv, ReporterStepInv, PTL DEF ReporterSpec
=============================================================================
