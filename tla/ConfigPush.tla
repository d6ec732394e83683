----------------------------- MODULE ConfigPush -----------------------------
(***************************************************************************)
(* How a configuration change in the panel's database reaches the cores of *)
(* one node: the "pending update" mark, the pushers of the Hub (administra-*)
(* tor requests and the scheduler pass), the FIFO stream to the Agent, the *)
(* Agent's handling of a push and its snapshot on disk, and the version    *)
(* the Hub records per core in AppState.agents.                            *)
(*                                                                         *)
(* The module runs on top of AgentSession: an entry of AppState.agents is  *)
(* what a push is sent on and what the recorded versions live in.  A       *)
(* configuration stands for its text together with the build id of its     *)
(* core; the version the code computes (push_version_of, a SHA-256 prefix) *)
(* is assumed to identify it, so configuration and version are one value.  *)
(***************************************************************************)
EXTENDS AgentSession

CONSTANTS
  Core,         \* the cores of the node: a subset of {"sing-box", "mihomo"}
  Config,       \* configurations of a core
  EmptyConfig,  \* the configuration generated when no binding is active
  NoConfig,     \* no binding, nothing recorded, no snapshot, or not running
  Blank,        \* the version "" recorded after a Stop; as a message, the Stop
  Pusher,       \* "scheduler" and the administrators pushing at once
  EditKind,     \* which of the edits below occur
  MayFail,      \* a core may refuse a configuration, a snapshot write may fail
  HubMayStop,   \* the Hub may be stopped and started
  MaxQueue,     \* bound: messages on their way to the Agent
  MaxEdits,     \* bound: edits of the database
  MaxPushes     \* bound: pushes started

ASSUME PushAssumption ==
  /\ Core \subseteq {"sing-box", "mihomo"}
  /\ EmptyConfig \in Config
  /\ NoConfig \notin Config /\ Blank \notin Config /\ NoConfig # Blank
  /\ EditKind \subseteq {"config", "binding", "move", "delete"}
  /\ MayFail \in BOOLEAN /\ HubMayStop \in BOOLEAN
  /\ MaxQueue \in Nat \ {0} /\ MaxEdits \in Nat /\ MaxPushes \in Nat

VARIABLES
  desired,   \* core -> what generate_node_config yields; NoConfig: no active binding
  pending,   \* core -> the node has a row in node_pending_updates
  unmarked,  \* core -> an update handler has saved and not yet marked
  recorded,  \* core -> AgentConnection.config_versions of the entry
  push,      \* pusher -> the push it is executing
  chan,      \* stream -> Hub messages the Agent has not handled
  report,    \* stream -> core_config_versions of its Register request
  agentUp,   \* the Agent process runs
  snapshot,  \* core -> last_config.<core>.json on the Agent's disk
  running,   \* core -> the configuration its process runs
  edits, pushes,  \* counters of the bounds
  offered,   \* history: core -> configurations send_to_agent took
  accepted,  \* history: core -> configurations a start or reload succeeded with
  delivered, \* history: core -> the last configuration send_to_agent took
  doubt      \* history: core -> why recorded may differ from the snapshot

dbVars    == <<desired, pending, unmarked, edits>>
hubVars   == <<recorded, push, pushes>>
agentVars == <<agentUp, snapshot, running>>
historyVars == <<offered, accepted, delivered, doubt>>
pushVars  == <<dbVars, hubVars, chan, report, agentVars, historyVars>>
allVars   == <<sessionVars, pushVars>>

Bound == Config \ {EmptyConfig}
Idle == [pc |-> "idle", core |-> NoConfig, config |-> NoConfig,
         restart |-> FALSE, via |-> NoConn]
PushState == [pc : {"idle", "built", "sent", "recorded"},
              core : Core \union {NoConfig},
              config : Config \union {NoConfig, Blank},
              restart : BOOLEAN, via : Conn \union {NoConn}]
ToAgent == [core : Core, config : Config \union {Blank}, restart : BOOLEAN]
Nothing == [c \in Core |-> NoConfig]

\* The node has an entry and the Agent still listens on its stream.
Reachable == entry # NoConn /\ link[entry] = "open"

PushTypeOK ==
  /\ desired \in [Core -> Bound \union {NoConfig}]
  /\ pending \in [Core -> BOOLEAN]
  /\ unmarked \in [Core -> BOOLEAN]
  /\ recorded \in [Core -> Config \union {NoConfig, Blank}]
  /\ push \in [Pusher -> PushState]
  /\ \A p \in Pusher : push[p].pc # "idle" =>
       push[p].core \in Core /\ push[p].config # NoConfig
  /\ chan \in [Conn -> Seq(ToAgent)]
  /\ report \in [Conn -> [Core -> Config \union {NoConfig}]]
  /\ agentUp \in BOOLEAN
  /\ snapshot \in [Core -> Config \union {NoConfig}]
  /\ running \in [Core -> Config \union {NoConfig}]
  /\ edits \in Nat /\ pushes \in Nat
  /\ offered \in [Core -> SUBSET Config]
  /\ accepted \in [Core -> SUBSET Config]
  /\ delivered \in [Core -> Config \union {NoConfig}]
  /\ doubt \in [Core -> BOOLEAN]

\* A node whose bindings were set up, and marked, before its Agent ever ran.
PushInit ==
  /\ SessionInit
  /\ desired \in [Core -> Bound \union {NoConfig}]
  /\ pending = [c \in Core |-> desired[c] # NoConfig]
  /\ unmarked = [c \in Core |-> FALSE]
  /\ recorded = Nothing
  /\ push = [p \in Pusher |-> Idle]
  /\ chan = [k \in Conn |-> <<>>]
  /\ report = [k \in Conn |-> Nothing]
  /\ agentUp = FALSE
  /\ snapshot = Nothing
  /\ running = Nothing
  /\ edits = 0 /\ pushes = 0
  /\ offered = [c \in Core |-> {}]
  /\ accepted = [c \in Core |-> {}]
  /\ delivered = Nothing
  /\ doubt = [c \in Core |-> FALSE]

-----------------------------------------------------------------------------
(* Edits of the database.  The request saves first and marks afterwards; a *)
(* failed mark is only logged.                                             *)

Edit(kind) == kind \in EditKind /\ edits < MaxEdits /\ edits' = edits + 1

Untouched == UNCHANGED <<sessionVars, hubVars, chan, report, agentVars, historyVars>>

\* update_config of a protocol config in use, or activate_core_version.
UpdateConfig(c, x) ==
  /\ Edit("config")
  /\ desired[c] \notin {NoConfig, x}
  /\ desired' = [desired EXCEPT ![c] = x]
  /\ unmarked' = [unmarked EXCEPT ![c] = TRUE]
  /\ UNCHANGED pending /\ Untouched

\* update_config that moves the node's only protocol config of core c to core
\* d: only the new core is marked.
MoveConfig(c, d, x) ==
  /\ Edit("move")
  /\ c # d /\ desired[c] # NoConfig
  /\ desired' = [desired EXCEPT ![c] = NoConfig, ![d] = x]
  /\ unmarked' = [unmarked EXCEPT ![d] = TRUE]
  /\ UNCHANGED pending /\ Untouched

\* delete_config takes the bindings with it and marks both cores.
DeleteConfig(c, x) ==
  /\ Edit("delete")
  /\ desired[c] # NoConfig
  /\ x \in (Bound \union {NoConfig}) \ {desired[c]}
  /\ desired' = [desired EXCEPT ![c] = x]
  /\ unmarked' = [d \in Core |-> TRUE]
  /\ UNCHANGED pending /\ Untouched

\* A binding is created, changed or deleted: the routes of bindings mark nothing.
EditBinding(c, x) ==
  /\ Edit("binding")
  /\ x \in (Bound \union {NoConfig}) \ {desired[c]}
  /\ desired' = [desired EXCEPT ![c] = x]
  /\ UNCHANGED <<pending, unmarked>> /\ Untouched

\* mark_pending for one core of the edited config.
MarkPending(c) ==
  /\ unmarked[c]
  /\ unmarked' = [unmarked EXCEPT ![c] = FALSE]
  /\ \/ pending' = [pending EXCEPT ![c] = TRUE]
     \/ MayFail /\ UNCHANGED pending
  /\ UNCHANGED <<desired, edits>> /\ Untouched

-----------------------------------------------------------------------------
(* Pushes                                                                  *)

StartPush(p, c, x, r) ==
  /\ push[p].pc = "idle"
  /\ push' = [push EXCEPT ![p] = [pc |-> "built", core |-> c, config |-> x,
                                  restart |-> r, via |-> NoConn]]
  /\ UNCHANGED <<sessionVars, dbVars, recorded, chan, report, agentVars, historyVars>>

\* push_config and push_pending: generate whatever the database holds now,
\* an empty configuration when there is no binding.
AdminBuild(p, c, r) ==
  /\ p # "scheduler"
  /\ pushes < MaxPushes /\ pushes' = pushes + 1
  /\ StartPush(p, c, IF desired[c] = NoConfig THEN EmptyConfig ELSE desired[c], r)

\* push_config_for_core, reached when a client's status changed: only cores
\* with a binding, only configurations with "inbounds" (mihomo's have
\* "listeners"), only when the recorded version differs.
SchedulerBuild(c) ==
  /\ c = "sing-box"
  /\ desired[c] # NoConfig /\ recorded[c] # desired[c]
  /\ pushes < MaxPushes /\ pushes' = pushes + 1
  /\ StartPush("scheduler", c, desired[c], FALSE)

\* Variant: a core that was pushed an empty configuration counts as stopped.
ReconcileSkipsEmpty(c) ==
  /\ desired[c] = NoConfig
  /\ entry # NoConn /\ recorded[c] \notin {NoConfig, EmptyConfig}
  /\ StartPush("scheduler", c, Blank, FALSE)
  /\ UNCHANGED pushes

\* reconcile_orphan_cores: no active binding, a connected Agent, and a
\* recorded version, the one left by an earlier Stop included.
ReconcileBuild(c) ==
  /\ desired[c] = NoConfig
  /\ entry # NoConn /\ recorded[c] # NoConfig
  /\ StartPush("scheduler", c, Blank, FALSE)
  /\ UNCHANGED pushes

PushEnds(p) == push' = [push EXCEPT ![p] = Idle]

\* send_to_agent has no entry to send on, or the stream it holds is closed.
SendFails(p) ==
  /\ push[p].pc = "built"
  /\ ~Reachable
  /\ PushEnds(p)
  /\ UNCHANGED <<sessionVars, dbVars, recorded, pushes, chan, report, agentVars,
                 historyVars>>

\* send_to_agent takes the message.  On a stream the Agent has left it is lost.
Send(p) ==
  LET c == push[p].core
      x == push[p].config
  IN  /\ push[p].pc = "built"
      /\ entry # NoConn
      /\ push' = [push EXCEPT ![p].pc = "sent", ![p].via = entry]
      /\ IF link[entry] = "open"
         THEN /\ Len(chan[entry]) < MaxQueue
              /\ chan' = [chan EXCEPT ![entry] = Append(@,
                            [core |-> c, config |-> x, restart |-> push[p].restart])]
         ELSE UNCHANGED chan
      /\ IF x = Blank
         THEN UNCHANGED <<offered, delivered>>
         ELSE /\ offered' = [offered EXCEPT ![c] = @ \union {x}]
              /\ delivered' = [delivered EXCEPT ![c] = x]
      /\ UNCHANGED <<sessionVars, dbVars, recorded, pushes, report, agentVars,
                     accepted, doubt>>

\* Other pushes of this core are between their send and their record, or the
\* node's entry is no longer the one this push was sent on.
Crossed(p) ==
  \/ entry # push[p].via
  \/ \E q \in Pusher \ {p} : push[q].pc = "sent" /\ push[q].core = push[p].core

\* set_agent_config_version, on whatever entry the node has by now.
Record(p) ==
  /\ push[p].pc = "sent"
  /\ recorded' = [recorded EXCEPT ![push[p].core] =
                    IF entry = NoConn THEN @ ELSE push[p].config]
  /\ doubt' = [doubt EXCEPT ![push[p].core] = @ \/ Crossed(p)]
  /\ IF push[p].config = Blank THEN PushEnds(p)
     ELSE push' = [push EXCEPT ![p].pc = "recorded"]
  /\ UNCHANGED <<sessionVars, dbVars, pushes, chan, report, agentVars,
                 offered, accepted, delivered>>

\* clear_pending; a failure is logged.
ClearPending(p) ==
  /\ push[p].pc = "recorded"
  /\ PushEnds(p)
  /\ \/ pending' = [pending EXCEPT ![push[p].core] = FALSE]
     \/ MayFail /\ UNCHANGED pending
  /\ UNCHANGED <<sessionVars, desired, unmarked, edits, recorded, pushes, chan,
                 report, agentVars, historyVars>>

-----------------------------------------------------------------------------
(* The Agent handles Hub messages one at a time; what it has received of a *)
(* broken stream it still handles before it dials again.                   *)

Reloads(m) == ~m.restart /\ m.core = "sing-box"
AlreadyApplied(m) == ~m.restart /\ m.config # Blank /\ snapshot[m.core] = m.config

\* handle_core_command, Stop.
StopCore(m) ==
  /\ m.config = Blank
  /\ running' = [running EXCEPT ![m.core] = NoConfig]
  /\ UNCHANGED <<snapshot, accepted, doubt>>

\* A push that needs no restart, of the version in the snapshot, is skipped.
SkipPush(m) == AlreadyApplied(m) /\ UNCHANGED <<snapshot, running, accepted, doubt>>

\* The core restarts with the configuration (mihomo also when asked to
\* reload), or a running sing-box reloads it; then the snapshot is written.
ApplyPush(m) ==
  /\ m.config # Blank /\ ~AlreadyApplied(m)
  /\ Reloads(m) => running[m.core] # NoConfig
  /\ running' = [running EXCEPT ![m.core] = m.config]
  /\ accepted' = [accepted EXCEPT ![m.core] = @ \union {m.config}]
  /\ \/ /\ snapshot' = [snapshot EXCEPT ![m.core] = m.config]
        /\ UNCHANGED doubt
     \/ /\ MayFail
        /\ doubt' = [doubt EXCEPT ![m.core] = TRUE]
        /\ UNCHANGED snapshot

\* Variant: the snapshot is written before the core has taken the configuration.
RefuseAfterSnapshot(m) ==
  /\ m.config # Blank /\ ~AlreadyApplied(m)
  /\ MayFail \/ (Reloads(m) /\ running[m.core] = NoConfig)
  /\ running' = [running EXCEPT ![m.core] = IF Reloads(m) THEN @ ELSE NoConfig]
  /\ snapshot' = [snapshot EXCEPT ![m.core] = m.config]
  /\ doubt' = [doubt EXCEPT ![m.core] = TRUE]
  /\ UNCHANGED accepted

\* The core cannot be installed or refuses: a restart has stopped it already,
\* a failed sing-box reload leaves the process as it was.
RefusePush(m) ==
  /\ m.config # Blank /\ ~AlreadyApplied(m)
  /\ MayFail \/ (Reloads(m) /\ running[m.core] = NoConfig)
  /\ running' = [running EXCEPT ![m.core] = IF Reloads(m) THEN @ ELSE NoConfig]
  /\ doubt' = [doubt EXCEPT ![m.core] = TRUE]
  /\ UNCHANGED <<snapshot, accepted>>

HandleMessage(m) == StopCore(m) \/ SkipPush(m) \/ ApplyPush(m) \/ RefusePush(m)

AgentHandle(k) ==
  /\ agentUp /\ chan[k] # <<>>
  /\ chan' = [chan EXCEPT ![k] = Tail(@)]
  /\ HandleMessage(Head(chan[k]))
  /\ UNCHANGED <<sessionVars, dbVars, hubVars, report, agentUp, offered, delivered>>

\* A core process ends by itself; nothing restarts it.
CoreCrash(c) ==
  /\ running[c] # NoConfig
  /\ running' = [running EXCEPT ![c] = NoConfig]
  /\ UNCHANGED <<sessionVars, dbVars, hubVars, chan, report, agentUp, snapshot,
                 historyVars>>

\* The Agent starts: restore_last_config starts every core that has a snapshot.
AgentStart ==
  /\ ~agentUp /\ agentUp' = TRUE
  /\ \E Failed \in IF MayFail THEN SUBSET Core ELSE {{}} :
       running' = [c \in Core |-> IF c \in Failed THEN NoConfig ELSE snapshot[c]]
  /\ UNCHANGED <<sessionVars, dbVars, hubVars, chan, report, snapshot, historyVars>>

\* The Agent process dies: the cores die with it (they are bound to their
\* parent), its stream breaks, what it had not handled is lost.
AgentCrash ==
  /\ agentUp /\ agentUp' = FALSE
  /\ running' = Nothing
  /\ chan' = [k \in Conn |-> <<>>]
  /\ IF \E k \in Conn : link[k] = "open"
     THEN \E k \in Conn : AgentLeave(k)
     ELSE UNCHANGED sessionVars
  /\ UNCHANGED <<dbVars, hubVars, report, snapshot, historyVars>>

-----------------------------------------------------------------------------
(* The session steps, with what they do to pushes                          *)

Prefix(s, n) == SubSeq(s, 1, IF n < Len(s) THEN n ELSE Len(s))

\* try_connect reads the snapshots for the Register request it sends.
Connect(k) ==
  /\ agentUp /\ \A j \in Conn : chan[j] = <<>>
  /\ AgentConnect(k)
  /\ report' = [report EXCEPT ![k] = snapshot]
  /\ UNCHANGED <<dbVars, hubVars, chan, agentVars, historyVars>>

Leave(k) ==
  /\ AgentLeave(k)
  /\ \E n \in 0..MaxQueue : chan' = [chan EXCEPT ![k] = Prefix(@, n)]
  /\ UNCHANGED <<dbVars, hubVars, report, agentVars, historyVars>>

\* Variant: register_agent keeps the versions recorded for the node.
InsertKeepsRecord(k) ==
  /\ HubInsert(k)
  /\ report' = [report EXCEPT ![k] = Nothing]
  /\ doubt' = [c \in Core |-> FALSE]
  /\ UNCHANGED <<dbVars, hubVars, chan, agentVars, offered, accepted, delivered>>

\* register_agent: the new entry starts from the versions the Agent reported.
Insert(k) ==
  /\ HubInsert(k)
  /\ recorded' = report[k]
  /\ report' = [report EXCEPT ![k] = Nothing]
  /\ doubt' = [c \in Core |-> FALSE]
  /\ UNCHANGED <<dbVars, push, pushes, chan, agentVars, offered, accepted, delivered>>

StreamEnd(k) ==
  /\ HubStreamEnd(k)
  /\ recorded' = IF entry' = NoConn THEN Nothing ELSE recorded
  /\ UNCHANGED <<dbVars, push, pushes, chan, report, agentVars, historyVars>>

\* The steps of the session that no push can notice.
SessionStep(k) ==
  /\ HubAccept(k) \/ HubRefuse(k) \/ HubAnswer(k) \/ HubAnswerFails(k)
     \/ HubOffline(k) \/ HubClear(k)
  /\ UNCHANGED pushVars

\* The Hub stops and starts: requests in progress and recorded versions are lost.
Restart ==
  /\ HubMayStop
  /\ HubRestart
  /\ recorded' = Nothing
  /\ push' = [p \in Pusher |-> Idle]
  /\ unmarked' = [c \in Core |-> FALSE]
  /\ \E n \in 0..MaxQueue : chan' = [k \in Conn |-> Prefix(chan[k], n)]
  /\ UNCHANGED <<desired, pending, edits, pushes, report, agentVars, historyVars>>

-----------------------------------------------------------------------------
EditStep ==
  \E c \in Core :
    \/ \E x \in Bound : UpdateConfig(c, x)
    \/ \E x \in Bound, d \in Core : MoveConfig(c, d, x)
    \/ \E x \in Bound \union {NoConfig} : DeleteConfig(c, x) \/ EditBinding(c, x)
    \/ MarkPending(c)

PushStep(p) ==
  \/ \E c \in Core, r \in BOOLEAN : AdminBuild(p, c, r)
  \/ SendFails(p) \/ Send(p) \/ Record(p) \/ ClearPending(p)

SchedulerPass ==
  "scheduler" \in Pusher /\ \E c \in Core : SchedulerBuild(c) \/ ReconcileBuild(c)

NodeStep ==
  \/ \E k \in Conn : AgentHandle(k)
  \/ \E c \in Core : CoreCrash(c)
  \/ AgentStart \/ AgentCrash

StreamStep(k) == Connect(k) \/ Leave(k) \/ Insert(k) \/ StreamEnd(k) \/ SessionStep(k)

PushNext ==
  \/ EditStep
  \/ \E p \in Pusher : PushStep(p)
  \/ SchedulerPass
  \/ NodeStep
  \/ \E k \in Conn : StreamStep(k)
  \/ Restart

PushSpec == PushInit /\ [][PushNext]_allVars

\* The scheduler task runs a pass every 300 s and visits both cores in each;
\* a blocked send on the bounded channel is served in order; the Agent's
\* message loop keeps handling what has arrived.
FairPushSpec ==
  /\ PushSpec
  /\ \A c \in Core : SF_allVars("scheduler" \in Pusher /\ ReconcileBuild(c))
  /\ \A p \in Pusher : SF_allVars(Send(p)) /\ WF_allVars(Record(p) \/ ClearPending(p))
  /\ \A k \in Conn : WF_allVars(AgentHandle(k))

-----------------------------------------------------------------------------
(* Properties                                                              *)

\* A version recorded for a core, reported at registration, waiting in a stream
\* or stored in a snapshot was handed to send_to_agent for that core before:
\* no failed push leaves a trace, whatever streams and pushers did meanwhile.
RecordedWasOffered ==
  \A c \in Core :
    /\ recorded[c] \in offered[c] \union {NoConfig, Blank}
    /\ \A k \in Conn : report[k][c] \in offered[c] \union {NoConfig}

\* A snapshot holds a configuration its core has really started or reloaded
\* with (handle_config_push applies first and saves afterwards): what
\* restore_last_config starts without the Hub has worked before.
SnapshotWasAccepted ==
  \A c \in Core : snapshot[c] \in accepted[c] \union {NoConfig}

\* The strengthening the proof of both needs: messages and pushes past their
\* send carry offered configurations, cores run accepted ones, and none runs
\* while the Agent is down.
CarriesOffered ==
  /\ \A k \in Conn : \A i \in 1..Len(chan[k]) :
       chan[k][i].config \in offered[chan[k][i].core] \union {Blank}
  /\ \A p \in Pusher : push[p].pc \in {"sent", "recorded"} =>
       push[p].config \in offered[push[p].core] \union {Blank}
RunsAccepted ==
  /\ \A c \in Core : accepted[c] \subseteq offered[c]
  /\ \A c \in Core : running[c] \in accepted[c] \union {NoConfig}
  /\ ~agentUp => running = Nothing
Origin == RecordedWasOffered /\ SnapshotWasAccepted /\ CarriesOffered /\ RunsAccepted

\* Of the messages in s, none is for core c; x is what the last one for c says.
NoneFor(s, c) == \A i \in 1..Len(s) : s[i].core # c
LastFor(s, c, x) ==
  \E i \in 1..Len(s) :
    /\ s[i].core = c /\ s[i].config = x
    /\ \A j \in 1..Len(s) : j > i => s[j].core # c

\* x is what the last message in s for core c says, or, when there is none, what
\* the core's snapshot holds (a Stop leaves the snapshot).
Current(s, file, c, x) ==
  LastFor(s, c, x) \/ (NoneFor(s, c) /\ x \in {file, Blank})

\* While the Agent is connected on the entry's stream, the version recorded
\* for a core is the one it was last sent, or the snapshot when nothing is on
\* its way (a Stop leaves ""), unless a push is between send and record, pushes
\* crossed each other or a reconnect, or the Agent could not apply or save one.
RecordExact ==
  Reachable =>
    \A c \in Core :
      \/ doubt[c]
      \/ \E p \in Pusher : push[p].pc = "sent" /\ push[p].core = c
      \/ Current(chan[entry], snapshot[c], c, recorded[c])

\* The strengthening of RecordExact.  The Agent has one stream at a time and
\* has handled everything of the former ones before it dials again.
OneStream ==
  \A k \in Conn : link[k] = "open" =>
    \A j \in Conn \ {k} : link[j] # "open" /\ chan[j] = <<>>

\* register_agent is still to come for stream k.
Awaited(k) ==
  task[k] = "accepted" \/ \E i \in 1..Len(inbox[k]) : inbox[k][i] = "Register"

\* Until then the snapshots are as they were when the Agent reported them, and
\* nothing can be on its way to it.
ReportIsCurrent ==
  \A k \in Conn : link[k] = "open" /\ Awaited(k) =>
    chan[k] = <<>> /\ report[k] = snapshot

\* A push was sent on a stream that was the entry then and, as each stream is
\* registered once, can be the entry afterwards only if it never ceased to be.
SentOnAnEntry ==
  \A p \in Pusher : push[p].pc = "sent" =>
    \E k \in Conn : push[p].via = k /\ link[k] # "unused" /\ ~Awaited(k)

\* What such a push is about to record is what its core was last sent.
SentIsCurrent ==
  Reachable =>
    \A p \in Pusher : push[p].pc = "sent" /\ push[p].via = entry =>
      \/ doubt[push[p].core]
      \/ \E q \in Pusher \ {p} : push[q].pc = "sent" /\ push[q].core = push[p].core
      \/ LET c == push[p].core IN Current(chan[entry], snapshot[c], c, push[p].config)

RecordInv ==
  OneStream /\ ReportIsCurrent /\ SentOnAnEntry /\ SentIsCurrent /\ RecordExact

Delivery == INSTANCE ConfigDelivery WITH
  Core <- Core, Config <- Config, NoConfig <- NoConfig,
  offered <- offered, accepted <- accepted, running <- running

\* Streams, pushers, crashes and snapshots together implement ConfigDelivery.
ImplementsDelivery == Delivery!DeliverySpec

\* A core that lost its last binding, on a node that stays connected, stops
\* (reconcile_orphan_cores), however pushes and crashes interleave.
OrphanCoreStops ==
  \A c \in Core :
    (Reachable /\ desired[c] = NoConfig /\ recorded[c] # NoConfig)
      ~> (running[c] = NoConfig \/ desired[c] # NoConfig \/ ~Reachable)

\* docs/architecture.md:409: a node's pending mark is written by protocol,
\* binding, relay and version changes and removed by a manual push: while the
\* database asks for something else than what was last delivered, the core is
\* marked, or a handler or a push is still at work on it.
EditIsPending ==
  \A c \in Core :
    \/ delivered[c] = desired[c]
    \/ desired[c] = NoConfig /\ delivered[c] = EmptyConfig
    \/ pending[c] \/ unmarked[c]
    \/ \E p \in Pusher : push[p].pc # "idle" /\ push[p].core = c
=============================================================================
