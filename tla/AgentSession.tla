---------------------------- MODULE AgentSession ----------------------------
(***************************************************************************)
(* The session between one Agent and the Hub: the bidirectional gRPC       *)
(* streams the Agent opens one after the other, the Hub task that reads    *)
(* each of them, the Hub's connection table (AppState.agents), and the two *)
(* database facts the Hub derives from it: the node's status and its rows  *)
(* of client_online_sessions.                                              *)
(*                                                                         *)
(* The Hub keeps one independent record of all this per node, so one Agent *)
(* is modelled.  Several streams of that Agent can be alive on the Hub at  *)
(* once: the Agent leaves a broken stream at once and dials again, the Hub *)
(* learns that the old one ended whenever its transport tells it.          *)
(***************************************************************************)
EXTENDS Naturals, Sequences, FiniteSets

CONSTANTS
  Conn,      \* the streams the Agent ever opens (each is used once)
  NoConn,    \* "the node has no entry in AppState.agents"
  MaxInbox   \* bound: Agent messages in flight on one stream

ASSUME SessionAssumption == NoConn \notin Conn /\ MaxInbox \in Nat \ {0}

VARIABLES
  link,          \* stream -> the Agent's side of it
  inbox,         \* stream -> Agent messages the Hub has not handled
  task,          \* stream -> where the Hub task reading it is
  registered,    \* stream -> registered_id of that task is Some
  entry,         \* the stream AppState.agents sends on, or NoConn
  status,        \* nodes.status
  sessions,      \* the node has rows in client_online_sessions
  missedOffline, \* history: status was due to become offline, the write was lost
  missedClear    \* history: sessions were due to be deleted, the delete was lost

sessionVars == <<link, inbox, task, registered, entry, status, sessions,
                 missedOffline, missedClear>>

Message == {"Register", "Heartbeat", "OnlineUsers"}

(***************************************************************************)
(* The Hub task of a stream: "none" before the stream exists; "reading"    *)
(* between messages; "accepted" when handle_register has written the node  *)
(* online but not yet touched the table; "inserted" when it has replaced   *)
(* the entry but not yet answered; "unregistered" and "offlined" between   *)
(* the three steps of the cleanup; "done" at the end.                      *)
(***************************************************************************)
TaskState == {"none", "reading", "accepted", "inserted",
              "unregistered", "offlined", "done"}

SessionTypeOK ==
  /\ link \in [Conn -> {"unused", "open", "broken"}]
  /\ inbox \in [Conn -> Seq(Message)]
  /\ task \in [Conn -> TaskState]
  /\ registered \in [Conn -> BOOLEAN]
  /\ entry \in Conn \union {NoConn}
  /\ status \in {"online", "offline"}
  /\ sessions \in BOOLEAN
  /\ missedOffline \in BOOLEAN
  /\ missedClear \in BOOLEAN

SessionInit ==
  /\ link = [k \in Conn |-> "unused"]
  /\ inbox = [k \in Conn |-> <<>>]
  /\ task = [k \in Conn |-> "none"]
  /\ registered = [k \in Conn |-> FALSE]
  /\ entry = NoConn
  /\ status = "offline"
  /\ sessions = FALSE
  /\ missedOffline = FALSE
  /\ missedClear = FALSE

-----------------------------------------------------------------------------
(* The Agent                                                               *)

\* run/try_connect: no stream is in use, one is opened and Register is the
\* first message put on it.  The RPC returns once the Hub's stream() has
\* spawned its inbound task.
AgentConnect(k) ==
  /\ \A j \in Conn : link[j] # "open"
  /\ link[k] = "unused"
  /\ link' = [link EXCEPT ![k] = "open"]
  /\ inbox' = [inbox EXCEPT ![k] = <<"Register">>]
  /\ task' = [task EXCEPT ![k] = "reading"]
  /\ UNCHANGED <<registered, entry, status, sessions, missedOffline, missedClear>>

\* The heartbeat task of try_connect: a 30 s heartbeat, a 60 s report of
\* the users online.
AgentSend(k, m) ==
  /\ link[k] = "open"
  /\ m \in {"Heartbeat", "OnlineUsers"}
  /\ Len(inbox[k]) < MaxInbox
  /\ inbox' = [inbox EXCEPT ![k] = Append(@, m)]
  /\ UNCHANGED <<link, task, registered, entry, status, sessions,
                 missedOffline, missedClear>>

\* The Agent stops, or its read of the stream fails: try_connect returns and
\* aborts its tasks.  Any suffix of what it had sent may be lost.
AgentLeave(k) ==
  /\ link[k] = "open"
  /\ link' = [link EXCEPT ![k] = "broken"]
  /\ \E n \in 0..Len(inbox[k]) :
       inbox' = [inbox EXCEPT ![k] = SubSeq(@, 1, n)]
  /\ UNCHANGED <<task, registered, entry, status, sessions,
                 missedOffline, missedClear>>

-----------------------------------------------------------------------------
(* The Hub task of stream k                                                *)

NextMessage(k, m) ==
  /\ task[k] = "reading"
  /\ inbox[k] # <<>>
  /\ Head(inbox[k]) = m
  /\ inbox' = [inbox EXCEPT ![k] = Tail(@)]

\* handle_register up to its write of the node row: the node exists, its
\* token verifies, status becomes online.
HubAccept(k) ==
  /\ NextMessage(k, "Register")
  /\ task' = [task EXCEPT ![k] = "accepted"]
  /\ status' = "online"
  /\ missedOffline' = FALSE
  /\ UNCHANGED <<link, registered, entry, sessions, missedClear>>

\* handle_register returns an error before that write: unknown node, empty
\* or wrong token, or a database error.  The task keeps reading the stream.
HubRefuse(k) ==
  /\ NextMessage(k, "Register")
  /\ UNCHANGED <<link, task, registered, entry, status, sessions,
                 missedOffline, missedClear>>

\* Variant: register_agent leaves an entry the node already has.
HubInsertIfAbsent(k) ==
  /\ task[k] = "accepted"
  /\ task' = [task EXCEPT ![k] = "inserted"]
  /\ entry' = IF entry = NoConn THEN k ELSE entry
  /\ UNCHANGED <<link, inbox, registered, status, sessions,
                 missedOffline, missedClear>>

\* register_agent: replaces whatever entry the node has.
HubInsert(k) ==
  /\ task[k] = "accepted"
  /\ task' = [task EXCEPT ![k] = "inserted"]
  /\ entry' = k
  /\ UNCHANGED <<link, inbox, registered, status, sessions,
                 missedOffline, missedClear>>

\* RegisterResponse is queued and the task remembers the id.
HubAnswer(k) ==
  /\ task[k] = "inserted"
  /\ task' = [task EXCEPT ![k] = "reading"]
  /\ registered' = [registered EXCEPT ![k] = TRUE]
  /\ UNCHANGED <<link, inbox, entry, status, sessions,
                 missedOffline, missedClear>>

\* The response cannot be queued because the outbound half of a broken
\* stream is already gone: handle_register fails after it replaced the entry,
\* and the task never learns the id.
HubAnswerFails(k) ==
  /\ task[k] = "inserted"
  /\ link[k] = "broken"
  /\ task' = [task EXCEPT ![k] = "reading"]
  /\ UNCHANGED <<link, inbox, registered, entry, status, sessions,
                 missedOffline, missedClear>>

\* handle_heartbeat writes last_seen_at only; before registration the message
\* is ignored.
HubHeartbeat(k) ==
  /\ NextMessage(k, "Heartbeat")
  /\ UNCHANGED <<link, task, registered, entry, status, sessions,
                 missedOffline, missedClear>>

\* handle_online_users makes the node's rows exactly the reported users
\* (none or some); before registration the report is ignored.
HubOnlineUsers(k) ==
  /\ NextMessage(k, "OnlineUsers")
  /\ IF registered[k]
     THEN /\ sessions' \in BOOLEAN
          /\ missedClear' = FALSE
     ELSE UNCHANGED <<sessions, missedClear>>
  /\ UNCHANGED <<link, task, registered, entry, status, missedOffline>>

\* Variant: the cleanup returns right after unregister_agent.
HubStreamEndSkipsRest(k) ==
  /\ task[k] = "reading"
  /\ link[k] = "broken"
  /\ inbox[k] = <<>>
  /\ entry' = IF registered[k] THEN NoConn ELSE entry
  /\ task' = [task EXCEPT ![k] = "done"]
  /\ UNCHANGED <<link, inbox, registered, status, sessions,
                 missedOffline, missedClear>>

\* The inbound stream ends.  A registered task removes the entry of its node
\* id, whichever stream that entry belongs to by now.
HubStreamEnd(k) ==
  /\ task[k] = "reading"
  /\ link[k] = "broken"
  /\ inbox[k] = <<>>
  /\ IF registered[k]
     THEN /\ task' = [task EXCEPT ![k] = "unregistered"]
          /\ entry' = NoConn
     ELSE /\ task' = [task EXCEPT ![k] = "done"]
          /\ UNCHANGED entry
  /\ UNCHANGED <<link, inbox, registered, status, sessions,
                 missedOffline, missedClear>>

\* Variant: a database error of update_node_offline ends the task.
HubOfflineReturnsEarly(k) ==
  /\ task[k] = "unregistered"
  /\ \/ /\ status' = "offline"
        /\ missedOffline' = FALSE
        /\ task' = [task EXCEPT ![k] = "offlined"]
     \/ /\ UNCHANGED status
        /\ missedOffline' = (status = "online" \/ missedOffline)
        /\ task' = [task EXCEPT ![k] = "done"]
  /\ UNCHANGED <<link, inbox, registered, entry, sessions, missedClear>>

\* update_node_offline; an error is logged and the cleanup goes on.
HubOffline(k) ==
  /\ task[k] = "unregistered"
  /\ task' = [task EXCEPT ![k] = "offlined"]
  /\ \/ /\ status' = "offline"
        /\ missedOffline' = FALSE
     \/ /\ UNCHANGED status
        /\ missedOffline' = (status = "online" \/ missedOffline)
  /\ UNCHANGED <<link, inbox, registered, entry, sessions, missedClear>>

\* clear_node_online_sessions; an error is logged and the task ends.
HubClear(k) ==
  /\ task[k] = "offlined"
  /\ task' = [task EXCEPT ![k] = "done"]
  /\ \/ /\ sessions' = FALSE
        /\ missedClear' = FALSE
     \/ /\ UNCHANGED sessions
        /\ missedClear' = (sessions \/ missedClear)
  /\ UNCHANGED <<link, inbox, registered, entry, status, missedOffline>>

\* The Hub process stops and starts: tasks and table are gone, the database
\* keeps what it holds (start-up does not reset nodes or sessions).
HubRestart ==
  /\ task' = [k \in Conn |-> IF task[k] = "none" THEN "none" ELSE "done"]
  /\ link' = [k \in Conn |-> IF link[k] = "open" THEN "broken" ELSE link[k]]
  /\ inbox' = [k \in Conn |-> <<>>]
  /\ entry' = NoConn
  /\ missedOffline' = (status = "online")
  /\ missedClear' = sessions
  /\ UNCHANGED <<registered, status, sessions>>

-----------------------------------------------------------------------------
HubRegister(k) == HubAccept(k) \/ HubRefuse(k) \/ HubInsert(k)
                  \/ HubAnswer(k) \/ HubAnswerFails(k)
HubCleanup(k)  == HubStreamEnd(k) \/ HubOffline(k) \/ HubClear(k)
HubTask(k)     == HubRegister(k) \/ HubHeartbeat(k) \/ HubOnlineUsers(k)
                  \/ HubCleanup(k)
AgentStep(k)   == AgentConnect(k) \/ AgentLeave(k)
                  \/ \E m \in Message : AgentSend(k, m)

SessionNext ==
  \/ \E k \in Conn : AgentStep(k) \/ HubTask(k)
  \/ HubRestart

SessionSpec == SessionInit /\ [][SessionNext]_sessionVars

\* The Hub's tasks are tokio tasks that are always polled again; nothing is
\* assumed of the Agent or the network.
FairSessionSpec == SessionSpec /\ \A k \in Conn : WF_sessionVars(HubTask(k))

-----------------------------------------------------------------------------
(* Properties                                                              *)

\* try_connect sends one Register, as the first message of its stream: while
\* it waits, and until it is answered, the stream is not registered, and it
\* is not yet the entry while it waits.
RegisterOnce ==
  \A k \in Conn :
    /\ \A i \in 1..Len(inbox[k]) : inbox[k][i] = "Register" =>
         i = 1 /\ task[k] = "reading" /\ ~registered[k] /\ entry # k
    /\ task[k] \in {"none", "accepted", "inserted"} => ~registered[k]
    /\ task[k] = "accepted" => entry # k

\* The Hub has a task for a stream exactly when the Agent has opened it: the
\* fact the inductive arguments need about streams still unused.
UnusedHasNoTask == \A k \in Conn : link[k] = "unused" <=> task[k] = "none"

\* A node shown online has an entry in AppState.agents, or a Hub task is
\* between the two halves of registering it (status first, entry second) or
\* of cleaning up after it (entry first, status second), or a write of
\* "offline" was lost to a database error or to a Hub stop.  The orders in
\* handle_register and in the cleanup of stream() make it true of any
\* number of overlapping streams.
OnlineIsBacked ==
  status = "online" =>
    \/ entry # NoConn
    \/ \E k \in Conn : task[k] \in {"accepted", "unregistered"}
    \/ missedOffline

\* Rows of client_online_sessions imply a registered task that will still
\* delete them, unless a delete was lost: no users stay online on a node
\* whose last stream was cleaned up.
SessionsHaveOwner ==
  sessions =>
    \/ \E k \in Conn : registered[k] /\ task[k] \notin {"none", "done"}
    \/ missedClear

\* The entry the Hub sends on belongs to a task that is still reading and
\* will remove it, except when the answer to Register could not be sent: then
\* stream() forgets the id and the entry stays until the next register_agent.
EntryHasReader ==
  entry # NoConn =>
    \/ task[entry] = "inserted"
    \/ task[entry] = "reading" /\ registered[entry]
    \/ link[entry] = "broken" /\ ~registered[entry]

\* When the Agent has left every stream, the node ends up offline, unless the
\* write was lost or an entry was orphaned by an unsent RegisterResponse.
DepartedGoesOffline ==
  (\A k \in Conn : link[k] = "broken") ~>
    (status = "offline" \/ missedOffline \/ entry # NoConn)

RegisterWaiting(k) == inbox[k] # <<>> /\ Head(inbox[k]) = "Register"

\* A stream whose Register is still waiting when the Hub has finished with
\* every other stream becomes the node's entry, unless the stream breaks or
\* handle_register refuses it (after which it is read but never registered).
FreshReconnectIsReachable ==
  \A k \in Conn :
    /\ link[k] = "open"
    /\ RegisterWaiting(k)
    /\ \A j \in Conn \ {k} : task[j] \in {"none", "done"}
    ~> \/ entry = k
       \/ link[k] = "broken"
       \/ task[k] = "reading" /\ ~registered[k] /\ ~RegisterWaiting(k)

\* docs/architecture.md:39: "Agent 在断连后可独立运行，重连后自动同步状态" (after a
\* reconnect the state is synchronised automatically).  Once the stream in use
\* is registered, the node stays reachable on it until it breaks.
ReconnectedStaysReachable ==
  \A k \in Conn :
    (link[k] = "open" /\ registered[k]) ~> (entry = k \/ link[k] = "broken")
=============================================================================
