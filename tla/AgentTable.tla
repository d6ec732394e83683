----------------------------- MODULE AgentTable -----------------------------
(***************************************************************************)
(* The table of connected Agents that every part of the Hub shares         *)
(* (AppState::agents, state.rs), as a lock: a fair RwLock, in which a      *)
(* reader waits behind a writer that waits, and channels with a limit      *)
(* (128) to the streams.  send_to_agent awaits room in a stream's channel  *)
(* with the read lock held, so whoever wants to register, unregister or    *)
(* note a version, and every reader behind, waits for that one Agent.      *)
(*                                                                         *)
(* A job is what one task of the Hub does with the table, one lock after   *)
(* another: a push (push_node_config), a stream that registers and         *)
(* dispatches certificates (handle_register), a stream that ends, a look.  *)
(***************************************************************************)
EXTENDS Integers, Sequences

CONSTANTS TableAgent, Job,
          MaxRoom   \* bound: messages in a channel (128)

VARIABLES job,       \* job -> its Agent, the locks it still takes, how far it is
          line,      \* who waits for the lock, first come first served
          listed,    \* Agents in the table
          linked,    \* Agents whose stream, the one in the table, is up
          unread     \* Agent -> messages in its channel

tableVars == <<job, line, listed, linked, unread>>

NoJob == [agent |-> "none", todo |-> <<>>, has |-> "nothing"]
WriteStep == {"insert", "remove", "record"}
Programs == {<<"send", "record">>, <<"insert", "send">>, <<"remove">>, <<"read">>}

TableInit ==
  /\ job = [j \in Job |-> NoJob] /\ line = <<>>
  /\ listed = {} /\ linked = {}
  /\ unread = [a \in TableAgent |-> 0]

\* A stream that has ended is the only one that unregisters; an Agent may
\* register again while the Hub believes in its last stream.
BeginJob(j, a, todo) ==
  /\ job[j] = NoJob
  /\ todo = <<"remove">> => a \in listed \ linked
  /\ job' = [job EXCEPT ![j] = [agent |-> a, todo |-> todo, has |-> "nothing"]]
  /\ UNCHANGED <<line, listed, linked, unread>>

\* read().await, write().await
Ask(j) ==
  /\ job[j].todo # <<>> /\ job[j].has = "nothing"
  /\ job' = [job EXCEPT ![j].has = "turn"]
  /\ line' = Append(line, j)
  /\ UNCHANGED <<listed, linked, unread>>

Writes(j) == Head(job[j].todo) \in WriteStep
Holders == {j \in Job : job[j].has = "lock"}

\* Variant: readers pass a writer that waits.
EnterReadersFirst(j) ==
  /\ job[j].has = "turn"
  /\ IF Writes(j) THEN Holders = {} ELSE \A h \in Holders : ~Writes(h)
  /\ job' = [job EXCEPT ![j].has = "lock"]
  /\ line' = SelectSeq(line, LAMBDA k : k # j)
  /\ UNCHANGED <<listed, linked, unread>>

\* The first in line enters when nobody is inside that excludes it.
Enter(j) ==
  /\ line # <<>> /\ Head(line) = j
  /\ IF Writes(j) THEN Holders = {} ELSE \A h \in Holders : ~Writes(h)
  /\ job' = [job EXCEPT ![j].has = "lock"]
  /\ line' = Tail(line)
  /\ UNCHANGED <<listed, linked, unread>>

\* The guard is dropped and the job goes on, or is over.
Leave(j) == job' = [job EXCEPT ![j] =
              IF Len(@.todo) = 1 THEN NoJob
              ELSE [@ EXCEPT !.todo = Tail(@), !.has = "nothing"]]

Doing(j, step) == job[j].has = "lock" /\ Head(job[j].todo) = step

\* send_to_agent: the message is put into the channel as soon as there is room.
SendMessage(j) ==
  LET a == job[j].agent IN
  /\ Doing(j, "send") /\ a \in listed \cap linked /\ unread[a] < MaxRoom
  /\ unread' = [unread EXCEPT ![a] = @ + 1]
  /\ Leave(j)
  /\ UNCHANGED <<line, listed, linked>>

\* The Agent is not in the table, or its stream has ended while the message waited.
SendMessageFails(j) ==
  /\ Doing(j, "send") /\ job[j].agent \notin listed \cap linked
  /\ job' = [job EXCEPT ![j] = NoJob]
  /\ UNCHANGED <<line, listed, linked, unread>>

\* register_agent, unregister_agent, set_agent_config_version, agent_config_version
UseTable(j) ==
  LET a == job[j].agent IN
  /\ \/ /\ Doing(j, "insert")
        /\ listed' = listed \cup {a} /\ linked' = linked \cup {a}
        /\ unread' = [unread EXCEPT ![a] = 0]
     \/ /\ Doing(j, "remove")
        /\ listed' = listed \ {a} /\ linked' = linked \ {a}
        /\ unread' = [unread EXCEPT ![a] = 0]
     \/ /\ Doing(j, "record") \/ Doing(j, "read")
        /\ UNCHANGED <<listed, linked, unread>>
  /\ Leave(j)
  /\ UNCHANGED line

\* The Agent takes a message off its stream; between two it may be away for long
\* (it installs a core, or sleeps before a shutdown).
AgentTakes(a) ==
  /\ a \in linked /\ unread[a] > 0
  /\ unread' = [unread EXCEPT ![a] = @ - 1]
  /\ UNCHANGED <<job, line, listed, linked>>

\* The stream ends and its channel with it.
LinkEnds(a) ==
  /\ a \in linked
  /\ linked' = linked \ {a} /\ unread' = [unread EXCEPT ![a] = 0]
  /\ UNCHANGED <<job, line, listed>>

JobStep(j) == Ask(j) \/ Enter(j) \/ SendMessage(j) \/ SendMessageFails(j) \/ UseTable(j)

TableNext ==
  \/ \E j \in Job : \/ JobStep(j)
                    \/ \E a \in TableAgent, todo \in Programs : BeginJob(j, a, todo)
  \/ \E a \in TableAgent : AgentTakes(a) \/ LinkEnds(a)

\* Tasks run, and an Agent reads its stream, or the connection breaks, some time.
TableFairness ==
  /\ \A j \in Job : WF_tableVars(JobStep(j))
  /\ \A a \in TableAgent : WF_tableVars(AgentTakes(a) \/ LinkEnds(a))

TableSpec == TableInit /\ [][TableNext]_tableVars /\ TableFairness

(***************************************************************************)
(* What everybody who uses the table depends on.                           *)
(***************************************************************************)
\* Whoever asks for the table gets it, however slow the Agents are, as long as
\* each of them reads or loses its connection: no reader holds the lock over a
\* wait that needs the lock, and no stream of pushes keeps a registration out.
TableIsServed == \A j \in Job : job[j].has = "turn" ~> job[j].has # "turn"
=============================================================================
