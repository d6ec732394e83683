-------------------------- MODULE ConfigPushProofs --------------------------
(***************************************************************************)
(* Proofs about AgentSession, for any set of streams, and about ConfigPush *)
(* for any streams, cores, configurations and pushers.  Each safety        *)
(* property of AgentSession is inductive together with its types.  The     *)
(* steps of ConfigPush are session steps or leave the session alone, so    *)
(* what holds of a session holds of it; its own invariant follows a        *)
(* configuration from send_to_agent to the core.                           *)
(***************************************************************************)
EXTENDS ConfigPush, SequenceTheorems, TLAPS

-----------------------------------------------------------------------------
(* The sessions of AgentSession                                            *)

LEMMA PrefixIsSeq ==
  ASSUME NEW S, NEW s \in Seq(S), NEW n \in 0..Len(s)
  PROVE  SubSeq(s, 1, n) \in Seq(S)
  OBVIOUS

LEMMA TailIsSeq ==
  ASSUME NEW S, NEW s \in Seq(S), s # <<>>
  PROVE  Tail(s) \in Seq(S)
  OBVIOUS

-----------------------------------------------------------------------------
LEMMA SessionTypeInit == SessionInit => SessionTypeOK
<1>1. <<>> \in Seq(Message)
  OBVIOUS
<1> QED BY <1>1 DEF SessionInit, SessionTypeOK, TaskState

LEMMA SessionTypeStep ==
  SessionTypeOK /\ [SessionNext]_sessionVars => SessionTypeOK'
<1> SUFFICES ASSUME SessionTypeOK, [SessionNext]_sessionVars
             PROVE  SessionTypeOK'
  OBVIOUS
<1> USE DEF SessionTypeOK, TaskState
<1>1. ASSUME NEW k \in Conn, AgentConnect(k) PROVE SessionTypeOK'
  <2>1. <<"Register">> \in Seq(Message)
    BY DEF Message
  <2> QED BY <1>1, <2>1 DEF AgentConnect
<1>2. ASSUME NEW k \in Conn, AgentLeave(k) PROVE SessionTypeOK'
  <2>1. PICK n \in 0..Len(inbox[k]) :
          inbox' = [inbox EXCEPT ![k] = SubSeq(@, 1, n)]
    BY <1>2 DEF AgentLeave
  <2>2. SubSeq(inbox[k], 1, n) \in Seq(Message)
    BY PrefixIsSeq
  <2>3. inbox' \in [Conn -> Seq(Message)]
    BY <2>1, <2>2
  <2> QED BY <1>2, <2>3 DEF AgentLeave
<1>3. ASSUME NEW k \in Conn, NEW m \in Message, AgentSend(k, m)
      PROVE  SessionTypeOK'
  <2>1. Append(inbox[k], m) \in Seq(Message)
    OBVIOUS
  <2> QED BY <1>3, <2>1 DEF AgentSend
<1>4. ASSUME NEW k \in Conn, NEW m \in Message, NextMessage(k, m)
      PROVE  inbox' \in [Conn -> Seq(Message)]
  <2>1. Tail(inbox[k]) \in Seq(Message)
    BY <1>4, TailIsSeq DEF NextMessage
  <2> QED BY <1>4, <2>1 DEF NextMessage
<1>5. {"Register", "Heartbeat", "OnlineUsers"} \subseteq Message
  BY DEF Message
<1>6. ASSUME NEW k \in Conn, HubRegister(k) PROVE SessionTypeOK'
  BY <1>4, <1>5, <1>6
     DEF HubRegister, HubAccept, HubRefuse, HubInsert, HubAnswer, HubAnswerFails
<1>7. ASSUME NEW k \in Conn, HubHeartbeat(k) \/ HubOnlineUsers(k)
      PROVE  SessionTypeOK'
  BY <1>4, <1>5, <1>7 DEF HubHeartbeat, HubOnlineUsers
<1>8. ASSUME NEW k \in Conn, HubCleanup(k) PROVE SessionTypeOK'
  BY <1>8 DEF HubCleanup, HubStreamEnd, HubOffline, HubClear
<1>9. ASSUME HubRestart PROVE SessionTypeOK'
  <2>1. <<>> \in Seq(Message)
    OBVIOUS
  <2> QED BY <1>9, <2>1 DEF HubRestart
<1>10. CASE UNCHANGED sessionVars
  BY <1>10 DEF sessionVars
<1> QED
  BY <1>1, <1>2, <1>3, <1>6, <1>7, <1>8, <1>9, <1>10
     DEF SessionNext, AgentStep, HubTask

\* Type correctness of the session state, for any set of streams.
THEOREM SessionTypeCorrect == SessionSpec => []SessionTypeOK
  BY SessionTypeInit, SessionTypeStep, PTL DEF SessionSpec

-----------------------------------------------------------------------------
\* A stream has a Hub task exactly when the Agent has opened it.
LEMMA StreamsMatchTasks == SessionSpec => []UnusedHasNoTask
<1>1. SessionInit => UnusedHasNoTask
  BY DEF SessionInit, UnusedHasNoTask
<1>2. SessionTypeOK /\ UnusedHasNoTask /\ [SessionNext]_sessionVars => UnusedHasNoTask'
  <2> SUFFICES ASSUME SessionTypeOK, UnusedHasNoTask, [SessionNext]_sessionVars
               PROVE  UnusedHasNoTask'
    OBVIOUS
  <2> USE DEF SessionTypeOK, TaskState, UnusedHasNoTask
  <2>1. ASSUME NEW k \in Conn, AgentStep(k) PROVE UnusedHasNoTask'
    BY <2>1 DEF AgentStep, AgentConnect, AgentLeave, AgentSend
  <2>2. ASSUME NEW k \in Conn, HubRegister(k) PROVE UnusedHasNoTask'
    BY <2>2 DEF HubRegister, HubAccept, HubRefuse, HubInsert, HubAnswer,
                HubAnswerFails, NextMessage
  <2>3. ASSUME NEW k \in Conn, HubHeartbeat(k) \/ HubOnlineUsers(k)
        PROVE  UnusedHasNoTask'
    BY <2>3 DEF HubHeartbeat, HubOnlineUsers
  <2>4. ASSUME NEW k \in Conn, HubCleanup(k) PROVE UnusedHasNoTask'
    BY <2>4 DEF HubCleanup, HubStreamEnd, HubOffline, HubClear
  <2>5. ASSUME HubRestart PROVE UnusedHasNoTask'
    BY <2>5 DEF HubRestart
  <2>6. CASE UNCHANGED sessionVars
    BY <2>6 DEF sessionVars
  <2> QED BY <2>1, <2>2, <2>3, <2>4, <2>5, <2>6 DEF SessionNext, HubTask
<1> QED BY <1>1, <1>2, SessionTypeCorrect, PTL DEF SessionSpec

-----------------------------------------------------------------------------
\* A node shown online is backed by an entry or by a task that is between
\* writing the one and the other: the order of the two writes in
\* handle_register and in the cleanup of stream().
THEOREM OnlineAlwaysBacked == SessionSpec => []OnlineIsBacked
<1>1. SessionInit => OnlineIsBacked
  BY DEF SessionInit, OnlineIsBacked
<1>2. SessionTypeOK /\ UnusedHasNoTask /\ OnlineIsBacked
        /\ [SessionNext]_sessionVars => OnlineIsBacked'
  <2> SUFFICES ASSUME SessionTypeOK, UnusedHasNoTask, OnlineIsBacked,
                      [SessionNext]_sessionVars
               PROVE  OnlineIsBacked'
    OBVIOUS
  <2> USE SessionAssumption DEF SessionTypeOK, TaskState, OnlineIsBacked
  <2>1. ASSUME NEW k \in Conn, AgentConnect(k) PROVE OnlineIsBacked'
    <3>1. task[k] = "none"
      BY <2>1 DEF AgentConnect, UnusedHasNoTask
    <3>2. \A j \in Conn : j # k => task'[j] = task[j]
      BY <2>1 DEF AgentConnect
    <3> QED BY <2>1, <3>1, <3>2 DEF AgentConnect
  <2>2. ASSUME NEW k \in Conn, AgentLeave(k) PROVE OnlineIsBacked'
    BY <2>2 DEF AgentLeave
  <2>3. ASSUME NEW k \in Conn, NEW m \in Message, AgentSend(k, m)
        PROVE  OnlineIsBacked'
    BY <2>3 DEF AgentSend
  <2>4. ASSUME NEW k \in Conn, HubAccept(k) PROVE OnlineIsBacked'
    BY <2>4 DEF HubAccept
  <2>5. ASSUME NEW k \in Conn, HubRefuse(k) PROVE OnlineIsBacked'
    BY <2>5 DEF HubRefuse
  <2>6. ASSUME NEW k \in Conn, HubInsert(k) PROVE OnlineIsBacked'
    BY <2>6 DEF HubInsert
  <2>7. ASSUME NEW k \in Conn, HubAnswer(k) \/ HubAnswerFails(k)
        PROVE  OnlineIsBacked'
    BY <2>7 DEF HubAnswer, HubAnswerFails
  <2>8. ASSUME NEW k \in Conn, HubHeartbeat(k) \/ HubOnlineUsers(k)
        PROVE  OnlineIsBacked'
    BY <2>8 DEF HubHeartbeat, HubOnlineUsers
  <2>9. ASSUME NEW k \in Conn, HubStreamEnd(k) PROVE OnlineIsBacked'
    BY <2>9 DEF HubStreamEnd
  <2>10. ASSUME NEW k \in Conn, HubOffline(k) PROVE OnlineIsBacked'
    BY <2>10 DEF HubOffline
  <2>11. ASSUME NEW k \in Conn, HubClear(k) PROVE OnlineIsBacked'
    BY <2>11 DEF HubClear
  <2>12. ASSUME HubRestart PROVE OnlineIsBacked'
    BY <2>12 DEF HubRestart
  <2>13. CASE UNCHANGED sessionVars
    BY <2>13 DEF sessionVars
  <2> QED
    BY <2>1, <2>2, <2>3, <2>4, <2>5, <2>6, <2>7, <2>8, <2>9, <2>10, <2>11,
       <2>12, <2>13
       DEF SessionNext, AgentStep, HubTask, HubRegister, HubCleanup
<1> QED BY <1>1, <1>2, SessionTypeCorrect, StreamsMatchTasks, PTL DEF SessionSpec

-----------------------------------------------------------------------------
\* Rows of client_online_sessions always have a registered task that will
\* delete them: only handle_online_users of a registered stream creates them,
\* and the cleanup of that stream deletes the rows of the whole node.
THEOREM SessionsAlwaysOwned == SessionSpec => []SessionsHaveOwner
<1>1. SessionInit => SessionsHaveOwner
  BY DEF SessionInit, SessionsHaveOwner
<1>2. SessionTypeOK /\ UnusedHasNoTask /\ SessionsHaveOwner
        /\ [SessionNext]_sessionVars => SessionsHaveOwner'
  <2> SUFFICES ASSUME SessionTypeOK, UnusedHasNoTask, SessionsHaveOwner,
                      [SessionNext]_sessionVars
               PROVE  SessionsHaveOwner'
    OBVIOUS
  <2> USE DEF SessionTypeOK, TaskState, SessionsHaveOwner
  <2>1. ASSUME NEW k \in Conn, AgentConnect(k) PROVE SessionsHaveOwner'
    <3>1. task[k] = "none"
      BY <2>1 DEF AgentConnect, UnusedHasNoTask
    <3>2. \A j \in Conn : j # k => task'[j] = task[j]
      BY <2>1 DEF AgentConnect
    <3> QED BY <2>1, <3>1, <3>2 DEF AgentConnect
  <2>2. ASSUME NEW k \in Conn, AgentLeave(k) PROVE SessionsHaveOwner'
    BY <2>2 DEF AgentLeave
  <2>3. ASSUME NEW k \in Conn, NEW m \in Message, AgentSend(k, m)
        PROVE  SessionsHaveOwner'
    BY <2>3 DEF AgentSend
  <2>4. ASSUME NEW k \in Conn, HubAccept(k) PROVE SessionsHaveOwner'
    BY <2>4 DEF HubAccept, NextMessage
  <2>5. ASSUME NEW k \in Conn, HubRefuse(k) \/ HubInsert(k) \/ HubAnswer(k)
                               \/ HubAnswerFails(k)
        PROVE  SessionsHaveOwner'
    BY <2>5 DEF HubRefuse, HubInsert, HubAnswer, HubAnswerFails, NextMessage
  <2>6. ASSUME NEW k \in Conn, HubHeartbeat(k) \/ HubOnlineUsers(k)
        PROVE  SessionsHaveOwner'
    BY <2>6 DEF HubHeartbeat, HubOnlineUsers, NextMessage
  <2>7. ASSUME NEW k \in Conn, HubStreamEnd(k) PROVE SessionsHaveOwner'
    BY <2>7 DEF HubStreamEnd
  <2>8. ASSUME NEW k \in Conn, HubOffline(k) PROVE SessionsHaveOwner'
    BY <2>8 DEF HubOffline
  <2>9. ASSUME NEW k \in Conn, HubClear(k) PROVE SessionsHaveOwner'
    BY <2>9 DEF HubClear
  <2>10. ASSUME HubRestart PROVE SessionsHaveOwner'
    BY <2>10 DEF HubRestart
  <2>11. CASE UNCHANGED sessionVars
    BY <2>11 DEF sessionVars
  <2> QED
    BY <2>1, <2>2, <2>3, <2>4, <2>5, <2>6, <2>7, <2>8, <2>9, <2>10, <2>11
       DEF SessionNext, AgentStep, HubTask, HubRegister, HubCleanup
<1> QED BY <1>1, <1>2, SessionTypeCorrect, StreamsMatchTasks, PTL DEF SessionSpec

-----------------------------------------------------------------------------
\* Facts about the message queue of one stream after the Agent's steps.
LEMMA AppendKeepsRegisters ==
  ASSUME NEW s \in Seq(Message), NEW m \in Message, m # "Register",
         NEW i \in 1..Len(Append(s, m)), Append(s, m)[i] = "Register"
  PROVE  i \in 1..Len(s) /\ s[i] = "Register"
  OBVIOUS

LEMMA PrefixKeepsRegisters ==
  ASSUME NEW s \in Seq(Message), NEW n \in 0..Len(s),
         NEW i \in 1..Len(SubSeq(s, 1, n)), SubSeq(s, 1, n)[i] = "Register"
  PROVE  i \in 1..Len(s) /\ s[i] = "Register"
  OBVIOUS

LEMMA TailShiftsRegisters ==
  ASSUME NEW s \in Seq(Message), s # <<>>,
         NEW i \in 1..Len(Tail(s)), Tail(s)[i] = "Register"
  PROVE  i + 1 \in 1..Len(s) /\ s[i + 1] = "Register" /\ i + 1 # 1
  OBVIOUS

\* After the task took the head of the queue no Register is left in it.
LEMMA NextMessageLeavesNoRegister ==
  ASSUME SessionTypeOK, RegisterOnce, NEW k \in Conn, NEW m \in Message,
         NextMessage(k, m), NEW i \in 1..Len(inbox'[k])
  PROVE  inbox'[k][i] # "Register"
<1>1. inbox[k] \in Seq(Message) /\ inbox[k] # <<>> /\ inbox'[k] = Tail(inbox[k])
  BY DEF NextMessage, SessionTypeOK
<1> QED BY <1>1, TailShiftsRegisters DEF RegisterOnce

\* A step that puts no Register on a queue, and leaves the other parts of the
\* state alone, keeps RegisterOnce.
LEMMA RegisterOnceFrame ==
  ASSUME RegisterOnce, task' = task, registered' = registered, entry' = entry,
         \A k \in Conn : \A i \in 1..Len(inbox'[k]) : inbox'[k][i] = "Register" =>
            i \in 1..Len(inbox[k]) /\ inbox[k][i] = "Register"
  PROVE  RegisterOnce'
<1>1. ASSUME NEW k \in Conn, NEW i \in 1..Len(inbox'[k]), inbox'[k][i] = "Register"
      PROVE  i = 1 /\ task'[k] = "reading" /\ ~registered'[k] /\ entry' # k
  BY <1>1 DEF RegisterOnce
<1>2. ASSUME NEW k \in Conn
      PROVE  /\ task'[k] \in {"none", "accepted", "inserted"} => ~registered'[k]
             /\ task'[k] = "accepted" => entry' # k
  BY <1>2 DEF RegisterOnce
<1> QED BY <1>1, <1>2 DEF RegisterOnce

\* The same for a step of the Hub task of stream k that leaves no Register on
\* that queue.
LEMMA RegisterOnceAtTask ==
  ASSUME RegisterOnce, NEW k \in Conn,
         \A i \in 1..Len(inbox'[k]) : inbox'[k][i] # "Register",
         task'[k] \in {"none", "accepted", "inserted"} => ~registered'[k],
         task'[k] = "accepted" => entry' # k,
         \A j \in Conn \ {k} :
            /\ inbox'[j] = inbox[j]
            /\ task'[j] = task[j]
            /\ registered'[j] = registered[j]
            /\ entry' = j => entry = j
  PROVE  RegisterOnce'
<1>1. ASSUME NEW h \in Conn, NEW i \in 1..Len(inbox'[h]), inbox'[h][i] = "Register"
      PROVE  i = 1 /\ task'[h] = "reading" /\ ~registered'[h] /\ entry' # h
  <2>1. h # k
    BY <1>1
  <2>2. inbox'[h] = inbox[h] /\ task'[h] = task[h] /\ registered'[h] = registered[h]
        /\ (entry' = h => entry = h)
    BY <2>1
  <2> QED BY <1>1, <2>2 DEF RegisterOnce
<1>2. ASSUME NEW h \in Conn
      PROVE  /\ task'[h] \in {"none", "accepted", "inserted"} => ~registered'[h]
             /\ task'[h] = "accepted" => entry' # h
  <2>1. CASE h = k
    BY <2>1
  <2>2. CASE h # k
    BY <2>2 DEF RegisterOnce
  <2> QED BY <2>1, <2>2
<1> QED BY <1>1, <1>2 DEF RegisterOnce

LEMMA RegisterOnceStep ==
  SessionTypeOK /\ UnusedHasNoTask /\ EntryHasReader /\ RegisterOnce
    /\ [SessionNext]_sessionVars => RegisterOnce'
<1> SUFFICES ASSUME SessionTypeOK, UnusedHasNoTask, EntryHasReader,
                    RegisterOnce, [SessionNext]_sessionVars
             PROVE  RegisterOnce'
  OBVIOUS
<1> USE SessionAssumption DEF SessionTypeOK, TaskState
<1>1. ASSUME NEW k \in Conn, AgentConnect(k) PROVE RegisterOnce'
  <2>1. task[k] = "none" /\ link[k] = "unused"
    BY <1>1 DEF AgentConnect, UnusedHasNoTask
  <2>2. entry # k /\ ~registered[k]
    BY <2>1 DEF EntryHasReader, RegisterOnce
  <2>3. task'[k] = "reading" /\ inbox'[k] = <<"Register">>
    BY <1>1 DEF AgentConnect
  <2>4. \A j \in Conn \ {k} : task'[j] = task[j] /\ inbox'[j] = inbox[j]
    BY <1>1 DEF AgentConnect
  <2>5. registered' = registered /\ entry' = entry
    BY <1>1 DEF AgentConnect
  <2> QED BY <2>2, <2>3, <2>4, <2>5 DEF RegisterOnce
<1>2. ASSUME NEW k \in Conn, AgentLeave(k) PROVE RegisterOnce'
  <2>1. PICK n \in 0..Len(inbox[k]) :
          inbox' = [inbox EXCEPT ![k] = SubSeq(@, 1, n)]
    BY <1>2 DEF AgentLeave
  <2>2. inbox[k] \in Seq(Message) /\ inbox'[k] = SubSeq(inbox[k], 1, n)
    BY <2>1
  <2>3. \A i \in 1..Len(inbox'[k]) : inbox'[k][i] = "Register" =>
          i \in 1..Len(inbox[k]) /\ inbox[k][i] = "Register"
    BY <2>2, PrefixKeepsRegisters
  <2>4. \A j \in Conn \ {k} : inbox'[j] = inbox[j]
    BY <2>1
  <2>5. UNCHANGED <<task, registered, entry>>
    BY <1>2 DEF AgentLeave
  <2> QED BY <2>3, <2>4, <2>5, RegisterOnceFrame
<1>3. ASSUME NEW k \in Conn, NEW m \in Message, AgentSend(k, m)
      PROVE  RegisterOnce'
  <2>1. inbox' = [inbox EXCEPT ![k] = Append(@, m)] /\ m # "Register"
    BY <1>3 DEF AgentSend
  <2>2. inbox[k] \in Seq(Message) /\ inbox'[k] = Append(inbox[k], m)
    BY <2>1
  <2>3. \A i \in 1..Len(inbox'[k]) : inbox'[k][i] = "Register" =>
          i \in 1..Len(inbox[k]) /\ inbox[k][i] = "Register"
    BY <2>1, <2>2, AppendKeepsRegisters
  <2>4. \A j \in Conn \ {k} : inbox'[j] = inbox[j]
    BY <2>1
  <2>5. UNCHANGED <<task, registered, entry>>
    BY <1>3 DEF AgentSend
  <2> QED BY <2>3, <2>4, <2>5, RegisterOnceFrame
<1>4. ASSUME NEW k \in Conn, NEW m \in Message, NextMessage(k, m)
      PROVE  /\ \A i \in 1..Len(inbox'[k]) : inbox'[k][i] # "Register"
             /\ \A j \in Conn \ {k} : inbox'[j] = inbox[j]
             /\ task[k] = "reading"
  BY <1>4, NextMessageLeavesNoRegister DEF NextMessage
<1>5. {"Register", "Heartbeat", "OnlineUsers"} \subseteq Message
  BY DEF Message
<1>6. ASSUME NEW k \in Conn, HubAccept(k) PROVE RegisterOnce'
  <2>1. NextMessage(k, "Register") /\ "Register" \in Message
    BY <1>5, <1>6 DEF HubAccept
  <2>2. inbox[k] # <<>> /\ Head(inbox[k]) = "Register" /\ inbox[k] \in Seq(Message)
    BY <2>1 DEF NextMessage
  <2>3. 1 \in 1..Len(inbox[k]) /\ inbox[k][1] = "Register"
    BY <2>2
  <2>4. ~registered[k] /\ entry # k
    BY <2>3 DEF RegisterOnce
  <2>5. task' = [task EXCEPT ![k] = "accepted"] /\ registered' = registered
        /\ entry' = entry
    BY <1>6 DEF HubAccept
  <2> QED BY <1>4, <2>1, <2>4, <2>5, RegisterOnceAtTask
<1>7. ASSUME NEW k \in Conn, NEW m \in Message, NextMessage(k, m),
             UNCHANGED <<task, registered, entry>>
      PROVE  RegisterOnce'
  <2>1. \A i \in 1..Len(inbox'[k]) : inbox'[k][i] # "Register"
    BY <1>4, <1>7
  <2>2. \A j \in Conn \ {k} : inbox'[j] = inbox[j]
    BY <1>4, <1>7
  <2> QED BY <1>7, <2>1, <2>2, RegisterOnceFrame
<1>8. ASSUME NEW k \in Conn, HubRefuse(k) \/ HubHeartbeat(k) \/ HubOnlineUsers(k)
      PROVE  RegisterOnce'
  BY <1>5, <1>7, <1>8 DEF HubRefuse, HubHeartbeat, HubOnlineUsers
<1>9. ASSUME NEW k \in Conn,
             HubInsert(k) \/ HubAnswer(k) \/ HubAnswerFails(k) \/ HubCleanup(k)
      PROVE  RegisterOnce'
  <2>1. \A i \in 1..Len(inbox[k]) : inbox[k][i] # "Register"
    BY <1>9 DEF HubInsert, HubAnswer, HubAnswerFails, HubCleanup, HubStreamEnd,
                HubOffline, HubClear, RegisterOnce
  <2>2. inbox' = inbox
    BY <1>9 DEF HubInsert, HubAnswer, HubAnswerFails, HubCleanup, HubStreamEnd,
                HubOffline, HubClear
  <2>3. /\ task'[k] \in {"none", "accepted", "inserted"} => ~registered'[k]
        /\ task'[k] # "accepted"
    BY <1>9 DEF HubInsert, HubAnswer, HubAnswerFails, HubCleanup, HubStreamEnd,
                HubOffline, HubClear, RegisterOnce
  <2>4. ASSUME NEW j \in Conn \ {k}
        PROVE  /\ task'[j] = task[j]
               /\ registered'[j] = registered[j]
               /\ entry' = j => entry = j
    BY <1>9, <2>4 DEF HubInsert, HubAnswer, HubAnswerFails, HubCleanup,
                      HubStreamEnd, HubOffline, HubClear
  <2> QED BY <2>1, <2>2, <2>3, <2>4, RegisterOnceAtTask
<1>10. ASSUME HubRestart PROVE RegisterOnce'
  BY <1>10 DEF HubRestart, RegisterOnce
<1>11. CASE UNCHANGED sessionVars
  BY <1>11 DEF sessionVars, RegisterOnce
<1> QED
  BY <1>1, <1>2, <1>3, <1>6, <1>8, <1>9, <1>10, <1>11
     DEF SessionNext, AgentStep, HubTask, HubRegister

LEMMA EntryHasReaderStep ==
  SessionTypeOK /\ UnusedHasNoTask /\ EntryHasReader /\ RegisterOnce
    /\ [SessionNext]_sessionVars => EntryHasReader'
<1> SUFFICES ASSUME SessionTypeOK, UnusedHasNoTask, EntryHasReader,
                    RegisterOnce, [SessionNext]_sessionVars
             PROVE  EntryHasReader'
  OBVIOUS
<1> USE SessionAssumption DEF SessionTypeOK, TaskState
<1>1. ASSUME NEW k \in Conn, AgentConnect(k) PROVE EntryHasReader'
  <2>1. task[k] = "none" /\ link[k] = "unused"
    BY <1>1 DEF AgentConnect, UnusedHasNoTask
  <2>2. entry # k
    BY <2>1 DEF EntryHasReader
  <2> QED BY <1>1, <2>2 DEF AgentConnect, EntryHasReader
<1>2. ASSUME NEW k \in Conn, AgentLeave(k) PROVE EntryHasReader'
  BY <1>2 DEF AgentLeave, EntryHasReader
<1>3. ASSUME NEW k \in Conn, NEW m \in Message, AgentSend(k, m)
      PROVE  EntryHasReader'
  BY <1>3 DEF AgentSend, EntryHasReader
<1>4. ASSUME NEW k \in Conn, HubAccept(k) PROVE EntryHasReader'
  <2>1. inbox[k] # <<>> /\ Head(inbox[k]) = "Register" /\ inbox[k] \in Seq(Message)
    BY <1>4 DEF HubAccept, NextMessage
  <2>2. 1 \in 1..Len(inbox[k]) /\ inbox[k][1] = "Register"
    BY <2>1
  <2>3. entry # k
    BY <2>2 DEF RegisterOnce
  <2> QED BY <1>4, <2>3 DEF HubAccept, EntryHasReader
<1>5. ASSUME NEW k \in Conn, HubRefuse(k) \/ HubHeartbeat(k) \/ HubOnlineUsers(k)
      PROVE  EntryHasReader'
  BY <1>5 DEF HubRefuse, HubHeartbeat, HubOnlineUsers, EntryHasReader
<1>6. ASSUME NEW k \in Conn, HubInsert(k) PROVE EntryHasReader'
  BY <1>6 DEF HubInsert, EntryHasReader
<1>7. ASSUME NEW k \in Conn, HubAnswer(k) \/ HubAnswerFails(k)
      PROVE  EntryHasReader'
  BY <1>7 DEF HubAnswer, HubAnswerFails, EntryHasReader, RegisterOnce
<1>8. ASSUME NEW k \in Conn, HubCleanup(k) PROVE EntryHasReader'
  BY <1>8 DEF HubCleanup, HubStreamEnd, HubOffline, HubClear, EntryHasReader
<1>9. ASSUME HubRestart PROVE EntryHasReader'
  BY <1>9 DEF HubRestart, EntryHasReader
<1>10. CASE UNCHANGED sessionVars
  BY <1>10 DEF sessionVars, EntryHasReader
<1> QED
  BY <1>1, <1>2, <1>3, <1>4, <1>5, <1>6, <1>7, <1>8, <1>9, <1>10
     DEF SessionNext, AgentStep, HubTask, HubRegister

\* An entry of AppState.agents belongs to a task that will remove it, unless
\* the answer to its Register could not be sent.
THEOREM EntryAlwaysHasReader == SessionSpec => [](EntryHasReader /\ RegisterOnce)
<1>1. SessionInit => EntryHasReader /\ RegisterOnce
  BY SessionAssumption DEF SessionInit, EntryHasReader, RegisterOnce
<1> QED
  BY <1>1, EntryHasReaderStep, RegisterOnceStep, SessionTypeCorrect,
     StreamsMatchTasks, PTL DEF SessionSpec

-----------------------------------------------------------------------------
(* A step of ConfigPush is a session step                                  *)

LEMMA PushStepIsSessionStep ==
  ASSUME [PushNext]_allVars
  PROVE  [SessionNext]_sessionVars
<1>1. CASE EditStep
  BY <1>1 DEF EditStep, UpdateConfig, MoveConfig, DeleteConfig, EditBinding,
              MarkPending, Untouched
<1>2. CASE \E p \in Pusher : PushStep(p)
  BY <1>2 DEF PushStep, AdminBuild, StartPush, SendFails, Send, Record, ClearPending
<1>3. CASE SchedulerPass
  BY <1>3 DEF SchedulerPass, SchedulerBuild, ReconcileBuild, StartPush
<1>4. CASE NodeStep
  <2>1. CASE AgentCrash
    BY <2>1 DEF AgentCrash, SessionNext, AgentStep
  <2>2. CASE ~AgentCrash
    BY <1>4, <2>2 DEF NodeStep, AgentHandle, CoreCrash, AgentStart
  <2> QED BY <2>1, <2>2
<1>5. CASE \E k \in Conn : StreamStep(k)
  BY <1>5 DEF StreamStep, Connect, Leave, Insert, StreamEnd, SessionStep,
              SessionNext, AgentStep, HubTask, HubRegister, HubCleanup
<1>6. CASE Restart
  BY <1>6 DEF Restart, SessionNext
<1>7. CASE UNCHANGED allVars
  BY <1>7 DEF allVars
<1> QED BY <1>1, <1>2, <1>3, <1>4, <1>5, <1>6, <1>7 DEF PushNext

\* Pushes, edits and the Agent's work on messages never disturb the session:
\* ConfigPush implements AgentSession, so what is proved of overlapping streams
\* (stream, handle_register, the cleanup) holds while configurations are pushed.
THEOREM PushImplementsSession == PushSpec => SessionSpec
<1>1. PushInit => SessionInit
  BY DEF PushInit
<1> QED BY <1>1, PushStepIsSessionStep, PTL DEF PushSpec, SessionSpec

COROLLARY PushKeepsSessionType == PushSpec => []SessionTypeOK
BY PushImplementsSession, SessionTypeCorrect, PTL

-----------------------------------------------------------------------------
(* Sequences of Hub messages                                               *)

LEMMA PrefixOf ==
  ASSUME NEW S, NEW s \in Seq(S), NEW n \in Nat
  PROVE  /\ Prefix(s, n) \in Seq(S)
         /\ \A i \in 1..Len(Prefix(s, n)) : i \in 1..Len(s) /\ Prefix(s, n)[i] = s[i]
BY DEF Prefix

LEMMA TailOf ==
  ASSUME NEW S, NEW s \in Seq(S), s # <<>>
  PROVE  /\ Tail(s) \in Seq(S) /\ Head(s) \in S /\ Head(s) = s[1]
         /\ \A i \in 1..Len(Tail(s)) : i + 1 \in 1..Len(s) /\ Tail(s)[i] = s[i + 1]
OBVIOUS

-----------------------------------------------------------------------------
(* Types                                                                   *)

LEMMA PushTypeInit == PushInit => PushTypeOK
<1> SUFFICES ASSUME PushInit PROVE PushTypeOK
  OBVIOUS
<1>1. chan \in [Conn -> Seq(ToAgent)]
  <2>1. <<>> \in Seq(ToAgent)
    OBVIOUS
  <2> QED BY <2>1 DEF PushInit
<1>2. push \in [Pusher -> PushState]
  BY DEF PushInit, Idle, PushState
<1>3. \A p \in Pusher : push[p].pc = "idle"
  BY DEF PushInit, Idle
<1>4. Nothing \in [Core -> Config \union {NoConfig}]
  BY DEF Nothing
<1>5. pending \in [Core -> BOOLEAN]
  <2>1. \A c \in Core : pending[c] \in BOOLEAN
    BY DEF PushInit
  <2> QED BY <2>1 DEF PushInit
<1> QED BY <1>1, <1>2, <1>3, <1>4, <1>5 DEF PushInit, PushTypeOK, Bound, Nothing

LEMMA PushTypeEdit ==
  ASSUME PushTypeOK, EditStep
  PROVE  PushTypeOK'
<1> USE PushAssumption DEF PushTypeOK, Untouched, hubVars, agentVars, historyVars, Edit
<1>1. ASSUME NEW c \in Core, NEW x \in Bound, UpdateConfig(c, x) PROVE PushTypeOK'
  BY <1>1 DEF UpdateConfig
<1>2. ASSUME NEW c \in Core, NEW d \in Core, NEW x \in Bound, MoveConfig(c, d, x)
      PROVE  PushTypeOK'
  BY <1>2 DEF MoveConfig
<1>3. ASSUME NEW c \in Core, NEW x \in Bound \union {NoConfig}, DeleteConfig(c, x)
      PROVE  PushTypeOK'
  BY <1>3 DEF DeleteConfig
<1>4. ASSUME NEW c \in Core, NEW x \in Bound \union {NoConfig}, EditBinding(c, x)
      PROVE  PushTypeOK'
  BY <1>4 DEF EditBinding
<1>5. ASSUME NEW c \in Core, MarkPending(c) PROVE PushTypeOK'
  BY <1>5 DEF MarkPending
<1> QED BY <1>1, <1>2, <1>3, <1>4, <1>5 DEF EditStep

LEMMA BusyPush ==
  ASSUME PushTypeOK, NEW p \in Pusher, push[p].pc # "idle"
  PROVE  /\ push[p] \in PushState
         /\ push[p].core \in Core
         /\ push[p].config \in Config \union {Blank}
         /\ push[p].restart \in BOOLEAN
<1>1. push[p] \in PushState
  BY DEF PushTypeOK
<1>2. push[p].core \in Core /\ push[p].config # NoConfig
  BY DEF PushTypeOK
<1> QED BY <1>1, <1>2 DEF PushState

LEMMA PushTypeStart ==
  ASSUME PushTypeOK, NEW p \in Pusher, NEW c \in Core, NEW r \in BOOLEAN,
         NEW x \in Config \union {Blank}, StartPush(p, c, x, r),
         pushes' \in Nat
  PROVE  PushTypeOK'
BY PushAssumption
   DEF PushTypeOK, PushState, StartPush, dbVars, agentVars, historyVars

LEMMA PushTypePush ==
  ASSUME SessionTypeOK, PushTypeOK, NEW p \in Pusher, PushStep(p)
  PROVE  PushTypeOK'
<1>1. ASSUME NEW c \in Core, NEW r \in BOOLEAN, AdminBuild(p, c, r) PROVE PushTypeOK'
  <2> DEFINE x == IF desired[c] = NoConfig THEN EmptyConfig ELSE desired[c]
  <2>1. x \in Config \union {Blank}
    BY PushAssumption DEF PushTypeOK, Bound
  <2>2. pushes' \in Nat
    BY <1>1 DEF AdminBuild, PushTypeOK
  <2>3. StartPush(p, c, x, r)
    BY <1>1 DEF AdminBuild
  <2> QED BY <2>1, <2>2, <2>3, PushTypeStart
<1>2. CASE SendFails(p)
  BY <1>2, PushAssumption
     DEF SendFails, PushEnds, Idle, PushState, PushTypeOK, dbVars, agentVars, historyVars
<1>3. CASE Send(p)
  <2>1. push[p].core \in Core /\ push[p].config \in Config \union {Blank}
    BY <1>3, BusyPush DEF Send
  <2>2. chan' \in [Conn -> Seq(ToAgent)]
    <3> DEFINE m == [core |-> push[p].core, config |-> push[p].config,
                     restart |-> push[p].restart]
    <3>1. m \in ToAgent
      BY <1>3, <2>1, BusyPush DEF Send, ToAgent
    <3>2. CASE link[entry] = "open"
      <4>1. entry \in Conn /\ chan' = [chan EXCEPT ![entry] = Append(@, m)]
        BY <1>3, <3>2 DEF Send, SessionTypeOK
      <4>2. Append(chan[entry], m) \in Seq(ToAgent)
        BY <3>1, <4>1 DEF PushTypeOK
      <4> QED BY <4>1, <4>2 DEF PushTypeOK
    <3>3. CASE link[entry] # "open"
      BY <1>3, <3>3 DEF Send, PushTypeOK
    <3> QED BY <3>2, <3>3
  <2>3. entry \in Conn
    BY <1>3 DEF Send, SessionTypeOK
  <2>4. offered' \in [Core -> SUBSET Config] /\ delivered' \in [Core -> Config \union {NoConfig}]
    <3>1. CASE push[p].config = Blank
      BY <1>3, <3>1 DEF Send, PushTypeOK
    <3>2. CASE push[p].config # Blank
      <4>1. push[p].config \in Config
        BY <2>1, <3>2
      <4>2. /\ offered' = [offered EXCEPT ![push[p].core] = @ \union {push[p].config}]
            /\ delivered' = [delivered EXCEPT ![push[p].core] = push[p].config]
        BY <1>3, <3>2 DEF Send
      <4> QED BY <2>1, <4>1, <4>2 DEF PushTypeOK
    <3> QED BY <3>1, <3>2
  <2>5. /\ push' \in [Pusher -> PushState]
        /\ \A q \in Pusher : push'[q].pc # "idle" =>
             push'[q].core \in Core /\ push'[q].config # NoConfig
    <3> DEFINE new == [push[p] EXCEPT !.pc = "sent", !.via = entry]
    <3>1. push' = [push EXCEPT ![p] = new]
      BY <1>3 DEF Send
    <3>2. new \in PushState /\ new.core \in Core /\ new.config # NoConfig
      BY <1>3, <2>3, BusyPush, PushAssumption DEF Send, PushState
    <3> HIDE DEF new
    <3> QED BY <3>1, <3>2 DEF PushTypeOK
  <2> QED BY <1>3, <2>1, <2>2, <2>3, <2>4, <2>5
          DEF Send, PushTypeOK, dbVars, agentVars
<1>4. CASE Record(p)
  <2>1. push[p].core \in Core /\ push[p].config \in Config \union {Blank}
    BY <1>4, BusyPush DEF Record
  <2>2. recorded' \in [Core -> Config \union {NoConfig, Blank}]
    BY <1>4, <2>1 DEF Record, PushTypeOK
  <2>3. doubt' \in [Core -> BOOLEAN]
    <3>1. (doubt[push[p].core] \/ Crossed(p)) \in BOOLEAN
      OBVIOUS
    <3>2. doubt' = [doubt EXCEPT ![push[p].core] = doubt[push[p].core] \/ Crossed(p)]
      BY <1>4 DEF Record
    <3> HIDE DEF Crossed
    <3> QED BY <3>1, <3>2, <2>1 DEF PushTypeOK
  <2>4. /\ push' \in [Pusher -> PushState]
        /\ \A q \in Pusher : push'[q].pc # "idle" =>
             push'[q].core \in Core /\ push'[q].config # NoConfig
    <3> DEFINE new == IF push[p].config = Blank THEN Idle
                      ELSE [push[p] EXCEPT !.pc = "recorded"]
    <3>1. push' = [push EXCEPT ![p] = new]
      BY <1>4 DEF Record, PushEnds
    <3>2. new \in PushState
      BY <1>4, BusyPush DEF Record, PushState, Idle
    <3>3. new.pc # "idle" => new.core \in Core /\ new.config # NoConfig
      BY <1>4, BusyPush, PushAssumption DEF Record, Idle
    <3> HIDE DEF new
    <3> QED BY <3>1, <3>2, <3>3 DEF PushTypeOK
  <2> QED BY <1>4, <2>2, <2>3, <2>4 DEF Record, PushTypeOK, dbVars, agentVars
<1>5. CASE ClearPending(p)
  BY <1>5, PushAssumption
     DEF ClearPending, PushEnds, Idle, PushState, PushTypeOK, agentVars, historyVars
<1> QED BY <1>1, <1>2, <1>3, <1>4, <1>5 DEF PushStep

LEMMA PushTypeScheduler ==
  ASSUME PushTypeOK, SchedulerPass
  PROVE  PushTypeOK'
<1>1. PICK c \in Core : SchedulerBuild(c) \/ ReconcileBuild(c)
  BY DEF SchedulerPass
<1>2. CASE SchedulerBuild(c)
  <2>1. desired[c] \in Config \union {Blank} /\ pushes' \in Nat
    BY <1>2 DEF SchedulerBuild, PushTypeOK, Bound
  <2> QED BY <1>2, <2>1, PushTypeStart DEF SchedulerBuild, SchedulerPass
<1>3. CASE ReconcileBuild(c)
  <2>1. pushes' \in Nat
    BY <1>3 DEF ReconcileBuild, PushTypeOK
  <2> QED BY <1>3, <2>1, PushTypeStart DEF ReconcileBuild, SchedulerPass
<1> QED BY <1>1, <1>2, <1>3

LEMMA PushTypeNode ==
  ASSUME PushTypeOK, NodeStep
  PROVE  PushTypeOK'
<1>1. ASSUME NEW k \in Conn, AgentHandle(k) PROVE PushTypeOK'
  <2> DEFINE m == Head(chan[k])
  <2>1. Tail(chan[k]) \in Seq(ToAgent) /\ m \in ToAgent
    BY <1>1, TailOf DEF AgentHandle, PushTypeOK
  <2>2. chan' \in [Conn -> Seq(ToAgent)]
    BY <1>1, <2>1 DEF AgentHandle, PushTypeOK
  <2>3. m.core \in Core /\ m.config \in Config \union {Blank}
    BY <2>1 DEF ToAgent
  <2>4. /\ snapshot' \in [Core -> Config \union {NoConfig}]
        /\ running' \in [Core -> Config \union {NoConfig}]
        /\ accepted' \in [Core -> SUBSET Config]
        /\ doubt' \in [Core -> BOOLEAN]
    <3> HIDE DEF m
    <3>1. HandleMessage(m)
      BY <1>1 DEF AgentHandle, m
    <3>2. CASE StopCore(m)
      BY <2>3, <3>2 DEF StopCore, PushTypeOK
    <3>3. CASE SkipPush(m)
      BY <3>3 DEF SkipPush, PushTypeOK
    <3>4. CASE ApplyPush(m)
      BY <2>3, <3>4 DEF ApplyPush, PushTypeOK
    <3>5. CASE RefusePush(m)
      <4>1. running' \in [Core -> Config \union {NoConfig}]
        BY <2>3, <3>5 DEF RefusePush, PushTypeOK
      <4> QED BY <2>3, <3>5, <4>1 DEF RefusePush, PushTypeOK
    <3> QED BY <3>1, <3>2, <3>3, <3>4, <3>5 DEF HandleMessage
  <2> QED BY <1>1, <2>2, <2>4 DEF AgentHandle, PushTypeOK, dbVars, hubVars
<1>2. ASSUME NEW c \in Core, CoreCrash(c) PROVE PushTypeOK'
  BY <1>2 DEF CoreCrash, PushTypeOK, dbVars, hubVars, historyVars
<1>3. CASE AgentStart
  BY <1>3 DEF AgentStart, PushTypeOK, dbVars, hubVars, historyVars
<1>4. CASE AgentCrash
  <2>1. <<>> \in Seq(ToAgent)
    OBVIOUS
  <2> QED BY <1>4, <2>1
          DEF AgentCrash, Nothing, PushTypeOK, dbVars, hubVars, historyVars
<1> QED BY <1>1, <1>2, <1>3, <1>4 DEF NodeStep

LEMMA PushTypeStream ==
  ASSUME PushTypeOK, NEW k \in Conn, StreamStep(k)
  PROVE  PushTypeOK'
<1> USE DEF PushTypeOK, dbVars, agentVars
<1>1. CASE Connect(k)
  BY <1>1 DEF Connect, hubVars, historyVars
<1>2. CASE Leave(k)
  <2>1. PICK n \in 0..MaxQueue : chan' = [chan EXCEPT ![k] = Prefix(@, n)]
    BY <1>2 DEF Leave
  <2>2. Prefix(chan[k], n) \in Seq(ToAgent)
    BY PushAssumption, PrefixOf
  <2>3. chan' \in [Conn -> Seq(ToAgent)]
    BY <2>1, <2>2
  <2> QED BY <1>2, <2>3 DEF Leave, hubVars, historyVars
<1>3. CASE Insert(k)
  BY <1>3 DEF Insert, Nothing
<1>4. CASE StreamEnd(k)
  BY <1>4 DEF StreamEnd, Nothing, historyVars
<1>5. CASE SessionStep(k)
  BY <1>5 DEF SessionStep, pushVars, hubVars, historyVars
<1> QED BY <1>1, <1>2, <1>3, <1>4, <1>5 DEF StreamStep

LEMMA PushTypeStep ==
  PushTypeOK /\ SessionTypeOK /\ [PushNext]_allVars => PushTypeOK'
<1> SUFFICES ASSUME PushTypeOK, SessionTypeOK, [PushNext]_allVars
             PROVE  PushTypeOK'
  OBVIOUS
<1>1. CASE Restart
  <2>1. PICK n \in 0..MaxQueue : chan' = [k \in Conn |-> Prefix(chan[k], n)]
    BY <1>1 DEF Restart
  <2>2. \A k \in Conn : Prefix(chan[k], n) \in Seq(ToAgent)
    BY PushAssumption, PrefixOf DEF PushTypeOK
  <2>3. chan' \in [Conn -> Seq(ToAgent)]
    BY <2>1, <2>2
  <2> QED BY <1>1, <2>3
          DEF Restart, PushTypeOK, PushState, Nothing, Idle, agentVars, historyVars
<1>2. CASE UNCHANGED allVars
  BY <1>2 DEF allVars, pushVars, dbVars, hubVars, agentVars, historyVars, PushTypeOK
<1> QED BY <1>1, <1>2, PushTypeEdit, PushTypePush, PushTypeScheduler, PushTypeNode,
           PushTypeStream DEF PushNext

\* Type correctness of the push state, for any streams, cores and pushers.
THEOREM PushTypeCorrect == PushSpec => []PushTypeOK
<1>1. PushSpec => []SessionTypeOK
  BY PushKeepsSessionType
<1> QED BY <1>1, PushTypeInit, PushTypeStep, PTL DEF PushSpec

-----------------------------------------------------------------------------
(* From send_to_agent to the core                                          *)

LEMMA OriginInit == PushInit => Origin
BY DEF PushInit, Idle, Nothing, Origin, RecordedWasOffered, SnapshotWasAccepted,
       CarriesOffered, RunsAccepted

\* A step that sends, handles and records nothing keeps Origin.
LEMMA OriginFrame ==
  ASSUME Origin, UNCHANGED <<offered, accepted, snapshot, running, recorded, report, chan>>,
         agentUp' \/ agentUp' = agentUp,
         \A p \in Pusher : push'[p] = push[p] \/ push'[p].pc \notin {"sent", "recorded"}
  PROVE  Origin'
BY DEF Origin, RecordedWasOffered, SnapshotWasAccepted, CarriesOffered, RunsAccepted, Nothing

LEMMA OriginPush ==
  ASSUME SessionTypeOK, PushTypeOK, Origin, NEW p \in Pusher, PushStep(p)
  PROVE  Origin'
<1>1. ASSUME NEW c \in Core, NEW r \in BOOLEAN, AdminBuild(p, c, r) PROVE Origin'
  BY <1>1, OriginFrame
     DEF AdminBuild, StartPush, PushTypeOK, agentVars, historyVars
<1>2. CASE SendFails(p)
  BY <1>2, OriginFrame DEF SendFails, PushEnds, Idle, PushTypeOK, agentVars, historyVars
<1>3. CASE Send(p)
  <2> DEFINE c == push[p].core
             x == push[p].config
             m == [core |-> c, config |-> x, restart |-> push[p].restart]
  <2>1. c \in Core /\ x \in Config \union {Blank}
    BY <1>3, BusyPush DEF Send
  <2>2. UNCHANGED <<accepted, snapshot, running, recorded, report, agentUp>>
    BY <1>3 DEF Send, agentVars
  <2>3. (\A d \in Core : offered[d] \subseteq offered'[d]) /\ (x = Blank \/ x \in offered'[c])
    BY <1>3, <2>1 DEF Send, PushTypeOK
  <2>4. \A k \in Conn : \A i \in 1..Len(chan'[k]) :
          chan'[k][i] = m \/ (i \in 1..Len(chan[k]) /\ chan'[k][i] = chan[k][i])
    <3>1. CASE chan' = chan
      BY <3>1
    <3>2. CASE chan' # chan
      <4>1. entry \in Conn /\ chan' = [chan EXCEPT ![entry] = Append(@, m)]
        BY <1>3, <3>2 DEF Send, SessionTypeOK
      <4>2. chan[entry] \in Seq(ToAgent)
        BY <4>1 DEF PushTypeOK
      <4>3. \A i \in 1..Len(Append(chan[entry], m)) :
              \/ Append(chan[entry], m)[i] = m
              \/ i \in 1..Len(chan[entry]) /\ Append(chan[entry], m)[i] = chan[entry][i]
        BY <4>2
      <4> QED BY <4>1, <4>3 DEF PushTypeOK
    <3> QED BY <3>1, <3>2
  <2>5. push'[p].core = c /\ push'[p].config = x /\ \A q \in Pusher \ {p} : push'[q] = push[q]
    BY <1>3 DEF Send, PushTypeOK, PushState
  <2>6. m.core = c /\ m.config = x
    OBVIOUS
  <2>7. \A k \in Conn : \A i \in 1..Len(chan[k]) : chan[k][i].core \in Core
    <3>1. \A k \in Conn : chan[k] \in Seq(ToAgent)
      BY DEF PushTypeOK
    <3>2. \A k \in Conn : \A i \in 1..Len(chan[k]) : chan[k][i] \in ToAgent
      BY <3>1
    <3> QED BY <3>2 DEF ToAgent
  <2>8. \A q \in Pusher : push[q].pc \in {"sent", "recorded"} => push[q].core \in Core
    BY DEF PushTypeOK
  <2>9. CarriesOffered'
    <3> HIDE DEF c, x, m
    <3>1. \A k \in Conn : \A i \in 1..Len(chan'[k]) :
            chan'[k][i].config \in offered'[chan'[k][i].core] \union {Blank}
      BY <2>3, <2>4, <2>6, <2>7 DEF Origin, CarriesOffered
    <3>2. \A q \in Pusher : push'[q].pc \in {"sent", "recorded"} =>
            push'[q].config \in offered'[push'[q].core] \union {Blank}
      BY <2>3, <2>5, <2>8 DEF Origin, CarriesOffered
    <3> QED BY <3>1, <3>2 DEF CarriesOffered
  <2> HIDE DEF c, x, m
  <2> QED BY <2>2, <2>3, <2>9
          DEF Origin, RecordedWasOffered, SnapshotWasAccepted, RunsAccepted, Nothing
<1>4. CASE Record(p)
  <2>1. push[p].core \in Core /\ push[p].config \in offered[push[p].core] \union {Blank}
    BY <1>4, BusyPush DEF Record, Origin, CarriesOffered
  <2>2. \A c \in Core : recorded'[c] = recorded[c] \/ (c = push[p].core /\ recorded'[c] = push[p].config)
    BY <1>4 DEF Record, PushTypeOK
  <2>3. UNCHANGED <<offered, accepted, snapshot, running, report, agentUp, chan>>
    BY <1>4 DEF Record, agentVars
  <2>4. \A q \in Pusher : push'[q].pc \in {"sent", "recorded"} =>
          push[q].pc \in {"sent", "recorded"} /\ push'[q].core = push[q].core
          /\ push'[q].config = push[q].config
    <3>1. \A q \in Pusher \ {p} : push'[q] = push[q]
      BY <1>4 DEF Record, PushEnds, PushTypeOK
    <3>2. push[p].pc = "sent" /\ push[p] \in PushState
      BY <1>4, BusyPush DEF Record
    <3>3. \/ push'[p] = Idle
          \/ push'[p] = [push[p] EXCEPT !.pc = "recorded"]
      BY <1>4 DEF Record, PushEnds, PushTypeOK
    <3>4. push'[p].pc \in {"sent", "recorded"} =>
            push'[p].core = push[p].core /\ push'[p].config = push[p].config
      BY <3>2, <3>3 DEF PushState, Idle
    <3> QED BY <3>1, <3>2, <3>4
  <2>5. CarriesOffered'
    BY <2>3, <2>4 DEF Origin, CarriesOffered
  <2> QED BY <2>1, <2>2, <2>3, <2>5
          DEF Origin, RecordedWasOffered, SnapshotWasAccepted, RunsAccepted, Nothing
<1>5. CASE ClearPending(p)
  BY <1>5, OriginFrame
     DEF ClearPending, PushEnds, Idle, PushTypeOK, agentVars, historyVars
<1> QED BY <1>1, <1>2, <1>3, <1>4, <1>5 DEF PushStep

LEMMA OriginScheduler ==
  ASSUME PushTypeOK, Origin, SchedulerPass
  PROVE  Origin'
BY OriginFrame DEF SchedulerPass, SchedulerBuild, ReconcileBuild, StartPush,
                   PushTypeOK, agentVars, historyVars

\* Messages may leave a stream: what remains was offered.
LEMMA OriginDrains ==
  ASSUME PushTypeOK, Origin, UNCHANGED <<offered, push>>,
         \A k \in Conn : \A i \in 1..Len(chan'[k]) :
            \E j \in 1..Len(chan[k]) : chan'[k][i] = chan[k][j]
  PROVE  CarriesOffered'
BY DEF Origin, CarriesOffered

LEMMA OriginNode ==
  ASSUME PushTypeOK, Origin, NodeStep
  PROVE  Origin'
<1>1. ASSUME NEW k \in Conn, AgentHandle(k) PROVE Origin'
  <2> DEFINE m == Head(chan[k])
  <2>1. /\ chan[k] \in Seq(ToAgent) /\ m = chan[k][1] /\ 1 \in 1..Len(chan[k])
        /\ m.core \in Core
    <3>1. chan[k] \in Seq(ToAgent) /\ chan[k] # <<>>
      BY <1>1 DEF AgentHandle, PushTypeOK
    <3>2. m \in ToAgent /\ m = chan[k][1] /\ 1 \in 1..Len(chan[k])
      BY <3>1
    <3> QED BY <3>1, <3>2 DEF ToAgent
  <2>2. m.config \in offered[m.core] \union {Blank}
    BY <2>1 DEF Origin, CarriesOffered
  <2>3. /\ UNCHANGED <<offered, recorded, report, push>> /\ agentUp'
        /\ chan' = [chan EXCEPT ![k] = Tail(@)]
    BY <1>1 DEF AgentHandle, hubVars
  <2>4. CarriesOffered'
    <3>1. \A i \in 1..Len(Tail(chan[k])) : i + 1 \in 1..Len(chan[k])
                                          /\ Tail(chan[k])[i] = chan[k][i + 1]
      BY <1>1, <2>1, TailOf DEF AgentHandle
    <3>2. \A j \in Conn : \A i \in 1..Len(chan'[j]) :
            \E l \in 1..Len(chan[j]) : chan'[j][i] = chan[j][l]
      BY <2>3, <3>1 DEF PushTypeOK
    <3> QED BY <2>3, <3>2, OriginDrains
  <2>5. \A c \in Core :
          /\ accepted[c] \subseteq accepted'[c] /\ accepted'[c] \subseteq offered[c]
          /\ running'[c] \in accepted'[c] \union {NoConfig}
          /\ snapshot'[c] \in accepted'[c] \union {NoConfig}
    <3>1. HandleMessage(m)
      BY <1>1 DEF AgentHandle
    <3> HIDE DEF m
    <3> USE DEF Origin, RunsAccepted, SnapshotWasAccepted, PushTypeOK
    <3>2. CASE StopCore(m)
      BY <2>1, <3>2 DEF StopCore
    <3>3. CASE SkipPush(m)
      BY <3>3 DEF SkipPush
    <3>4. CASE ApplyPush(m)
      BY <2>1, <2>2, <3>4 DEF ApplyPush
    <3>5. CASE RefusePush(m)
      BY <2>1, <3>5 DEF RefusePush
    <3> QED BY <3>1, <3>2, <3>3, <3>4, <3>5 DEF HandleMessage
  <2> HIDE DEF m
  <2> QED BY <2>3, <2>4, <2>5
          DEF Origin, RecordedWasOffered, SnapshotWasAccepted, RunsAccepted
<1>2. ASSUME NEW c \in Core, CoreCrash(c) PROVE Origin'
  BY <1>2 DEF CoreCrash, Origin, RecordedWasOffered, SnapshotWasAccepted, CarriesOffered,
              RunsAccepted, PushTypeOK, hubVars, historyVars, Nothing
<1>3. CASE AgentStart
  BY <1>3 DEF AgentStart, Origin, RecordedWasOffered, SnapshotWasAccepted, CarriesOffered,
              RunsAccepted, hubVars, historyVars
<1>4. CASE AgentCrash
  <2>1. CarriesOffered'
    <3>1. \A k \in Conn : 1..Len(chan'[k]) = {}
      BY <1>4 DEF AgentCrash
    <3> QED BY <1>4, <3>1, OriginDrains DEF AgentCrash, hubVars, historyVars
  <2> QED BY <1>4, <2>1
          DEF AgentCrash, Nothing, Origin, RecordedWasOffered, SnapshotWasAccepted,
              RunsAccepted, hubVars, historyVars
<1> QED BY <1>1, <1>2, <1>3, <1>4 DEF NodeStep

LEMMA OriginStream ==
  ASSUME PushTypeOK, Origin, NEW k \in Conn, StreamStep(k)
  PROVE  Origin'
<1>1. CASE Connect(k)
  BY <1>1 DEF Connect, Origin, RecordedWasOffered, SnapshotWasAccepted, CarriesOffered,
              RunsAccepted, Nothing, PushTypeOK, hubVars, agentVars, historyVars
<1>2. CASE Leave(k)
  <2>1. PICK n \in 0..MaxQueue : chan' = [chan EXCEPT ![k] = Prefix(@, n)]
    BY <1>2 DEF Leave
  <2>2. \A i \in 1..Len(Prefix(chan[k], n)) : i \in 1..Len(chan[k])
                                            /\ Prefix(chan[k], n)[i] = chan[k][i]
    BY PushAssumption, PrefixOf DEF PushTypeOK
  <2>3. \A j \in Conn : \A i \in 1..Len(chan'[j]) :
          \E l \in 1..Len(chan[j]) : chan'[j][i] = chan[j][l]
    BY <2>1, <2>2 DEF PushTypeOK
  <2>4. CarriesOffered'
    BY <1>2, <2>3, OriginDrains DEF Leave, hubVars, historyVars
  <2> QED BY <1>2, <2>4
          DEF Leave, Origin, RecordedWasOffered, SnapshotWasAccepted, RunsAccepted,
              hubVars, agentVars, historyVars, Nothing
<1>3. CASE Insert(k)
  BY <1>3 DEF Insert, Origin, RecordedWasOffered, SnapshotWasAccepted, CarriesOffered,
              RunsAccepted, Nothing, PushTypeOK, agentVars
<1>4. CASE StreamEnd(k)
  BY <1>4 DEF StreamEnd, Origin, RecordedWasOffered, SnapshotWasAccepted, CarriesOffered,
              RunsAccepted, Nothing, agentVars, historyVars
<1>5. CASE SessionStep(k)
  BY <1>5, OriginFrame DEF SessionStep, pushVars, hubVars, agentVars, historyVars
<1> QED BY <1>1, <1>2, <1>3, <1>4, <1>5 DEF StreamStep

LEMMA OriginStep ==
  Origin /\ PushTypeOK /\ SessionTypeOK /\ [PushNext]_allVars => Origin'
<1> SUFFICES ASSUME Origin, PushTypeOK, SessionTypeOK, [PushNext]_allVars
             PROVE  Origin'
  OBVIOUS
<1>1. CASE EditStep
  BY <1>1, OriginFrame
     DEF EditStep, UpdateConfig, MoveConfig, DeleteConfig, EditBinding, MarkPending,
         Untouched, hubVars, agentVars, historyVars
<1>2. CASE Restart
  <2>1. PICK n \in 0..MaxQueue : chan' = [k \in Conn |-> Prefix(chan[k], n)]
    BY <1>2 DEF Restart
  <2>2. \A k \in Conn : \A i \in 1..Len(chan'[k]) :
          i \in 1..Len(chan[k]) /\ chan'[k][i] = chan[k][i]
    BY <2>1, PushAssumption, PrefixOf DEF PushTypeOK
  <2>3. CarriesOffered'
    BY <1>2, <2>2 DEF Restart, historyVars, Idle, Origin, CarriesOffered
  <2> QED BY <1>2, <2>3
          DEF Restart, Nothing, Origin, RecordedWasOffered, SnapshotWasAccepted,
              RunsAccepted, agentVars, historyVars
<1>3. CASE UNCHANGED allVars
  BY <1>3, OriginFrame DEF allVars, pushVars, hubVars, agentVars, historyVars
<1> QED BY <1>1, <1>2, <1>3, OriginPush, OriginScheduler, OriginNode, OriginStream
        DEF PushNext

LEMMA OriginHolds == PushSpec => []Origin
BY PushKeepsSessionType, PushTypeCorrect, OriginInit, OriginStep, PTL DEF PushSpec

\* Whatever versions the Hub records or an Agent reports were handed to
\* send_to_agent before, for any number of streams, pushers and cores.
THEOREM RecordedAlwaysOffered == PushSpec => []RecordedWasOffered
BY OriginHolds, PTL DEF Origin

\* A snapshot always holds a configuration its core has run: handle_config_push
\* saves after it applies, and nothing else writes the file.
THEOREM SnapshotAlwaysAccepted == PushSpec => []SnapshotWasAccepted
BY OriginHolds, PTL DEF Origin

-----------------------------------------------------------------------------
(* What is recorded was the last to be sent                                *)

\* The messages of a stream: what Append and Tail leave of "the last for c".
LEMMA SentIsLast ==
  ASSUME NEW s \in Seq(ToAgent), NEW m \in ToAgent
  PROVE  /\ LastFor(Append(s, m), m.core, m.config)
         /\ \A c, x : c # m.core =>
              /\ LastFor(s, c, x) => LastFor(Append(s, m), c, x)
              /\ NoneFor(s, c) => NoneFor(Append(s, m), c)
<1> DEFINE t == Append(s, m)
<1>1. /\ Len(t) = Len(s) + 1 /\ Len(s) \in Nat /\ t[Len(t)] = m
      /\ \A i \in 1..Len(s) : t[i] = s[i]
  OBVIOUS
<1> HIDE DEF t
<1>2. LastFor(t, m.core, m.config)
  BY <1>1 DEF LastFor
<1>3. ASSUME NEW c, NEW x, c # m.core, LastFor(s, c, x) PROVE LastFor(t, c, x)
  <2>1. PICK i \in 1..Len(s) : /\ s[i].core = c /\ s[i].config = x
                               /\ \A j \in 1..Len(s) : j > i => s[j].core # c
    BY <1>3 DEF LastFor
  <2>2. \A j \in 1..Len(t) : j > i => t[j].core # c
    <3> SUFFICES ASSUME NEW j \in 1..Len(t), j > i PROVE t[j].core # c
      OBVIOUS
    <3>1. CASE j = Len(t)
      BY <1>1, <1>3, <3>1
    <3>2. CASE j # Len(t)
      BY <1>1, <2>1, <3>2
    <3> QED BY <3>1, <3>2
  <2>3. i \in 1..Len(t) /\ t[i] = s[i]
    BY <1>1
  <2> QED BY <2>1, <2>2, <2>3 DEF LastFor
<1>4. ASSUME NEW c, c # m.core, NoneFor(s, c) PROVE NoneFor(t, c)
  <2> SUFFICES ASSUME NEW j \in 1..Len(t) PROVE t[j].core # c
    BY DEF NoneFor
  <2>1. CASE j = Len(t)
    BY <1>1, <1>4, <2>1
  <2>2. CASE j # Len(t)
    BY <1>1, <1>4, <2>2 DEF NoneFor
  <2> QED BY <2>1, <2>2
<1> QED BY <1>2, <1>3, <1>4 DEF t

LEMMA HandledWasFirst ==
  ASSUME NEW s \in Seq(ToAgent), s # <<>>, NEW c, NEW x
  PROVE  /\ c # Head(s).core =>
              /\ LastFor(s, c, x) => LastFor(Tail(s), c, x)
              /\ NoneFor(s, c) => NoneFor(Tail(s), c)
         /\ LastFor(s, c, x) =>
              \/ LastFor(Tail(s), c, x)
              \/ NoneFor(Tail(s), c) /\ x = Head(s).config
         /\ c = Head(s).core => ~NoneFor(s, c)
<1> DEFINE t == Tail(s)
<1>1. /\ Len(s) = Len(t) + 1 /\ Len(t) \in Nat /\ Head(s) = s[1]
      /\ \A i \in 1..Len(t) : t[i] = s[i + 1]
  OBVIOUS
<1> HIDE DEF t
<1>2. ASSUME LastFor(s, c, x)
      PROVE  \/ LastFor(t, c, x)
             \/ NoneFor(t, c) /\ x = Head(s).config /\ c = Head(s).core
  <2>1. PICK i \in 1..Len(s) : /\ s[i].core = c /\ s[i].config = x
                               /\ \A j \in 1..Len(s) : j > i => s[j].core # c
    BY <1>2 DEF LastFor
  <2>2. CASE i = 1
    <3>1. \A j \in 1..Len(t) : t[j].core # c
      BY <1>1, <2>1, <2>2
    <3> QED BY <1>1, <2>1, <2>2, <3>1 DEF NoneFor
  <2>3. CASE i # 1
    <3>1. i - 1 \in 1..Len(t) /\ t[i - 1] = s[i]
      BY <1>1, <2>3
    <3>2. \A j \in 1..Len(t) : j > i - 1 => t[j].core # c
      BY <1>1, <2>1
    <3> QED BY <2>1, <3>1, <3>2 DEF LastFor
  <2> QED BY <2>2, <2>3
<1>3. NoneFor(s, c) => NoneFor(t, c) /\ c # Head(s).core
  BY <1>1 DEF NoneFor
<1> QED BY <1>2, <1>3 DEF t

\* The facts about streams that hold because PushSpec implements SessionSpec.
SessionFacts == SessionTypeOK /\ UnusedHasNoTask /\ EntryHasReader /\ RegisterOnce

LEMMA AwaitedIsNoEntry ==
  ASSUME RegisterOnce, NEW k \in Conn, Awaited(k)
  PROVE  entry # k
BY DEF RegisterOnce, Awaited

LEMMA EntryWasOpened ==
  ASSUME SessionFacts, entry # NoConn
  PROVE  entry \in Conn /\ link[entry] # "unused" /\ ~Awaited(entry)
<1>1. entry \in Conn
  BY DEF SessionFacts, SessionTypeOK
<1>2. link[entry] # "unused"
  BY <1>1 DEF SessionFacts, UnusedHasNoTask, EntryHasReader
<1> QED BY <1>1, <1>2, AwaitedIsNoEntry DEF SessionFacts

LEMMA OnlyOpenStream ==
  ASSUME SessionFacts, OneStream, NEW k \in Conn, link[k] = "open", Reachable
  PROVE  entry = k
BY EntryWasOpened DEF Reachable, OneStream

LEMMA RecordInit == PushInit => RecordInv
BY DEF PushInit, SessionInit, Idle, RecordInv, OneStream, ReportIsCurrent, SentOnAnEntry,
       SentIsCurrent, RecordExact, Reachable, Awaited

\* A step that sends, handles, registers and records nothing.
LEMMA RecordFrame ==
  ASSUME RecordInv,
         UNCHANGED <<link, entry, chan, snapshot, recorded, report, doubt>>,
         \A k \in Conn : Awaited(k)' => Awaited(k),
         \A p \in Pusher : push'[p].pc = "sent" \/ push[p].pc = "sent" => push'[p] = push[p]
  PROVE  RecordInv'
<1>1. OneStream'
  BY DEF RecordInv, OneStream
<1>2. ReportIsCurrent'
  BY DEF RecordInv, ReportIsCurrent
<1>3. SentOnAnEntry'
  BY DEF RecordInv, SentOnAnEntry
<1>4. /\ Reachable' => Reachable
      /\ \A c, x : Current(chan[entry], snapshot[c], c, x) =>
                     Current(chan'[entry'], snapshot'[c], c, x)
  BY DEF Reachable, Current
<1>5. SentIsCurrent'
  BY <1>4 DEF RecordInv, SentIsCurrent
<1>6. RecordExact'
  BY <1>4 DEF RecordInv, RecordExact
<1> QED BY <1>1, <1>2, <1>3, <1>5, <1>6 DEF RecordInv

\* The Agent has no stream after the step.
LEMMA RecordWithoutStream ==
  ASSUME RecordInv, SessionTypeOK',
         \A k \in Conn : link'[k] # "open",
         \A k \in Conn : link'[k] = "unused" => link[k] = "unused",
         \A k \in Conn : Awaited(k)' => Awaited(k),
         \A p \in Pusher : push'[p].pc = "sent" => push'[p] = push[p]
  PROVE  RecordInv'
<1>1. ~Reachable'
  BY DEF Reachable, SessionTypeOK
<1>2. OneStream' /\ ReportIsCurrent'
  BY DEF OneStream, ReportIsCurrent
<1>3. SentOnAnEntry'
  BY DEF RecordInv, SentOnAnEntry
<1> QED BY <1>1, <1>2, <1>3 DEF RecordInv, SentIsCurrent, RecordExact

LEMMA LeavingLeavesNone ==
  ASSUME SessionTypeOK, OneStream, NEW k \in Conn, AgentLeave(k)
  PROVE  /\ \A j \in Conn : link'[j] # "open"
         /\ \A j \in Conn : link'[j] = "unused" => link[j] = "unused"
         /\ \A j \in Conn : Awaited(j)' => Awaited(j)
<1>1. link[k] = "open" /\ link' = [link EXCEPT ![k] = "broken"] /\ task' = task
  BY DEF AgentLeave
<1>2. PICK n \in 0..Len(inbox[k]) : inbox' = [inbox EXCEPT ![k] = SubSeq(@, 1, n)]
  BY DEF AgentLeave
<1>3. \A j \in Conn : \A i \in 1..Len(inbox'[j]) : inbox'[j][i] = "Register" =>
        i \in 1..Len(inbox[j]) /\ inbox[j][i] = "Register"
  BY <1>2, PrefixKeepsRegisters DEF SessionTypeOK
<1>4. \A j \in Conn : Awaited(j)' => Awaited(j)
  BY <1>1, <1>3 DEF Awaited
<1>5. \A j \in Conn : link'[j] # "open"
  BY <1>1 DEF OneStream, SessionTypeOK
<1>6. \A j \in Conn : link'[j] = "unused" => link[j] = "unused"
  BY <1>1 DEF SessionTypeOK
<1> QED BY <1>4, <1>5, <1>6

LEMMA AwaitedFrame ==
  ASSUME UNCHANGED <<task, inbox>>
  PROVE  \A k \in Conn : Awaited(k)' => Awaited(k)
BY DEF Awaited

LEMMA RecordPush ==
  ASSUME SessionFacts, PushTypeOK, RecordInv, NEW p \in Pusher, PushStep(p)
  PROVE  RecordInv'
<1>1. ASSUME NEW c \in Core, NEW r \in BOOLEAN, AdminBuild(p, c, r) PROVE RecordInv'
  BY <1>1, RecordFrame, AwaitedFrame
     DEF AdminBuild, StartPush, PushTypeOK, sessionVars, agentVars, historyVars
<1>2. CASE SendFails(p)
  BY <1>2, RecordFrame, AwaitedFrame
     DEF SendFails, PushEnds, Idle, PushTypeOK, sessionVars, agentVars, historyVars
<1>3. CASE Send(p)
  <2> DEFINE m == [core |-> push[p].core, config |-> push[p].config,
                   restart |-> push[p].restart]
  <2>1. entry \in Conn /\ link[entry] # "unused" /\ ~Awaited(entry)
    BY <1>3, EntryWasOpened DEF Send
  <2>2. UNCHANGED <<link, inbox, task, entry, snapshot, recorded, report, doubt>>
    BY <1>3 DEF Send, sessionVars, agentVars
  <2>3. /\ push'[p].pc = "sent" /\ push'[p].via = entry
        /\ push'[p].core = push[p].core /\ push'[p].config = push[p].config
        /\ \A q \in Pusher \ {p} : push'[q] = push[q]
    BY <1>3, BusyPush DEF Send, PushTypeOK, PushState
  <2>4. m \in ToAgent
    BY <1>3, BusyPush DEF Send, ToAgent
  <2>5. chan \in [Conn -> Seq(ToAgent)]
    BY DEF PushTypeOK
  <2>6. /\ link[entry] = "open" => chan' = [chan EXCEPT ![entry] = Append(@, m)]
        /\ link[entry] # "open" => chan' = chan
    BY <1>3 DEF Send
  <2>7. m.core = push[p].core /\ m.config = push[p].config
    OBVIOUS
  <2> HIDE DEF m
  <2>8. Awaited(entry)' = Awaited(entry) /\ \A k \in Conn : Awaited(k)' = Awaited(k)
    BY <2>2 DEF Awaited
  <2>9. OneStream'
    BY <2>1, <2>2, <2>5, <2>6 DEF RecordInv, OneStream
  <2>10. ReportIsCurrent'
    BY <2>1, <2>2, <2>5, <2>6, <2>8 DEF RecordInv, ReportIsCurrent
  <2>11. SentOnAnEntry'
    <3> SUFFICES ASSUME NEW q \in Pusher, push'[q].pc = "sent"
                 PROVE  \E k \in Conn : push'[q].via = k /\ link'[k] # "unused" /\ ~Awaited(k)'
      BY DEF SentOnAnEntry
    <3>1. CASE q = p
      BY <2>1, <2>2, <2>3, <2>8, <3>1
    <3>2. CASE q # p
      <4>1. push'[q] = push[q] /\ link' = link
        BY <2>2, <2>3, <3>2
      <4>2. PICK k \in Conn : push[q].via = k /\ link[k] # "unused" /\ ~Awaited(k)
        BY <4>1 DEF RecordInv, SentOnAnEntry
      <4> QED BY <2>8, <4>1, <4>2
    <3> QED BY <3>1, <3>2
  <2>12. ASSUME Reachable'
         PROVE  /\ Reachable
                /\ Current(chan'[entry'], snapshot'[push[p].core], push[p].core, push[p].config)
                /\ \A c, x : c # push[p].core /\ Current(chan[entry], snapshot[c], c, x) =>
                                                   Current(chan'[entry'], snapshot'[c], c, x)
    <3>1. Reachable
      BY <2>2, <2>12 DEF Reachable
    <3>2. chan'[entry] = Append(chan[entry], m) /\ chan[entry] \in Seq(ToAgent)
      BY <2>1, <2>5, <2>6, <3>1 DEF Reachable
    <3>3. /\ LastFor(chan'[entry], m.core, m.config)
          /\ \A c, x : c # m.core =>
               /\ LastFor(chan[entry], c, x) => LastFor(chan'[entry], c, x)
               /\ NoneFor(chan[entry], c) => NoneFor(chan'[entry], c)
      BY <2>4, <3>2, SentIsLast
    <3> QED BY <2>2, <2>7, <3>1, <3>3 DEF Current
  <2>13. SentIsCurrent'
    <3> SUFFICES ASSUME Reachable', NEW q \in Pusher, push'[q].pc = "sent",
                        push'[q].via = entry'
                 PROVE  \/ doubt'[push'[q].core]
                        \/ \E r \in Pusher \ {q} :
                              push'[r].pc = "sent" /\ push'[r].core = push'[q].core
                        \/ Current(chan'[entry'], snapshot'[push'[q].core], push'[q].core, push'[q].config)
      BY DEF SentIsCurrent
    <3>1. CASE q = p
      <4>1. Current(chan'[entry'], snapshot'[push[p].core], push[p].core, push[p].config)
        BY <2>12
      <4> QED BY <2>3, <3>1, <4>1 DEF Current
    <3>2. CASE q # p /\ push'[q].core = push[p].core
      BY <2>3, <3>2
    <3>3. CASE q # p /\ push'[q].core # push[p].core
      <4>1. push'[q] = push[q] /\ entry' = entry /\ doubt' = doubt
        BY <2>2, <2>3, <3>3
      <4>2. \/ doubt[push[q].core]
            \/ \E r \in Pusher \ {q} : push[r].pc = "sent" /\ push[r].core = push[q].core
            \/ Current(chan[entry], snapshot[push[q].core], push[q].core, push[q].config)
        BY <2>12, <4>1 DEF RecordInv, SentIsCurrent
      <4>3. Current(chan[entry], snapshot[push[q].core], push[q].core, push[q].config) =>
              Current(chan'[entry'], snapshot'[push[q].core], push[q].core, push[q].config)
        BY <2>12, <3>3, <4>1
      <4>4. ASSUME NEW r \in Pusher \ {q}, push[r].pc = "sent", push[r].core = push[q].core
            PROVE  push'[r].pc = "sent" /\ push'[r].core = push'[q].core
        BY <2>3, <3>3, <4>1, <4>4
      <4>5. Current(chan'[entry'], snapshot'[push[q].core], push[q].core, push[q].config) =>
              Current(chan'[entry'], snapshot'[push'[q].core], push'[q].core, push'[q].config)
        BY <4>1 DEF Current
      <4> QED BY <4>1, <4>2, <4>3, <4>4, <4>5
    <3> QED BY <3>1, <3>2, <3>3
  <2>14. RecordExact'
    <3> SUFFICES ASSUME Reachable', NEW c \in Core
                 PROVE  \/ doubt'[c]
                        \/ \E q \in Pusher : push'[q].pc = "sent" /\ push'[q].core = c
                        \/ Current(chan'[entry'], snapshot'[c], c, recorded'[c])
      BY DEF RecordExact
    <3>1. CASE c = push[p].core
      BY <2>3, <3>1
    <3>2. CASE c # push[p].core
      <4>1. \/ doubt[c]
            \/ \E q \in Pusher : push[q].pc = "sent" /\ push[q].core = c
            \/ Current(chan[entry], snapshot[c], c, recorded[c])
        BY <2>12 DEF RecordInv, RecordExact
      <4>2. ASSUME NEW q \in Pusher, push[q].pc = "sent", push[q].core = c
            PROVE  push'[q].pc = "sent" /\ push'[q].core = c
        BY <2>3, <3>2, <4>2
      <4>3. Current(chan[entry], snapshot[c], c, recorded[c]) =>
              Current(chan'[entry'], snapshot'[c], c, recorded'[c])
        BY <2>2, <2>12, <3>2 DEF Current
      <4> QED BY <2>2, <4>1, <4>2, <4>3
    <3> QED BY <3>1, <3>2
  <2> QED BY <2>9, <2>10, <2>11, <2>13, <2>14 DEF RecordInv
<1>4. CASE Record(p)
  <2>1. UNCHANGED <<link, inbox, task, entry, chan, snapshot, report>>
    BY <1>4 DEF Record, sessionVars, agentVars
  <2>2. /\ push[p].pc = "sent" /\ push'[p].pc # "sent"
        /\ \A q \in Pusher \ {p} : push'[q] = push[q]
    BY <1>4, BusyPush DEF Record, PushEnds, Idle, PushTypeOK, PushState
  <2>3. push[p].core \in Core
    BY <2>2, BusyPush
  <2>4. /\ \A c \in Core : doubt[c] => doubt'[c]
        /\ Crossed(p) => doubt'[push[p].core]
        /\ \A c \in Core : c # push[p].core => recorded'[c] = recorded[c]
        /\ entry # NoConn => recorded'[push[p].core] = push[p].config
    <3>1. doubt' = [doubt EXCEPT ![push[p].core] = doubt[push[p].core] \/ Crossed(p)]
      BY <1>4 DEF Record
    <3>2. doubt \in [Core -> BOOLEAN]
      BY DEF PushTypeOK
    <3>3. (\A c \in Core : doubt[c] => doubt'[c]) /\ (Crossed(p) => doubt'[push[p].core])
      <4> HIDE DEF Crossed
      <4> QED BY <2>3, <3>1, <3>2, Zenon
    <3>4. /\ \A c \in Core : c # push[p].core => recorded'[c] = recorded[c]
          /\ entry # NoConn => recorded'[push[p].core] = push[p].config
      BY <1>4, <2>3 DEF Record, PushTypeOK
    <3> QED BY <3>3, <3>4
  <2>5. (Reachable' <=> Reachable) /\ \A c, x : Current(chan[entry], snapshot[c], c, x) =>
                                                  Current(chan'[entry'], snapshot'[c], c, x)
    BY <2>1 DEF Reachable, Current
  <2>6. \A k \in Conn : Awaited(k)' => Awaited(k)
    BY <2>1, AwaitedFrame
  <2>7. OneStream' /\ ReportIsCurrent' /\ SentOnAnEntry'
    BY <2>1, <2>2, <2>6 DEF RecordInv, OneStream, ReportIsCurrent, SentOnAnEntry
  <2>8. SentIsCurrent'
    <3> SUFFICES ASSUME Reachable', NEW q \in Pusher, push'[q].pc = "sent",
                        push'[q].via = entry'
                 PROVE  \/ doubt'[push'[q].core]
                        \/ \E r \in Pusher \ {q} :
                              push'[r].pc = "sent" /\ push'[r].core = push'[q].core
                        \/ Current(chan'[entry'], snapshot'[push'[q].core], push'[q].core, push'[q].config)
      BY DEF SentIsCurrent
    <3>1. q # p /\ push'[q] = push[q] /\ entry' = entry
      BY <2>1, <2>2
    <3>2. push[q].core \in Core
      BY <3>1, BusyPush
    <3>3. \/ doubt[push[q].core]
          \/ \E r \in Pusher \ {q} : push[r].pc = "sent" /\ push[r].core = push[q].core
          \/ Current(chan[entry], snapshot[push[q].core], push[q].core, push[q].config)
      BY <2>5, <3>1 DEF RecordInv, SentIsCurrent
    <3>4. CASE push[q].core = push[p].core
      <4>1. Crossed(p)
        BY <3>1, <3>4 DEF Crossed
      <4> QED BY <2>4, <3>1, <3>4, <4>1
    <3>5. CASE push[q].core # push[p].core
      <4>1. ASSUME NEW r \in Pusher \ {q}, push[r].pc = "sent", push[r].core = push[q].core
            PROVE  push'[r].pc = "sent" /\ push'[r].core = push'[q].core
        BY <2>2, <3>1, <3>5, <4>1
      <4>2. Current(chan[entry], snapshot[push[q].core], push[q].core, push[q].config) =>
              Current(chan'[entry'], snapshot'[push'[q].core], push'[q].core, push'[q].config)
        BY <2>1, <3>1 DEF Current
      <4> QED BY <2>4, <3>1, <3>2, <3>3, <4>1, <4>2
    <3> QED BY <3>4, <3>5
  <2>9. RecordExact'
    <3> SUFFICES ASSUME Reachable', NEW c \in Core
                 PROVE  \/ doubt'[c]
                        \/ \E q \in Pusher : push'[q].pc = "sent" /\ push'[q].core = c
                        \/ Current(chan'[entry'], snapshot'[c], c, recorded'[c])
      BY DEF RecordExact
    <3>1. CASE c = push[p].core
      <4>1. CASE Crossed(p)
        BY <2>4, <3>1, <4>1
      <4>2. CASE ~Crossed(p)
        <5>1. /\ entry = push[p].via
              /\ ~\E q \in Pusher \ {p} : push[q].pc = "sent" /\ push[q].core = push[p].core
          BY <4>2 DEF Crossed
        <5>2. doubt[c] \/ Current(chan[entry], snapshot[c], c, push[p].config)
          BY <2>2, <2>5, <3>1, <5>1 DEF RecordInv, SentIsCurrent
        <5>3. recorded'[c] = push[p].config
          BY <2>4, <2>5, <3>1 DEF Reachable
        <5>4. Current(chan[entry], snapshot[c], c, push[p].config) =>
                Current(chan'[entry'], snapshot'[c], c, recorded'[c])
          BY <2>1, <5>3 DEF Current
        <5> QED BY <2>4, <5>2, <5>4
      <4> QED BY <4>1, <4>2
    <3>2. CASE c # push[p].core
      <4>1. \/ doubt[c]
            \/ \E q \in Pusher : push[q].pc = "sent" /\ push[q].core = c
            \/ Current(chan[entry], snapshot[c], c, recorded[c])
        BY <2>5 DEF RecordInv, RecordExact
      <4>2. ASSUME NEW q \in Pusher, push[q].pc = "sent", push[q].core = c
            PROVE  push'[q].pc = "sent" /\ push'[q].core = c
        BY <2>2, <3>2, <4>2
      <4>3. Current(chan[entry], snapshot[c], c, recorded[c]) =>
              Current(chan'[entry'], snapshot'[c], c, recorded'[c])
        BY <2>1, <2>4, <3>2 DEF Current
      <4> QED BY <2>4, <4>1, <4>2, <4>3
    <3> QED BY <3>1, <3>2
  <2> QED BY <2>7, <2>8, <2>9 DEF RecordInv
<1>5. CASE ClearPending(p)
  BY <1>5, RecordFrame, AwaitedFrame
     DEF ClearPending, PushEnds, Idle, PushTypeOK, sessionVars, agentVars, historyVars
<1> QED BY <1>1, <1>2, <1>3, <1>4, <1>5 DEF PushStep

LEMMA RecordScheduler ==
  ASSUME PushTypeOK, RecordInv, SchedulerPass
  PROVE  RecordInv'
<1>1. UNCHANGED <<link, inbox, task, entry, chan, snapshot, recorded, report, doubt>>
  BY DEF SchedulerPass, SchedulerBuild, ReconcileBuild, StartPush, sessionVars, agentVars,
         historyVars
<1>2. \A p \in Pusher : push'[p].pc = "sent" \/ push[p].pc = "sent" => push'[p] = push[p]
  BY DEF SchedulerPass, SchedulerBuild, ReconcileBuild, StartPush, PushTypeOK
<1> QED BY <1>1, <1>2, RecordFrame, AwaitedFrame

LEMMA RecordNode ==
  ASSUME SessionFacts, SessionTypeOK', PushTypeOK, RecordInv, NodeStep
  PROVE  RecordInv'
<1>1. ASSUME NEW k \in Conn, AgentHandle(k) PROVE RecordInv'
  <2> DEFINE m == Head(chan[k])
  <2>1. chan[k] \in Seq(ToAgent) /\ chan[k] # <<>> /\ chan \in [Conn -> Seq(ToAgent)]
    BY <1>1 DEF AgentHandle, PushTypeOK
  <2>2. m \in ToAgent
    BY <2>1
  <2>3. m.core \in Core /\ m.config \in Config \union {Blank}
    BY <2>2 DEF ToAgent
  <2>4. /\ UNCHANGED <<link, inbox, task, entry, recorded, push, report>>
        /\ chan' = [chan EXCEPT ![k] = Tail(@)]
        /\ HandleMessage(m)
    BY <1>1 DEF AgentHandle, sessionVars, hubVars
  <2> HIDE DEF m
  <2>5. /\ \A c \in Core : doubt[c] => doubt'[c]
        /\ \A c \in Core : c # m.core => snapshot'[c] = snapshot[c]
        /\ doubt'[m.core] \/ m.config = Blank \/ snapshot'[m.core] = m.config
    <3>1. snapshot \in [Core -> Config \union {NoConfig}] /\ doubt \in [Core -> BOOLEAN]
      BY DEF PushTypeOK
    <3>2. CASE StopCore(m)
      BY <3>2 DEF StopCore
    <3>3. CASE SkipPush(m)
      BY <3>3 DEF SkipPush, AlreadyApplied
    <3>4. CASE ApplyPush(m)
      BY <2>3, <3>1, <3>4 DEF ApplyPush
    <3>5. CASE RefusePush(m)
      BY <2>3, <3>1, <3>5 DEF RefusePush
    <3> QED BY <2>4, <3>2, <3>3, <3>4, <3>5 DEF HandleMessage
  <2>6. \A j \in Conn : link[j] = "open" => j = k
    BY <2>1 DEF RecordInv, OneStream
  <2>7. OneStream'
    BY <2>1, <2>4 DEF RecordInv, OneStream
  <2>8. ReportIsCurrent' /\ SentOnAnEntry'
    <3>1. \A j \in Conn : Awaited(j)' <=> Awaited(j)
      BY <2>4 DEF Awaited
    <3>2. \A j \in Conn : ~(link'[j] = "open" /\ Awaited(j)')
      BY <2>1, <2>4, <2>6, <3>1 DEF RecordInv, ReportIsCurrent
    <3> QED BY <2>4, <3>1, <3>2 DEF ReportIsCurrent, RecordInv, SentOnAnEntry
  <2>9. ASSUME Reachable', NEW c \in Core, NEW x, Current(chan[entry], snapshot[c], c, x)
        PROVE  doubt'[c] \/ Current(chan'[entry'], snapshot'[c], c, x)
    <3>1. entry' = k /\ entry = k /\ chan'[k] = Tail(chan[k])
      BY <2>1, <2>4, <2>6, <2>9, EntryWasOpened DEF Reachable
    <3>2. LastFor(chan[k], c, x) \/ (NoneFor(chan[k], c) /\ x \in {snapshot[c], Blank})
      BY <2>9, <3>1 DEF Current
    <3>3. /\ c # m.core =>
                /\ LastFor(chan[k], c, x) => LastFor(chan'[k], c, x)
                /\ NoneFor(chan[k], c) => NoneFor(chan'[k], c)
          /\ LastFor(chan[k], c, x) =>
                LastFor(chan'[k], c, x) \/ (NoneFor(chan'[k], c) /\ x = m.config)
          /\ c = m.core => ~NoneFor(chan[k], c)
      BY <2>1, <3>1, HandledWasFirst DEF m
    <3>4. CASE c # m.core
      BY <2>5, <3>1, <3>2, <3>3, <3>4 DEF Current
    <3>5. CASE c = m.core
      <4>1. LastFor(chan'[k], c, x) \/ (NoneFor(chan'[k], c) /\ x = m.config)
        BY <3>2, <3>3, <3>5
      <4> QED BY <2>5, <3>1, <3>5, <4>1 DEF Current
    <3> QED BY <3>4, <3>5
  <2>10. Reachable' => Reachable
    BY <2>4 DEF Reachable
  <2>11. SentIsCurrent'
    <3> SUFFICES ASSUME Reachable', NEW q \in Pusher, push[q].pc = "sent",
                        push[q].via = entry
                 PROVE  \/ doubt'[push[q].core]
                        \/ \E r \in Pusher \ {q} :
                              push[r].pc = "sent" /\ push[r].core = push[q].core
                        \/ Current(chan'[entry'], snapshot'[push[q].core], push[q].core, push[q].config)
      BY <2>4 DEF SentIsCurrent
    <3>1. push[q].core \in Core
      BY BusyPush
    <3>2. \/ doubt[push[q].core]
          \/ \E r \in Pusher \ {q} : push[r].pc = "sent" /\ push[r].core = push[q].core
          \/ Current(chan[entry], snapshot[push[q].core], push[q].core, push[q].config)
      BY <2>10 DEF RecordInv, SentIsCurrent
    <3> QED BY <2>5, <2>9, <3>1, <3>2
  <2>12. RecordExact'
    <3> SUFFICES ASSUME Reachable', NEW c \in Core
                 PROVE  \/ doubt'[c]
                        \/ \E q \in Pusher : push[q].pc = "sent" /\ push[q].core = c
                        \/ Current(chan'[entry'], snapshot'[c], c, recorded'[c])
      BY <2>4 DEF RecordExact
    <3>1. \/ doubt[c]
          \/ \E q \in Pusher : push[q].pc = "sent" /\ push[q].core = c
          \/ Current(chan[entry], snapshot[c], c, recorded[c])
      BY <2>10 DEF RecordInv, RecordExact
    <3> QED BY <2>4, <2>5, <2>9, <3>1
  <2> QED BY <2>7, <2>8, <2>11, <2>12 DEF RecordInv
<1>2. ASSUME NEW c \in Core, CoreCrash(c) PROVE RecordInv'
  BY <1>2, RecordFrame, AwaitedFrame DEF CoreCrash, sessionVars, hubVars, historyVars
<1>3. CASE AgentStart
  BY <1>3, RecordFrame, AwaitedFrame DEF AgentStart, sessionVars, hubVars, historyVars
<1>4. CASE AgentCrash
  <2>1. push' = push
    BY <1>4 DEF AgentCrash, hubVars
  <2>2. CASE \E k \in Conn : link[k] = "open"
    <3>1. PICK k \in Conn : AgentLeave(k)
      BY <1>4, <2>2 DEF AgentCrash
    <3> QED BY <2>1, <3>1, LeavingLeavesNone, RecordWithoutStream DEF SessionFacts, RecordInv
  <2>3. CASE ~\E k \in Conn : link[k] = "open"
    BY <1>4, <2>1, <2>3, AwaitedFrame, RecordWithoutStream DEF AgentCrash, sessionVars
  <2> QED BY <2>2, <2>3
<1> QED BY <1>1, <1>2, <1>3, <1>4 DEF NodeStep

LEMMA RecordStream ==
  ASSUME SessionFacts, SessionTypeOK', PushTypeOK, RecordInv, NEW k \in Conn, StreamStep(k)
  PROVE  RecordInv'
<1>1. CASE Connect(k)
  <2>1. /\ \A j \in Conn : link[j] # "open" /\ chan[j] = <<>>
        /\ link[k] = "unused" /\ link' = [link EXCEPT ![k] = "open"]
        /\ inbox' = [inbox EXCEPT ![k] = <<"Register">>]
        /\ task' = [task EXCEPT ![k] = "reading"]
        /\ report' = [report EXCEPT ![k] = snapshot]
        /\ UNCHANGED <<entry, chan, snapshot, push>>
    BY <1>1 DEF Connect, AgentConnect, hubVars, agentVars
  <2>2. ~Reachable'
    <3>1. entry # NoConn => entry \in Conn /\ link[entry] # "unused"
      BY EntryWasOpened
    <3> QED BY <2>1, <3>1 DEF Reachable, SessionFacts, SessionTypeOK
  <2>3. OneStream'
    BY <2>1 DEF OneStream, SessionFacts, SessionTypeOK
  <2>4. ReportIsCurrent'
    BY <2>1 DEF ReportIsCurrent, SessionFacts, SessionTypeOK, PushTypeOK
  <2>5. SentOnAnEntry'
    <3> SUFFICES ASSUME NEW q \in Pusher, push[q].pc = "sent"
                 PROVE  \E j \in Conn : push[q].via = j /\ link'[j] # "unused" /\ ~Awaited(j)'
      BY <2>1 DEF SentOnAnEntry
    <3>1. PICK j \in Conn : push[q].via = j /\ link[j] # "unused" /\ ~Awaited(j)
      BY DEF RecordInv, SentOnAnEntry
    <3>2. j # k
      BY <2>1, <3>1
    <3> QED BY <2>1, <3>1, <3>2 DEF Awaited, SessionFacts, SessionTypeOK
  <2> QED BY <2>2, <2>3, <2>4, <2>5 DEF RecordInv, SentIsCurrent, RecordExact
<1>2. CASE Leave(k)
  BY <1>2, LeavingLeavesNone, RecordWithoutStream
     DEF Leave, SessionFacts, RecordInv, hubVars
<1>3. CASE Insert(k)
  <2>1. /\ task[k] = "accepted" /\ task' = [task EXCEPT ![k] = "inserted"] /\ entry' = k
        /\ recorded' = report[k] /\ report' = [report EXCEPT ![k] = Nothing]
        /\ UNCHANGED <<link, inbox, chan, snapshot, push>>
    BY <1>3 DEF Insert, HubInsert, agentVars
  <2>2. Awaited(k) /\ ~Awaited(k)'
    BY <2>1 DEF Awaited, SessionFacts, SessionTypeOK, RegisterOnce
  <2>3. \A j \in Conn \ {k} : Awaited(j)' => Awaited(j)
    BY <2>1 DEF Awaited, SessionFacts, SessionTypeOK
  <2>4. OneStream'
    BY <2>1 DEF RecordInv, OneStream
  <2>5. ReportIsCurrent'
    BY <2>1, <2>2, <2>3 DEF RecordInv, ReportIsCurrent, PushTypeOK
  <2>6. SentOnAnEntry'
    <3> SUFFICES ASSUME NEW q \in Pusher, push[q].pc = "sent"
                 PROVE  \E j \in Conn : push[q].via = j /\ link[j] # "unused" /\ ~Awaited(j)'
      BY <2>1 DEF SentOnAnEntry
    <3>1. PICK j \in Conn : push[q].via = j /\ link[j] # "unused" /\ ~Awaited(j)
      BY DEF RecordInv, SentOnAnEntry
    <3> QED BY <2>2, <2>3, <3>1
  <2>7. \A q \in Pusher : push'[q].pc = "sent" => push'[q].via # entry'
    BY <2>1, <2>2 DEF RecordInv, SentOnAnEntry
  <2>8. SentIsCurrent'
    BY <2>7 DEF SentIsCurrent
  <2>9. RecordExact'
    <3> SUFFICES ASSUME Reachable', NEW c \in Core PROVE Current(chan'[entry'], snapshot'[c], c, recorded'[c])
      BY DEF RecordExact
    <3>1. link[k] = "open"
      BY <2>1 DEF Reachable
    <3>2. chan[k] = <<>> /\ report[k] = snapshot
      BY <2>2, <3>1 DEF RecordInv, ReportIsCurrent
    <3>3. NoneFor(chan'[entry'], c)
      BY <2>1, <3>2 DEF NoneFor
    <3> QED BY <2>1, <3>2, <3>3 DEF Current
  <2> QED BY <2>4, <2>5, <2>6, <2>8, <2>9 DEF RecordInv
<1>4. CASE StreamEnd(k)
  <2>1. /\ UNCHANGED <<link, inbox, chan, snapshot, report, push, doubt>>
        /\ link[k] = "broken"
        /\ entry' = entry \/ entry' = NoConn
        /\ entry' # NoConn => recorded' = recorded
        /\ \A j \in Conn : task'[j] = task[j] \/ task'[j] \in {"unregistered", "done"}
    BY <1>4 DEF StreamEnd, HubStreamEnd, agentVars, historyVars, SessionFacts, SessionTypeOK
  <2>2. \A j \in Conn : Awaited(j)' => Awaited(j)
    BY <2>1 DEF Awaited
  <2>3. CASE entry' = NoConn
    <3>1. ~Reachable'
      BY <2>3 DEF Reachable
    <3>2. OneStream' /\ ReportIsCurrent' /\ SentOnAnEntry'
      BY <2>1, <2>2 DEF RecordInv, OneStream, ReportIsCurrent, SentOnAnEntry
    <3> QED BY <3>1, <3>2 DEF RecordInv, SentIsCurrent, RecordExact
  <2>4. CASE entry' # NoConn
    BY <2>1, <2>2, <2>4, RecordFrame
  <2> QED BY <2>3, <2>4
<1>5. CASE SessionStep(k)
  <2>1. UNCHANGED <<link, entry, chan, snapshot, recorded, report, doubt, push>>
    BY <1>5 DEF SessionStep, HubAccept, HubRefuse, HubAnswer, HubAnswerFails, HubOffline,
                HubClear, pushVars, hubVars, agentVars, historyVars
  <2>2. \A j \in Conn : Awaited(j)' => Awaited(j)
    <3>1. inbox \in [Conn -> Seq(Message)] /\ task \in [Conn -> TaskState]
      BY DEF SessionFacts, SessionTypeOK
    <3>2. CASE HubAccept(k) \/ HubRefuse(k)
      <4>1. /\ inbox[k] # <<>> /\ Head(inbox[k]) = "Register"
            /\ inbox' = [inbox EXCEPT ![k] = Tail(@)]
            /\ \A j \in Conn \ {k} : task'[j] = task[j]
        BY <3>1, <3>2 DEF HubAccept, HubRefuse, NextMessage
      <4>2. inbox[k][1] = "Register" /\ 1 \in 1..Len(inbox[k])
        BY <3>1, <4>1
      <4> QED BY <3>1, <4>1, <4>2 DEF Awaited
    <3>3. CASE HubAnswer(k) \/ HubAnswerFails(k) \/ HubOffline(k) \/ HubClear(k)
      <4>1. inbox' = inbox /\ \A j \in Conn : task'[j] = "accepted" => task[j] = "accepted"
        BY <3>1, <3>3 DEF HubAnswer, HubAnswerFails, HubOffline, HubClear
      <4> QED BY <4>1 DEF Awaited
    <3> QED BY <1>5, <3>2, <3>3 DEF SessionStep
  <2> QED BY <2>1, <2>2, RecordFrame
<1> QED BY <1>1, <1>2, <1>3, <1>4, <1>5 DEF StreamStep

LEMMA RecordStep ==
  RecordInv /\ SessionFacts /\ SessionTypeOK' /\ PushTypeOK /\ [PushNext]_allVars => RecordInv'
<1> SUFFICES ASSUME RecordInv, SessionFacts, SessionTypeOK', PushTypeOK, [PushNext]_allVars
             PROVE  RecordInv'
  OBVIOUS
<1>1. CASE EditStep
  <2>1. UNCHANGED <<link, inbox, task, entry, chan, snapshot, recorded, report, doubt, push>>
    BY <1>1 DEF EditStep, UpdateConfig, MoveConfig, DeleteConfig, EditBinding, MarkPending,
                Untouched, sessionVars, hubVars, agentVars, historyVars
  <2> QED BY <2>1, RecordFrame, AwaitedFrame
<1>2. CASE Restart
  <2>1. /\ \A k \in Conn : link'[k] # "open" /\ ~Awaited(k)'
        /\ \A k \in Conn : link'[k] = "unused" => link[k] = "unused"
    BY <1>2 DEF Restart, HubRestart, Awaited
  <2>2. \A p \in Pusher : push'[p].pc # "sent"
    BY <1>2 DEF Restart, Idle
  <2> QED BY <2>1, <2>2, RecordWithoutStream
<1>3. CASE UNCHANGED allVars
  <2>1. UNCHANGED <<link, inbox, task, entry, chan, snapshot, recorded, report, doubt, push>>
    BY <1>3 DEF allVars, pushVars, sessionVars, hubVars, agentVars, historyVars
  <2> QED BY <2>1, RecordFrame, AwaitedFrame
<1> QED BY <1>1, <1>2, <1>3, RecordPush, RecordScheduler, RecordNode, RecordStream
        DEF PushNext

LEMMA RecordHolds == PushSpec => []RecordInv
<1>1. PushSpec => []SessionFacts
  BY PushImplementsSession, SessionTypeCorrect, StreamsMatchTasks, EntryAlwaysHasReader, PTL
     DEF SessionFacts
<1>2. PushSpec => []SessionTypeOK
  BY PushKeepsSessionType
<1> QED BY <1>1, <1>2, PushTypeCorrect, RecordInit, RecordStep, PTL DEF PushSpec

\* While the Agent listens on the entry's stream, the version recorded for a core
\* is the one it was last sent, or its snapshot, with the four exceptions that
\* RecordExact names, for any streams, pushers and cores: register_agent,
\* set_agent_config_version and handle_config_push keep it so together.
THEOREM RecordAlwaysExact == PushSpec => []RecordExact
BY RecordHolds, PTL DEF RecordInv

-----------------------------------------------------------------------------
(* Refinement                                                              *)

LEMMA DeliveryStart == PushInit => Delivery!DeliveryInit
BY DEF PushInit, Nothing, Delivery!DeliveryInit

LEMMA HandleDelivers ==
  ASSUME PushTypeOK, Origin, NEW k \in Conn, AgentHandle(k)
  PROVE  [Delivery!DeliveryNext]_(Delivery!deliveryVars)
<1> DEFINE m == Head(chan[k])
<1>1. chan[k] \in Seq(ToAgent) /\ chan[k] # <<>>
  BY DEF AgentHandle, PushTypeOK
<1>2. m \in ToAgent /\ m = chan[k][1] /\ 1 \in 1..Len(chan[k])
  BY <1>1
<1>3. /\ m.core \in Core /\ m.config \in Config \union {Blank}
      /\ m.config \in offered[m.core] \union {Blank}
  BY <1>2 DEF ToAgent, Origin, CarriesOffered
<1>4. HandleMessage(m) /\ UNCHANGED offered
  BY DEF AgentHandle
<1> HIDE DEF m
<1>5. CASE StopCore(m)
  <2>1. Delivery!Halt({m.core})
    BY <1>3, <1>4, <1>5 DEF StopCore, Delivery!Halt, PushTypeOK
  <2> QED BY <1>3, <2>1 DEF Delivery!DeliveryNext
<1>6. CASE SkipPush(m)
  BY <1>4, <1>6 DEF SkipPush, Delivery!deliveryVars
<1>7. CASE ApplyPush(m)
  <2>1. m.config \in Config /\ Delivery!Accept(m.core, m.config)
    BY <1>3, <1>4, <1>7 DEF ApplyPush, Delivery!Accept
  <2> QED BY <1>3, <2>1 DEF Delivery!DeliveryNext
<1>8. CASE RefusePush(m)
  <2>1. CASE Reloads(m)
    BY <1>3, <1>4, <1>8, <2>1 DEF RefusePush, Delivery!deliveryVars, PushTypeOK
  <2>2. CASE ~Reloads(m)
    <3>1. Delivery!Halt({m.core})
      BY <1>3, <1>4, <1>8, <2>2 DEF RefusePush, Delivery!Halt, PushTypeOK
    <3> QED BY <1>3, <3>1 DEF Delivery!DeliveryNext
  <2> QED BY <2>1, <2>2
<1> QED BY <1>4, <1>5, <1>6, <1>7, <1>8 DEF HandleMessage

LEMMA DeliveryStep ==
  PushTypeOK /\ Origin /\ [PushNext]_allVars
    => [Delivery!DeliveryNext]_(Delivery!deliveryVars)
<1> SUFFICES ASSUME PushTypeOK, Origin, [PushNext]_allVars
             PROVE  [Delivery!DeliveryNext]_(Delivery!deliveryVars)
  OBVIOUS
<1>1. CASE UNCHANGED <<offered, accepted, running>>
  BY <1>1 DEF Delivery!deliveryVars
<1>2. ASSUME NEW p \in Pusher, PushStep(p)
      PROVE  [Delivery!DeliveryNext]_(Delivery!deliveryVars)
  <2>1. CASE ~Send(p)
    BY <1>1, <1>2, <2>1 DEF PushStep, AdminBuild, StartPush, SendFails, Record,
                            ClearPending, agentVars, historyVars
  <2>2. CASE Send(p)
    <3>1. push[p].core \in Core /\ push[p].config \in Config \union {Blank}
      BY <2>2, BusyPush DEF Send
    <3>2. CASE push[p].config = Blank
      BY <1>1, <2>2, <3>2 DEF Send, agentVars
    <3>3. CASE push[p].config # Blank
      <4>1. Delivery!Offer(push[p].core, push[p].config)
        BY <2>2, <3>3 DEF Send, agentVars, Delivery!Offer
      <4> QED BY <3>1, <3>3, <4>1 DEF Delivery!DeliveryNext
    <3> QED BY <3>2, <3>3
  <2> QED BY <2>1, <2>2
<1>3. ASSUME NodeStep
      PROVE  [Delivery!DeliveryNext]_(Delivery!deliveryVars)
  <2>1. ASSUME NEW c \in Core, CoreCrash(c)
        PROVE  [Delivery!DeliveryNext]_(Delivery!deliveryVars)
    <3>1. Delivery!Halt({c})
      BY <2>1 DEF CoreCrash, historyVars, Delivery!Halt, PushTypeOK
    <3> QED BY <2>1, <3>1 DEF Delivery!DeliveryNext
  <2>2. CASE AgentStart
    <3>1. \A c \in Core : running[c] = NoConfig
      BY <2>2 DEF AgentStart, Origin, RunsAccepted, Nothing
    <3>2. \A c \in Core : running'[c] \in {NoConfig, snapshot[c]}
      BY <2>2 DEF AgentStart
    <3>3. Delivery!Recover
      BY <2>2, <3>1, <3>2 DEF AgentStart, historyVars, Origin, SnapshotWasAccepted,
                              PushTypeOK, Delivery!Recover
    <3> QED BY <3>3 DEF Delivery!DeliveryNext
  <2>3. CASE AgentCrash
    <3>1. Delivery!Halt(Core)
      BY <2>3 DEF AgentCrash, historyVars, Nothing, Delivery!Halt
    <3> QED BY <3>1 DEF Delivery!DeliveryNext
  <2> QED BY <1>3, <2>1, <2>2, <2>3, HandleDelivers DEF NodeStep
<1>4. CASE EditStep
  BY <1>1, <1>4 DEF EditStep, UpdateConfig, MoveConfig, DeleteConfig, EditBinding,
                    MarkPending, Untouched, agentVars, historyVars
<1>5. CASE SchedulerPass
  BY <1>1, <1>5 DEF SchedulerPass, SchedulerBuild, ReconcileBuild, StartPush,
                    agentVars, historyVars
<1>6. CASE \E k \in Conn : StreamStep(k)
  BY <1>1, <1>6 DEF StreamStep, Connect, Leave, Insert, StreamEnd, SessionStep,
                    pushVars, agentVars, historyVars
<1>7. CASE Restart
  BY <1>1, <1>7 DEF Restart, agentVars, historyVars
<1>8. CASE UNCHANGED allVars
  BY <1>1, <1>8 DEF allVars, pushVars, agentVars, historyVars
<1> QED BY <1>2, <1>3, <1>4, <1>5, <1>6, <1>7, <1>8 DEF PushNext

\* The push protocol implements ConfigDelivery: through lost streams, crossed
\* pushes, refused configurations and restarts of Hub and Agent, a core only
\* runs what the Hub offered for it, and restarts with what it has accepted.
THEOREM PushImplementsDelivery == PushSpec => ImplementsDelivery
<1>1. PushSpec => []PushTypeOK /\ []Origin
  BY PushTypeCorrect, OriginHolds
<1> QED BY <1>1, DeliveryStart, DeliveryStep, PTL
        DEF PushSpec, ImplementsDelivery, Delivery!DeliverySpec

\* In particular every running core runs a configuration it accepted, and every
\* accepted one was offered by the Hub (push_node_config, push_config_for_core).
THEOREM PushRunsWhatWasOffered == PushSpec => []Delivery!RunsWhatWasOffered
<1>1. Origin => Delivery!RunsWhatWasOffered
  BY DEF Origin, RunsAccepted, Delivery!RunsWhatWasOffered
<1> QED BY <1>1, OriginHolds, PTL
=============================================================================
