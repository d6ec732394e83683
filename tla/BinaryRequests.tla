--------------------------- MODULE BinaryRequests ---------------------------
(***************************************************************************)
(* The administrator's requests for the core binaries of one node: list    *)
(* them, or delete one file.  Each HTTP handler of the Hub puts the sender *)
(* of a oneshot channel into AppState::binary_waiters, whose key is the    *)
(* node, sends a message that names no request, and waits ten seconds; the *)
(* Hub task that reads the node's stream gives every answer to whatever    *)
(* sender it finds there.  A handler's removal from the table, too, takes  *)
(* out whatever is there.                                                  *)
(***************************************************************************)
EXTENDS Naturals, Sequences

CONSTANTS
  Request,    \* HTTP requests, each made once
  Deletes,    \* those that delete the file; the others list
  NoRequest,  \* no sender in the table
  Open, Closed, \* a oneshot channel without a value; without a sender
  MaxBreaks   \* bound: ends of the node's stream

\* CoreBinaryList: the request it answers (which the message does not say),
\* whether the file is listed, whether error is set.
Answer == [of : Request, listed : BOOLEAN, error : BOOLEAN]

\* No state of a oneshot channel without an answer is an answer.
ASSUME BinaryAssumption ==
  /\ Deletes \subseteq Request /\ NoRequest \notin Request
  /\ Open # Closed /\ Open \notin Answer /\ Closed \notin Answer
  /\ MaxBreaks \in Nat

VARIABLES
  handler,   \* request -> where its HTTP handler is
  oneshot,   \* request -> its channel: Open, Closed, or the answer in it
  waiter,    \* the node's entry of binary_waiters
  asks,      \* Hub to Agent: requests on their way
  answers,   \* Agent to Hub: answers on their way
  onDisk,    \* the file is in the node's bin_dir
  breaks

binaryVars == <<handler, oneshot, waiter, asks, answers, onDisk, breaks>>

Waiting == {"await", "giving_up"}
Ended   == {"answered", "unreachable", "timeout", "gone"}

BinaryTypeOK ==
  /\ handler \in [Request -> {"idle", "send", "unsent"} \union Waiting \union Ended]
  /\ oneshot \in [Request -> Answer \union {Open, Closed}]
  /\ waiter \in Request \union {NoRequest}
  /\ asks \in Seq(Request) /\ answers \in Seq(Answer)
  /\ onDisk \in BOOLEAN
  /\ breaks \in Nat

BinaryInit ==
  /\ handler = [r \in Request |-> "idle"]
  /\ oneshot = [r \in Request |-> Open]
  /\ waiter = NoRequest
  /\ asks = <<>> /\ answers = <<>>
  /\ onDisk \in BOOLEAN
  /\ breaks = 0

Moves(r, from, to) == handler[r] = from /\ handler' = [handler EXCEPT ![r] = to]

\* Who is taken out of the table loses its sender.
Drops(q) == oneshot' = IF q = NoRequest \/ oneshot[q] # Open THEN oneshot
                       ELSE [oneshot EXCEPT ![q] = Closed]

-----------------------------------------------------------------------------
(* The HTTP handler, request_core_binaries                                 *)

\* Inserting one's sender drops the one that was there.
Insert(r) ==
  /\ Moves(r, "idle", "send")
  /\ waiter' = r
  /\ Drops(waiter)
  /\ UNCHANGED <<asks, answers, onDisk, breaks>>

SendAsk(r) ==
  /\ Moves(r, "send", "await")
  /\ asks' = Append(asks, r)
  /\ UNCHANGED <<oneshot, waiter, answers, onDisk, breaks>>

\* The node has no stream: 502, after the table is cleaned.
AskFails(r) ==
  /\ Moves(r, "send", "unsent")
  /\ UNCHANGED <<oneshot, waiter, asks, answers, onDisk, breaks>>

Receive(r) ==
  /\ Moves(r, "await", "answered")
  /\ oneshot[r] \in Answer
  /\ UNCHANGED <<oneshot, waiter, asks, answers, onDisk, breaks>>

\* Variant: a handler waits until its sender is dropped.
GiveUpWhenDropped(r) ==
  /\ Moves(r, "await", "giving_up")
  /\ oneshot[r] = Closed
  /\ UNCHANGED <<oneshot, waiter, asks, answers, onDisk, breaks>>

\* Ten seconds are over, or the sender was dropped: 504, after the table is
\* cleaned.
GiveUp(r) ==
  /\ Moves(r, "await", "giving_up")
  /\ oneshot[r] \notin Answer
  /\ UNCHANGED <<oneshot, waiter, asks, answers, onDisk, breaks>>

\* The table's entry is removed, whoever put it there.
Clean(r) ==
  /\ Moves(r, "unsent", "unreachable") \/ Moves(r, "giving_up", "timeout")
  /\ waiter' = NoRequest
  /\ Drops(waiter)
  /\ UNCHANGED <<asks, answers, onDisk, breaks>>

\* The administrator's browser goes away and the handler with it; its sender
\* stays in the table.
Abandon(r) ==
  /\ \E from \in {"send", "await"} : Moves(r, from, "gone")
  /\ UNCHANGED <<oneshot, waiter, asks, answers, onDisk, breaks>>

-----------------------------------------------------------------------------
(* The Agent and the stream                                                *)

\* handle_hub_message: the answer to a deletion lists the files as they were
\* before it, unless it fails (a core uses the file, or there is none).
AgentAnswers ==
  /\ asks # <<>>
  /\ asks' = Tail(asks)
  /\ LET r == Head(asks)
     IN  \E fails \in IF r \in Deletes THEN BOOLEAN ELSE {FALSE} :
           /\ (r \in Deletes /\ ~onDisk) => fails
           /\ answers' = Append(answers, [of |-> r, listed |-> onDisk, error |-> fails])
           /\ onDisk' = (onDisk /\ (r \notin Deletes \/ fails))
  /\ UNCHANGED <<handler, oneshot, waiter, breaks>>

\* Variant: the answer is delivered again.
TakeAnswerTwice ==
  /\ answers # <<>>
  /\ answers' \in {answers, Tail(answers)}
  /\ waiter' = NoRequest
  /\ oneshot' = IF waiter = NoRequest THEN oneshot
                ELSE [oneshot EXCEPT ![waiter] = Head(answers)]
  /\ UNCHANGED <<handler, asks, onDisk, breaks>>

\* handle_agent_message: the answer goes to the sender in the table, which
\* may be no one's, or of a handler that no longer listens.
TakeAnswer ==
  /\ answers # <<>>
  /\ answers' = Tail(answers)
  /\ waiter' = NoRequest
  /\ oneshot' = IF waiter = NoRequest THEN oneshot
                ELSE [oneshot EXCEPT ![waiter] = Head(answers)]
  /\ UNCHANGED <<handler, asks, onDisk, breaks>>

\* The stream ends, with the messages on their way.
NodeDisconnects ==
  /\ breaks < MaxBreaks /\ breaks' = breaks + 1
  /\ asks' = <<>> /\ answers' = <<>>
  /\ UNCHANGED <<handler, oneshot, waiter, onDisk>>

\* A configuration push installs the core again.  Bound: while a request is on
\* its way.
Reinstall ==
  /\ ~onDisk /\ asks # <<>> /\ onDisk' = TRUE
  /\ UNCHANGED <<handler, oneshot, waiter, asks, answers, breaks>>

-----------------------------------------------------------------------------
HandlerStep(r) == \/ SendAsk(r) \/ AskFails(r) \/ Receive(r) \/ GiveUp(r)
                  \/ Clean(r)

BinaryNext == \/ \E r \in Request : Insert(r) \/ HandlerStep(r) \/ Abandon(r)
              \/ AgentAnswers \/ TakeAnswer \/ NodeDisconnects \/ Reinstall

BinarySpec == BinaryInit /\ [][BinaryNext]_binaryVars

\* A handler goes on while its client is there: its timer fires.
BinaryFairness == \A r \in Request : WF_binaryVars(HandlerStep(r))

-----------------------------------------------------------------------------
(* Properties                                                              *)

\* Requests whose caller will not see an answer any more.
Lost(r) == \/ handler[r] \in {"unsent", "giving_up", "unreachable", "timeout", "gone"}
           \/ handler[r] \in {"send", "await"} /\ oneshot[r] = Closed

\* "Send a core-binary request ... and await its reply" (nodes.rs:289): as
\* long as no request is lost to its caller (displaced by another, cleaned
\* away, timed out or abandoned), each one gets its own answer.  After that,
\* answers may be off by one forever.
OwnAnswers ==
  (\A q \in Request : ~Lost(q)) =>
    \A r \in Request : oneshot[r] \in Answer => oneshot[r].of = r

\* However answers are lost and senders displaced, every request that was
\* made ends: with an answer, an error, or its client gone.
EveryRequestEnds ==
  \A r \in Request : handler[r] = "send" ~> handler[r] \in Ended
=============================================================================
