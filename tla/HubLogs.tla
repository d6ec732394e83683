------------------------------ MODULE HubLogs ------------------------------
(***************************************************************************)
(* The Hub's own log records on their way into the database (logging.rs):  *)
(* any thread puts a record into a channel of 512 without waiting, one     *)
(* task takes them out and inserts them, one every two seconds at worst,   *)
(* and the end of the Hub stops the task, giving it five seconds for what  *)
(* is left.  Records are numbered in the order in which they are put in.   *)
(***************************************************************************)
EXTENDS Integers, Sequences

CONSTANTS MaxRecords,  \* bound: records written
          Capacity     \* of the channel (512)

VARIABLES written,   \* number of the last record
          channel,   \* records that wait
          closed,    \* the writer has closed the channel
          unroomed,  \* the counter of records that found no room
          writing,   \* the record that is being inserted, 0 for none
          writer,    \* "runs", "drains", "done", "aborted"
          stopping,  \* shutdown has sent its stop, or the sender is gone
          saved,     \* records in system_log, in the order of their insertion
          accepted,  \* history: records that found room
          failed     \* history: records whose insert failed or timed out

logVars == <<written, channel, closed, unroomed, writing, writer, stopping,
             saved, accepted, failed>>

LogInit ==
  /\ written = 0 /\ channel = <<>> /\ closed = FALSE /\ unroomed = 0
  /\ writing = 0 /\ writer = "runs" /\ stopping = FALSE
  /\ saved = <<>> /\ accepted = {} /\ failed = {}

\* on_event: try_send, and a count if there is no room or no channel any more.
Emit ==
  /\ written < MaxRecords /\ written' = written + 1
  /\ IF ~closed /\ Len(channel) < Capacity
     THEN /\ channel' = Append(channel, written + 1)
          /\ accepted' = accepted \cup {written + 1}
          /\ UNCHANGED unroomed
     ELSE unroomed' = unroomed + 1 /\ UNCHANGED <<channel, accepted>>
  /\ UNCHANGED <<closed, writing, writer, stopping, saved, failed>>

\* shutdown: the last thing that main does.
StopWriter ==
  /\ ~stopping /\ stopping' = TRUE
  /\ UNCHANGED <<written, channel, closed, unroomed, writing, writer, saved,
                 accepted, failed>>

\* persist: select! takes either branch when both are ready.
Take ==
  /\ writer \in {"runs", "drains"} /\ writing = 0 /\ channel # <<>>
  /\ writing' = Head(channel) /\ channel' = Tail(channel)
  /\ UNCHANGED <<written, closed, unroomed, writer, stopping, saved, accepted,
                 failed>>

\* Variant: the writer ends when it is told to.
StopAtOnce ==
  /\ writer = "runs" /\ writing = 0 /\ stopping
  /\ closed' = TRUE /\ writer' = "done"
  /\ UNCHANGED <<written, channel, unroomed, writing, stopping, saved, accepted,
                 failed>>

SeeStop ==
  /\ writer = "runs" /\ writing = 0 /\ stopping
  /\ closed' = TRUE /\ writer' = "drains"
  /\ UNCHANGED <<written, channel, unroomed, writing, stopping, saved, accepted,
                 failed>>

Drained ==
  /\ writer = "drains" /\ writing = 0 /\ channel = <<>>
  /\ writer' = "done"
  /\ UNCHANGED <<written, channel, closed, unroomed, writing, stopping, saved,
                 accepted, failed>>

\* The insert is answered, or fails, or times out; then the count is told.
Inserted(ok) ==
  /\ writer \in {"runs", "drains"} /\ writing # 0
  /\ saved' = IF ok THEN Append(saved, writing) ELSE saved
  /\ failed' = IF ok THEN failed ELSE failed \cup {writing}
  /\ writing' = 0 /\ unroomed' = 0
  /\ UNCHANGED <<written, channel, closed, writer, stopping, accepted>>

\* Five seconds are over: inserts were slow.
Abort ==
  /\ stopping /\ writer \in {"runs", "drains"}
  /\ writer' = "aborted"
  /\ UNCHANGED <<written, channel, closed, unroomed, writing, stopping, saved,
                 accepted, failed>>

LogNext == Emit \/ StopWriter \/ Take \/ SeeStop \/ Drained \/ Abort
           \/ \E ok \in BOOLEAN : Inserted(ok)

LogSpec == LogInit /\ [][LogNext]_logVars

(***************************************************************************)
(* What becomes of a record that found room.                               *)
(***************************************************************************)
\* A shutdown whose five seconds are enough loses nothing that found room, written
\* before the stop or after it: when the writer is done, every accepted record was
\* inserted, in the order in which it was written, or its insert failed.
AcceptedIsSaved ==
  /\ writer = "done" => accepted = {saved[i] : i \in DOMAIN saved} \cup failed
  /\ \A i, j \in DOMAIN saved : i < j => saved[i] < saved[j]
=============================================================================
