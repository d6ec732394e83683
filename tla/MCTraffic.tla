------------------------------ MODULE MCTraffic ------------------------------
(***************************************************************************)
(* From a core's counters to a client that is cut off: what the reporter   *)
(* of an Agent makes of the counters, what the Hub charges for a report    *)
(* and does about a limit, and the table of streams that its pushes go     *)
(* through.  A report is the only thing that the first two share, of which *)
(* ClientAccess assumes nothing, so each behaviour is of one of the three. *)
(***************************************************************************)
EXTENDS ClientAccess, TrafficReporter, AgentTable

VARIABLE part

trafficVars == <<part, clientVars, reporterVars, tableVars>>

TrafficInit == /\ part \in {"client", "reporter", "table"}
               /\ ClientInit /\ ReporterInit /\ TableInit
               /\ part = "client" \/ expiry = "future"

TrafficNext ==
  /\ UNCHANGED part
  /\ IF part = "client" THEN ClientNext ELSE UNCHANGED clientVars
  /\ IF part = "reporter" THEN ReporterNext ELSE UNCHANGED reporterVars
  /\ IF part = "table" THEN TableNext ELSE UNCHANGED tableVars

\* The fairness that each module states, of the part that runs.
TrafficSpec ==
  /\ TrafficInit /\ [][TrafficNext]_trafficVars
  /\ WF_clientVars(part = "client" /\ PassStep)
  /\ WF_reporterVars(part = "reporter" /\ Collect)
  /\ WF_reporterVars(part = "reporter" /\ ReceiveReports)
  /\ WF_reporterVars(part = "reporter" /\ Reconnect)
  /\ \A j \in Job : WF_tableVars(part = "table" /\ JobStep(j))
  /\ \A a \in TableAgent : WF_tableVars(part = "table" /\ (AgentTakes(a) \/ LinkEnds(a)))
=============================================================================
