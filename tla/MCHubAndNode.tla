---------------------------- MODULE MCHubAndNode ----------------------------
(***************************************************************************)
(* What the Hub and a node have with each other besides configurations:    *)
(* the streams of the Agent, and what the Hub asks of the node over them:  *)
(* its core binaries, its certificates and a build of its core.  The four  *)
(* share no state (each has its own tables of the Hub and files of the     *)
(* node; the stream is each time as much of it as they need), so each      *)
(* behaviour is of one of them, chosen at its beginning.                   *)
(***************************************************************************)
EXTENDS AgentSession, BinaryRequests, Certificates, CoreInstall

VARIABLE part

nodeVars == <<part, sessionVars, binaryVars, certVars, installVars>>

NodeInit ==
  /\ part \in {"session", "binaries", "certificates", "build"}
  /\ SessionInit /\ BinaryInit /\ CertInit /\ InstallInit
  /\ part = "binaries" \/ onDisk

NodeNext ==
  /\ UNCHANGED part
  /\ IF part = "session" THEN SessionNext ELSE UNCHANGED sessionVars
  /\ IF part = "binaries" THEN BinaryNext ELSE UNCHANGED binaryVars
  /\ IF part = "certificates" THEN CertNext ELSE UNCHANGED certVars
  /\ IF part = "build" THEN InstallNext ELSE UNCHANGED installVars

\* The fairness that each module states, of the part that runs.
NodeSpec ==
  /\ NodeInit /\ [][NodeNext]_nodeVars
  /\ \A k \in Conn : WF_sessionVars(part = "session" /\ HubTask(k))
  /\ \A r \in Request : WF_binaryVars(part = "binaries" /\ HandlerStep(r))
  /\ WF_certVars(part = "certificates" /\ TakeStep)
  /\ WF_certVars(part = "certificates" /\ Dispatch)
  /\ WF_certVars(part = "certificates" /\ (ReadPending \/ DispatchPending))
  /\ WF_certVars(part = "certificates" /\ ApplyStatus)
  /\ WF_certVars(part = "certificates" /\ Register)
  /\ \A t \in Task : WF_certVars(part = "certificates" /\ TaskStep(t))
=============================================================================
