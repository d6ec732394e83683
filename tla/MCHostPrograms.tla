--------------------------- MODULE MCHostPrograms ---------------------------
(***************************************************************************)
(* The programs of a machine, as operating system processes and files: the *)
(* Hub that is replaced by another release of itself, the database that    *)
(* this release opens, and the core an Agent runs.  The three share no     *)
(* state, so each behaviour is of one of them, chosen at its beginning.    *)
(***************************************************************************)
EXTENDS Upgrade, DbUpgrade, CoreProcess

VARIABLE part

hostVars == <<part, upVars, dbUpVars, coreVars>>

HostInit == /\ part \in {"upgrade", "database", "process"}
            /\ UpInit /\ DbUpInit /\ CoreInit
            /\ part = "upgrade" \/ binary = 1
            /\ part = "database" \/ stored = NoRow
            /\ part = "process" \/ bound

HostNext ==
  /\ UNCHANGED part
  /\ \/ part = "upgrade" /\ UpNext /\ UNCHANGED <<dbUpVars, coreVars>>
     \/ part = "database" /\ DbUpNext /\ UNCHANGED <<upVars, coreVars>>
     \/ part = "process" /\ CoreNext /\ UNCHANGED <<upVars, dbUpVars>>

HostSpec == HostInit /\ [][HostNext]_hostVars
=============================================================================
