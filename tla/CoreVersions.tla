---------------------------- MODULE CoreVersions ----------------------------
(***************************************************************************)
(* The catalogue of one core's versions (routes/core_version.rs): saving a *)
(* selection, deleting a row, and activating one, which clears every row   *)
(* of the core, sets its own and marks the nodes.  The handlers run side   *)
(* by side, without a transaction, and any statement may fail.             *)
(*                                                                         *)
(* A push is one step here and takes the version that is in force then;    *)
(* its own steps are in ConfigPush.                                        *)
(***************************************************************************)
EXTENDS Integers, FiniteSets

CONSTANTS
  Activation,   \* requests that activate a version
  Saving,       \* requests that save one
  Tag,          \* version strings
  DefaultTag,   \* the version taken when none is active (effective_core_version)
  MaxRows,      \* bound on the rows that are ever inserted
  MaxBuild,     \* bound on the builds published under one version string
  MaxRequests   \* bound on the requests

ASSUME CoreVersionsAssumption ==
  /\ DefaultTag \in Tag /\ Activation \cap Saving = {}
  /\ MaxRows \in Nat \ {0} /\ MaxBuild \in Nat /\ MaxRequests \in Nat

Row == 1..MaxRows
NoId == 0
Absent == [tag |-> DefaultTag, active |-> FALSE, build |-> 0, there |-> FALSE]

VARIABLES
  rows,       \* id |-> [tag, active, build, there]
  born,       \* ids are never used twice: the rows inserted so far
  request,    \* request |-> what it does and what it has read
  requests,   \* requests so far
  marked,     \* the nodes of the core are marked
  running,    \* what the nodes were pushed last: [tag, build]
  crossed,    \* history: two activations overlapped, and no lone one followed
  lapsed      \* history: the version in force changed and no activation ended since

catVars == <<rows, born, request, requests, marked, running, crossed, lapsed>>

There == {r \in Row : rows[r].there}
Active == {r \in There : rows[r].active}

(* effective_core_version takes the first active row; core_build_id_of     *)
(* looks the version string up again, whether its row is active or not.    *)
BuildOf(tag) ==
  LET held == {r \in There : rows[r].tag = tag}
  IN IF held = {} THEN 0 ELSE rows[CHOOSE r \in held : TRUE].build
InForce ==
  IF Active = {} THEN {[tag |-> DefaultTag, build |-> BuildOf(DefaultTag)]}
  ELSE {[tag |-> rows[r].tag, build |-> BuildOf(rows[r].tag)] : r \in Active}

Idle == [op |-> "idle", id |-> NoId, todo |-> {}, lone |-> TRUE, tag |-> DefaultTag, was |-> 0]
Busy == {t \in Activation : request[t].op # "idle"}

CatTypeOK ==
  /\ rows \in [Row -> [tag : Tag, active : BOOLEAN, build : 0..MaxBuild, there : BOOLEAN]]
  /\ born \in 0..MaxRows /\ requests \in 0..MaxRequests
  /\ request \in [Activation \union Saving ->
                   [op : {"idle", "found", "clear", "mark", "absent", "read"},
                    id : Row \union {NoId}, todo : SUBSET Row, lone : BOOLEAN,
                    tag : Tag, was : 0..MaxBuild]]
  /\ {marked, crossed, lapsed} \subseteq BOOLEAN
  /\ running \in [tag : Tag, build : 0..MaxBuild]

CatInit ==
  /\ rows = [r \in Row |-> Absent] /\ born = 0
  /\ request = [t \in Activation \union Saving |-> Idle] /\ requests = 0
  /\ marked = FALSE /\ running = [tag |-> DefaultTag, build |-> 0]
  /\ crossed = FALSE /\ lapsed = FALSE

-----------------------------------------------------------------------------
(* activate_core_version                                                   *)

Activate(t, r) ==
  /\ requests < MaxRequests /\ requests' = requests + 1
  /\ request[t] = Idle /\ r \in There
  /\ crossed' = (crossed \/ Busy # {})
  /\ request' = [u \in DOMAIN request |->
                   IF u = t THEN [Idle EXCEPT !.op = "found", !.id = r, !.lone = Busy = {}]
                   ELSE [request[u] EXCEPT !.lone = @ /\ u \notin Busy]]
  /\ UNCHANGED <<rows, born, marked, running, lapsed>>

(* Variant: nothing is cleared *)
ReadAllNone(t) ==
  /\ request[t].op = "found"
  /\ request' = [request EXCEPT ![t].op = "clear", ![t].todo = {}]
  /\ UNCHANGED <<rows, born, requests, marked, running, crossed, lapsed>>

ReadAll(t) ==
  /\ request[t].op = "found"
  /\ request' = [request EXCEPT ![t].op = "clear", ![t].todo = There]
  /\ UNCHANGED <<rows, born, requests, marked, running, crossed, lapsed>>

(* An update of a row that is gone fails. *)
ClearOne(t, r) ==
  /\ request[t].op = "clear" /\ r \in request[t].todo \cap There
  /\ rows' = [rows EXCEPT ![r].active = FALSE]
  /\ request' = [request EXCEPT ![t].todo = @ \ {r}]
  /\ UNCHANGED <<born, requests, marked, running, crossed, lapsed>>

SetTarget(t) ==
  /\ request[t].op = "clear" /\ request[t].todo = {} /\ request[t].id \in There
  /\ rows' = [rows EXCEPT ![request[t].id].active = TRUE]
  /\ request' = [request EXCEPT ![t].op = "mark"]
  /\ UNCHANGED <<born, requests, marked, running, crossed, lapsed>>

Mark(t) ==
  /\ request[t].op = "mark"
  /\ marked' = TRUE
  /\ request' = [request EXCEPT ![t] = Idle]
  /\ crossed' = (crossed /\ ~request[t].lone) /\ lapsed' = FALSE
  /\ UNCHANGED <<rows, born, requests, running>>

(* An error ends the handler where it is; one of the marks is logged only. *)
Fail(t) ==
  /\ request[t].op \in {"found", "clear", "mark"}
  /\ request' = [request EXCEPT ![t] = Idle]
  /\ lapsed' = TRUE
  /\ UNCHANGED <<rows, born, requests, marked, running, crossed>>

-----------------------------------------------------------------------------
(* save_core_versions, item by item; `build` is a publish time, 0 for none *)

Look(t, tag) ==
  /\ requests < MaxRequests /\ requests' = requests + 1
  /\ request[t] = Idle
  /\ LET held == {r \in There : rows[r].tag = tag}
     IN \/ /\ held = {}
           /\ request' = [request EXCEPT ![t].op = "absent", ![t].tag = tag]
        \/ \E r \in held :
             request' = [request EXCEPT ![t].op = "read", ![t].id = r, ![t].was = rows[r].build]
  /\ UNCHANGED <<rows, born, marked, running, crossed, lapsed>>

Written(t, new) ==
  /\ rows' = new
  /\ request' = [request EXCEPT ![t] = Idle]
  /\ lapsed' = (lapsed \/ InForce' # InForce)
  /\ UNCHANGED <<requests, marked, running, crossed>>

(* The index on (core_type, version) refuses a second row. *)
Insert(t, build) ==
  LET tag == request[t].tag IN
  /\ request[t].op = "absent" /\ born < MaxRows
  /\ \A r \in There : rows[r].tag # tag
  /\ born' = born + 1
  /\ Written(t, [rows EXCEPT ![born + 1] =
                   [tag |-> tag, active |-> FALSE, build |-> build, there |-> TRUE]])

(* A rolling tag whose build is newer than the row's was when it was read *)
Refresh(t, build) ==
  /\ request[t].op = "read" /\ request[t].id \in There
  /\ build > request[t].was
  /\ born' = born
  /\ Written(t, [rows EXCEPT ![request[t].id].build = build])

SaveEnds(t) ==
  /\ request[t].op \in {"absent", "read"}
  /\ born' = born
  /\ Written(t, rows)

(* delete_core_version: nothing is marked, be the row active *)
Delete(r) ==
  /\ requests < MaxRequests /\ requests' = requests + 1
  /\ r \in There
  /\ rows' = [rows EXCEPT ![r] = Absent]
  /\ lapsed' = (lapsed \/ InForce' # InForce)
  /\ UNCHANGED <<born, request, marked, running, crossed>>

(* push_node_config, which clears the marks *)
Push ==
  /\ marked /\ marked' = FALSE
  /\ running' \in InForce
  /\ UNCHANGED <<rows, born, request, requests, crossed, lapsed>>

-----------------------------------------------------------------------------
CatNext ==
  \/ \E t \in Activation : \/ \E r \in Row : Activate(t, r) \/ ClearOne(t, r)
                           \/ ReadAll(t) \/ SetTarget(t) \/ Mark(t) \/ Fail(t)
  \/ \E t \in Saving : \/ \E tag \in Tag : Look(t, tag)
                       \/ \E b \in 0..MaxBuild : Insert(t, b) \/ Refresh(t, b)
                       \/ SaveEnds(t)
  \/ \E r \in Row : Delete(r)
  \/ Push

CatSpec == CatInit /\ [][CatNext]_catVars

(* Properties                                                              *)

\* core_version.rs:5 "One active version per core controls the binary installed
\* on demand": with no activation under way there is at most one, and the nodes
\* run it or are marked, until two activations overlapped, or one failed, or the
\* version in force was deleted, refreshed or saved, which marks nothing.  A
\* lone activation that ends heals all of that.
CatalogueInForce ==
  Busy = {} => /\ crossed \/ \A r, s \in Active : r = s
               /\ crossed \/ lapsed \/ marked \/ running \in InForce
=============================================================================
