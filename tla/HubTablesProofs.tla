-------------------------- MODULE HubTablesProofs --------------------------
(***************************************************************************)
(* Proofs about the tables the Hub's handlers edit and its caches and tasks *)
(* read: API keys, core versions, subscription templates, saved logs, and  *)
(* about its rate limiter.  The five modules share no state.               *)
(***************************************************************************)
EXTENDS ApiKeys, CoreVersions, Templates, HubLogs, RateLimiter, TLAPS

-----------------------------------------------------------------------------
(***************************************************************************)
(* ApiKeys.  EditsAreSeen, for any number of requests, editors and editions. *)
(* It is not inductive: what a request is served comes from a cache entry or *)
(* a search of an earlier step, so the strengthening says of each of them  *)
(* that it is no older than the last edition settled, unless it is late.   *)
(***************************************************************************)
\* What an editor, a request and the cache hold.
Edit == [at : {"idle", "update", "invalidate"}, edition : Nat]
Query == [at : {"idle", "verify", "served"}, edition : Nat, late : BOOLEAN]
Entry == [edition : Nat, old : BOOLEAN, late : BOOLEAN]

\* The types.
KeyTypeOK ==
  /\ keyRow \in [edition : Nat, active : BOOLEAN]
  /\ cached \in Entry
  /\ keyCall \in [ApiRequest -> Query]
  /\ editing \in [KeyEditor -> Edit]
  /\ settled \in Nat /\ newest \in Nat
  /\ expected \in [ApiRequest -> Nat]

\* A row that is there is of the last edition, and nothing is ahead of it.
RowIsNewest ==
  /\ settled <= newest
  /\ \A e \in KeyEditor : editing[e].edition <= newest
  /\ keyRow.active => keyRow.edition = newest

\* What can still be served is settled, or marked as late.
CacheIsSettled == cached.edition # 0 /\ ~cached.late => cached.edition >= settled

SearchIsSettled ==
  \A r \in ApiRequest : keyCall[r].at = "verify" /\ ~keyCall[r].late =>
    keyCall[r].edition >= settled

ExpectsSettled == \A r \in ApiRequest : expected[r] <= settled

\* The inductive invariant.
KeyInv == /\ KeyTypeOK /\ RowIsNewest /\ CacheIsSettled /\ SearchIsSettled
          /\ ExpectsSettled /\ EditsAreSeen

\* It holds of a key nobody has used.
LEMMA KeyInitInv == KeyInit => KeyInv
BY KeyAssumption
   DEF KeyInit, KeyInv, KeyTypeOK, RowIsNewest, CacheIsSettled, SearchIsSettled,
       ExpectsSettled, EditsAreSeen, NoKeyRow, RowOf, NoEntry, NoRequest, NoKeyEdit,
       Edit, Query, Entry

\* The actions of the requests leave the row and the editors alone.
LEMMA RequestsKeepInv ==
  ASSUME KeyInv, NEW r \in ApiRequest,
         RequestHit(r) \/ RequestMiss(r) \/ RequestVerified(r) \/ RequestEnds(r)
  PROVE  KeyInv'
<1>1. CASE RequestHit(r)
  BY <1>1 DEF RequestHit, Hit, KeyInv, KeyTypeOK, RowIsNewest, CacheIsSettled,
     SearchIsSettled, ExpectsSettled, EditsAreSeen, Query, Entry
<1>2. CASE RequestMiss(r)
  BY <1>2 DEF RequestMiss, Hit, KeyInv, KeyTypeOK, RowIsNewest, CacheIsSettled,
     SearchIsSettled, ExpectsSettled, EditsAreSeen, Query, Entry
<1>3. CASE RequestVerified(r)
  BY <1>3 DEF RequestVerified, KeyInv, KeyTypeOK, RowIsNewest, CacheIsSettled,
     SearchIsSettled, ExpectsSettled, EditsAreSeen, Query, Entry
<1>4. CASE RequestEnds(r)
  BY <1>4 DEF RequestEnds, NoRequest, KeyInv, KeyTypeOK, RowIsNewest, CacheIsSettled,
     SearchIsSettled, ExpectsSettled, EditsAreSeen, Query, Entry
<1>5. QED
  BY <1>1, <1>2, <1>3, <1>4

\* The edits that have not reached the cache yet write one edition ahead of it.
LEMMA WritesKeepInv ==
  ASSUME KeyInv, NEW e \in KeyEditor, NEW row \in [edition : Nat, active : BOOLEAN],
         row.active => row.edition = newest + 1, WriteRow(e, row)
  PROVE  KeyInv'
BY DEF WriteRow, KeyInv, KeyTypeOK, RowIsNewest, CacheIsSettled, SearchIsSettled,
   ExpectsSettled, EditsAreSeen, Edit

\* An invalidation settles an edition: nothing but late searches outlives it.
LEMMA InvalidationKeepsInv ==
  ASSUME KeyInv, NEW e \in KeyEditor, Invalidate(e)
  PROVE  KeyInv'
<1>1. settled' \in Nat /\ settled <= settled' /\ settled' <= newest
  BY DEF Invalidate, KeyInv, KeyTypeOK, RowIsNewest, Edit
<1>2. \A r \in ApiRequest :
        /\ Overtaken(keyCall[r]) \in Query
        /\ Overtaken(keyCall[r]).at = keyCall[r].at
        /\ Overtaken(keyCall[r]).edition = keyCall[r].edition
        /\ keyCall[r].at = "verify" => Overtaken(keyCall[r]).late
        /\ keyCall[r].at # "verify" => Overtaken(keyCall[r]).late = keyCall[r].late
  BY DEF Overtaken, KeyInv, KeyTypeOK, Query
<1>3. KeyTypeOK'
  BY <1>1, <1>2 DEF Invalidate, KeyInv, KeyTypeOK, NoEntry, NoKeyEdit, Entry, Edit
<1>4. RowIsNewest'
  BY <1>1 DEF Invalidate, KeyInv, KeyTypeOK, RowIsNewest, NoKeyEdit, Edit
<1>5. CacheIsSettled' /\ SearchIsSettled'
  BY <1>2 DEF Invalidate, CacheIsSettled, SearchIsSettled, NoEntry
<1>6. ExpectsSettled'
  BY <1>1 DEF Invalidate, KeyInv, KeyTypeOK, ExpectsSettled
<1>7. EditsAreSeen'
  BY <1>2 DEF Invalidate, KeyInv, EditsAreSeen
<1>8. QED
  BY <1>3, <1>4, <1>5, <1>6, <1>7 DEF KeyInv

\* Every edit keeps the invariant.
LEMMA EditsKeepInv ==
  ASSUME KeyInv, NEW e \in KeyEditor,
         \/ CreateKey(e) \/ UpdateFinds(e) \/ UpdateFails(e) \/ DeleteKey(e)
         \/ EditOther(e) \/ Invalidate(e) \/ \E active \in BOOLEAN : UpdateRow(e, active)
  PROVE  KeyInv'
<1>1. CASE CreateKey(e)
  <2>1. RowOf(1, TRUE).edition = newest + 1 /\ RowOf(1, TRUE) \in [edition : Nat, active : BOOLEAN]
    BY <1>1 DEF CreateKey, RowOf
  <2>2. QED
    BY <1>1, <2>1, WritesKeepInv DEF CreateKey
<1>2. CASE DeleteKey(e)
  <2>1. NoKeyRow \in [edition : Nat, active : BOOLEAN] /\ ~NoKeyRow.active
    BY DEF NoKeyRow, RowOf
  <2>2. QED
    BY <1>2, <2>1, WritesKeepInv DEF DeleteKey
<1>3. CASE \E active \in BOOLEAN : UpdateRow(e, active)
  <2>1. PICK active \in BOOLEAN : UpdateRow(e, active)
    BY <1>3
  <2>2. /\ RowOf(newest + 1, active).edition = newest + 1
        /\ RowOf(newest + 1, active) \in [edition : Nat, active : BOOLEAN]
    BY DEF RowOf, KeyInv, KeyTypeOK
  <2>3. QED
    BY <2>1, <2>2, WritesKeepInv DEF UpdateRow
<1>4. CASE UpdateFinds(e) \/ UpdateFails(e) \/ EditOther(e)
  <2>1. PICK d \in Edit : d.edition = 0 /\ editing' = [editing EXCEPT ![e] = d]
    BY <1>4 DEF UpdateFinds, UpdateFails, EditOther, NoKeyEdit, Edit
  <2>2. UNCHANGED <<keyRow, cached, keyCall, settled, newest, expected>>
    BY <1>4 DEF UpdateFinds, UpdateFails, EditOther
  <2>3. QED
    BY <2>1, <2>2 DEF KeyInv, KeyTypeOK, RowIsNewest, CacheIsSettled, SearchIsSettled,
       ExpectsSettled, EditsAreSeen, Edit
<1>5. CASE Invalidate(e)
  BY <1>5, InvalidationKeepsInv
<1>6. QED
  BY <1>1, <1>2, <1>3, <1>4, <1>5

\* Every step keeps the invariant.
LEMMA KeyStepInv == KeyInv /\ [KeyNext]_keyVars => KeyInv'
<1> SUFFICES ASSUME KeyInv, [KeyNext]_keyVars PROVE KeyInv'
  OBVIOUS
<1>1. CASE \E r \in ApiRequest :
             RequestHit(r) \/ RequestMiss(r) \/ RequestVerified(r) \/ RequestEnds(r)
  BY <1>1, RequestsKeepInv
<1>2. CASE EntryAges
  BY <1>2 DEF EntryAges, KeyInv, KeyTypeOK, RowIsNewest, CacheIsSettled,
     SearchIsSettled, ExpectsSettled, EditsAreSeen, Entry
<1>a. CASE ExpiredHit
  BY <1>a DEF ExpiredHit, NoEntry, KeyInv, KeyTypeOK, RowIsNewest, CacheIsSettled,
     SearchIsSettled, ExpectsSettled, EditsAreSeen, Entry
<1>3. CASE \E e \in KeyEditor :
             \/ CreateKey(e) \/ UpdateFinds(e) \/ UpdateFails(e) \/ DeleteKey(e)
             \/ EditOther(e) \/ Invalidate(e) \/ \E active \in BOOLEAN : UpdateRow(e, active)
  BY <1>3, EditsKeepInv
<1>4. CASE UNCHANGED keyVars
  BY <1>4 DEF keyVars, KeyInv, KeyTypeOK, RowIsNewest, CacheIsSettled, SearchIsSettled,
     ExpectsSettled, EditsAreSeen
<1>5. QED
  BY <1>1, <1>2, <1>a, <1>3, <1>4 DEF KeyNext

\* A request that begins after an edit of its key was answered is served what
\* the row has said since, whatever requests and edits run at once, unless the
\* cached verification had overtaken an invalidation: require_api_key,
\* update_key and delete_key.
THEOREM EditsAreSeenAlways == KeySpec => []EditsAreSeen
<1>1. KeyInv => EditsAreSeen
  BY DEF KeyInv
<1>2. QED
  BY <1>1, KeyInitInv, KeyStepInv, PTL DEF KeySpec

-----------------------------------------------------------------------------
(***************************************************************************)
(* CoreVersions.  An activation clears the others and then marks its own; what *)
(* its steps leave to do is kept with the request.                         *)
(***************************************************************************)
\* A row of the catalogue, a request on it.
VersionRow == [tag : Tag, active : BOOLEAN, build : 0 .. MaxBuild, there : BOOLEAN]
CatRequest == [op : {"idle", "found", "clear", "mark", "absent", "read"},
          id : Row \union {NoId}, todo : SUBSET Row, lone : BOOLEAN,
          tag : Tag, was : 0 .. MaxBuild]

\* What a request of either kind can be doing.
KindInv ==
  /\ \A t \in Activation : request[t].op \in {"idle", "found", "clear", "mark"}
  /\ \A t \in Saving : request[t].op \in {"idle", "absent", "read"}

\* An activation that is alone is the only one; unless activations overlapped,
\* each one is.
LoneInv ==
  /\ \A t \in Busy : request[t].lone => Busy = {t}
  /\ \A t \in Busy : crossed \/ request[t].lone

\* What a lone activation has still to clear, and what it leaves.
ClearedInv ==
  \A t \in Busy : request[t].lone =>
    /\ request[t].op = "clear" => Active \subseteq request[t].todo
    /\ request[t].op = "mark" => Active \subseteq {request[t].id}

\* With activations that did not overlap there is one active version.
OneActive == crossed \/ \A r, s \in Active : r = s

\* Between activations the nodes run what is in force, or are marked to be pushed it.
PushedOrMarked == Busy = {} => crossed \/ lapsed \/ marked \/ running \in InForce

\* The inductive invariant.
CatInv == CatTypeOK /\ KindInv /\ LoneInv /\ ClearedInv /\ OneActive /\ PushedOrMarked

\* The types hold at first.
LEMMA CatTypeInit == CatInit => CatTypeOK
<1> SUFFICES ASSUME CatInit PROVE CatTypeOK
  OBVIOUS
<1> USE CoreVersionsAssumption
<1>1. Idle \in CatRequest
  BY DEF Idle, CatRequest, Row, NoId
<1>2. Absent \in VersionRow
  BY DEF Absent, VersionRow
<1>3. rows \in [Row -> VersionRow] /\ request \in [Activation \union Saving -> CatRequest]
  BY <1>1, <1>2 DEF CatInit
<1>4. running \in [tag : Tag, build : 0 .. MaxBuild]
  BY DEF CatInit
<1>5. born \in 0 .. MaxRows /\ requests \in 0 .. MaxRequests
  BY DEF CatInit
<1>6. QED
  BY <1>3, <1>4, <1>5 DEF CatInit, CatTypeOK, VersionRow, CatRequest

\* The invariant holds at first.
LEMMA CatInitInv == CatInit => CatInv
<1> SUFFICES ASSUME CatInit PROVE CatInv
  OBVIOUS
<1> USE CoreVersionsAssumption
<1>1. Busy = {} /\ Active = {}
  BY DEF CatInit, Busy, Active, There, Idle, Absent
<1>2. running \in InForce
  <2>1. {r \in There : rows[r].tag = DefaultTag} = {}
    BY DEF CatInit, There, Absent
  <2>2. BuildOf(DefaultTag) = 0
    BY <2>1 DEF BuildOf
  <2>3. QED
    BY <1>1, <2>2 DEF InForce, CatInit
<1>3. KindInv
  BY DEF CatInit, KindInv, Idle
<1>4. QED
  BY <1>1, <1>2, <1>3, CatTypeInit DEF CatInv, LoneInv, ClearedInv, OneActive, PushedOrMarked

\* The build of a version string is one that a row has, or none.
LEMMA BuildType == CatTypeOK => \A tag \in Tag : BuildOf(tag) \in 0 .. MaxBuild
<1> SUFFICES ASSUME CatTypeOK, NEW tag \in Tag PROVE BuildOf(tag) \in 0 .. MaxBuild
  OBVIOUS
<1> USE CoreVersionsAssumption
<1> DEFINE held == {r \in There : rows[r].tag = tag}
<1>1. \A r \in held : rows[r].build \in 0 .. MaxBuild
  BY DEF CatTypeOK, There
<1>2. CASE held = {}
  BY <1>2 DEF BuildOf
<1>3. CASE held # {}
  <2>1. (CHOOSE r \in held : TRUE) \in held
    BY <1>3
  <2> HIDE DEF held
  <2>2. rows[CHOOSE r \in held : TRUE].build \in 0 .. MaxBuild
    BY <1>1, <2>1
  <2>3. QED
    BY <1>3, <2>2 DEF BuildOf, held
<1>4. QED
  BY <1>2, <1>3

\* Activations, refreshes, saves, deletions and pushes keep the types.
LEMMA CatTypeStep == CatTypeOK /\ KindInv /\ [CatNext]_catVars => CatTypeOK' /\ KindInv'
<1> SUFFICES ASSUME CatTypeOK, KindInv, [CatNext]_catVars PROVE CatTypeOK' /\ KindInv'
  OBVIOUS
<1> DEFINE Known == Activation \union Saving
<1>t. /\ rows \in [Row -> VersionRow] /\ request \in [Known -> CatRequest]
      /\ born \in 0 .. MaxRows /\ requests \in 0 .. MaxRequests
      /\ {marked, crossed, lapsed} \subseteq BOOLEAN
      /\ running \in [tag : Tag, build : 0 .. MaxBuild]
  BY DEF CatTypeOK, VersionRow, CatRequest
<1> SUFFICES /\ rows' \in [Row -> VersionRow] /\ request' \in [Known -> CatRequest]
             /\ born' \in 0 .. MaxRows /\ requests' \in 0 .. MaxRequests
             /\ {marked', crossed', lapsed'} \subseteq BOOLEAN
             /\ running' \in [tag : Tag, build : 0 .. MaxBuild]
             /\ KindInv'
  BY DEF CatTypeOK, VersionRow, CatRequest
<1>i. Idle \in CatRequest /\ Idle.op = "idle" /\ Absent \in VersionRow
  BY CoreVersionsAssumption DEF Idle, Absent, CatRequest, VersionRow, Row, NoId
<1>d. Activation \cap Saving = {} /\ MaxRequests \in Nat /\ MaxRows \in Nat /\ MaxBuild \in Nat
  BY CoreVersionsAssumption
<1>1. ASSUME NEW t \in Activation, NEW r \in Row, Activate(t, r)
      PROVE /\ request' \in [Known -> CatRequest] /\ KindInv' /\ crossed' \in BOOLEAN
            /\ requests' \in 0 .. MaxRequests
            /\ UNCHANGED <<rows, born, marked, running, lapsed>>
  <2> DEFINE mine == [Idle EXCEPT !.op = "found", !.id = r, !.lone = Busy = {}]
  <2>1. mine \in CatRequest /\ mine.op = "found"
    BY <1>i DEF CatRequest, Idle
  <2>2. ASSUME NEW u \in Known
        PROVE LET other == [request[u] EXCEPT !.lone = @ /\ u \notin Busy]
              IN other \in CatRequest /\ other.op = request[u].op
    <3>1. request[u] \in CatRequest
      BY <1>t
    <3>2. QED
      BY <3>1 DEF CatRequest
  <2>3. request' = [u \in Known |-> IF u = t THEN mine
                                    ELSE [request[u] EXCEPT !.lone = @ /\ u \notin Busy]]
    BY <1>1, <1>t DEF Activate
  <2> HIDE DEF mine
  <2>4. request' \in [Known -> CatRequest]
    BY <2>1, <2>2, <2>3
  <2>5. KindInv'
    BY <2>1, <2>2, <2>3, <1>d DEF KindInv
  <2>6. /\ UNCHANGED <<rows, born, marked, running, lapsed>>
        /\ requests < MaxRequests /\ requests' = requests + 1
        /\ crossed' = (crossed \/ Busy # {})
    BY <1>1 DEF Activate
  <2>7. requests' \in 0 .. MaxRequests /\ crossed' \in BOOLEAN
    BY <2>6, <1>t, <1>d
  <2>8. QED
    BY <2>4, <2>5, <2>6, <2>7
<1>2. ASSUME NEW t \in Activation, NEW r \in Row,
             ReadAll(t) \/ ClearOne(t, r) \/ SetTarget(t) \/ Mark(t) \/ Fail(t)
      PROVE /\ request' \in [Known -> CatRequest] /\ KindInv'
            /\ rows' \in [Row -> VersionRow] /\ {crossed', marked', lapsed'} \subseteq BOOLEAN
            /\ UNCHANGED <<born, requests, running>>
  <2>1. CASE ReadAll(t)
    <3>1. request' \in [Known -> CatRequest]
      <4>1. There \in SUBSET Row /\ request[t] \in CatRequest
        BY <1>t DEF There
      <4>2. [request[t] EXCEPT !.op = "clear", !.todo = There] \in CatRequest
        BY <4>1 DEF CatRequest
      <4>3. QED
        BY <4>2, <1>t, <2>1 DEF ReadAll
    <3>2. KindInv'
      BY <1>t, <1>d, <2>1 DEF ReadAll, KindInv, CatRequest
    <3>3. QED
      BY <1>t, <2>1, <3>1, <3>2 DEF ReadAll
  <2>2. CASE ClearOne(t, r)
    <3>1. rows' \in [Row -> VersionRow]
      BY <1>t, <2>2 DEF ClearOne, VersionRow
    <3>2. request' \in [Known -> CatRequest]
      BY <1>t, <2>2 DEF ClearOne, CatRequest
    <3>3. KindInv'
      BY <1>t, <1>d, <2>2 DEF ClearOne, KindInv, CatRequest
    <3>4. QED
      BY <1>t, <2>2, <3>1, <3>2, <3>3 DEF ClearOne
  <2>3. CASE SetTarget(t)
    <3>1. rows' \in [Row -> VersionRow]
      BY <1>t, <2>3 DEF SetTarget, VersionRow, There
    <3>2. request' \in [Known -> CatRequest]
      BY <1>t, <2>3 DEF SetTarget, CatRequest
    <3>3. KindInv'
      BY <1>t, <1>d, <2>3 DEF SetTarget, KindInv, CatRequest
    <3>4. QED
      BY <1>t, <2>3, <3>1, <3>2, <3>3 DEF SetTarget
  <2>4. CASE Mark(t)
    BY <1>t, <1>i, <1>d, <2>4 DEF Mark, KindInv
  <2>5. CASE Fail(t)
    BY <1>t, <1>i, <1>d, <2>5 DEF Fail, KindInv
  <2>6. QED
    BY <1>2, <2>1, <2>2, <2>3, <2>4, <2>5
<1>3. ASSUME NEW t \in Saving, NEW tag \in Tag, Look(t, tag)
      PROVE /\ request' \in [Known -> CatRequest] /\ KindInv' /\ requests' \in 0 .. MaxRequests
            /\ UNCHANGED <<rows, born, marked, running, crossed, lapsed>>
  <2>0. request[t] \in CatRequest /\ t \in Known
    BY <1>t
  <2>1. ASSUME request' = [request EXCEPT ![t].op = "absent", ![t].tag = tag]
        PROVE request' \in [Known -> CatRequest] /\ KindInv'
    <3>1. [request[t] EXCEPT !.op = "absent", !.tag = tag] \in CatRequest
      BY <2>0 DEF CatRequest
    <3>2. request' = [request EXCEPT ![t] = [request[t] EXCEPT !.op = "absent", !.tag = tag]]
      BY <2>1, <2>0, <1>t
    <3>3. request' \in [Known -> CatRequest]
      BY <3>1, <3>2, <1>t
    <3>4. KindInv'
      BY <2>1, <1>t, <1>d DEF KindInv, CatRequest
    <3>5. QED
      BY <3>3, <3>4
  <2>2. ASSUME NEW r \in There,
               request' = [request EXCEPT ![t].op = "read", ![t].id = r, ![t].was = rows[r].build]
        PROVE request' \in [Known -> CatRequest] /\ KindInv'
    <3>1. rows[r].build \in 0 .. MaxBuild /\ r \in Row
      BY <1>t DEF There, VersionRow
    <3>2. [request[t] EXCEPT !.op = "read", !.id = r, !.was = rows[r].build] \in CatRequest
      BY <2>0, <3>1 DEF CatRequest
    <3>3. request' = [request EXCEPT
                        ![t] = [request[t] EXCEPT !.op = "read", !.id = r, !.was = rows[r].build]]
      BY <2>2, <2>0, <1>t
    <3>4. request' \in [Known -> CatRequest]
      BY <3>2, <3>3, <1>t
    <3>5. KindInv'
      BY <2>2, <1>t, <1>d DEF KindInv, CatRequest
    <3>6. QED
      BY <3>4, <3>5
  <2>3. \/ request' = [request EXCEPT ![t].op = "absent", ![t].tag = tag]
        \/ \E r \in There :
             request' = [request EXCEPT ![t].op = "read", ![t].id = r, ![t].was = rows[r].build]
    BY <1>3 DEF Look
  <2>4. request' \in [Known -> CatRequest] /\ KindInv'
    BY <2>1, <2>2, <2>3
  <2>5. /\ UNCHANGED <<rows, born, marked, running, crossed, lapsed>>
        /\ requests < MaxRequests /\ requests' = requests + 1
    BY <1>3 DEF Look
  <2>6. requests' \in 0 .. MaxRequests
    BY <2>5, <1>t, <1>d
  <2>7. QED
    BY <2>4, <2>5, <2>6
<1>4. ASSUME NEW t \in Saving, NEW b \in 0 .. MaxBuild,
             Insert(t, b) \/ Refresh(t, b) \/ SaveEnds(t)
      PROVE /\ request' \in [Known -> CatRequest] /\ KindInv'
            /\ rows' \in [Row -> VersionRow] /\ born' \in 0 .. MaxRows /\ lapsed' \in BOOLEAN
            /\ UNCHANGED <<requests, marked, running, crossed>>
  <2>1. request' = [request EXCEPT ![t] = Idle] /\ lapsed' \in BOOLEAN
        /\ UNCHANGED <<requests, marked, running, crossed>>
    BY <1>4, <1>t DEF Insert, Refresh, SaveEnds, Written
  <2>2. request' \in [Known -> CatRequest] /\ KindInv'
    BY <2>1, <1>t, <1>i, <1>d DEF KindInv
  <2>3. rows' \in [Row -> VersionRow] /\ born' \in 0 .. MaxRows
    <3>1. CASE Insert(t, b)
      <4>1. [tag |-> request[t].tag, active |-> FALSE, build |-> b, there |-> TRUE] \in VersionRow
        BY <1>t DEF VersionRow, CatRequest
      <4>2. QED
        BY <3>1, <4>1, <1>t, <1>d DEF Insert, Written, Row
    <3>2. CASE Refresh(t, b)
      BY <3>2, <1>t DEF Refresh, Written, VersionRow, There
    <3>3. CASE SaveEnds(t)
      BY <3>3, <1>t DEF SaveEnds, Written
    <3>4. QED
      BY <1>4, <3>1, <3>2, <3>3
  <2>4. QED
    BY <2>1, <2>2, <2>3
<1>5. ASSUME NEW r \in Row, Delete(r)
      PROVE /\ rows' \in [Row -> VersionRow] /\ lapsed' \in BOOLEAN /\ requests' \in 0 .. MaxRequests
            /\ UNCHANGED <<born, request, marked, running, crossed>> /\ KindInv'
  BY <1>5, <1>t, <1>i, <1>d DEF Delete, KindInv
<1>6. CASE Push
  <2>1. running' \in [tag : Tag, build : 0 .. MaxBuild]
    <3>1. \A r \in Active : rows[r].tag \in Tag
      BY <1>t DEF Active, There, VersionRow
    <3>2. QED
      BY <3>1, <1>6, BuildType, CoreVersionsAssumption DEF Push, InForce
  <2>2. QED
    BY <1>6, <2>1, <1>t DEF Push, KindInv
<1>7. CASE UNCHANGED catVars
  BY <1>7, <1>t DEF catVars, KindInv
<1>8. CASE \E t \in Activation : \/ \E r \in Row : Activate(t, r) \/ ClearOne(t, r)
                                 \/ ReadAll(t) \/ SetTarget(t) \/ Mark(t) \/ Fail(t)
  <2>1. 1 \in Row
    BY CoreVersionsAssumption DEF Row
  <2>2. QED
    BY <1>8, <1>1, <1>2, <1>t, <2>1
<1>9. CASE \E t \in Saving : \/ \E tag \in Tag : Look(t, tag)
                             \/ \E b \in 0..MaxBuild : Insert(t, b) \/ Refresh(t, b)
                             \/ SaveEnds(t)
  <2>1. 0 \in 0 .. MaxBuild
    BY <1>d
  <2>2. QED
    BY <1>9, <1>3, <1>4, <1>t, <2>1
<1>10. QED
  BY <1>5, <1>6, <1>7, <1>8, <1>9, <1>t DEF CatNext

\* What does not touch the rows leaves the version in force.
LEMMA SameRows == UNCHANGED rows => Active' = Active /\ There' = There /\ InForce' = InForce
BY DEF Active, There, InForce, BuildOf

\* A request that ends, for whatever reason, leaves the others as they were.
LEMMA ActivationOver ==
  ASSUME CatInv, NEW t \in Busy, request' = [request EXCEPT ![t] = Idle]
  PROVE /\ Busy' = Busy \ {t}
        /\ \A u \in Busy' : request'[u] = request[u]
        /\ request[t].lone => Busy' = {}
<1>1. \A u \in Activation : request'[u] = IF u = t THEN Idle ELSE request[u]
  BY DEF CatInv, CatTypeOK, Busy
<1>2. Busy' = Busy \ {t}
  BY <1>1 DEF Busy, Idle
<1>3. QED
  BY <1>1, <1>2 DEF CatInv, LoneInv, Busy

\* A step of an activation that goes on leaves who is busy and who is alone.
LEMMA RequestGoesOn ==
  ASSUME CatInv, NEW t \in Busy, NEW x, x.op # "idle", x.lone = request[t].lone,
         request' = [request EXCEPT ![t] = x]
  PROVE Busy' = Busy /\ \A u \in Busy : request'[u] = IF u = t THEN x ELSE request[u]
BY DEF CatInv, CatTypeOK, Busy

\* Activations, refreshes, saves, deletions and pushes keep the invariant.
LEMMA CatStepInv == CatInv /\ [CatNext]_catVars => CatInv'
<1> SUFFICES ASSUME CatInv, [CatNext]_catVars PROVE CatInv'
  OBVIOUS
<1> DEFINE Rest == LoneInv /\ ClearedInv /\ OneActive /\ PushedOrMarked
<1> SUFFICES Rest'
  BY CatTypeStep DEF CatInv
<1>t. /\ request \in [Activation \union Saving -> CatRequest] /\ rows \in [Row -> VersionRow]
      /\ KindInv /\ LoneInv /\ ClearedInv /\ OneActive /\ PushedOrMarked
      /\ crossed \in BOOLEAN /\ lapsed \in BOOLEAN
  BY DEF CatInv, CatTypeOK, CatRequest, VersionRow
<1>1. ASSUME NEW t \in Activation, NEW r \in Row, Activate(t, r) PROVE Rest'
  <2>1. /\ \A u \in Activation : request'[u] =
              IF u = t THEN [Idle EXCEPT !.op = "found", !.id = r, !.lone = Busy = {}]
              ELSE [request[u] EXCEPT !.lone = @ /\ u \notin Busy]
        /\ request[t] = Idle /\ crossed' = (crossed \/ Busy # {})
        /\ UNCHANGED rows
    BY <1>1, <1>t DEF Activate
  <2>2. \A u \in Activation : request[u] \in CatRequest
    BY <1>t
  <2>3. /\ request'[t].op = "found" /\ request'[t].lone = (Busy = {})
        /\ \A u \in Activation \ {t} : /\ request'[u].op = request[u].op
                                     /\ request'[u].lone = (request[u].lone /\ u \notin Busy)
    BY <2>1, <2>2 DEF CatRequest, Idle
  <2>4. t \notin Busy /\ Busy' = Busy \union {t}
    <3>0. Idle.op = "idle" /\ request[t] = Idle
      BY <1>1 DEF Idle, Activate
    <3>1. request[t].op = "idle"
      BY <3>0
    <3>2. \A u \in Activation : request'[u].op # "idle" <=> u = t \/ request[u].op # "idle"
      BY <2>3
    <3>3. QED
      BY <3>1, <3>2 DEF Busy
  <2>5. \A u \in Busy' : request'[u].lone => u = t /\ Busy = {}
    BY <2>3, <2>4 DEF Busy
  <2>6. LoneInv'
    BY <2>1, <2>3, <2>4, <2>5 DEF LoneInv
  <2>7. ClearedInv'
    BY <2>3, <2>5 DEF ClearedInv
  <2>8. OneActive'
    BY <2>1, <1>t, SameRows DEF OneActive
  <2>9. QED
    BY <2>4, <2>6, <2>7, <2>8 DEF PushedOrMarked
<1>2. ASSUME NEW t \in Activation, ReadAll(t) PROVE Rest'
  <2>1. t \in Busy /\ UNCHANGED <<rows, crossed>> /\ request[t] \in CatRequest
    BY <1>2, <1>t DEF ReadAll, Busy
  <2> DEFINE x == [request[t] EXCEPT !.op = "clear", !.todo = There]
  <2>2. x.op = "clear" /\ x.lone = request[t].lone /\ x.todo = There
    BY <2>1 DEF CatRequest
  <2>3. request' = [request EXCEPT ![t] = x]
    BY <1>2, <1>t DEF ReadAll
  <2> HIDE DEF x
  <2>4. Busy' = Busy /\ \A u \in Busy : request'[u] = IF u = t THEN x ELSE request[u]
    BY <2>1, <2>2, <2>3, RequestGoesOn
  <2>5. LoneInv'
    BY <2>1, <2>2, <2>4, <1>t DEF LoneInv
  <2>6. Active' = Active /\ Active \subseteq There
    BY <2>1, SameRows DEF Active
  <2>7. ClearedInv'
    BY <2>2, <2>4, <2>6, <1>t DEF ClearedInv
  <2>8. OneActive'
    BY <2>1, <2>6, <1>t DEF OneActive
  <2>9. QED
    BY <2>1, <2>4, <2>5, <2>7, <2>8 DEF PushedOrMarked
<1>3. ASSUME NEW t \in Activation, NEW r \in Row, ClearOne(t, r) PROVE Rest'
  <2>1. t \in Busy /\ UNCHANGED crossed /\ request[t] \in CatRequest /\ request[t].op = "clear"
    BY <1>3, <1>t DEF ClearOne, Busy
  <2> DEFINE x == [request[t] EXCEPT !.todo = @ \ {r}]
  <2>2. x.op = "clear" /\ x.lone = request[t].lone /\ x.todo = request[t].todo \ {r}
    BY <2>1 DEF CatRequest
  <2>3. request' = [request EXCEPT ![t] = x]
    BY <1>3, <1>t DEF ClearOne
  <2> HIDE DEF x
  <2>4. Busy' = Busy /\ \A u \in Busy : request'[u] = IF u = t THEN x ELSE request[u]
    BY <2>1, <2>2, <2>3, RequestGoesOn
  <2>5. LoneInv'
    BY <2>1, <2>2, <2>4, <1>t DEF LoneInv
  <2>6. Active' = Active \ {r}
    <3>1. rows' = [rows EXCEPT ![r].active = FALSE]
      BY <1>3 DEF ClearOne
    <3>2. \A s \in Row : /\ rows'[s].there = rows[s].there
                        /\ rows'[s].active = (rows[s].active /\ s # r)
      BY <3>1, <1>t DEF VersionRow
    <3>3. QED
      BY <3>2 DEF Active, There
  <2>7. ClearedInv'
    <3>1. request[t].lone => Active' \subseteq x.todo
      BY <2>1, <2>2, <2>6, <1>t DEF ClearedInv
    <3>2. ASSUME NEW u \in Busy \ {t}, request[u].lone
          PROVE /\ request[u].op = "clear" => Active' \subseteq request[u].todo
                /\ request[u].op = "mark" => Active' \subseteq {request[u].id}
      BY <3>2, <2>6, <1>t DEF ClearedInv
    <3>3. QED
      BY <2>2, <2>4, <3>1, <3>2 DEF ClearedInv
  <2>8. OneActive'
    BY <2>1, <2>6, <1>t DEF OneActive
  <2>9. QED
    BY <2>1, <2>4, <2>5, <2>7, <2>8 DEF PushedOrMarked
<1>4. ASSUME NEW t \in Activation, SetTarget(t) PROVE Rest'
  <2>1. /\ t \in Busy /\ UNCHANGED crossed /\ request[t] \in CatRequest
        /\ request[t].op = "clear" /\ request[t].todo = {} /\ request[t].id \in Row
    BY <1>4, <1>t DEF SetTarget, Busy, There
  <2> DEFINE x == [request[t] EXCEPT !.op = "mark"]
  <2>2. x.op = "mark" /\ x.lone = request[t].lone /\ x.id = request[t].id
    BY <2>1 DEF CatRequest
  <2>3. request' = [request EXCEPT ![t] = x]
    BY <1>4, <1>t DEF SetTarget
  <2> HIDE DEF x
  <2>4. Busy' = Busy /\ \A u \in Busy : request'[u] = IF u = t THEN x ELSE request[u]
    BY <2>1, <2>2, <2>3, RequestGoesOn
  <2>5. LoneInv'
    BY <2>1, <2>2, <2>4, <1>t DEF LoneInv
  <2>6. Active' \subseteq Active \union {request[t].id}
    <3>1. rows' = [rows EXCEPT ![request[t].id].active = TRUE]
      BY <1>4 DEF SetTarget
    <3>2. \A s \in Row \ {request[t].id} : rows'[s] = rows[s]
      BY <3>1, <1>t
    <3>3. QED
      BY <3>2 DEF Active, There
  <2>7. request[t].lone => Active' \subseteq {x.id} /\ Busy = {t}
    BY <2>1, <2>2, <2>6, <1>t DEF ClearedInv, LoneInv
  <2>8. ClearedInv'
    BY <2>1, <2>2, <2>4, <2>7, <1>t DEF ClearedInv, LoneInv
  <2>9. OneActive'
    BY <2>1, <2>7, <1>t DEF OneActive, LoneInv
  <2>10. QED
    BY <2>1, <2>4, <2>5, <2>8, <2>9 DEF PushedOrMarked
<1>5. ASSUME NEW t \in Activation, Mark(t) PROVE Rest'
  <2>1. /\ t \in Busy /\ request' = [request EXCEPT ![t] = Idle] /\ marked' = TRUE
        /\ crossed' = (crossed /\ ~request[t].lone) /\ UNCHANGED rows
        /\ request[t].op = "mark"
    BY <1>5 DEF Mark, Busy
  <2>2. /\ Busy' = Busy \ {t} /\ \A u \in Busy' : request'[u] = request[u]
        /\ request[t].lone => Busy' = {}
    BY <2>1, ActivationOver
  <2>3. LoneInv'
    BY <2>1, <2>2, <1>t DEF LoneInv
  <2>4. ClearedInv'
    BY <2>1, <2>2, <1>t DEF ClearedInv, LoneInv
  <2>5. OneActive'
    <3>1. request[t].lone \/ crossed'
      BY <2>1, <1>t DEF LoneInv
    <3>2. request[t].lone => \A r, s \in Active : r = s
      BY <2>1, <1>t DEF ClearedInv
    <3>3. QED
      BY <3>1, <3>2, <2>1, SameRows DEF OneActive
  <2>6. QED
    BY <2>1, <2>3, <2>4, <2>5 DEF PushedOrMarked
<1>6. ASSUME NEW t \in Activation, Fail(t) PROVE Rest'
  <2>1. /\ t \in Busy /\ request' = [request EXCEPT ![t] = Idle] /\ lapsed' = TRUE
        /\ UNCHANGED <<rows, crossed>>
    BY <1>6 DEF Fail, Busy
  <2>2. Busy' = Busy \ {t} /\ \A u \in Busy' : request'[u] = request[u]
    BY <2>1, ActivationOver
  <2>3. LoneInv'
    BY <2>1, <2>2, <1>t DEF LoneInv
  <2>4. ClearedInv'
    BY <2>1, <2>2, <1>t, SameRows DEF ClearedInv
  <2>5. OneActive'
    BY <2>1, <1>t, SameRows DEF OneActive
  <2>6. QED
    BY <2>1, <2>3, <2>4, <2>5 DEF PushedOrMarked
<1>7. ASSUME \A u \in Activation : request'[u] = request[u], UNCHANGED crossed,
             Active' \subseteq Active,
             \/ UNCHANGED marked /\ UNCHANGED running /\ lapsed' = (lapsed \/ InForce' # InForce)
             \/ UNCHANGED rows /\ running' \in InForce
      PROVE Rest'
  <2>1. Busy' = Busy
    BY <1>7 DEF Busy
  <2>2. \A u \in Busy : request'[u] = request[u]
    BY <1>7 DEF Busy
  <2>3. LoneInv' /\ ClearedInv' /\ OneActive'
    BY <1>7, <1>t, <2>1, <2>2 DEF LoneInv, ClearedInv, OneActive
  <2>4. PushedOrMarked'
    <3>1. CASE UNCHANGED rows /\ running' \in InForce
      BY <3>1, SameRows DEF PushedOrMarked
    <3>2. CASE UNCHANGED marked /\ UNCHANGED running /\ lapsed' = (lapsed \/ InForce' # InForce)
      <4>1. lapsed' \/ (InForce' = InForce /\ lapsed' = lapsed)
        <5>1. CASE InForce' = InForce
          BY <5>1, <3>2, <1>t
        <5>2. CASE InForce' # InForce
          BY <5>2, <3>2
        <5>3. QED
          BY <5>1, <5>2
      <4>2. QED
        BY <4>1, <3>2, <1>7, <1>t, <2>1 DEF PushedOrMarked
    <3>3. QED
      BY <1>7, <3>1, <3>2
  <2>5. QED
    BY <2>3, <2>4
<1>8. ASSUME NEW t \in Saving, NEW tag \in Tag, Look(t, tag) PROVE Rest'
  <2>1. /\ \A u \in Activation : request'[u] = request[u]
        /\ UNCHANGED <<rows, marked, running, crossed, lapsed>>
    BY <1>8, <1>t, CoreVersionsAssumption DEF Look
  <2>2. lapsed' = (lapsed \/ InForce' # InForce) /\ Active' \subseteq Active
    BY <2>1, <1>t, SameRows
  <2>3. QED
    BY <1>7, <2>1, <2>2
<1>9. ASSUME NEW t \in Saving, NEW b \in 0 .. MaxBuild,
             Insert(t, b) \/ Refresh(t, b) \/ SaveEnds(t)
      PROVE Rest'
  <2>1. /\ request' = [request EXCEPT ![t] = Idle]
        /\ UNCHANGED <<marked, running, crossed>> /\ lapsed' = (lapsed \/ InForce' # InForce)
    BY <1>9 DEF Insert, Refresh, SaveEnds, Written
  <2>2. \A u \in Activation : request'[u] = request[u]
    BY <2>1, <1>t, CoreVersionsAssumption
  <2>3. Active' \subseteq Active
    <3>1. CASE Insert(t, b)
      <4>1. \A s \in Row : rows'[s] = rows[s] \/ ~rows'[s].active
        BY <3>1, <1>t DEF Insert, Written
      <4>2. QED
        BY <4>1 DEF Active, There
    <3>2. CASE Refresh(t, b)
      <4>1. rows' = [rows EXCEPT ![request[t].id].build = b]
        BY <3>2 DEF Refresh, Written
      <4>2. \A s \in Row : rows'[s].there = rows[s].there /\ rows'[s].active = rows[s].active
        BY <4>1, <1>t DEF VersionRow
      <4>3. QED
        BY <4>2 DEF Active, There
    <3>3. CASE SaveEnds(t)
      BY <3>3, SameRows DEF SaveEnds, Written
    <3>4. QED
      BY <1>9, <3>1, <3>2, <3>3
  <2>4. QED
    BY <1>7, <2>1, <2>2, <2>3
<1>10. ASSUME NEW r \in Row, Delete(r) PROVE Rest'
  <2>1. /\ UNCHANGED <<request, marked, running, crossed>>
        /\ lapsed' = (lapsed \/ InForce' # InForce) /\ rows' = [rows EXCEPT ![r] = Absent]
    BY <1>10 DEF Delete
  <2>2. \A s \in Row : rows'[s] = rows[s] \/ ~rows'[s].active
    BY <2>1, <1>t DEF Absent
  <2>3. Active' \subseteq Active
    BY <2>2 DEF Active, There
  <2>4. QED
    BY <1>7, <2>1, <2>3
<1>11. CASE Push
  BY <1>7, <1>11, SameRows DEF Push
<1>12. CASE UNCHANGED catVars
  <2>1. lapsed' = (lapsed \/ InForce' # InForce) /\ Active' \subseteq Active
    BY <1>12, <1>t, SameRows DEF catVars
  <2>2. QED
    BY <1>7, <1>12, <2>1 DEF catVars
<1>13. QED
  BY <1>1, <1>2, <1>3, <1>4, <1>5, <1>6, <1>8, <1>9, <1>10, <1>11, <1>12,
     CoreVersionsAssumption DEF CatNext, Row

\* activate_core_version (core_version.rs:5, one active version per core): however
\* its reads and updates interleave with other handlers, with no activation under
\* way one version is active at most, and the nodes run it or are marked, unless
\* one of the causes CatalogueInForce names has occurred.
THEOREM CatalogueAlwaysInForce == CatSpec => []CatalogueInForce
<1>1. CatInv => CatalogueInForce
  BY DEF CatInv, OneActive, PushedOrMarked, CatalogueInForce
<1>2. QED
  BY CatInitInv, CatStepInv, <1>1, PTL DEF CatSpec

-----------------------------------------------------------------------------
(***************************************************************************)
(* Templates.  An update enables a template and then disables the others of its *)
(* format, one by one, with no lock.                                       *)
(***************************************************************************)
\* A row that is there, a request on it.
TemplateRow == [format : StoredFormat, enabled : BOOLEAN]
EditorState == [pc : {"away", "read", "enforce", "disable"}, id : Template,
            row : TemplateRow \union {Gone}, says : BOOLEAN, others : SUBSET Template]

\* The types.
TemplateTypeOK ==
  /\ templates \in [Template -> TemplateRow \union {Gone}]
  /\ editor \in [Editor -> EditorState]
  /\ templateEdits \in Nat /\ skewed \in BOOLEAN

\* A request that has not found the others yet has none, and it is never one
\* of them itself; a row it has read was there, and one that disables others is on.
EditorOK(x) == /\ x.id \notin x.others
               /\ x.pc # "away" => x.row # Gone
               /\ x.pc = "read" => x.others = {} /\ ~x.says
               /\ x.pc = "disable" => x.row.enabled
OthersInv == \A e \in Editor : EditorOK(editor[e])

\* A request, from what it is doing, that will disable one of two templates
Heeds(x, f, t, u) ==
  /\ x.row.format = f
  /\ \/ x.pc = "enforce" /\ x.row.enabled
     \/ x.pc = "disable" /\ (t \in x.others \/ u \in x.others)

\* Of two templates of a format that are enabled, a request is about to find,
\* or has found, the one it is to disable.
TwoInv ==
  skewed \/
  \A f \in StoredFormat : \A t, u \in Enabled(f) :
    t = u \/ \E e \in Editor : Heeds(editor[e], f, t, u)

\* The inductive invariant.
TemplateInv == TemplateTypeOK /\ OthersInv /\ TwoInv

\* What a request that posts nothing, or one value, leaves in a column.
LEMMA PostedType ==
  ASSUME NEW S, NEW set, set = {} \/ \E x \in S : set = {x}, NEW old \in S
  PROVE PostedOr(set, old) \in S
<1>1. CASE set = {}
  BY <1>1 DEF PostedOr
<1>2. ASSUME NEW x \in S, set = {x} PROVE PostedOr(set, old) \in S
  <2>1. (CHOOSE y \in set : TRUE) \in set
    BY <1>2
  <2>2. QED
    BY <1>2, <2>1 DEF PostedOr
<1>3. QED
  BY <1>1, <1>2

\* A row that is there is one with a format; Enabled in terms of the table.
LEMMA EnabledRows ==
  TemplateTypeOK => \A f \in StoredFormat : \A t \in Template :
    t \in Enabled(f) <=> templates[t].format = f /\ templates[t].enabled
<1>1. Gone \notin TemplateRow /\ Gone.enabled = FALSE
  BY DEF Gone, TemplateRow, StoredFormat
<1>2. QED
  BY <1>1 DEF TemplateTypeOK, Enabled, Kept

\* A request for a subscription is answered in the format it asks for, with a
\* template, if one of that format is enabled.
LEMMA ServedIsEnabled ==
  ASSUME NEW f \in StoredFormat PROVE Served(f) <=> Enabled(f) # {}
<1>1. \A g \in StoredFormat : \A u \in Found(g) : u # Gone <=> Enabled(g) # {}
  BY DEF Found, Enabled, Kept
<1>2. \A g \in StoredFormat : Found(g) # {}
  BY DEF Found
<1>3. CASE Enabled(f) # {}
  <2>1. \A a \in Answers(f) : \E used \in Found(f) : used # Gone /\ a = [target |-> f, used |-> used]
    BY <1>1, <1>3 DEF Answers
  <2>2. QED
    BY <2>1, <1>3 DEF Served
<1>4. CASE Enabled(f) = {}
  <2>1. PICK used \in Found(f) : used = Gone
    BY <1>1, <1>2, <1>4
  <2>2. "base64" \in StoredFormat
    BY DEF StoredFormat
  <2>3. PICK other \in Found("base64") : TRUE
    BY <1>2, <2>2
  <2>4. [target |-> "base64", used |-> other] \in Answers(f)
    BY <2>1, <2>3 DEF Answers
  <2>5. ~(f = "base64" /\ other # Gone)
    BY <1>1, <1>4, <2>2, <2>3
  <2>6. QED
    BY <1>4, <2>4, <2>5 DEF Served
<1>5. QED
  BY <1>3, <1>4

\* It holds of the two templates the migration makes.
LEMMA TemplateInitInv == TemplateInit => TemplateInv
<1> SUFFICES ASSUME TemplateInit PROVE TemplateInv
  OBVIOUS
<1> USE TemplatesAssumption
<1>1. [format |-> "sing-box", enabled |-> TRUE] \in TemplateRow /\ [format |-> "clash", enabled |-> TRUE] \in TemplateRow
  BY DEF TemplateRow, StoredFormat
<1>2. Away \in EditorState /\ Away.pc = "away" /\ Away.others = {}
  BY DEF Away, EditorState
<1>3. TemplateTypeOK
  BY <1>1, <1>2 DEF TemplateInit, TemplateTypeOK
<1>4. \A e \in Editor : editor[e] = Away
  BY DEF TemplateInit
<1>5. OthersInv
  BY <1>2, <1>4 DEF OthersInv, EditorOK
<1>6. \A f \in StoredFormat : \A t, u \in Enabled(f) : t = u
  BY DEF TemplateInit, Enabled, Kept, Gone
<1>7. QED
  BY <1>3, <1>5, <1>6 DEF TemplateInv, TwoInv

\* A request goes on, from what it is doing then.
LEMMA EditorDoes ==
  ASSUME TemplateTypeOK, NEW e \in Editor, NEW x \in EditorState, editor' = [editor EXCEPT ![e] = x]
  PROVE /\ editor' \in [Editor -> EditorState]
        /\ \A o \in Editor : editor'[o] = IF o = e THEN x ELSE editor[o]
BY DEF TemplateTypeOK

\* Creations, updates, deletions and each disabling keep the invariant.
LEMMA TemplateStepInv == TemplateInv /\ [TemplateNext]_templateVars => TemplateInv'
<1> SUFFICES ASSUME TemplateInv, [TemplateNext]_templateVars PROVE TemplateInv'
  OBVIOUS
<1>t. /\ TemplateTypeOK /\ OthersInv /\ TwoInv
      /\ templates \in [Template -> TemplateRow \union {Gone}] /\ editor \in [Editor -> EditorState]
      /\ templateEdits \in Nat /\ skewed \in BOOLEAN
  BY DEF TemplateInv, TemplateTypeOK
<1>g. Gone \notin TemplateRow /\ Gone.enabled = FALSE /\ Gone.format \notin StoredFormat
  BY DEF Gone, TemplateRow, StoredFormat
<1>a. Away \in EditorState /\ Away.pc = "away" /\ Away.others = {}
  BY TemplatesAssumption DEF Away, EditorState
<1>e. TemplateTypeOK' => \A f \in StoredFormat : \A t \in Template :
        t \in Enabled(f)' <=> templates'[t].format = f /\ templates'[t].enabled
  <2>1. TemplateTypeOK' => \A t \in Template : templates'[t] = Gone \/ templates'[t] \in TemplateRow
    BY DEF TemplateTypeOK
  <2>2. QED
    BY <2>1, <1>g DEF Enabled, Kept
<1>1. ASSUME NEW e \in Editor, NEW t \in Template, NEW format \in StoredFormat,
             CreateTemplate(e, t, format)
      PROVE TemplateInv'
  <2> DEFINE new == [format |-> format, enabled |-> TRUE]
             x == [Away EXCEPT !.pc = "enforce", !.id = t, !.row = new]
  <2>1. /\ templateEdits' = templateEdits + 1 /\ editor[e] = Away
        /\ templates' = [templates EXCEPT ![t] = new] /\ editor' = [editor EXCEPT ![e] = x]
        /\ skewed' = skewed
    BY <1>1 DEF CreateTemplate, Begin
  <2>2. new \in TemplateRow /\ new.format = format /\ new.enabled
    BY DEF TemplateRow
  <2>3. x \in EditorState /\ x.pc = "enforce" /\ x.id = t /\ x.row = new /\ x.others = {}
    BY <2>2, TemplatesAssumption DEF Away, EditorState
  <2> HIDE DEF new, x
  <2>4. /\ editor' \in [Editor -> EditorState]
        /\ \A o \in Editor : editor'[o] = IF o = e THEN x ELSE editor[o]
    BY <2>1, <2>3, <1>t, EditorDoes
  <2>5. TemplateTypeOK'
    BY <2>1, <2>2, <2>4, <1>t DEF TemplateTypeOK
  <2>6. OthersInv'
    BY <2>2, <2>3, <2>4, <1>t, <1>g DEF OthersInv, EditorOK
  <2>7. TwoInv'
    <3> SUFFICES ASSUME ~skewed, NEW f \in StoredFormat, NEW a \in Enabled(f)', NEW b \in Enabled(f)',
                        a # b
                 PROVE \E o \in Editor : Heeds(editor'[o], f, a, b)
      BY <2>1 DEF TwoInv
    <3>1. a \in Template /\ b \in Template
      BY DEF Enabled, Kept
    <3>2. CASE a = t \/ b = t
      <4>1. f = format
        BY <2>1, <2>2, <2>5, <3>1, <3>2, <1>e, <1>t
      <4>2. QED
        BY <4>1, <2>2, <2>3, <2>4 DEF Heeds
    <3>3. CASE a # t /\ b # t
      <4>1. a \in Enabled(f) /\ b \in Enabled(f)
        BY <2>1, <2>5, <3>1, <3>3, <1>e, <1>t, EnabledRows
      <4>2. PICK o \in Editor : Heeds(editor[o], f, a, b)
        BY <4>1, <1>t DEF TwoInv
      <4>3. o # e
        BY <4>2, <2>1, <1>a DEF Heeds
      <4>4. QED
        BY <4>2, <4>3, <2>4
    <3>4. QED
      BY <3>2, <3>3
  <2>8. QED
    BY <2>5, <2>6, <2>7 DEF TemplateInv
\* The request e does something, and no other template gets enabled than those
\* that e then heeds.
<1>2. ASSUME NEW e \in Editor, NEW x \in EditorState, editor' = [editor EXCEPT ![e] = x],
             TemplateTypeOK', skewed => skewed',
             ~skewed' => \A f \in StoredFormat : \A a, b \in Enabled(f)' :
               \/ a = b \/ Heeds(x, f, a, b)
               \/ a \in Enabled(f) /\ b \in Enabled(f) /\ ~Heeds(editor[e], f, a, b)
      PROVE TwoInv'
  <2>1. \A o \in Editor : editor'[o] = IF o = e THEN x ELSE editor[o]
    BY <1>2, <1>t, EditorDoes
  <2> SUFFICES ASSUME ~skewed', NEW f \in StoredFormat, NEW a \in Enabled(f)', NEW b \in Enabled(f)',
                      a # b, ~Heeds(x, f, a, b)
               PROVE \E o \in Editor : Heeds(editor'[o], f, a, b)
    BY <2>1 DEF TwoInv
  <2>2. a \in Enabled(f) /\ b \in Enabled(f) /\ ~Heeds(editor[e], f, a, b)
    BY <1>2
  <2>3. PICK o \in Editor : Heeds(editor[o], f, a, b)
    BY <2>2, <1>2, <1>t DEF TwoInv
  <2>4. QED
    BY <2>1, <2>2, <2>3
<1>3. ASSUME NEW e \in Editor, NEW t \in Template, ReadTemplate(e, t) PROVE TemplateInv'
  <2> DEFINE x == [Away EXCEPT !.pc = "read", !.id = t, !.row = templates[t]]
  <2>1. /\ templateEdits' = templateEdits + 1 /\ editor[e] = Away /\ t \in Kept
        /\ editor' = [editor EXCEPT ![e] = x] /\ UNCHANGED <<templates, skewed>>
    BY <1>3 DEF ReadTemplate, Begin
  <2>2. templates[t] \in TemplateRow /\ templates[t] # Gone
    BY <2>1, <1>t DEF Kept
  <2>3. x \in EditorState /\ x.pc = "read" /\ x.id = t /\ x.row = templates[t] /\ x.others = {} /\ ~x.says
    BY <2>2, TemplatesAssumption DEF Away, EditorState
  <2> HIDE DEF x
  <2>4. /\ editor' \in [Editor -> EditorState]
        /\ \A o \in Editor : editor'[o] = IF o = e THEN x ELSE editor[o]
    BY <2>1, <2>3, <1>t, EditorDoes
  <2>5. TemplateTypeOK'
    BY <2>1, <2>4, <1>t DEF TemplateTypeOK
  <2>6. OthersInv'
    BY <2>2, <2>3, <2>4, <1>t DEF OthersInv, EditorOK
  <2>7. \A f \in StoredFormat : Enabled(f)' = Enabled(f)
    BY <2>1 DEF Enabled, Kept
  <2>8. \A f \in StoredFormat : \A a, b \in Enabled(f) : ~Heeds(editor[e], f, a, b)
    BY <2>1, <1>a DEF Heeds
  <2>9. TwoInv'
    <3>1. \A f \in StoredFormat : \A a, b \in Enabled(f)' :
            a \in Enabled(f) /\ b \in Enabled(f) /\ ~Heeds(editor[e], f, a, b)
      BY <2>7, <2>8
    <3>2. QED
      BY <3>1, <2>1, <2>3, <2>5, <1>2
  <2>10. QED
    BY <2>5, <2>6, <2>9 DEF TemplateInv
<1>4. ASSUME NEW e \in Editor, NEW format \in SUBSET StoredFormat, NEW on \in SUBSET BOOLEAN,
             format = {} \/ \E f \in StoredFormat : format = {f},
             on = {} \/ \E v \in BOOLEAN : on = {v}, WriteTemplate(e, format, on)
      PROVE TemplateInv'
  <2> DEFINE t == editor[e].id
             new == Edited(templates[t], format, on)
             thought == Edited(editor[e].row, format, on)
             x == [editor[e] EXCEPT !.pc = "enforce", !.row = thought,
                                    !.says = format # {} \/ on = {FALSE}]
  <2>1. /\ editor[e].pc = "read" /\ t \in Kept
        /\ templates' = [templates EXCEPT ![t] = new]
        /\ editor' = [editor EXCEPT ![e] = x]
        /\ UNCHANGED templateEdits
    BY <1>4 DEF WriteTemplate, Writable, Write
  <2>2. skewed' = (skewed \/ new # thought)
    BY <1>4 DEF WriteTemplate, Write
  <2>3. editor[e] \in EditorState /\ t \in Template /\ templates[t] \in TemplateRow /\ editor[e].row \in TemplateRow
    BY <2>1, <1>t DEF Kept, EditorState, OthersInv, EditorOK
  <2>4. \A row \in TemplateRow : Edited(row, format, on) \in TemplateRow
    <3> SUFFICES ASSUME NEW row \in TemplateRow PROVE Edited(row, format, on) \in TemplateRow
      OBVIOUS
    <3>1. row.format \in StoredFormat /\ row.enabled \in BOOLEAN
      BY DEF TemplateRow
    <3>2. PostedOr(format, row.format) \in StoredFormat
      BY <3>1, <1>4, PostedType
    <3>3. PostedOr(on, row.enabled) \in BOOLEAN
      BY <3>1, <1>4, PostedType
    <3>4. QED
      BY <3>2, <3>3 DEF Edited, TemplateRow
  <2>5. new \in TemplateRow /\ thought \in TemplateRow
    BY <2>3, <2>4
  <2> HIDE DEF new, thought
  <2>6. /\ x \in EditorState /\ x.pc = "enforce" /\ x.row = thought
        /\ x.id = editor[e].id /\ x.others = editor[e].others
    BY <2>3, <2>5 DEF EditorState
  <2>7. editor' = [editor EXCEPT ![e] = x]
    BY <2>1
  <2> HIDE DEF x
  <2>8. /\ editor' \in [Editor -> EditorState]
        /\ \A o \in Editor : editor'[o] = IF o = e THEN x ELSE editor[o]
    BY <2>6, <2>7, <1>t, EditorDoes
  <2>9. skewed' \in BOOLEAN
    BY <2>2, <1>t
  <2>10. TemplateTypeOK'
    BY <2>1, <2>3, <2>5, <2>8, <2>9, <1>t DEF TemplateTypeOK
  <2>11. OthersInv'
    BY <2>5, <2>6, <2>8, <1>t, <1>g DEF OthersInv, EditorOK
  <2>12. ASSUME ~skewed', NEW f \in StoredFormat, NEW a \in Enabled(f)', NEW b \in Enabled(f)', a # b
         PROVE Heeds(x, f, a, b) \/ (a \in Enabled(f) /\ b \in Enabled(f) /\ ~Heeds(editor[e], f, a, b))
    <3>1. a \in Template /\ b \in Template
      BY DEF Enabled, Kept
    <3>2. CASE a = t \/ b = t
      <4>1. new.format = f /\ new.enabled
        BY <2>1, <2>3, <2>10, <3>1, <3>2, <1>e, <1>t
      <4>2. new = thought
        BY <2>2, <2>12
      <4>3. QED
        BY <4>1, <4>2, <2>6 DEF Heeds
    <3>3. CASE a # t /\ b # t
      <4>1. a \in Enabled(f) /\ b \in Enabled(f)
        BY <2>1, <2>10, <3>1, <3>3, <1>e, <1>t, EnabledRows
      <4>2. ~Heeds(editor[e], f, a, b)
        BY <2>1 DEF Heeds
      <4>3. QED
        BY <4>1, <4>2
    <3>4. QED
      BY <3>2, <3>3
  <2>13. TwoInv'
    BY <2>2, <2>6, <2>7, <2>10, <2>12, <1>2
  <2>14. QED
    BY <2>10, <2>11, <2>13 DEF TemplateInv
<1>5. ASSUME NEW e \in Editor, FindOthers(e) PROVE TemplateInv'
  <2>1. editor[e].pc = "enforce" /\ UNCHANGED <<templates, templateEdits, skewed>>
    BY <1>5 DEF FindOthers
  <2> DEFINE own == editor[e]
             x == IF own.row.enabled
                  THEN [own EXCEPT !.pc = "disable", !.others = Enabled(own.row.format) \ {own.id}]
                  ELSE Away
  <2>2. own \in EditorState /\ \A f : Enabled(f) \in SUBSET Template
    BY <1>t DEF Enabled, Kept
  <2>3. CASE ~own.row.enabled
    <3>1. x = Away /\ editor' = [editor EXCEPT ![e] = x]
      BY <1>5, <2>3 DEF FindOthers
    <3> HIDE DEF x
    <3>2. /\ editor' \in [Editor -> EditorState]
          /\ \A o \in Editor : editor'[o] = IF o = e THEN x ELSE editor[o]
      BY <3>1, <1>a, <1>t, EditorDoes
    <3>3. TemplateTypeOK'
      BY <2>1, <3>2, <1>t DEF TemplateTypeOK
    <3>4. OthersInv'
      BY <3>1, <3>2, <1>a, <1>t DEF OthersInv, EditorOK
    <3>5. \A f \in StoredFormat : Enabled(f)' = Enabled(f)
      BY <2>1 DEF Enabled, Kept
    <3>6. \A f \in StoredFormat : \A a, b \in Enabled(f)' :
            a \in Enabled(f) /\ b \in Enabled(f) /\ ~Heeds(editor[e], f, a, b)
      BY <2>1, <2>3, <3>5 DEF Heeds
    <3>7. TwoInv'
      BY <3>1, <3>3, <3>6, <2>1, <1>a, <1>2
    <3>8. QED
      BY <3>3, <3>4, <3>7 DEF TemplateInv
  <2>4. CASE own.row.enabled
    <3>1. x = [own EXCEPT !.pc = "disable", !.others = Enabled(own.row.format) \ {own.id}]
          /\ editor' = [editor EXCEPT ![e] = x]
      BY <1>5, <2>4 DEF FindOthers
    <3>2. /\ x \in EditorState /\ x.pc = "disable" /\ x.id = own.id /\ x.row = own.row
          /\ x.others = Enabled(own.row.format) \ {own.id}
      BY <3>1, <2>2 DEF EditorState
    <3> HIDE DEF x
    <3>3. /\ editor' \in [Editor -> EditorState]
          /\ \A o \in Editor : editor'[o] = IF o = e THEN x ELSE editor[o]
      BY <3>1, <3>2, <1>t, EditorDoes
    <3>4. TemplateTypeOK'
      BY <2>1, <3>3, <1>t DEF TemplateTypeOK
    <3>5. OthersInv'
      BY <2>1, <2>4, <3>2, <3>3, <1>t DEF OthersInv, EditorOK
    <3>6. \A f \in StoredFormat : Enabled(f)' = Enabled(f)
      BY <2>1 DEF Enabled, Kept
    <3>7. \A f \in StoredFormat : \A a, b \in Enabled(f) :
            a = b \/ Heeds(x, f, a, b) \/ ~Heeds(own, f, a, b)
      BY <3>2 DEF Heeds
    <3>8. \A f \in StoredFormat : \A a, b \in Enabled(f)' :
            \/ a = b \/ Heeds(x, f, a, b)
            \/ a \in Enabled(f) /\ b \in Enabled(f) /\ ~Heeds(editor[e], f, a, b)
      BY <3>6, <3>7
    <3>9. TwoInv'
      BY <3>1, <3>2, <3>4, <3>8, <2>1, <1>2
    <3>10. QED
      BY <3>4, <3>5, <3>9 DEF TemplateInv
  <2>5. QED
    BY <2>3, <2>4
<1>6. ASSUME NEW e \in Editor, NEW t \in Template, DisableOther(e, t) PROVE TemplateInv'
  <2>1. /\ editor[e].pc = "disable" /\ t \in editor[e].others /\ t \in Kept
        /\ templates' = [templates EXCEPT ![t].enabled = FALSE]
        /\ editor' = [editor EXCEPT ![e].others = @ \ {t}]
        /\ UNCHANGED <<templateEdits, skewed>>
    BY <1>6 DEF DisableOther
  <2> DEFINE x == [editor[e] EXCEPT !.others = @ \ {t}]
             new == [templates[t] EXCEPT !.enabled = FALSE]
  <2>2. editor[e] \in EditorState /\ templates[t] \in TemplateRow
    BY <2>1, <1>t DEF Kept
  <2>3. /\ x \in EditorState /\ x.pc = "disable" /\ x.row = editor[e].row
        /\ x.id = editor[e].id /\ x.others = editor[e].others \ {t}
    BY <2>1, <2>2 DEF EditorState
  <2>4. new \in TemplateRow /\ new.enabled = FALSE
    BY <2>2 DEF TemplateRow
  <2>5. editor' = [editor EXCEPT ![e] = x] /\ templates' = [templates EXCEPT ![t] = new]
    BY <2>1, <1>t
  <2> HIDE DEF x, new
  <2>6. /\ editor' \in [Editor -> EditorState]
        /\ \A o \in Editor : editor'[o] = IF o = e THEN x ELSE editor[o]
    BY <2>3, <2>5, <1>t, EditorDoes
  <2>7. TemplateTypeOK'
    BY <2>1, <2>4, <2>5, <2>6, <1>t DEF TemplateTypeOK
  <2>8. OthersInv'
    BY <2>3, <2>6, <2>1, <1>t DEF OthersInv, EditorOK
  <2>9. ASSUME NEW f \in StoredFormat, NEW a \in Enabled(f)', NEW b \in Enabled(f)'
        PROVE \/ a = b \/ Heeds(x, f, a, b)
              \/ a \in Enabled(f) /\ b \in Enabled(f) /\ ~Heeds(editor[e], f, a, b)
    <3>1. a \in Template /\ b \in Template
      BY DEF Enabled, Kept
    <3>2. a # t /\ b # t
      BY <2>4, <2>5, <2>7, <3>1, <1>e, <1>t
    <3>3. a \in Enabled(f) /\ b \in Enabled(f)
      BY <2>5, <2>7, <3>1, <3>2, <1>e, <1>t, EnabledRows
    <3>4. Heeds(editor[e], f, a, b) => Heeds(x, f, a, b)
      BY <2>1, <2>3, <3>2 DEF Heeds
    <3>5. QED
      BY <3>3, <3>4
  <2>10. TwoInv'
    BY <2>1, <2>3, <2>5, <2>7, <2>9, <1>2
  <2>11. QED
    BY <2>7, <2>8, <2>10 DEF TemplateInv
<1>7. ASSUME NEW e \in Editor, editor' = [editor EXCEPT ![e] = Away],
             UNCHANGED <<templates, templateEdits>>,
             \/ skewed' = skewed /\ editor[e].pc = "disable" /\ editor[e].others = {}
             \/ skewed' = (skewed \/ editor[e].pc # "read")
      PROVE TemplateInv'
  <2>1. /\ editor' \in [Editor -> EditorState]
        /\ \A o \in Editor : editor'[o] = IF o = e THEN Away ELSE editor[o]
    BY <1>7, <1>a, <1>t, EditorDoes
  <2>2. skewed' \in BOOLEAN /\ (skewed => skewed')
    BY <1>7, <1>t
  <2>3. TemplateTypeOK'
    BY <1>7, <2>1, <2>2, <1>t DEF TemplateTypeOK
  <2>4. OthersInv'
    BY <2>1, <1>a, <1>t DEF OthersInv, EditorOK
  <2>5. ~skewed' => \A f, a, b : ~Heeds(editor[e], f, a, b)
    BY <1>7 DEF Heeds
  <2>6. \A f \in StoredFormat : Enabled(f)' = Enabled(f)
    BY <1>7 DEF Enabled, Kept
  <2>7. ~skewed' => \A f \in StoredFormat : \A a, b \in Enabled(f)' :
          a \in Enabled(f) /\ b \in Enabled(f) /\ ~Heeds(editor[e], f, a, b)
    BY <2>5, <2>6
  <2>8. TwoInv'
    BY <1>7, <2>2, <2>3, <2>7, <1>a, <1>2
  <2>9. QED
    BY <2>3, <2>4, <2>8 DEF TemplateInv
<1>8. ASSUME NEW t \in Template, DeleteTemplate(t) PROVE TemplateInv'
  <2>1. /\ templateEdits' = templateEdits + 1 /\ templates' = [templates EXCEPT ![t] = Gone]
        /\ UNCHANGED <<editor, skewed>>
    BY <1>8 DEF DeleteTemplate
  <2>2. TemplateTypeOK'
    BY <2>1, <1>t DEF TemplateTypeOK
  <2>3. OthersInv'
    BY <2>1, <1>t DEF OthersInv
  <2>4. \A f \in StoredFormat : Enabled(f)' \subseteq Enabled(f)
    BY <2>1, <1>t DEF Enabled, Kept
  <2>5. TwoInv'
    BY <2>1, <2>4, <1>t DEF TwoInv
  <2>6. QED
    BY <2>2, <2>3, <2>5 DEF TemplateInv
<1>9. ASSUME UNCHANGED templateVars PROVE TemplateInv'
  BY <1>9, <1>t DEF templateVars, TemplateInv, TemplateTypeOK, OthersInv, TwoInv, Enabled, Kept
<1>10. ASSUME NEW e \in Editor, NEW f \in {{}} \union {{y} : y \in StoredFormat},
              NEW on \in {{}, {TRUE}, {FALSE}}, WriteTemplate(e, f, on)
       PROVE TemplateInv'
  <2>1. f \in SUBSET StoredFormat /\ (f = {} \/ \E y \in StoredFormat : f = {y})
    OBVIOUS
  <2>2. on \in SUBSET BOOLEAN /\ (on = {} \/ \E v \in BOOLEAN : on = {v})
    OBVIOUS
  <2>3. QED
    BY <1>4, <1>10, <2>1, <2>2
<1>11. ASSUME NEW e \in Editor, EditDone(e) \/ EditFails(e) PROVE TemplateInv'
  BY <1>7, <1>11 DEF EditDone, EditFails
<1>12. QED
  BY <1>1, <1>3, <1>5, <1>6, <1>8, <1>9, <1>10, <1>11 DEF TemplateNext

\* create_template and update_template (template.rs:205): with no handler at work one
\* template of a format is enabled at most, however many ran at once.
THEOREM TemplatesEnabledOnce == TemplateSpec => []EnabledOnce
<1>1. TemplateInv => EnabledOnce
  BY DEF TemplateInv, TwoInv, EnabledOnce, Heeds
<1>2. QED
  BY TemplateInitInv, TemplateStepInv, <1>1, PTL DEF TemplateSpec

\* What may take the last enabled template of a format away.
TemplateGapOK(f) ==
  \/ \E t \in Template : DeleteTemplate(t)
  \/ \E e \in Editor : editor[e].pc = "read" /\ editor'[e].says
  \/ \E e \in Editor, t \in Template :
       DisableOther(e, t) /\ (templates[editor[e].id] # editor[e].row \/ editor[e].row.format # f)

\* A format that loses its last enabled template loses it in one of the three ways.
LEMMA TemplateGapStep ==
  ASSUME TemplateInv, TemplateInv', [TemplateNext]_templateVars, NEW f \in StoredFormat,
         Served(f), ~Served(f)'
  PROVE TemplateGapOK(f)
<1>t. /\ TemplateTypeOK /\ OthersInv /\ TemplateTypeOK'
      /\ templates \in [Template -> TemplateRow \union {Gone}] /\ editor \in [Editor -> EditorState]
  BY DEF TemplateInv, TemplateTypeOK
<1>g. Gone \notin TemplateRow /\ Gone.enabled = FALSE
  BY DEF Gone, TemplateRow, StoredFormat
<1>1. Enabled(f) # {}
  BY ServedIsEnabled
<1>2. Enabled(f)' = {}
  <2>1. (Served(f) <=> Enabled(f) # {})'
    BY ServedIsEnabled, PTL
  <2>2. QED
    BY <2>1
<1>3. PICK t \in Template : t \in Enabled(f) /\ templates[t].format = f /\ templates[t].enabled
  BY <1>1, <1>t, EnabledRows DEF Enabled, Kept
<1>e. ~(templates'[t] \in TemplateRow /\ templates'[t].format = f /\ templates'[t].enabled)
  BY <1>2, <1>3, <1>g DEF Enabled, Kept
<1>4. templates[t] \in TemplateRow
  BY <1>3, <1>t, <1>g
<1>5. templates'[t] # templates[t]
  BY <1>3, <1>e, <1>4
<1>6. ASSUME NEW e \in Editor, NEW u \in Template, NEW g \in StoredFormat, CreateTemplate(e, u, g)
      PROVE FALSE
  <2>1. u # t
    BY <1>6, <1>3 DEF CreateTemplate, Enabled
  <2>2. QED
    BY <1>6, <2>1, <1>5, <1>t DEF CreateTemplate
<1>7. ASSUME NEW e \in Editor, NEW g, NEW on \in {{}, {TRUE}, {FALSE}}, WriteTemplate(e, g, on)
      PROVE TemplateGapOK(f)
  <2>1. editor[e].pc = "read" /\ editor[e] \in EditorState
    BY <1>7, <1>t DEF WriteTemplate, Writable
  <2>2. editor'[e].says = (g # {} \/ on = {FALSE})
    BY <1>7, <1>t DEF WriteTemplate, Write
  <2>3. templates' = [templates EXCEPT ![editor[e].id] = Edited(templates[editor[e].id], g, on)]
    BY <1>7 DEF WriteTemplate, Write
  <2>4. CASE g # {} \/ on = {FALSE}
    BY <2>1, <2>2, <2>4 DEF TemplateGapOK
  <2>5. CASE g = {} /\ on \in {{}, {TRUE}}
    <3>1. editor[e].id = t
      BY <2>3, <1>5, <1>t
    <3>2. templates'[t] = Edited(templates[t], g, on)
      BY <2>3, <3>1, <1>t
    <3>3. PostedOr(g, templates[t].format) = f
      BY <2>5, <1>3 DEF PostedOr
    <3>4. PostedOr(on, templates[t].enabled) = TRUE
      <4>1. CASE on = {}
        BY <4>1, <1>3, <1>4 DEF PostedOr, TemplateRow
      <4>2. CASE on = {TRUE}
        <5>1. (CHOOSE v \in {TRUE} : TRUE) \in {TRUE}
          OBVIOUS
        <5>2. QED
          BY <4>2, <5>1 DEF PostedOr
      <4>3. QED
        BY <2>5, <4>1, <4>2
    <3>5. templates'[t] = [format |-> f, enabled |-> TRUE]
      BY <3>2, <3>3, <3>4 DEF Edited
    <3>6. QED
      BY <3>5, <1>e DEF TemplateRow
  <2>6. QED
    BY <1>7, <2>4, <2>5
<1>8. ASSUME NEW e \in Editor, NEW u \in Template, DisableOther(e, u) PROVE TemplateGapOK(f)
  <2>1. /\ editor[e].pc = "disable" /\ u \in editor[e].others
        /\ templates' = [templates EXCEPT ![u].enabled = FALSE]
    BY <1>8 DEF DisableOther
  <2>2. editor[e] \in EditorState /\ editor[e].id # u /\ editor[e].row.enabled
        /\ editor[e].row # Gone /\ editor[e].id \in Template
    BY <2>1, <1>t DEF OthersInv, EditorOK, EditorState
  <2>3. CASE templates[editor[e].id] = editor[e].row /\ editor[e].row.format = f
    <3>1. templates'[editor[e].id] = editor[e].row
      BY <2>1, <2>2, <2>3, <1>t
    <3>2. editor[e].id \in Enabled(f)'
      BY <2>2, <2>3, <3>1 DEF Enabled, Kept
    <3>3. QED
      BY <3>2, <1>2
  <2>4. QED
    BY <1>8, <2>3 DEF TemplateGapOK
<1>9. ASSUME NEW u \in Template, DeleteTemplate(u) PROVE TemplateGapOK(f)
  BY <1>9 DEF TemplateGapOK
<1>10. CASE UNCHANGED templates
  BY <1>10, <1>5
<1>11. QED
  BY <1>6, <1>7, <1>8, <1>9, <1>10
     DEF TemplateNext, templateVars, ReadTemplate, FindOthers, EditDone, EditFails

\* update_template (template.rs:170-172): only an edit that says so, or one whose row
\* another handler has changed meanwhile, leaves a format without a template.
THEOREM TemplatesNoGap == TemplateSpec => NoGap
<1> DEFINE Step == \A f \in StoredFormat : Served(f) /\ ~Served(f)' => TemplateGapOK(f)
<1>1. TemplateInv /\ TemplateInv' /\ [TemplateNext]_templateVars => [Step]_templateVars
  BY TemplateGapStep
<1>2. Step <=> \A f \in StoredFormat : Served(f) /\ ~Served(f)' =>
       \/ \E t \in Template : DeleteTemplate(t)
       \/ \E e \in Editor : editor[e].pc = "read" /\ editor'[e].says
       \/ \E e \in Editor, t \in Template :
            DisableOther(e, t) /\ (templates[editor[e].id] # editor[e].row \/ editor[e].row.format # f)
  BY DEF TemplateGapOK
<1> HIDE DEF Step
<1>3. QED
  BY <1>1, <1>2, TemplateInitInv, TemplateStepInv, PTL DEF TemplateSpec, NoGap

-----------------------------------------------------------------------------
(***************************************************************************)
(* HubLogs.  Of a batch of entries the task counts the most recent as saved *)
(* once it is in the table.                                                *)
(***************************************************************************)
\* The records in a queue.
Members(s) == {s[i] : i \in DOMAIN s}

\* The records after one is added.
LEMMA MembersAppend ==
  ASSUME NEW s \in Seq(Nat), NEW e \in Nat
  PROVE  Append(s, e) \in Seq(Nat) /\ Members(Append(s, e)) = Members(s) \cup {e}
<1>1. DOMAIN s = 1 .. Len(s) /\ DOMAIN Append(s, e) = 1 .. Len(s) + 1
  OBVIOUS
<1>2. \A i \in 1 .. Len(s) : Append(s, e)[i] = s[i]
  OBVIOUS
<1>3. Append(s, e)[Len(s) + 1] = e
  OBVIOUS
<1>4. QED
  BY <1>1, <1>2, <1>3 DEF Members

\* A queue without its first record, element by element.
LEMMA TailParts ==
  ASSUME NEW s \in Seq(Nat), s # <<>>
  PROVE  /\ Head(s) \in Nat /\ Tail(s) \in Seq(Nat) /\ Head(s) = s[1]
         /\ DOMAIN s = 1 .. Len(s) /\ Len(s) \in Nat /\ Len(s) > 0
         /\ DOMAIN Tail(s) = 1 .. Len(s) - 1
         /\ \A i \in 1 .. Len(s) - 1 : Tail(s)[i] = s[i + 1]
OBVIOUS

\* The records of a queue: the first, and those of the rest.
LEMMA MembersTail ==
  ASSUME NEW s \in Seq(Nat), s # <<>>
  PROVE  /\ Head(s) \in Nat /\ Tail(s) \in Seq(Nat)
         /\ Members(s) = {Head(s)} \cup Members(Tail(s))
<1> DEFINE t == Tail(s)
<1>1. /\ Head(s) \in Nat /\ t \in Seq(Nat) /\ Head(s) = s[1]
      /\ DOMAIN s = 1 .. Len(s) /\ Len(s) \in Nat /\ Len(s) > 0
      /\ DOMAIN t = 1 .. Len(s) - 1
      /\ \A i \in 1 .. Len(s) - 1 : t[i] = s[i + 1]
  BY TailParts
<1> HIDE DEF t
<1>2. ASSUME NEW i \in 1 .. Len(s) PROVE s[i] \in {Head(s)} \cup Members(t)
  <2>1. CASE i = 1
    BY <1>1, <2>1
  <2>2. CASE i # 1
    <3>1. i - 1 \in DOMAIN t /\ t[i - 1] = s[(i - 1) + 1] /\ (i - 1) + 1 = i
      BY <1>1, <2>2
    <3>2. QED
      BY <3>1 DEF Members
  <2>3. QED
    BY <2>1, <2>2
<1>3. ASSUME NEW i \in 1 .. Len(s) - 1 PROVE t[i] \in Members(s)
  <2>1. i + 1 \in DOMAIN s /\ t[i] = s[i + 1]
    BY <1>1
  <2>2. QED
    BY <2>1 DEF Members
<1>4. Head(s) \in Members(s)
  BY <1>1 DEF Members
<1>5. Members(s) = {Head(s)} \cup Members(t)
  BY <1>1, <1>2, <1>3, <1>4 DEF Members
<1>6. QED
  BY <1>1, <1>5 DEF t

\* The types.
LogTypeOK ==
  /\ written \in Nat /\ unroomed \in Nat /\ writing \in Nat
  /\ channel \in Seq(Nat) /\ saved \in Seq(Nat)
  /\ closed \in BOOLEAN /\ stopping \in BOOLEAN
  /\ writer \in {"runs", "drains", "done", "aborted"}
  /\ accepted \in SUBSET Nat /\ failed \in SUBSET Nat

\* In the order in which they were written.
Rises(s) == \A i, j \in DOMAIN s : i < j => s[i] < s[j]

\* A record that found room is in the channel, being inserted, saved or failed.
AcceptedIsSomewhere ==
  accepted = Members(saved) \cup failed \cup Members(channel) \cup ({writing} \ {0})

\* Records go through the channel and the writer in their order.
InOrder ==
  /\ Rises(channel) /\ Rises(saved)
  /\ \A n \in Members(channel) : 0 < n /\ n <= written
  /\ \A n \in Members(saved) : n <= written
  /\ writing <= written
  /\ writing # 0 => /\ \A n \in Members(channel) : writing < n
                    /\ \A n \in Members(saved) : n < writing
  /\ \A n \in Members(saved), m \in Members(channel) : n < m

\* A writer that is done has left nothing, and nothing can come any more.
DoneIsEmpty ==
  /\ writer \in {"drains", "done"} => closed
  /\ writer = "done" => writing = 0 /\ channel = <<>>

\* The inductive invariant.
LogInv == LogTypeOK /\ AcceptedIsSomewhere /\ InOrder /\ DoneIsEmpty

\* It holds before anything is written.
LEMMA LogInitInv == LogInit => LogInv
<1> SUFFICES ASSUME LogInit PROVE LogInv
  OBVIOUS
<1>1. Members(<<>>) = {} /\ Rises(<<>>)
  BY DEF Members, Rises
<1>a. channel \in Seq(Nat) /\ saved \in Seq(Nat)
  BY DEF LogInit
<1>2. LogTypeOK /\ DoneIsEmpty
  BY <1>a DEF LogInit, LogTypeOK, DoneIsEmpty
<1>3. AcceptedIsSomewhere
  BY <1>1 DEF LogInit, AcceptedIsSomewhere
<1>4. InOrder
  BY <1>1 DEF LogInit, InOrder
<1>5. QED
  BY <1>2, <1>3, <1>4 DEF LogInv

\* A record later than all others goes last.
LEMMA RisesAppend ==
  ASSUME NEW s \in Seq(Nat), NEW e \in Nat, Rises(s), \A n \in Members(s) : n < e
  PROVE  Rises(Append(s, e))
<1>1. DOMAIN s = 1 .. Len(s) /\ DOMAIN Append(s, e) = 1 .. Len(s) + 1
  OBVIOUS
<1>2. \A i \in 1 .. Len(s) : Append(s, e)[i] = s[i] /\ s[i] < e
  BY <1>1 DEF Members
<1>3. Append(s, e)[Len(s) + 1] = e
  OBVIOUS
<1>4. QED
  BY <1>1, <1>2, <1>3 DEF Rises

\* The rest of a queue is in order, and later than the first.
LEMMA RisesTail ==
  ASSUME NEW s \in Seq(Nat), s # <<>>, Rises(s)
  PROVE  Rises(Tail(s)) /\ \A n \in Members(Tail(s)) : Head(s) < n
<1> DEFINE t == Tail(s)
<1>1. /\ Head(s) = s[1] /\ DOMAIN s = 1 .. Len(s) /\ Len(s) \in Nat /\ Len(s) > 0
      /\ DOMAIN t = 1 .. Len(s) - 1
      /\ \A i \in 1 .. Len(s) - 1 : t[i] = s[i + 1]
  BY TailParts
<1> HIDE DEF t
<1>2. ASSUME NEW i \in DOMAIN t PROVE s[1] < t[i]
  <2>1. i + 1 \in DOMAIN s /\ 1 \in DOMAIN s /\ 1 < i + 1 /\ t[i] = s[i + 1]
    BY <1>1
  <2>2. QED
    BY <2>1 DEF Rises
<1>3. ASSUME NEW i \in DOMAIN t, NEW j \in DOMAIN t, i < j PROVE t[i] < t[j]
  <2>1. i + 1 \in DOMAIN s /\ j + 1 \in DOMAIN s /\ i + 1 < j + 1
        /\ t[i] = s[i + 1] /\ t[j] = s[j + 1]
    BY <1>1, <1>3
  <2>2. QED
    BY <2>1 DEF Rises
<1>4. Rises(t) /\ \A n \in Members(t) : Head(s) < n
  BY <1>1, <1>2, <1>3 DEF Rises, Members
<1>5. QED
  BY <1>4 DEF t

\* Every write, insert, failure and the stop keep the invariant.
LEMMA LogStepInv == LogInv /\ [LogNext]_logVars => LogInv'
<1> SUFFICES ASSUME LogInv, [LogNext]_logVars PROVE LogInv'
  OBVIOUS
<1> USE DEF LogInv
<1>1. CASE Emit
  <2>1. CASE ~closed /\ Len(channel) < Capacity
    <3>1. /\ channel' = Append(channel, written + 1) /\ accepted' = accepted \cup {written + 1}
          /\ written' = written + 1
          /\ UNCHANGED <<unroomed, closed, writing, writer, stopping, saved, failed>>
      BY <1>1, <2>1 DEF Emit
    <3>2. channel' \in Seq(Nat) /\ Members(channel)' = Members(channel) \cup {written + 1}
      BY <3>1, MembersAppend DEF LogTypeOK
    <3>3. \A n \in Members(channel) : n < written + 1
      <4>1. \A n \in Members(channel) : n \in Nat /\ n <= written
        BY DEF InOrder, LogTypeOK, Members
      <4>2. QED
        BY <4>1 DEF LogTypeOK
    <3>4. Rises(channel')
      BY <3>1, <3>3, RisesAppend DEF LogTypeOK, InOrder
    <3>5. Members(saved) \subseteq Nat /\ Members(channel) \subseteq Nat
      BY DEF LogTypeOK, Members
    <3>6. LogTypeOK' /\ DoneIsEmpty'
      BY <2>1, <3>1, <3>2 DEF LogTypeOK, DoneIsEmpty
    <3>7. AcceptedIsSomewhere'
      BY <3>1, <3>2 DEF AcceptedIsSomewhere, Members
    <3>8. InOrder'
      BY <3>1, <3>2, <3>3, <3>4, <3>5 DEF InOrder, LogTypeOK
    <3>9. QED
      BY <3>6, <3>7, <3>8
  <2>2. CASE ~(~closed /\ Len(channel) < Capacity)
    <3>1. /\ written' = written + 1 /\ unroomed' = unroomed + 1
          /\ UNCHANGED <<channel, accepted, closed, writing, writer, stopping, saved, failed>>
      BY <1>1, <2>2 DEF Emit
    <3>2. Members(saved) \subseteq Nat /\ Members(channel) \subseteq Nat
      BY DEF LogTypeOK, Members
    <3>3. Members(saved)' = Members(saved) /\ Members(channel)' = Members(channel)
      BY <3>1 DEF Members
    <3>4. InOrder'
      BY <3>1, <3>2, <3>3 DEF InOrder, LogTypeOK, Rises
    <3>5. QED
      BY <3>1, <3>3, <3>4 DEF LogTypeOK, AcceptedIsSomewhere, DoneIsEmpty
  <2>3. QED
    BY <2>1, <2>2
<1>2. CASE Take
  <2>1. /\ Head(channel) \in Nat /\ Tail(channel) \in Seq(Nat)
        /\ Members(channel) = {Head(channel)} \cup Members(Tail(channel))
    BY <1>2, MembersTail DEF Take, LogTypeOK
  <2>2. Rises(Tail(channel)) /\ \A n \in Members(Tail(channel)) : Head(channel) < n
    BY <1>2, RisesTail DEF Take, LogTypeOK, InOrder
  <2>3. Members(channel)' = Members(Tail(channel)) /\ Members(saved)' = Members(saved)
    BY <1>2 DEF Take, Members
  <2>4. LogTypeOK' /\ DoneIsEmpty'
    BY <1>2, <2>1 DEF Take, LogTypeOK, DoneIsEmpty
  <2>5. AcceptedIsSomewhere'
    BY <1>2, <2>1, <2>3 DEF Take, AcceptedIsSomewhere, InOrder
  <2>6. InOrder'
    BY <1>2, <2>1, <2>2, <2>3 DEF Take, InOrder, Rises
  <2>7. QED
    BY <2>4, <2>5, <2>6
<1>3. CASE \E ok \in BOOLEAN : Inserted(ok)
  <2>1. PICK ok \in BOOLEAN : Inserted(ok)
    BY <1>3
  <2>2. Members(channel)' = Members(channel) /\ Members(channel) \subseteq Nat
        /\ Members(saved) \subseteq Nat
    BY <2>1 DEF Inserted, Members, LogTypeOK
  <2>3. CASE ok
    <3>1. saved' = Append(saved, writing) /\ failed' = failed
      BY <2>1, <2>3 DEF Inserted
    <3>2. saved' \in Seq(Nat) /\ Members(saved)' = Members(saved) \cup {writing}
      BY <3>1, MembersAppend DEF LogTypeOK
    <3>3. Rises(saved')
      BY <2>1, <3>1, RisesAppend DEF LogTypeOK, InOrder, Inserted
    <3>4. LogTypeOK' /\ DoneIsEmpty'
      BY <2>1, <3>1, <3>2 DEF Inserted, LogTypeOK, DoneIsEmpty
    <3>5. AcceptedIsSomewhere'
      BY <2>1, <2>2, <3>1, <3>2 DEF Inserted, AcceptedIsSomewhere
    <3>6. InOrder'
      BY <2>1, <2>2, <3>2, <3>3 DEF Inserted, InOrder, LogTypeOK
    <3>7. QED
      BY <3>4, <3>5, <3>6
  <2>4. CASE ~ok
    <3>1. saved' = saved /\ failed' = failed \cup {writing} /\ Members(saved)' = Members(saved)
      BY <2>1, <2>4 DEF Inserted, Members
    <3>2. QED
      BY <2>1, <2>2, <3>1 DEF Inserted, LogTypeOK, DoneIsEmpty, AcceptedIsSomewhere, InOrder, Rises
  <2>5. QED
    BY <2>3, <2>4
<1>4. CASE StopWriter \/ SeeStop \/ Drained \/ Abort
  <2>1. UNCHANGED <<written, channel, unroomed, writing, saved, accepted, failed>>
    BY <1>4 DEF StopWriter, SeeStop, Drained, Abort
  <2>2. Members(channel)' = Members(channel) /\ Members(saved)' = Members(saved)
    BY <2>1 DEF Members
  <2>3. AcceptedIsSomewhere' /\ InOrder'
    BY <2>1, <2>2 DEF AcceptedIsSomewhere, InOrder, Rises
  <2>4. LogTypeOK' /\ DoneIsEmpty'
    BY <1>4, <2>1 DEF StopWriter, SeeStop, Drained, Abort, LogTypeOK, DoneIsEmpty
  <2>5. QED
    BY <2>3, <2>4
<1>5. CASE UNCHANGED logVars
  BY <1>5 DEF logVars, LogTypeOK, DoneIsEmpty, AcceptedIsSomewhere, InOrder, Rises, Members
<1>6. QED
  BY <1>1, <1>2, <1>3, <1>4, <1>5 DEF LogNext

\* DatabaseLayer, persist and LogWriter::shutdown: once the writer is done, every record
\* that found room in the channel is saved, in order, or its insert failed.
THEOREM AcceptedAlwaysSaved == LogSpec => []AcceptedIsSaved
<1>1. LogInv => AcceptedIsSaved
  BY DEF LogInv, AcceptedIsSaved, AcceptedIsSomewhere, InOrder, DoneIsEmpty, Members, Rises
<1>2. QED
  BY <1>1, LogInitInv, LogStepInv, PTL DEF LogSpec

-----------------------------------------------------------------------------
(***************************************************************************)
(* RateLimiter.  BurstIsBounded, for any limit, window and lateness.  A     *)
(* bucket's tokens bound what it has let through, of every stretch of      *)
(* ticks and not of a minute alone: that is what a tick, which makes each  *)
(* stretch one longer, and a check, which adds to all of them at once,     *)
(* both keep.  A check that is late by some ticks sets last_update back by *)
(* as many at most, and has paid for them in `late`.                       *)
(***************************************************************************)
\* The buckets there can be.
Bucket == [tokens : 0 .. Limit, age : 0 .. MaxAge]

\* A check on its way.
OnItsWay == [key : RateKey, old : 0 .. MaxLate]

\* The types.
RateTypeOK ==
  /\ bucket \in [RateKey -> Bucket \cup {NoBucket}]
  /\ check \in [RateRequest -> OnItsWay \cup {NoCheck}]
  /\ within \in [RateKey -> [0 .. Minute - 1 -> Nat]]
  /\ late \in [RateKey -> [0 .. Minute - 1 -> Nat]]

\* n requests in this tick and the d before it, whose checks were late by l ticks
\* together, fit a bucket: without one there were none, and what it holds and has let
\* through is at most a full bucket and what came back, the l ticks included.
Fits(b, n, l, d) ==
  n # 0 => /\ b # NoBucket /\ b.age <= d + l /\ b.age <= d + MaxLate
           /\ Minute * (n + b.tokens) <= Minute * Limit + ((d + l) - b.age) * Limit

AllFit == \A k \in RateKey : \A d \in 0 .. Minute - 1 :
            Fits(bucket[k], within[k][d], late[k][d], d)

\* The inductive invariant.
RateInv == RateTypeOK /\ AllFit

\* What comes back is whole tokens, at most the limit's share of the time.
LEMMA ReplenishBounds ==
  ASSUME NEW a \in Nat
  PROVE  Replenish(a) \in Nat /\ Minute * Replenish(a) <= a * Limit
<1>1. a * Limit \in Nat
  BY RateAssumption
<1>2. QED
  BY <1>1, RateAssumption, Z3 DEF Replenish

\* The two products of the invariant, when what came back is added: e ticks' worth,
\* of which the bucket's age is at least.
LEMMA Refilled ==
  ASSUME NEW n \in Nat, NEW t \in Nat, NEW r \in Nat, NEW e \in Nat, NEW a \in Nat, NEW m \in Nat,
         e <= a, Minute * r <= e * Limit,
         Minute * (n + t) <= Minute * Limit + (m - a) * Limit
  PROVE  Minute * (n + (t + r)) <= Minute * Limit + m * Limit
<1>1. Minute \in Nat /\ Limit \in Nat
  BY RateAssumption
<1>2. Minute * (n + (t + r)) = Minute * (n + t) + Minute * r
  BY <1>1
<1>3. m * Limit = (m - a) * Limit + e * Limit + (a - e) * Limit
  BY <1>1
<1>4. (a - e) * Limit \in Nat
  BY <1>1
<1>5. /\ Minute * (n + t) \in Int /\ Minute * r \in Int /\ e * Limit \in Int
      /\ (m - a) * Limit \in Int /\ Minute * Limit \in Int
  BY <1>1
<1>6. QED
  BY <1>2, <1>3, <1>4, <1>5

\* A product grows with its factor.
LEMMA Times ==
  ASSUME NEW m \in Nat, NEW x \in Int, NEW y \in Int, x <= y
  PROVE  m * x <= m * y
<1>1. m * y = m * x + m * (y - x)
  OBVIOUS
<1>2. m * (y - x) >= 0
  OBVIOUS
<1>3. m * x \in Int /\ m * y \in Int /\ m * (y - x) \in Int
  OBVIOUS
<1>4. QED
  BY <1>1, <1>2, <1>3

\* The clean-up takes only buckets of the oldest age.
LEMMA RemovedAreOld ==
  ASSUME RateTypeOK, NEW old \in 0 .. MaxLate, NEW k \in RateKey, k \notin KeptBuckets(old),
         bucket[k] # NoBucket
  PROVE  bucket[k].age = MaxAge
BY RateAssumption DEF KeptBuckets, Buckets, Since, RateTypeOK, Bucket

\* A bucket that is kept is there.
LEMMA KeptAreThere ==
  ASSUME RateTypeOK, NEW old, NEW k \in KeptBuckets(old)
  PROVE  k \in RateKey /\ bucket[k] \in Bucket /\ bucket[k] # NoBucket
BY DEF KeptBuckets, Buckets, RateTypeOK

\* Of a bucket that is not kept nothing was asked in the last minute.
LEMMA RemovedHasNone ==
  ASSUME RateInv, NEW old \in 0 .. MaxLate, NEW k \in RateKey, k \notin KeptBuckets(old),
         NEW d \in 0 .. Minute - 1
  PROVE  within[k][d] = 0
<1>1. /\ Minute \in Nat /\ MaxLate \in Nat /\ MaxAge \in Nat /\ MaxAge >= Minute + MaxLate
      /\ d \in Nat /\ d < Minute
  BY RateAssumption
<1>2. Fits(bucket[k], within[k][d], late[k][d], d)
  BY DEF RateInv, AllFit
<1>3. bucket[k] # NoBucket => bucket[k].age = MaxAge
  BY RemovedAreOld DEF RateInv
<1>4. ~(MaxAge <= d + MaxLate)
  BY <1>1
<1>5. QED
  BY <1>2, <1>3, <1>4 DEF Fits

LEMMA WhenItFits ==
  ASSUME NEW b, NEW n, NEW l, NEW d, Fits(b, n, l, d), n # 0
  PROVE  Minute * (n + b.tokens) <= Minute * Limit + ((d + l) - b.age) * Limit
BY Zenon DEF Fits

\* The bucket that a check fills holds no more than the invariant gives it.
LEMMA FilledFits ==
  ASSUME RateInv, NEW old \in 0 .. MaxLate, NEW k \in RateKey, NEW d \in 0 .. Minute - 1
  PROVE  /\ Filled(k, old) \in 0 .. Limit
         /\ Minute * (within[k][d] + Filled(k, old)) <= Minute * Limit + (d + late[k][d]) * Limit
<1> DEFINE b == bucket[k]
           n == within[k][d]
           m == d + late[k][d]
           e == Since(k, old)
           f == Filled(k, old)
<1>1. /\ Minute \in Nat \ {0} /\ Limit \in Nat \ {0} /\ MaxAge \in Nat
      /\ n \in Nat /\ d \in Nat /\ m \in Nat /\ Fits(b, n, late[k][d], d)
  BY RateAssumption DEF RateInv, RateTypeOK, AllFit
<1>2. Minute * Limit \in Nat /\ m * Limit \in Nat /\ m * Limit >= 0
  <2> HIDE DEF m
  <2>1. QED
    BY <1>1
<1>3. n # 0 => Minute * (n + b.tokens) <= Minute * Limit + (m - b.age) * Limit
  BY <1>1, WhenItFits
<1>4. CASE k \notin KeptBuckets(old)
  <2>1. f = Limit
    BY <1>4 DEF Filled
  <2>2. n = 0
    BY <1>4, RemovedHasNone
  <2> HIDE DEF m, n, f
  <2>3. f \in 0 .. Limit /\ Minute * (n + f) <= Minute * Limit + m * Limit
    BY <1>1, <1>2, <2>1, <2>2
  <2>4. QED
    BY <2>3 DEF m, n, f
<1>5. CASE k \in KeptBuckets(old)
  <2> DEFINE r == Replenish(e)
  <2>1. b.tokens \in 0 .. Limit /\ b.age \in 0 .. MaxAge /\ b # NoBucket
    BY <1>5, KeptAreThere DEF RateInv, Bucket
  <2>2. e \in Nat /\ e <= b.age
    BY <2>1, <1>1, RateAssumption DEF Since
  <2> HIDE DEF e
  <2>3. r \in Nat /\ Minute * r <= e * Limit
    BY <2>2, ReplenishBounds
  <2>4. f = IF b.tokens + r < Limit THEN b.tokens + r ELSE Limit
    BY <1>5 DEF Filled, Capped, e
  <2> HIDE DEF r, b, m, n, f
  <2>5. f \in 0 .. Limit /\ f <= Limit /\ f <= b.tokens + r
    BY <1>1, <2>1, <2>3, <2>4
  <2>6. CASE n = 0
    <3>1. Minute * (n + f) <= Minute * Limit
      BY <1>1, <2>5, <2>6, Times
    <3>2. Minute * (n + f) \in Int
      BY <1>1, <2>5
    <3>3. Minute * (n + f) <= Minute * Limit + m * Limit
      BY <1>2, <3>1, <3>2
    <3>4. QED
      BY <2>5, <3>3 DEF m, n, f
  <2>7. CASE n # 0
    <3>1. Minute * (n + b.tokens) <= Minute * Limit + (m - b.age) * Limit
      BY <1>3, <2>7
    <3>2. Minute * (n + (b.tokens + r)) <= Minute * Limit + m * Limit
      BY <1>1, <2>1, <2>2, <2>3, <3>1, Refilled
    <3>3. n + f \in Int /\ n + (b.tokens + r) \in Int /\ n + f <= n + (b.tokens + r)
      BY <1>1, <2>1, <2>3, <2>5
    <3>4. Minute * (n + f) <= Minute * (n + (b.tokens + r))
      BY <1>1, <3>3, Times
    <3>5. Minute * (n + f) \in Int /\ Minute * (n + (b.tokens + r)) \in Int
      BY <1>1, <3>3
    <3>6. Minute * (n + f) <= Minute * Limit + m * Limit
      BY <1>2, <3>2, <3>4, <3>5
    <3>7. QED
      BY <2>5, <3>6 DEF m, n, f
  <2>8. QED
    BY <2>6, <2>7
<1>6. QED
  BY <1>4, <1>5

\* It holds before any request.
LEMMA RateInitInv == RateInit => RateInv
BY RateAssumption
   DEF RateInit, NoHistory, RateInv, RateTypeOK, AllFit, Fits

\* A history that something is added to.
LEMMA AddedType ==
  ASSUME NEW h \in [RateKey -> [0 .. Minute - 1 -> Nat]], NEW k \in RateKey, NEW n \in Nat
  PROVE  /\ Added(h, k, n) \in [RateKey -> [0 .. Minute - 1 -> Nat]]
         /\ \A d \in 0 .. Minute - 1 : Added(h, k, n)[k][d] = h[k][d] + n
         /\ \A q \in RateKey \ {k} : Added(h, k, n)[q] = h[q]
<1> DEFINE new == [d \in 0 .. Minute - 1 |-> h[k][d] + n]
<1>1. h[k] \in [0 .. Minute - 1 -> Nat]
  OBVIOUS
<1>2. new \in [0 .. Minute - 1 -> Nat] /\ \A d \in 0 .. Minute - 1 : new[d] = h[k][d] + n
  BY <1>1
<1>3. Added(h, k, n) = [h EXCEPT ![k] = new]
  BY DEF Added
<1> HIDE DEF new
<1>4. QED
  BY <1>2, <1>3

\* A check keeps the invariant, for the key it is about and for the others.
LEMMA CheckKeepsInv ==
  ASSUME RateInv, NEW q \in RateRequest, Check(q)
  PROVE  RateInv'
<1> DEFINE k == check[q].key
           old == check[q].old
           ok == Filled(k, old) > 0
<1>1. /\ Minute \in Nat \ {0} /\ Limit \in Nat \ {0} /\ MaxAge \in Nat /\ MaxLate \in Nat
      /\ MaxAge >= Minute + MaxLate
  BY RateAssumption
<1>2. k \in RateKey /\ old \in 0 .. MaxLate
  BY DEF Check, RateInv, RateTypeOK, OnItsWay
<1>3. /\ bucket' = [x \in RateKey |->
           IF x = k THEN [tokens |-> IF ok THEN Filled(k, old) - 1 ELSE 0, age |-> old]
           ELSE IF x \in KeptBuckets(old) THEN bucket[x] ELSE NoBucket]
      /\ within' = (IF ok THEN Added(within, k, 1) ELSE within)
      /\ late' = Added(late, k, old) /\ check' = [check EXCEPT ![q] = NoCheck]
  BY DEF Check
<1> HIDE DEF k, old
<1>4. Filled(k, old) \in 0 .. Limit
  <2>1. 0 \in 0 .. Minute - 1
    BY <1>1
  <2>2. QED
    BY <1>2, <2>1, FilledFits
<1>5. /\ within \in [RateKey -> [0 .. Minute - 1 -> Nat]]
      /\ late \in [RateKey -> [0 .. Minute - 1 -> Nat]] /\ old \in Nat
  BY <1>1, <1>2 DEF RateInv, RateTypeOK
<1>6. /\ late' \in [RateKey -> [0 .. Minute - 1 -> Nat]]
      /\ \A d \in 0 .. Minute - 1 : late'[k][d] = late[k][d] + old
      /\ \A x \in RateKey \ {k} : late'[x] = late[x]
  <2>1. late' = Added(late, k, old)
    BY <1>3
  <2>2. /\ Added(late, k, old) \in [RateKey -> [0 .. Minute - 1 -> Nat]]
        /\ \A d \in 0 .. Minute - 1 : Added(late, k, old)[k][d] = late[k][d] + old
        /\ \A x \in RateKey \ {k} : Added(late, k, old)[x] = late[x]
    BY <1>2, <1>5, AddedType
  <2>3. QED
    BY <2>1, <2>2
<1>7. /\ within' \in [RateKey -> [0 .. Minute - 1 -> Nat]]
      /\ \A d \in 0 .. Minute - 1 : within'[k][d] = IF ok THEN within[k][d] + 1 ELSE within[k][d]
      /\ \A x \in RateKey \ {k} : within'[x] = within[x]
  <2>1. CASE ok
    <3>1. within' = Added(within, k, 1)
      BY <1>3, <2>1
    <3> DEFINE one == 1
    <3>2. one \in Nat
      OBVIOUS
    <3> HIDE DEF one
    <3>3. /\ Added(within, k, one) \in [RateKey -> [0 .. Minute - 1 -> Nat]]
          /\ \A d \in 0 .. Minute - 1 : Added(within, k, one)[k][d] = within[k][d] + one
          /\ \A x \in RateKey \ {k} : Added(within, k, one)[x] = within[x]
      BY <1>2, <1>5, <3>2, AddedType
    <3>4. QED
      BY <2>1, <3>1, <3>3 DEF one
  <2>2. CASE ~ok
    BY <1>3, <1>5, <2>2
  <2>3. QED
    BY <2>1, <2>2
<1>8. RateTypeOK'
  <2>1. [tokens |-> IF ok THEN Filled(k, old) - 1 ELSE 0, age |-> old] \in Bucket
    BY <1>1, <1>2, <1>4 DEF Bucket
  <2>2. \A x \in RateKey : bucket[x] \in Bucket \cup {NoBucket}
    BY DEF RateInv, RateTypeOK
  <2>3. bucket' \in [RateKey -> Bucket \cup {NoBucket}]
    BY <1>3, <2>1, <2>2
  <2>4. check' \in [RateRequest -> OnItsWay \cup {NoCheck}]
    BY <1>3 DEF RateInv, RateTypeOK
  <2>5. QED
    BY <2>3, <2>4, <1>6, <1>7 DEF RateTypeOK
<1>9. ASSUME NEW d \in 0 .. Minute - 1
      PROVE  Fits(bucket'[k], within'[k][d], late'[k][d], d)
  <2> DEFINE b == bucket'[k]
             n == within[k][d]
             l == late[k][d]
             f == Filled(k, old)
  <2>1. /\ n \in Nat /\ l \in Nat /\ d \in Nat
        /\ Minute * (n + f) <= Minute * Limit + (d + l) * Limit
    BY <1>1, <1>2, <1>5, FilledFits
  <2>2. b.age = old /\ b.tokens = (IF ok THEN f - 1 ELSE 0) /\ b # NoBucket
    BY <1>1, <1>2, <1>3, <1>4 DEF NoBucket
  <2>3. within'[k][d] + b.tokens = n + f
    <3>1. CASE ok
      <4>1. within'[k][d] = n + 1 /\ b.tokens = f - 1
        BY <1>7, <2>2, <3>1
      <4>2. QED
        BY <1>4, <2>1, <4>1
    <3>2. CASE ~ok
      <4>1. within'[k][d] = n /\ b.tokens = 0
        BY <1>7, <2>2, <3>2
      <4>2. QED
        BY <1>4, <2>1, <3>2, <4>1
    <3>3. QED
      BY <3>1, <3>2
  <2>4. late'[k][d] = l + old
    BY <1>6
  <2> HIDE DEF b, n, l, f
  <2>5. (d + (l + old)) - old = d + l
    BY <1>5, <2>1
  <2>6. old <= d + (l + old) /\ old <= d + MaxLate
    <3>1. old <= d + (l + old)
      BY <1>5, <2>1
    <3>2. old <= MaxLate /\ d >= 0 /\ d \in Int /\ MaxLate \in Int /\ old \in Int
      BY <1>1, <1>2, <1>5, <2>1
    <3>3. old <= d + MaxLate
      BY <3>2
    <3>4. QED
      BY <3>1, <3>3
  <2>7. QED
    BY <2>1, <2>2, <2>3, <2>4, <2>5, <2>6 DEF Fits, b
<1>10. ASSUME NEW x \in RateKey \ {k}, NEW d \in 0 .. Minute - 1
       PROVE  Fits(bucket'[x], within'[x][d], late'[x][d], d)
  <2>1. Fits(bucket[x], within[x][d], late[x][d], d)
    BY DEF RateInv, AllFit
  <2>2. within'[x] = within[x] /\ late'[x] = late[x]
    BY <1>6, <1>7
  <2>3. CASE x \in KeptBuckets(old)
    BY <1>3, <2>1, <2>2, <2>3
  <2>4. CASE x \notin KeptBuckets(old)
    <3>1. within[x][d] = 0
      BY <1>2, <2>4, RemovedHasNone
    <3>2. QED
      BY <2>2, <3>1 DEF Fits
  <2>5. QED
    BY <2>3, <2>4
<1>11. AllFit'
  BY <1>9, <1>10 DEF AllFit
<1>12. QED
  BY <1>8, <1>11 DEF RateInv

\* So does a reading of the clock.
LEMMA ClockKeepsInv ==
  ASSUME RateInv, NEW q \in RateRequest, NEW k \in RateKey, ReadClock(q, k)
  PROVE  RateInv'
<1>1. [key |-> k, old |-> 0] \in OnItsWay
  BY RateAssumption DEF OnItsWay
<1>2. QED
  BY <1>1 DEF ReadClock, RateInv, RateTypeOK, AllFit

\* A history, a tick later.
LEMMA ShiftedType ==
  ASSUME NEW h \in [RateKey -> [0 .. Minute - 1 -> Nat]]
  PROVE  /\ Shifted(h) \in [RateKey -> [0 .. Minute - 1 -> Nat]]
         /\ \A k \in RateKey : \A d \in 0 .. Minute - 1 :
              Shifted(h)[k][d] = IF d = 0 THEN 0 ELSE h[k][d - 1]
<1>1. \A k \in RateKey : \A d \in 0 .. Minute - 1 :
        (IF d = 0 THEN 0 ELSE h[k][d - 1]) \in Nat
  <2>1. \A d \in 0 .. Minute - 1 : d # 0 => d - 1 \in 0 .. Minute - 1
    BY RateAssumption
  <2>2. QED
    BY <2>1
<1>2. QED
  BY <1>1 DEF Shifted

\* So does a tick: each stretch is what the one before it was.
LEMMA TickKeepsInv ==
  ASSUME RateInv, Tick
  PROVE  RateInv'
<1>1. /\ Minute \in Nat \ {0} /\ Limit \in Nat \ {0} /\ MaxAge \in Nat /\ MaxLate \in Nat
      /\ MaxAge >= Minute + MaxLate
  BY RateAssumption
<1>2. ASSUME NEW k \in RateKey, bucket[k] # NoBucket
      PROVE  /\ bucket[k] \in Bucket /\ bucket'[k].tokens = bucket[k].tokens
             /\ bucket'[k].age = IF bucket[k].age + 1 < MaxAge THEN bucket[k].age + 1 ELSE MaxAge
             /\ bucket'[k] \in Bucket /\ bucket'[k] # NoBucket
  <2>1. bucket[k] \in Bucket
    BY <1>2 DEF RateInv, RateTypeOK
  <2>2. bucket'[k] = [bucket[k] EXCEPT !.age = Capped(bucket[k].age + 1, MaxAge)]
    BY <1>2 DEF Tick
  <2>3. /\ bucket'[k].tokens = bucket[k].tokens
        /\ bucket'[k].age = Capped(bucket[k].age + 1, MaxAge)
    BY <2>1, <2>2 DEF Bucket
  <2>4. bucket'[k] \in Bucket
    BY <1>1, <2>1, <2>2 DEF Bucket, Capped
  <2>5. bucket'[k] # NoBucket
    BY <2>1, <2>3 DEF NoBucket, Bucket
  <2>6. QED
    BY <2>1, <2>3, <2>4, <2>5 DEF Capped
<1>3. ASSUME NEW k \in RateKey, bucket[k] = NoBucket
      PROVE  bucket'[k] = NoBucket
  BY <1>3 DEF Tick
<1>4. within' = Shifted(within) /\ late' = Shifted(late)
      /\ within \in [RateKey -> [0 .. Minute - 1 -> Nat]]
      /\ late \in [RateKey -> [0 .. Minute - 1 -> Nat]]
  BY DEF Tick, RateInv, RateTypeOK
<1>5. RateTypeOK'
  <2>1. \A k \in RateKey : bucket'[k] \in Bucket \cup {NoBucket}
    BY <1>2, <1>3
  <2>2. bucket' = [k \in RateKey |-> bucket'[k]]
    BY DEF Tick
  <2>3. ASSUME NEW q \in RateRequest, check[q] # NoCheck
        PROVE  [check[q] EXCEPT !.old = @ + 1] \in OnItsWay
    <3>1. check[q] \in OnItsWay /\ check[q].old < MaxLate
      BY <2>3 DEF Tick, RateInv, RateTypeOK
    <3>2. QED
      BY <1>1, <3>1 DEF OnItsWay
  <2>4. check' \in [RateRequest -> OnItsWay \cup {NoCheck}]
    BY <2>3 DEF Tick
  <2>5. QED
    BY <1>4, <2>1, <2>2, <2>4, ShiftedType DEF RateTypeOK
<1>6. ASSUME NEW k \in RateKey, NEW d \in 0 .. Minute - 1, within'[k][d] # 0
      PROVE  Fits(bucket'[k], within'[k][d], late'[k][d], d)
  <2> DEFINE n == within[k][d - 1]
             l == late[k][d - 1]
             b == bucket[k]
             c == bucket'[k]
  <2>1. d # 0 /\ within'[k][d] = n /\ late'[k][d] = l /\ n # 0
    BY <1>4, <1>6, ShiftedType
  <2>2. d \in Nat /\ d - 1 \in 0 .. Minute - 1
    BY <1>1, <2>1
  <2>3. n \in Nat /\ l \in Nat
    BY <1>4, <2>2
  <2>4. Fits(b, n, l, d - 1)
    BY <2>2 DEF RateInv, AllFit
  <2>5. /\ b # NoBucket /\ b.age <= (d - 1) + l /\ b.age <= (d - 1) + MaxLate
        /\ Minute * (n + b.tokens) <= Minute * Limit + (((d - 1) + l) - b.age) * Limit
    BY <2>1, <2>4 DEF Fits
  <2>6. /\ b.tokens \in Nat /\ b.age \in 0 .. MaxAge /\ c # NoBucket /\ c.tokens = b.tokens
        /\ c.age = IF b.age + 1 < MaxAge THEN b.age + 1 ELSE MaxAge
    BY <1>1, <1>2, <2>5 DEF Bucket
  <2> HIDE DEF n, l, b, c
  <2>7. c.age = b.age + 1
    BY <1>1, <2>2, <2>5, <2>6
  <2>8. ((d - 1) + l) - b.age = (d + l) - c.age
    BY <2>2, <2>3, <2>6, <2>7
  <2>9. c.age <= d + l /\ c.age <= d + MaxLate
    BY <1>1, <2>2, <2>3, <2>5, <2>6, <2>7
  <2>10. QED
    BY <2>1, <2>5, <2>6, <2>8, <2>9 DEF Fits, c
<1>7. AllFit'
  BY <1>6 DEF AllFit, Fits
<1>8. QED
  BY <1>5, <1>7 DEF RateInv

\* Every step keeps the invariant.
LEMMA RateStepInv == RateInv /\ [RateNext]_rateVars => RateInv'
<1>1. RateInv /\ UNCHANGED rateVars => RateInv'
  BY DEF rateVars, RateInv, RateTypeOK, AllFit
<1>2. QED
  BY <1>1, CheckKeepsInv, ClockKeepsInv, TickKeepsInv DEF RateNext

\* The invariant gives the bound on the longest stretch, a minute.
LEMMA MinuteIsBounded ==
  ASSUME RateInv, NEW k \in RateKey
  PROVE  Minute * within[k][Minute - 1]
           <= Minute * Limit + (Minute - 1 + late[k][Minute - 1]) * Limit
<1> DEFINE n == within[k][Minute - 1]
           l == late[k][Minute - 1]
           b == bucket[k]
<1>1. /\ Minute \in Nat \ {0} /\ Limit \in Nat \ {0}
  BY RateAssumption
<1>2. Minute - 1 \in 0 .. Minute - 1
  BY <1>1
<1>3. n \in Nat /\ l \in Nat /\ Fits(b, n, l, Minute - 1)
  BY <1>2 DEF RateInv, RateTypeOK, AllFit
<1>4. b = NoBucket \/ b \in Bucket
  BY DEF RateInv, RateTypeOK
<1>5. Minute * Limit \in Nat /\ (Minute - 1 + l) * Limit \in Nat
  <2> HIDE DEF l
  <2>1. Minute - 1 + l \in Nat
    BY <1>1, <1>3
  <2>2. QED
    BY <1>1, <2>1
<1>6. CASE n = 0
  <2>1. Minute * n = 0
    BY <1>1, <1>6
  <2>2. QED
    BY <1>5, <2>1
<1>7. CASE n # 0
  <2>1. /\ b # NoBucket /\ Minute * (n + b.tokens) <= Minute * Limit + ((Minute - 1 + l) - b.age) * Limit
    BY <1>3, <1>7 DEF Fits
  <2>2. b.tokens \in Nat /\ b.age \in Nat
    BY <1>1, <1>4, <2>1, RateAssumption DEF Bucket
  <2> HIDE DEF n, l, b
  <2>3. Minute * n <= Minute * (n + b.tokens)
    BY <1>1, <1>3, <2>2, Times
  <2>4. (Minute - 1 + l) * Limit = ((Minute - 1 + l) - b.age) * Limit + b.age * Limit
    BY <1>1, <1>3, <2>2
  <2>5. b.age * Limit \in Nat
    BY <1>1, <2>2
  <2>6. /\ Minute * n \in Int /\ Minute * (n + b.tokens) \in Int
        /\ ((Minute - 1 + l) - b.age) * Limit \in Int
    BY <1>1, <1>3, <2>2
  <2>7. Minute * n <= Minute * Limit + (Minute - 1 + l) * Limit
    BY <1>5, <2>1, <2>3, <2>4, <2>5, <2>6
  <2>8. QED
    BY <2>7 DEF n, l
<1>8. QED
  BY <1>6, <1>7

\* RateLimiter::check: no minute, wherever it starts, lets through more than a full
\* bucket and what comes back in it, the time its checks were late included.
THEOREM BurstAlwaysBounded == RateSpec => []BurstIsBounded
<1>1. RateInv => BurstIsBounded
  BY MinuteIsBounded DEF BurstIsBounded
<1>2. QED
  BY <1>1, RateInitInv, RateStepInv, PTL DEF RateSpec
=============================================================================
