------------------------------ MODULE ApiKeys ------------------------------
(***************************************************************************)
(* An API key of the Hub: its row, that the panel edits                    *)
(* (routes/api_key.rs), and the cache of verified keys in front of the     *)
(* rows (middleware/api_key.rs, ApiKeyCache of state.rs), which spares a   *)
(* request the search through every row's Argon2 hash.  Requests and edits *)
(* run at once; between an edit of the row and the invalidation of the     *)
(* cache, and between a search and the insertion of its result, anything   *)
(* may happen.  The edits of other keys matter to this one only because    *)
(* they empty the cache too.                                               *)
(*                                                                         *)
(* A row is its edition: name, scopes, addresses and limit differ from one *)
(* edition to the next, and what a request may do is of one edition.       *)
(***************************************************************************)
EXTENDS Naturals

CONSTANTS ApiRequest, KeyEditor,
          MaxEditions \* bound: editions of the row

ASSUME KeyAssumption == MaxEditions \in Nat

VARIABLES keyRow,    \* the row: edition 0 is none
          cached,    \* the entry of the cache: edition 0 is none
          keyCall,   \* request -> stage, and the edition it works with
          editing,   \* editor -> stage, and the edition it wrote (0: another key's)
          settled,   \* history: the last edition that an invalidation has followed
          newest,    \* history: the last edition, deletions counted
          expected   \* history: request -> the settled edition when it began

keyVars == <<keyRow, cached, keyCall, editing, settled, newest, expected>>

\* An entry is old when it is past its TTL of an hour, and late when the search
\* it comes from had read the row before the last invalidation.
NoEntry == [edition |-> 0, old |-> FALSE, late |-> FALSE]
NoRequest == [at |-> "idle", edition |-> 0, late |-> FALSE]
NoKeyEdit == [at |-> "idle", edition |-> 0]
RowOf(n, active) == [edition |-> n, active |-> active]
NoKeyRow == RowOf(0, FALSE)

KeyInit ==
  /\ keyRow = NoKeyRow /\ cached = NoEntry
  /\ keyCall = [r \in ApiRequest |-> NoRequest]
  /\ editing = [e \in KeyEditor |-> NoKeyEdit]
  /\ newest = 0 /\ settled = 0
  /\ expected = [r \in ApiRequest |-> 0]

(***************************************************************************)
(* require_api_key                                                         *)
(***************************************************************************)
Hit == cached.edition # 0 /\ ~cached.old

\* The key is in the cache: the request runs with what the entry says.
RequestHit(r) ==
  /\ keyCall[r].at = "idle" /\ Hit
  /\ keyCall' = [keyCall EXCEPT ![r] =
       [at |-> "served", edition |-> cached.edition, late |-> cached.late]]
  /\ expected' = [expected EXCEPT ![r] = settled]
  /\ UNCHANGED <<keyRow, cached, editing, settled, newest>>

\* It is not: the active rows are read, one after another is verified.
RequestMiss(r) ==
  /\ keyCall[r].at = "idle" /\ ~Hit /\ keyRow.active
  /\ keyCall' = [keyCall EXCEPT ![r] =
       [at |-> "verify", edition |-> keyRow.edition, late |-> FALSE]]
  /\ expected' = [expected EXCEPT ![r] = settled]
  /\ UNCHANGED <<keyRow, cached, editing, settled, newest>>

\* The verification has matched: what it read goes into the cache and is served.
RequestVerified(r) ==
  LET q == keyCall[r] IN
  /\ q.at = "verify"
  /\ cached' = [edition |-> q.edition, old |-> FALSE, late |-> q.late]
  /\ keyCall' = [keyCall EXCEPT ![r] =
       [at |-> "served", edition |-> q.edition, late |-> q.late]]
  /\ UNCHANGED <<keyRow, editing, settled, newest, expected>>

\* The request is over: answered, or refused for its address or its limit,
\* which a search does before the insertion and a hit before it serves.
RequestEnds(r) ==
  /\ keyCall[r].at \in {"verify", "served"}
  /\ keyCall' = [keyCall EXCEPT ![r] = NoRequest]
  /\ expected' = [expected EXCEPT ![r] = 0]
  /\ UNCHANGED <<keyRow, cached, editing, settled, newest>>

\* An hour passes: get filters the entry.
EntryAges ==
  /\ Hit /\ cached' = [cached EXCEPT !.old = TRUE]
  /\ UNCHANGED <<keyRow, keyCall, editing, settled, newest, expected>>

\* A request finds its key, this one or another, past its own expiry: the request
\* is refused and every entry removed.
ExpiredHit ==
  /\ cached # NoEntry /\ cached' = NoEntry
  /\ UNCHANGED <<keyRow, keyCall, editing, settled, newest, expected>>

(***************************************************************************)
(* create_key, update_key, delete_key: the row, then the cache.            *)
(***************************************************************************)
\* The row becomes another edition, and its editor has the cache to invalidate.
WriteRow(e, row) ==
  /\ newest < MaxEditions
  /\ keyRow' = row /\ newest' = newest + 1
  /\ editing' = [editing EXCEPT ![e] = [at |-> "invalidate", edition |-> newest + 1]]
  /\ UNCHANGED <<cached, keyCall, settled, expected>>

CreateKey(e) ==
  /\ editing[e].at = "idle" /\ newest = 0 /\ WriteRow(e, RowOf(1, TRUE))

\* update_key finds the row; the columns that the payload names are set.
UpdateFinds(e) ==
  /\ editing[e].at = "idle" /\ keyRow # NoKeyRow
  /\ editing' = [editing EXCEPT ![e] = [at |-> "update", edition |-> 0]]
  /\ UNCHANGED <<keyRow, cached, keyCall, settled, newest, expected>>

UpdateRow(e, active) ==
  /\ editing[e].at = "update" /\ keyRow # NoKeyRow
  /\ WriteRow(e, RowOf(newest + 1, active))

\* The update of a row that has gone fails, and nothing is invalidated.
UpdateFails(e) ==
  /\ editing[e].at = "update" /\ keyRow = NoKeyRow
  /\ editing' = [editing EXCEPT ![e] = NoKeyEdit]
  /\ UNCHANGED <<keyRow, cached, keyCall, settled, newest, expected>>

\* A deletion that finds no row is answered with "not found" and does nothing.
DeleteKey(e) ==
  /\ editing[e].at = "idle" /\ keyRow # NoKeyRow /\ WriteRow(e, NoKeyRow)

\* Another key was created, changed or deleted.
EditOther(e) ==
  /\ editing[e].at = "idle"
  /\ editing' = [editing EXCEPT ![e] = [at |-> "invalidate", edition |-> 0]]
  /\ UNCHANGED <<keyRow, cached, keyCall, settled, newest, expected>>

\* Whoever searches at an invalidation has read before it.
Overtaken(q) == IF q.at = "verify" THEN [q EXCEPT !.late = TRUE] ELSE q

\* Variant: only an entry that is past its time is removed.
InvalidateOld(e) ==
  /\ editing[e].at = "invalidate"
  /\ cached' = IF cached.old THEN NoEntry ELSE cached
  /\ keyCall' = [r \in ApiRequest |-> Overtaken(keyCall[r])]
  /\ settled' = IF settled < editing[e].edition THEN editing[e].edition ELSE settled
  /\ editing' = [editing EXCEPT ![e] = NoKeyEdit]
  /\ UNCHANGED <<keyRow, newest, expected>>

\* invalidate: every entry is removed.
Invalidate(e) ==
  /\ editing[e].at = "invalidate"
  /\ cached' = NoEntry
  /\ keyCall' = [r \in ApiRequest |-> Overtaken(keyCall[r])]
  /\ settled' = IF settled < editing[e].edition THEN editing[e].edition ELSE settled
  /\ editing' = [editing EXCEPT ![e] = NoKeyEdit]
  /\ UNCHANGED <<keyRow, newest, expected>>

KeyNext ==
  \/ \E r \in ApiRequest : \/ RequestHit(r) \/ RequestMiss(r)
                           \/ RequestVerified(r) \/ RequestEnds(r)
  \/ EntryAges \/ ExpiredHit
  \/ \E e \in KeyEditor : \/ CreateKey(e) \/ UpdateFinds(e) \/ UpdateFails(e)
                          \/ DeleteKey(e) \/ EditOther(e) \/ Invalidate(e)
                          \/ \E active \in BOOLEAN : UpdateRow(e, active)

KeySpec == KeyInit /\ [][KeyNext]_keyVars

(***************************************************************************)
(* What an edit of a key is worth to the requests that follow it.          *)
(***************************************************************************)
\* Once an edit or a deletion has been answered (the invalidation is its last
\* step), a request that begins later is served what the row says since, with
\* one exception: the entry comes from a search that had read the row before an
\* invalidation and finished after it.
EditsAreSeen ==
  \A r \in ApiRequest :
    keyCall[r].at = "served" /\ ~keyCall[r].late => keyCall[r].edition >= expected[r]
=============================================================================
