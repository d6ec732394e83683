----------------------------- MODULE DbUpgrade -----------------------------
(***************************************************************************)
(* The data upgrades of the database (pp-db upgrade.rs).  Whatever opens   *)
(* the database, the Hub when it starts or `proxy-panel init-db`, runs the *)
(* steps between the version recorded in system_meta, read once, and its   *)
(* own, records the version of each step after it, and its own at the end. *)
(* No transaction holds these statements together.                         *)
(***************************************************************************)
EXTENDS Naturals, FiniteSets

CONSTANTS Opener,    \* processes that open the database
          Version,   \* releases that open it
          Step,      \* the release that introduced each step (UPGRADE_STEPS)
          Baseline,  \* LEGACY_BASELINE_VERSION
          NoRow,     \* system_meta has no app_version
          MaxOpens   \* bound: openings

ASSUME VersionAssumption ==
  /\ Version \subseteq Nat /\ Step \subseteq Nat /\ Baseline \in Nat /\ MaxOpens \in Nat
  /\ NoRow \notin Nat

VARIABLES stored,    \* app_version
          opening,   \* opener -> how far run_versioned_upgrades has come
          ran,       \* history: step -> how often it ran to its end
          opens,     \* counter of MaxOpens
          causes     \* history: why a step may run again

dbUpVars == <<stored, opening, ran, opens, causes>>

Closed == [pc |-> "closed", app |-> Baseline, at |-> Baseline, own |-> FALSE, row |-> FALSE]

DbUpInit ==
  /\ stored \in Version \cup {NoRow}
  /\ opening = [o \in Opener |-> Closed]
  /\ ran = [s \in Step |-> IF stored # NoRow /\ s <= stored THEN 1 ELSE 0]
  /\ opens = 0 /\ causes = {}

Is(o, pc) == opening[o].pc = pc
Now(o, r) == opening' = [opening EXCEPT ![o] = r]

\* run_versioned_upgrades: the version is read, or taken for the baseline.
OpenDb(o, v) ==
  /\ Is(o, "closed") /\ opens < MaxOpens /\ opens' = opens + 1
  /\ Now(o, [Closed EXCEPT !.pc = "steps", !.app = v,
                           !.at = IF stored = NoRow THEN Baseline ELSE stored])
  /\ causes' = causes \cup (IF \E x \in Opener : ~Is(x, "closed") THEN {"together"} ELSE {})
  /\ UNCHANGED <<stored, ran>>

\* UPGRADE_STEPS is in ascending order, so the next step due is the least.
Due(o) == {s \in Step : opening[o].at < s /\ s <= opening[o].app}
ToStep(o, s) ==
  /\ Is(o, "steps") /\ s \in Due(o) /\ \A t \in Due(o) : s <= t
  /\ Now(o, [opening[o] EXCEPT !.pc = "ran", !.at = s])

\* Variant: the version is recorded before the step has run.
RecordFirst(o, s) ==
  /\ ToStep(o, s) /\ stored' = s
  /\ UNCHANGED <<ran, opens, causes>>

RunStep(o, s) ==
  /\ ToStep(o, s) /\ ran' = [ran EXCEPT ![s] = @ + 1]
  /\ UNCHANGED <<stored, opens, causes>>

\* No step is left: the version is read again, and recorded if it is another.
Conclude(o) ==
  /\ Is(o, "steps") /\ Due(o) = {}
  /\ Now(o, IF stored = opening[o].app THEN Closed
            ELSE [opening[o] EXCEPT !.pc = "ran", !.at = opening[o].app, !.own = TRUE])
  /\ UNCHANGED <<stored, ran, opens, causes>>

\* set_system_version: the row is looked up, and then updated or inserted.
LookUp(o) ==
  /\ Is(o, "ran")
  /\ Now(o, [opening[o] EXCEPT !.pc = "looked", !.row = (stored # NoRow)])
  /\ UNCHANGED <<stored, ran, opens, causes>>

\* An insertion after another opener's violates the key; the error ends this one.
Record(o) ==
  LET refused == ~opening[o].row /\ stored # NoRow
  IN  /\ Is(o, "looked")
      /\ stored' = IF refused THEN stored ELSE opening[o].at
      /\ Now(o, IF refused \/ opening[o].own THEN Closed
                ELSE [opening[o] EXCEPT !.pc = "steps"])
      /\ causes' = causes \cup
           (IF ~refused /\ stored # NoRow /\ stored > stored' THEN {"lowered"} ELSE {})
      /\ UNCHANGED <<ran, opens>>

\* The process ends or a statement fails, at any point.
CutShort(o) ==
  /\ ~Is(o, "closed")
  /\ Now(o, Closed)
  /\ causes' = causes \cup (IF opening[o].pc \in {"ran", "looked"} THEN {"cut"} ELSE {})
  /\ UNCHANGED <<stored, ran, opens>>

DbUpNext ==
  \E o \in Opener :
    \/ \E v \in Version : OpenDb(o, v)
    \/ \E s \in Step : RunStep(o, s)
    \/ Conclude(o) \/ LookUp(o) \/ Record(o) \/ CutShort(o)

DbUpSpec == DbUpInit /\ [][DbUpNext]_dbUpVars
-----------------------------------------------------------------------------
Opening == [pc : {"closed", "steps", "ran", "looked"}, app : Version \cup {Baseline},
            at : Version \cup Step \cup {Baseline}, own : BOOLEAN, row : BOOLEAN]
DbUpTypeOK ==
  /\ stored \in Version \cup Step \cup {Baseline, NoRow}
  /\ opening \in [Opener -> Opening]
  /\ ran \in [Step -> Nat] /\ opens \in 0..MaxOpens
  /\ causes \subseteq {"together", "lowered", "cut"}

\* No step is missed: the recorded version says nothing of a step that has not
\* run, whoever recorded it, however many openers there were and however they
\* ended (run_versioned_upgrades records after it runs).
NothingMissed ==
  stored # NoRow => \A s \in Step : Baseline < s /\ s <= stored => ran[s] > 0

\* A step runs once, unless an opener ended between a step and its record, two
\* had the database open together, or an older release lowered the version.
RunsOnce == causes = {} => \A s \in Step : ran[s] <= 1

\* The upgrade of a database is complete, and nothing is done to it twice that
\* run_versioned_upgrades could know of.
EachStepOnce == NothingMissed /\ RunsOnce
=============================================================================
