------------------------- MODULE HostProgramsProofs -------------------------
(***************************************************************************)
(* Proofs about two of the programs of a machine: the database the Hub     *)
(* opens and upgrades, and the core process of an Agent.  They share no state. *)
(***************************************************************************)
EXTENDS DbUpgrade, CoreProcess, TLAPS

-----------------------------------------------------------------------------
(***************************************************************************)
(* DbUpgrade.  That no data upgrade is missed, nor run twice without one of *)
(* the causes that RunsOnce names, for any openers, releases and steps.    *)
(* NothingMissed is not inductive: the version an opener goes on to record *)
(* is the one it has come to, so of that version, too, it must be known    *)
(* that all steps up to it have run.                                       *)
(***************************************************************************)
\* Of the counts r: every step that Baseline does not cover has run, up to v.
RunUpTo(v, r) == \A s \in Step : Baseline < s /\ s <= v => r[s] > 0

\* Of the version an opener has come to, too, all steps have run.
ReachedHaveRun == \A o \in Opener : RunUpTo(opening[o].at, ran)

\* The inductive invariant of NothingMissed.
DbUpInv == DbUpTypeOK /\ NothingMissed /\ ReachedHaveRun

\* run_versioned_upgrades, set_system_version and an opener that ends keep the
\* record and the opener's locals within their types.
LEMMA DbUpTypeStep == DbUpTypeOK /\ [DbUpNext]_dbUpVars => DbUpTypeOK'
<1> SUFFICES ASSUME DbUpTypeOK, [DbUpNext]_dbUpVars PROVE DbUpTypeOK'
  OBVIOUS
<1> USE VersionAssumption
<1>0. ASSUME NEW o \in Opener, NEW r \in Opening, Now(o, r)
      PROVE  opening' \in [Opener -> Opening]
  BY <1>0 DEF Now, DbUpTypeOK
<1>a. ASSUME NEW o \in Opener
      PROVE  /\ opening[o] \in Opening /\ Closed \in Opening
             /\ opening[o].at \in Version \union Step \union {Baseline}
             /\ opening[o].app \in Version \union {Baseline}
  BY DEF DbUpTypeOK, Opening, Closed
<1>1. ASSUME NEW o \in Opener, NEW v \in Version, OpenDb(o, v) PROVE DbUpTypeOK'
  <2>1. [Closed EXCEPT !.pc = "steps", !.app = v,
                       !.at = IF stored = NoRow THEN Baseline ELSE stored] \in Opening
    BY DEF Closed, Opening, DbUpTypeOK
  <2>2. opening' \in [Opener -> Opening]
    BY <1>0, <1>1, <2>1 DEF OpenDb
  <2> QED BY <1>1, <2>2 DEF OpenDb, DbUpTypeOK
<1>2. ASSUME NEW o \in Opener, NEW s \in Step, RunStep(o, s) PROVE DbUpTypeOK'
  <2>1. [opening[o] EXCEPT !.pc = "ran", !.at = s] \in Opening
    BY <1>a DEF Opening
  <2>2. opening' \in [Opener -> Opening]
    BY <1>0, <1>2, <2>1 DEF RunStep, ToStep
  <2> QED BY <1>2, <2>2 DEF RunStep, DbUpTypeOK
<1>3. ASSUME NEW o \in Opener, Conclude(o) PROVE DbUpTypeOK'
  <2>1. [opening[o] EXCEPT !.pc = "ran", !.at = opening[o].app, !.own = TRUE] \in Opening
    BY <1>a DEF Opening
  <2>2. opening' \in [Opener -> Opening]
    BY <1>0, <1>a, <1>3, <2>1 DEF Conclude
  <2> QED BY <1>3, <2>2 DEF Conclude, DbUpTypeOK
<1>4. ASSUME NEW o \in Opener, LookUp(o) PROVE DbUpTypeOK'
  <2>1. [opening[o] EXCEPT !.pc = "looked", !.row = (stored # NoRow)] \in Opening
    BY <1>a DEF Opening
  <2>2. opening' \in [Opener -> Opening]
    BY <1>0, <1>4, <2>1 DEF LookUp
  <2> QED BY <1>4, <2>2 DEF LookUp, DbUpTypeOK
<1>5. ASSUME NEW o \in Opener, Record(o) PROVE DbUpTypeOK'
  <2>1. [opening[o] EXCEPT !.pc = "steps"] \in Opening
    BY <1>a DEF Opening
  <2>2. opening' \in [Opener -> Opening]
    BY <1>0, <1>a, <1>5, <2>1 DEF Record
  <2> QED BY <1>a, <1>5, <2>2 DEF Record, DbUpTypeOK
<1>6. ASSUME NEW o \in Opener, CutShort(o) PROVE DbUpTypeOK'
  <2>1. opening' \in [Opener -> Opening]
    BY <1>0, <1>a, <1>6 DEF CutShort
  <2> QED BY <1>6, <2>1 DEF CutShort, DbUpTypeOK
<1>7. CASE UNCHANGED dbUpVars
  BY <1>7 DEF dbUpVars, DbUpTypeOK
<1> QED BY <1>1, <1>2, <1>3, <1>4, <1>5, <1>6, <1>7 DEF DbUpNext

\* A run is never taken back, so what has run up to a version stays so.
LEMMA RunsAreKept ==
  ASSUME DbUpTypeOK, [DbUpNext]_dbUpVars
  PROVE  \A v \in Nat : RunUpTo(v, ran) => RunUpTo(v, ran')
<1>1. CASE UNCHANGED ran
  BY <1>1
<1>2. ASSUME NEW o \in Opener, NEW s \in Step, RunStep(o, s)
      PROVE  \A t \in Step : ran[t] > 0 => ran'[t] > 0
  BY <1>2 DEF RunStep, DbUpTypeOK
<1> QED BY <1>1, <1>2
     DEF RunUpTo, DbUpNext, dbUpVars, OpenDb, Conclude, LookUp, Record, CutShort

\* The loop over UPGRADE_STEPS leaves no step out: what is due next is the least,
\* and when nothing is due all steps of this release have run.
LEMMA ReachedStep == DbUpInv /\ [DbUpNext]_dbUpVars => ReachedHaveRun'
<1> SUFFICES ASSUME DbUpInv, [DbUpNext]_dbUpVars, NEW x \in Opener
             PROVE  RunUpTo(opening'[x].at, ran')
  BY DEF ReachedHaveRun
<1> USE VersionAssumption DEF DbUpInv
<1> DEFINE Kept == {opening[x].at, Baseline} \union (IF stored = NoRow THEN {} ELSE {stored})
<1>1. \A v \in Kept : v \in Nat /\ RunUpTo(v, ran)
  BY DEF ReachedHaveRun, NothingMissed, RunUpTo, DbUpTypeOK, Opening
<1>2. CASE opening'[x].at \in Kept
  BY <1>1, <1>2, RunsAreKept
<1>3. /\ opening \in [Opener -> Opening] /\ ran \in [Step -> Nat]
      /\ opening[x] \in Opening /\ opening[x].at \in Nat /\ opening[x].app \in Nat
  BY DEF DbUpTypeOK, Opening
<1>4. ASSUME NEW o \in Opener, NEW v \in Version, OpenDb(o, v)
      PROVE  opening'[x].at \in Kept
  BY <1>3, <1>4 DEF OpenDb, Now, Closed
<1>5. ASSUME NEW o \in Opener, NEW s \in Step, RunStep(o, s)
      PROVE  RunUpTo(opening'[x].at, ran')
  <2>1. CASE x # o
    BY <1>2, <1>3, <1>5, <2>1 DEF RunStep, ToStep, Now
  <2>2. CASE x = o
    <3>1. opening'[x].at = s
      BY <1>3, <1>5, <2>2 DEF RunStep, ToStep, Now, Opening
    <3>2. SUFFICES ASSUME NEW t \in Step, Baseline < t, t <= s PROVE ran'[t] > 0
      BY <3>1 DEF RunUpTo
    <3>3. CASE t <= opening[x].at
      BY <1>1, <1>3, <1>5, <3>2, <3>3 DEF RunUpTo, RunStep
    <3>4. CASE ~(t <= opening[x].at)
      <4>1. t \in Due(o) /\ t = s
        BY <1>3, <1>5, <2>2, <3>2, <3>4 DEF RunStep, ToStep, Due
      <4> QED BY <1>3, <1>5, <4>1 DEF RunStep
    <3> QED BY <3>3, <3>4
  <2> QED BY <2>1, <2>2
<1>6. ASSUME NEW o \in Opener, Conclude(o) PROVE RunUpTo(opening'[x].at, ran')
  <2>1. \/ opening'[x].at \in Kept
        \/ x = o /\ opening'[x].at = opening[x].app
    BY <1>3, <1>6 DEF Conclude, Now, Closed, Opening
  <2>2. CASE x = o /\ opening'[x].at = opening[x].app
    <3>1. RunUpTo(opening[x].app, ran)
      BY <1>1, <1>3, <1>6, <2>2 DEF Conclude, RunUpTo, Due
    <3> QED BY <1>3, <2>2, <3>1, RunsAreKept
  <2> QED BY <1>2, <2>1, <2>2
<1>7. ASSUME NEW o \in Opener, LookUp(o) PROVE opening'[x].at \in Kept
  BY <1>3, <1>7 DEF LookUp, Now, Opening
<1>8. ASSUME NEW o \in Opener, Record(o) PROVE opening'[x].at \in Kept
  BY <1>3, <1>8 DEF Record, Now, Closed, Opening
<1>9. ASSUME NEW o \in Opener, CutShort(o) PROVE opening'[x].at \in Kept
  BY <1>3, <1>9 DEF CutShort, Now, Closed
<1>10. CASE UNCHANGED dbUpVars
  BY <1>2, <1>10 DEF dbUpVars
<1> QED BY <1>2, <1>4, <1>5, <1>6, <1>7, <1>8, <1>9, <1>10 DEF DbUpNext

\* set_system_version records only what its opener has come to.
LEMMA MissedStep == DbUpInv /\ [DbUpNext]_dbUpVars => NothingMissed'
<1> SUFFICES ASSUME DbUpInv, [DbUpNext]_dbUpVars, stored' # NoRow
             PROVE  RunUpTo(stored', ran')
  BY DEF NothingMissed, RunUpTo
<1> USE VersionAssumption DEF DbUpInv
<1>1. stored' = stored \/ \E o \in Opener : stored' = opening[o].at
  BY DEF DbUpNext, OpenDb, RunStep, Conclude, LookUp, Record, CutShort, dbUpVars
<1>2. stored' \in Nat /\ RunUpTo(stored', ran)
  BY <1>1 DEF ReachedHaveRun, NothingMissed, RunUpTo, DbUpTypeOK, Opening
<1> QED BY <1>2, RunsAreKept

\* It holds of a new database and of an old one.
LEMMA DbUpInvInit == DbUpInit => DbUpInv
<1> SUFFICES ASSUME DbUpInit PROVE DbUpInv
  OBVIOUS
<1> USE VersionAssumption DEF DbUpInit
<1>1. DbUpTypeOK
  BY DEF DbUpTypeOK, Opening, Closed
<1>2. NothingMissed /\ ReachedHaveRun
  BY DEF NothingMissed, ReachedHaveRun, RunUpTo, Closed
<1> QED BY <1>1, <1>2 DEF DbUpInv

\* The invariant of run_versioned_upgrades, of any number of openers at once.
THEOREM DbUpInvariant == DbUpSpec => []DbUpInv
<1>1. DbUpInv /\ [DbUpNext]_dbUpVars => DbUpInv'
  BY DbUpTypeStep, ReachedStep, MissedStep DEF DbUpInv
<1> QED BY DbUpInvInit, <1>1, PTL DEF DbUpSpec

\* No data upgrade is missed: up to the recorded version every step has run,
\* whoever recorded it and however the openers before it ended.
THEOREM NothingIsMissed == DbUpSpec => []NothingMissed
<1>1. DbUpInv => NothingMissed
  BY DEF DbUpInv
<1> QED BY DbUpInvariant, <1>1, PTL

-----------------------------------------------------------------------------
(* As long as openers come one after the other and none is cut between a   *)
(* step and its record, what has run is recorded, or is about to be by the *)
(* only opener there is.                                                   *)

Between(o) == ~Is(o, "closed") /\ ~Is(o, "steps") /\ ~opening[o].own

Alone == \A o, x \in Opener : ~Is(o, "closed") /\ ~Is(x, "closed") => o = x

StartsAtRecord ==
  \A o \in Opener :
    /\ Is(o, "steps") =>
         opening[o].at = (IF stored = NoRow THEN Baseline ELSE stored) /\ ~opening[o].own
    /\ Is(o, "looked") => opening[o].row = (stored # NoRow)

RunIsRecorded ==
  \A s \in Step : ran[s] > 0 =>
    \/ stored # NoRow /\ s <= stored
    \/ \E o \in Opener : Between(o) /\ s <= opening[o].at

\* The inductive invariant of EachStepOnce.
OrderlyInv == causes = {} => Alone /\ StartsAtRecord /\ RunIsRecorded /\ RunsOnce

\* It holds of a new database and of an old one.
LEMMA OrderlyInit == DbUpInit => OrderlyInv
BY VersionAssumption
   DEF DbUpInit, OrderlyInv, Alone, StartsAtRecord, RunIsRecorded, RunsOnce, Closed, Is

\* An opener runs what is recorded up to, one step after the other, so a step
\* that is due has not run.
LEMMA OrderlyStep == DbUpTypeOK /\ OrderlyInv /\ [DbUpNext]_dbUpVars => OrderlyInv'
<1> SUFFICES ASSUME DbUpTypeOK, OrderlyInv, [DbUpNext]_dbUpVars, causes' = {}
             PROVE  /\ Alone' /\ StartsAtRecord'
                    /\ RunIsRecorded' /\ RunsOnce'
  BY DEF OrderlyInv
<1> USE VersionAssumption
<1>0. causes = {}
  BY DEF DbUpNext, OpenDb, RunStep, Conclude, LookUp, Record, CutShort, dbUpVars
<1>1. Alone /\ StartsAtRecord /\ RunIsRecorded /\ \A s \in Step : ran[s] <= 1
  BY <1>0 DEF OrderlyInv, RunsOnce
<1>2. /\ opening \in [Opener -> Opening] /\ ran \in [Step -> Nat]
      /\ \A o \in Opener : /\ opening[o] \in Opening
                            /\ opening[o].at \in Nat /\ opening[o].app \in Nat
      /\ stored # NoRow => stored \in Nat
  BY DEF DbUpTypeOK, Opening
<1>3. ASSUME NEW o \in Opener, NEW v \in Version, OpenDb(o, v)
      PROVE  Alone' /\ StartsAtRecord' /\ RunIsRecorded' /\ RunsOnce'
  <2>1. /\ \A x \in Opener : Is(x, "closed")
        /\ \A x \in Opener \ {o} : opening'[x] = opening[x]
        /\ opening'[o].pc = "steps" /\ ~opening'[o].own
        /\ opening'[o].at = IF stored = NoRow THEN Baseline ELSE stored
        /\ UNCHANGED <<stored, ran>>
    BY <1>0, <1>2, <1>3 DEF OpenDb, Now, Closed
  <2> QED BY <1>1, <2>1
       DEF Alone, StartsAtRecord, RunIsRecorded, RunsOnce, Between, Is
<1>4. ASSUME NEW o \in Opener, NEW s \in Step, RunStep(o, s)
      PROVE  Alone' /\ StartsAtRecord' /\ RunIsRecorded' /\ RunsOnce'
  <2>1. /\ Is(o, "steps") /\ ~opening[o].own
        /\ \A x \in Opener \ {o} : opening'[x] = opening[x] /\ Is(x, "closed")
        /\ opening'[o] = [opening[o] EXCEPT !.pc = "ran", !.at = s]
        /\ ran' = [ran EXCEPT ![s] = @ + 1] /\ stored' = stored
        /\ opening[o].at < s
    BY <1>1, <1>2, <1>4 DEF RunStep, ToStep, Now, Due, Alone, StartsAtRecord, Is
  <2>2. opening'[o].pc = "ran" /\ opening'[o].at = s /\ ~opening'[o].own
    BY <1>2, <2>1 DEF Opening
  <2>3. ran[s] = 0
    <3>1. \A x \in Opener : ~Between(x)
      BY <2>1 DEF Between, Is
    <3>2. stored # NoRow => opening[o].at = stored
      BY <1>1, <2>1 DEF StartsAtRecord
    <3> QED BY <1>1, <1>2, <2>1, <3>1, <3>2 DEF RunIsRecorded
  <2>4. Alone' /\ StartsAtRecord'
    <3>1. \A x \in Opener \ {o} : opening'[x].pc = "closed"
      BY <2>1 DEF Is
    <3>2. Alone'
      BY <3>1 DEF Alone, Is
    <3>3. StartsAtRecord'
      BY <2>2, <3>1 DEF StartsAtRecord, Is
    <3> QED BY <3>2, <3>3
  <2>5. RunsOnce'
    BY <1>1, <1>2, <2>1, <2>3 DEF RunsOnce
  <2>6. RunIsRecorded'
    <3>1. Between(o)'
      BY <2>2 DEF Between, Is
    <3>2. SUFFICES ASSUME NEW t \in Step, ran'[t] > 0
                   PROVE  (stored # NoRow /\ t <= stored) \/ t <= s
      BY <2>1, <2>2, <3>1 DEF RunIsRecorded
    <3>3. CASE t = s
      BY <3>3
    <3>4. CASE t # s
      <4>1. ran[t] > 0
        BY <1>2, <2>1, <3>2, <3>4
      <4>2. \A x \in Opener : ~Between(x)
        BY <2>1 DEF Between, Is
      <4> QED BY <1>1, <4>1, <4>2 DEF RunIsRecorded
    <3> QED BY <3>3, <3>4
  <2> QED BY <2>4, <2>5, <2>6
<1>5. ASSUME NEW o \in Opener, Conclude(o)
      PROVE  Alone' /\ StartsAtRecord' /\ RunIsRecorded' /\ RunsOnce'
  <2>1. /\ Is(o, "steps")
        /\ \A x \in Opener \ {o} : opening'[x] = opening[x] /\ Is(x, "closed")
        /\ UNCHANGED <<stored, ran>>
    BY <1>1, <1>2, <1>5 DEF Conclude, Now, Alone, Is
  <2>2. \/ opening'[o].pc = "closed"
        \/ opening'[o].pc = "ran" /\ opening'[o].own
    BY <1>2, <1>5 DEF Conclude, Now, Closed, Opening
  <2>3. \A x \in Opener : ~Between(x)
    BY <2>1 DEF Between, Is
  <2> QED BY <1>1, <2>1, <2>2, <2>3 DEF Alone, StartsAtRecord, RunIsRecorded, RunsOnce, Is
<1>6. ASSUME NEW o \in Opener, LookUp(o)
      PROVE  Alone' /\ StartsAtRecord' /\ RunIsRecorded' /\ RunsOnce'
  <2>1. /\ Is(o, "ran") /\ UNCHANGED <<stored, ran>>
        /\ \A x \in Opener \ {o} : opening'[x] = opening[x]
        /\ opening'[o].pc = "looked" /\ opening'[o].row = (stored # NoRow)
        /\ opening'[o].at = opening[o].at /\ opening'[o].own = opening[o].own
    BY <1>2, <1>6 DEF LookUp, Now, Opening
  <2>2. \A x \in Opener : Between(x) => Between(x)' /\ opening'[x].at = opening[x].at
    BY <2>1 DEF Between, Is
  <2> QED BY <1>1, <2>1, <2>2 DEF Alone, StartsAtRecord, RunIsRecorded, RunsOnce, Is
<1>7. ASSUME NEW o \in Opener, Record(o)
      PROVE  Alone' /\ StartsAtRecord' /\ RunIsRecorded' /\ RunsOnce'
  <2>1. /\ Is(o, "looked") /\ ran' = ran /\ stored' = opening[o].at
        /\ \A x \in Opener \ {o} : opening'[x] = opening[x] /\ Is(x, "closed")
    BY <1>1, <1>2, <1>7 DEF Record, Now, Alone, StartsAtRecord, Is
  <2>2. \/ opening'[o].pc = "closed"
        \/ /\ opening'[o].pc = "steps" /\ ~opening'[o].own
           /\ opening'[o].at = stored'
    BY <1>1, <1>2, <1>7, <2>1 DEF Record, Now, Closed, Opening, StartsAtRecord
  <2>3. stored' # NoRow
    BY <1>2, <2>1
  <2>4. stored # NoRow => stored <= stored'
    BY <1>0, <1>1, <1>2, <1>7, <2>1 DEF Record, StartsAtRecord
  <2>5. RunIsRecorded'
    <3>1. SUFFICES ASSUME NEW t \in Step, ran[t] > 0 PROVE t <= stored'
      BY <2>1, <2>3 DEF RunIsRecorded
    <3>2. (stored # NoRow /\ t <= stored) \/ t <= opening[o].at
      BY <1>1, <2>1, <3>1 DEF RunIsRecorded, Between
    <3>3. t \in Nat /\ stored' \in Nat
      BY <1>2, <2>1
    <3>4. CASE stored # NoRow /\ t <= stored
      BY <1>2, <2>4, <3>3, <3>4
    <3> QED BY <2>1, <3>2, <3>4
  <2> QED BY <1>1, <2>1, <2>2, <2>3, <2>5 DEF Alone, StartsAtRecord, RunsOnce, Is
<1>8. ASSUME NEW o \in Opener, CutShort(o)
      PROVE  Alone' /\ StartsAtRecord' /\ RunIsRecorded' /\ RunsOnce'
  <2>1. /\ ~Is(o, "ran") /\ ~Is(o, "looked") /\ UNCHANGED <<stored, ran>>
        /\ \A x \in Opener \ {o} : opening'[x] = opening[x]
        /\ opening'[o].pc = "closed"
    BY <1>0, <1>2, <1>8 DEF CutShort, Now, Closed, Is
  <2>2. \A x \in Opener : Between(x) => Between(x)' /\ opening'[x].at = opening[x].at
    BY <1>2, <2>1 DEF Between, Is, Opening
  <2> QED BY <1>1, <2>1, <2>2 DEF Alone, StartsAtRecord, RunIsRecorded, RunsOnce, Is
<1>9. CASE UNCHANGED dbUpVars
  BY <1>1, <1>9 DEF dbUpVars, Alone, StartsAtRecord, RunIsRecorded, RunsOnce, Between, Is
<1> QED BY <1>3, <1>4, <1>5, <1>6, <1>7, <1>8, <1>9 DEF DbUpNext

\* run_versioned_upgrades runs every step that the recorded version covers, and
\* runs it once as long as openers neither overlap nor end between a step and its
\* record, and no older release lowers the version.
THEOREM EachStepRunsOnce == DbUpSpec => []EachStepOnce
<1>1. DbUpInv /\ OrderlyInv /\ [DbUpNext]_dbUpVars => OrderlyInv'
  BY OrderlyStep DEF DbUpInv
<1>2. DbUpInv /\ OrderlyInv => EachStepOnce
  BY DEF DbUpInv, OrderlyInv, EachStepOnce, RunsOnce
<1> QED BY OrderlyInit, DbUpInvariant, <1>1, <1>2, PTL DEF DbUpSpec

-----------------------------------------------------------------------------
(***************************************************************************)
(* CoreProcess.  Every core that lives, held or not, has its name somewhere, *)
(* and what is killed is a core.                                           *)
(***************************************************************************)
\* What the manager holds is a core of its own, ended or not, and only one; the
\* pid file names no other one meanwhile.
HeldInv ==
  /\ \A p \in {starting, process} \ {NoPid} : proc[p] \in {"core", "aside", "zombie"}
  /\ starting # NoPid => process = NoPid /\ pidFile = NoPid
  /\ process # NoPid => pidFile \in {process, NoPid}

\* Every core, held or not, has its name somewhere once its start is over.
NamedInv == \A p \in Pid : Alive(p) => p \in {starting, pidFile} \cup missed \cup dropped

\* The inductive invariant.
CoreInv == CoreTypeOK /\ HeldInv /\ NamedInv

\* It holds before the first core.
LEMMA CoreInitInv == CoreInit => CoreInv
<1> SUFFICES ASSUME CoreInit PROVE CoreInv
  OBVIOUS
<1>1. proc \in [Pid -> Kind]
  BY DEF CoreInit, Kind
<1>2. CoreTypeOK
  <2>1. {bound, managed, restoring} \subseteq BOOLEAN
    BY DEF CoreInit
  <2>2. /\ {starting, process, pidFile} \subseteq Pid \cup {NoPid}
        /\ missed \subseteq Pid /\ dropped \subseteq Pid
    BY DEF CoreInit
  <2>3. troubles \in 0 .. MaxTroubles
    BY CoreProcessAssumption DEF CoreInit
  <2>4. QED
    BY <1>1, <2>1, <2>2, <2>3 DEF CoreTypeOK
<1>3. HeldInv /\ NamedInv
  BY DEF CoreInit, HeldInv, NamedInv, Alive
<1>4. QED
  BY <1>2, <1>3 DEF CoreInv

\* Every start, stop, end and restart keeps the types.
LEMMA CoreTypeStep == CoreInv /\ [CoreNext]_coreVars => CoreTypeOK'
<1> SUFFICES ASSUME CoreInv, [CoreNext]_coreVars PROVE CoreTypeOK'
  OBVIOUS
<1>t. /\ bound \in BOOLEAN /\ managed \in BOOLEAN /\ restoring \in BOOLEAN
      /\ proc \in [Pid -> Kind]
      /\ starting \in Pid \cup {NoPid} /\ process \in Pid \cup {NoPid} /\ pidFile \in Pid \cup {NoPid}
      /\ troubles \in 0 .. MaxTroubles /\ missed \subseteq Pid /\ dropped \subseteq Pid
      /\ HeldInv
  BY DEF CoreInv, CoreTypeOK
<1>k. /\ {"free", "core", "aside", "zombie", "stranger"} = Kind /\ Matches \subseteq Pid
      /\ Spared \subseteq Pid /\ MaxTroubles \in Nat
  BY <1>t, CoreProcessAssumption DEF Kind, Matches, Spared, Alive
<1> SUFFICES /\ bound' \in BOOLEAN /\ managed' \in BOOLEAN /\ restoring' \in BOOLEAN
             /\ proc' \in [Pid -> Kind]
             /\ starting' \in Pid \cup {NoPid} /\ process' \in Pid \cup {NoPid}
             /\ pidFile' \in Pid \cup {NoPid} /\ troubles' \in 0 .. MaxTroubles
             /\ missed' \subseteq Pid /\ dropped' \subseteq Pid
  BY DEF CoreTypeOK
<1>r. Trouble => troubles' \in 0 .. MaxTroubles
  BY <1>t, <1>k DEF Trouble
<1>1. ASSUME NEW p \in Pid, StartCore(p) PROVE proc' \in [Pid -> Kind]
  <2>1. CASE proc' = [q \in Pid |-> IF q = p THEN "core"
                                   ELSE IF q \in Matches THEN "free" ELSE proc[q]]
    BY <2>1, <1>t, <1>k
  <2>2. CASE proc' = [proc EXCEPT ![p] = "core"]
    BY <2>2, <1>t, <1>k
  <2>3. QED
    BY <1>1, <2>1, <2>2 DEF StartCore
<1>2. ASSUME NEW p \in Pid, StartCore(p) PROVE CoreTypeOK'
  <2>1. /\ pidFile' = NoPid /\ starting' = p /\ restoring' = FALSE
        /\ UNCHANGED <<bound, managed, process>>
        /\ dropped' = dropped \ (Matches \cup {p})
    BY <1>2 DEF StartCore
  <2>2. /\ troubles' = troubles \/ Trouble
        /\ missed' = (missed \ (Matches \cup {p})) \cup (Spared \ Matches)
           \/ missed' = (missed \ {p}) \cup Spared
    BY <1>2 DEF StartCore
  <2>3. QED
    BY <1>1, <1>2, <2>1, <2>2, <1>t, <1>k, <1>r DEF CoreTypeOK
<1>3. CASE StartRefused
  <2>1. proc' \in [Pid -> Kind]
    BY <1>3, <1>t, <1>k DEF StartRefused
  <2>2. pidFile' \in Pid \cup {NoPid} /\ missed' \subseteq Pid /\ dropped' \subseteq Pid
    BY <1>3, <1>t, <1>k DEF StartRefused
  <2>3. QED
    BY <1>3, <2>1, <2>2, <1>t, <1>r DEF StartRefused
<1>4. CASE StartEnded
  BY <1>4, <1>t, <1>k DEF StartEnded
<1>5. CASE StartDone
  BY <1>5, <1>t, <1>r DEF StartDone
<1>6. CASE StopCore
  <2>1. proc' \in [Pid -> Kind]
    BY <1>6, <1>t, <1>k DEF StopCore
  <2>2. QED
    BY <1>6, <2>1, <1>t, <1>k DEF StopCore
<1>7. CASE SeeEnded
  <2>1. proc' = proc \/ proc' = [proc EXCEPT ![process] = "free"]
    BY <1>7 DEF SeeEnded
  <2>2. proc' \in [Pid -> Kind]
    BY <2>1, <1>t, <1>k
  <2>3. process \in Pid /\ (missed' = missed \/ missed' = missed \cup {process})
    BY <1>7, <1>t DEF SeeEnded
  <2>4. QED
    BY <1>7, <2>2, <2>3, <1>t, <1>r DEF SeeEnded
<1>8. CASE MoveAside
  BY <1>8, <1>t, <1>k DEF MoveAside
<1>9. CASE AgentEnds
  <2>1. proc' \in [Pid -> Kind]
    BY <1>9, <1>t, <1>k DEF AgentEnds
  <2>2. missed' \subseteq Pid
    BY <1>9, <1>t DEF AgentEnds
  <2>3. QED
    BY <1>9, <2>1, <2>2, <1>t, <1>r DEF AgentEnds
<1>10. CASE AgentStarts
  BY <1>10, <1>t DEF AgentStarts
<1>11. ASSUME NEW p \in Pid, CoreEnds(p) PROVE CoreTypeOK'
  BY <1>11, <1>t, <1>k DEF CoreEnds, CoreTypeOK
<1>12. ASSUME NEW p \in Pid, StrangerRuns(p) PROVE CoreTypeOK'
  BY <1>12, <1>t, <1>k DEF StrangerRuns, CoreTypeOK
<1>13. CASE UNCHANGED coreVars
  BY <1>13, <1>t DEF coreVars
<1>14. QED
  BY <1>2, <1>3, <1>4, <1>5, <1>6, <1>7, <1>8, <1>9, <1>10, <1>11, <1>12, <1>13
     DEF CoreNext, CoreTypeOK

\* Every start, stop, end and restart keeps the invariant.
LEMMA CoreStepInv == CoreInv /\ [CoreNext]_coreVars => CoreInv'
<1> SUFFICES ASSUME CoreInv, [CoreNext]_coreVars PROVE HeldInv' /\ NamedInv'
  BY CoreTypeStep DEF CoreInv
<1>t. /\ proc \in [Pid -> Kind] /\ NoPid \notin Pid
      /\ starting \in Pid \cup {NoPid} /\ process \in Pid \cup {NoPid} /\ pidFile \in Pid \cup {NoPid}
      /\ missed \subseteq Pid /\ dropped \subseteq Pid
      /\ HeldInv /\ NamedInv
  BY CoreProcessAssumption DEF CoreInv, CoreTypeOK
<1>1. ASSUME NEW p \in Pid, StartCore(p) PROVE HeldInv' /\ NamedInv'
  <2>1. /\ starting = NoPid /\ process = NoPid /\ process' = NoPid /\ pidFile' = NoPid /\ starting' = p
        /\ dropped' = dropped \ (Matches \cup {p}) /\ proc'[p] = "core"
    BY <1>1, <1>t DEF StartCore
  <2>2. HeldInv'
    BY <2>1, <1>t DEF HeldInv
  <2>3. ASSUME NEW q \in Pid \ {p}, Alive(q)' PROVE q \in missed' \cup dropped'
    <3>1. Alive(q) /\ proc'[q] = proc[q]
      BY <1>1, <2>3, <1>t DEF StartCore, Alive
    <3>2. q \notin Matches \/ missed' = (missed \ {p}) \cup Spared
      BY <1>1, <2>3, <1>t DEF StartCore, Alive
    <3>3. q \in {pidFile} \cup missed \cup dropped
      BY <3>1, <2>1, <1>t DEF NamedInv
    <3>4. q = pidFile => q \in Spared
      BY <3>1, <1>t DEF Spared
    <3>5. q \in Matches => q \in Spared
      BY <1>t DEF Matches, Spared, Alive
    <3>6. \/ missed' = (missed \ (Matches \cup {p})) \cup (Spared \ Matches)
          \/ missed' = (missed \ {p}) \cup Spared
      BY <1>1 DEF StartCore
    <3>7. QED
      BY <3>2, <3>3, <3>4, <3>5, <3>6, <2>1
  <2>4. NamedInv'
    BY <2>1, <2>3 DEF NamedInv
  <2>5. QED
    BY <2>2, <2>4
<1>2. CASE StartRefused
  <2>1. starting = NoPid /\ process = NoPid /\ starting' = NoPid /\ process' = NoPid
    BY <1>2 DEF StartRefused
  <2>2. CASE UNCHANGED <<proc, pidFile, missed, dropped>>
    BY <2>1, <2>2, <1>t DEF HeldInv, NamedInv, Alive
  <2>3. CASE /\ pidFile' = NoPid
             /\ proc' = [q \in Pid |-> IF q \in Matches THEN "free" ELSE proc[q]]
             /\ missed' = (missed \ Matches) \cup (Spared \ Matches)
             /\ dropped' = dropped \ Matches
    <3>1. ASSUME NEW q \in Pid, Alive(q)' PROVE q \in missed' \cup dropped'
      <4>1. Alive(q) /\ q \notin Matches
        BY <2>3, <3>1, <1>t DEF Alive
      <4>2. q \in {pidFile} \cup missed \cup dropped
        BY <4>1, <2>1, <1>t DEF NamedInv
      <4>3. q = pidFile => q \in Spared
        BY <4>1, <1>t DEF Spared
      <4>4. QED
        BY <4>1, <4>2, <4>3, <2>3
    <3>2. HeldInv'
      BY <2>1 DEF HeldInv
    <3>3. QED
      BY <3>1, <3>2 DEF NamedInv
  <2>4. QED
    BY <1>2, <2>2, <2>3 DEF StartRefused
<1>3. CASE StartEnded
  BY <1>3, <1>t DEF StartEnded, HeldInv, NamedInv, Alive
<1>4. CASE StartDone
  <2>1. starting \in Pid /\ starting' = NoPid /\ process = NoPid /\ pidFile = NoPid
        /\ UNCHANGED <<proc, dropped>> /\ Alive(starting)
    BY <1>4, <1>t DEF StartDone, HeldInv
  <2>2. \/ process' = starting /\ pidFile' = starting /\ UNCHANGED missed
        \/ missed' = missed \cup {starting} /\ UNCHANGED pidFile /\ process' \in {starting, NoPid}
    BY <1>4, <2>1 DEF StartDone
  <2>3. HeldInv'
    BY <2>1, <2>2 DEF HeldInv, Alive
  <2>4. NamedInv'
    BY <2>1, <2>2, <1>t DEF NamedInv, Alive
  <2>5. QED
    BY <2>3, <2>4
<1>5. CASE StopCore
  <2>1. /\ starting = NoPid /\ starting' = NoPid /\ process' = NoPid /\ pidFile' = NoPid
        /\ proc' = [p \in Pid |-> IF p = process THEN "free" ELSE proc[p]]
        /\ dropped' = (dropped \ {process}) \cup (Spared \ {process})
        /\ missed' = missed \ {process}
    BY <1>5 DEF StopCore
  <2>2. HeldInv'
    BY <2>1 DEF HeldInv
  <2>3. ASSUME NEW q \in Pid, Alive(q)' PROVE q \in missed' \cup dropped'
    <3>1. Alive(q) /\ q # process
      BY <2>1, <2>3, <1>t DEF Alive
    <3>2. q \in {pidFile} \cup missed \cup dropped
      BY <3>1, <2>1, <1>t DEF NamedInv
    <3>3. q = pidFile => q \in Spared
      BY <3>1, <1>t DEF Spared
    <3>4. QED
      BY <3>1, <3>2, <3>3, <2>1
  <2>4. QED
    BY <2>2, <2>3 DEF NamedInv
<1>6. CASE SeeEnded
  <2>1. /\ starting = NoPid /\ starting' = NoPid /\ process # NoPid /\ process \in Pid
        /\ process' = NoPid /\ pidFile' = NoPid /\ UNCHANGED dropped /\ pidFile \in {process, NoPid}
    BY <1>6, <1>t DEF SeeEnded, HeldInv
  <2>2. HeldInv'
    BY <2>1 DEF HeldInv
  <2>3. \/ proc[process] = "zombie" /\ proc' = [proc EXCEPT ![process] = "free"] /\ UNCHANGED missed
        \/ missed' = missed \cup {process} /\ UNCHANGED proc
    BY <1>6 DEF SeeEnded
  <2>4. ASSUME NEW q \in Pid, Alive(q)' PROVE q \in missed' \cup dropped'
    BY <2>1, <2>3, <2>4, <1>t DEF NamedInv, Alive
  <2>5. QED
    BY <2>2, <2>4 DEF NamedInv
<1>7. CASE MoveAside
  <2>1. /\ UNCHANGED <<starting, process, pidFile, missed, dropped>>
        /\ \A p \in Pid : proc'[p] = IF proc[p] = "core" THEN "aside" ELSE proc[p]
    BY <1>7 DEF MoveAside
  <2>2. HeldInv'
    BY <2>1, <1>t DEF HeldInv
  <2>3. NamedInv'
    BY <2>1, <1>t DEF NamedInv, Alive
  <2>4. QED
    BY <2>2, <2>3
<1>8. CASE AgentEnds
  <2>1. /\ starting' = NoPid /\ process' = NoPid /\ UNCHANGED <<pidFile, dropped>>
        /\ missed' = IF starting # NoPid /\ proc'[starting] # "free"
                     THEN missed \cup {starting} ELSE missed \cap {p \in Pid : proc'[p] # "free"}
    BY <1>8 DEF AgentEnds
  <2>2. \A p \in Pid : proc'[p] = proc[p] \/ proc'[p] = "free"
    BY <1>8 DEF AgentEnds
  <2>3. HeldInv'
    BY <2>1 DEF HeldInv
  <2>4. ASSUME NEW q \in Pid, Alive(q)' PROVE q \in {pidFile} \cup missed' \cup dropped
    <3>1. Alive(q) /\ proc'[q] # "free"
      BY <2>2, <2>4 DEF Alive
    <3>2. q \in {starting, pidFile} \cup missed \cup dropped
      BY <3>1, <1>t DEF NamedInv
    <3>3. QED
      BY <3>1, <3>2, <2>1, <1>t
  <2>5. QED
    BY <2>1, <2>3, <2>4 DEF NamedInv
<1>9. CASE AgentStarts
  BY <1>9, <1>t DEF AgentStarts, HeldInv, NamedInv, Alive
<1>10. ASSUME NEW p \in Pid, CoreEnds(p) PROVE HeldInv' /\ NamedInv'
  <2>1. /\ UNCHANGED <<starting, process, pidFile>> /\ missed' = missed \ {p} /\ dropped' = dropped \ {p}
        /\ proc' = [proc EXCEPT ![p] = IF p \in {starting, process} THEN "zombie" ELSE "free"]
    BY <1>10 DEF CoreEnds
  <2>2. HeldInv'
    BY <2>1, <1>t DEF HeldInv
  <2>3. NamedInv'
    BY <2>1, <1>t DEF NamedInv, Alive
  <2>4. QED
    BY <2>2, <2>3
<1>11. ASSUME NEW p \in Pid, StrangerRuns(p) PROVE HeldInv' /\ NamedInv'
  <2>1. /\ UNCHANGED <<starting, process, pidFile, missed, dropped>>
        /\ proc[p] \in {"free", "stranger"} /\ proc'[p] \in {"free", "stranger"}
        /\ \A q \in Pid \ {p} : proc'[q] = proc[q]
    BY <1>11, <1>t DEF StrangerRuns
  <2>2. HeldInv'
    BY <2>1, <1>t DEF HeldInv
  <2>3. NamedInv'
    BY <2>1, <1>t DEF NamedInv, Alive
  <2>4. QED
    BY <2>2, <2>3
<1>12. CASE UNCHANGED coreVars
  BY <1>12, <1>t DEF coreVars, HeldInv, NamedInv, Alive
<1>13. QED
  BY <1>1, <1>2, <1>3, <1>4, <1>5, <1>6, <1>7, <1>8, <1>9, <1>10, <1>11, <1>12 DEF CoreNext

\* The invariant, in every state.
THEOREM CoreInvAlways == CoreSpec => []CoreInv
BY CoreInitInv, CoreStepInv, PTL DEF CoreSpec

\* start, stop, reap_stale: a core that outlives its Agent is named in the pid file,
\* so the next start ends it, but for the causes that OrphanIsNamed names.
THEOREM OrphanIsAlwaysNamed == CoreSpec => []OrphanIsNamed
<1>1. CoreInv => OrphanIsNamed
  BY DEF CoreInv, NamedInv, OrphanIsNamed, Orphans
<1>2. QED
  BY CoreInvAlways, <1>1, PTL

\* A stranger that is gone has ended by itself.
LEMMA StrangerStep ==
  ASSUME CoreInv, [CoreNext]_coreVars, NEW p \in Pid, proc[p] = "stranger", proc'[p] # "stranger"
  PROVE StrangerRuns(p)
<1>t. /\ proc \in [Pid -> Kind] /\ NoPid \notin Pid /\ HeldInv
      /\ p \notin {starting, process} /\ p \notin Matches /\ ~Alive(p)
  BY CoreProcessAssumption DEF CoreInv, CoreTypeOK, HeldInv, Matches, Alive
<1>1. ASSUME NEW q \in Pid, StartCore(q) PROVE FALSE
  BY <1>1, <1>t DEF StartCore
<1>2. ~StartRefused
  BY <1>t DEF StartRefused
<1>3. ~StartEnded /\ ~StartDone
  BY <1>t DEF StartEnded, StartDone
<1>4. ~StopCore
  BY <1>t DEF StopCore
<1>5. ~SeeEnded /\ ~MoveAside
  BY <1>t DEF SeeEnded, MoveAside
<1>6. ~AgentEnds
  BY <1>t DEF AgentEnds
<1>7. ~AgentStarts /\ ~UNCHANGED coreVars
  BY DEF AgentStarts, coreVars
<1>8. ASSUME NEW q \in Pid, CoreEnds(q) \/ (q # p /\ StrangerRuns(q)) PROVE FALSE
  BY <1>8, <1>t DEF CoreEnds, StrangerRuns
<1>9. QED
  BY <1>1, <1>2, <1>3, <1>4, <1>5, <1>6, <1>7, <1>8 DEF CoreNext

\* reap_stale ends nothing but what exe_matches takes for a core, whoever has got the
\* number in the pid file.
THEOREM StrangersAlwaysSafe == CoreSpec => StrangersSafe
<1>1. CoreInv /\ [CoreNext]_coreVars =>
        [\A p \in Pid : proc[p] = "stranger" /\ proc'[p] # "stranger" => StrangerRuns(p)]_coreVars
  BY StrangerStep
<1>2. QED
  BY <1>1, CoreInitInv, CoreStepInv, PTL DEF CoreSpec, StrangersSafe
=============================================================================
