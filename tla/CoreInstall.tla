----------------------------- MODULE CoreInstall -----------------------------
(***************************************************************************)
(* The binary of one core on a node: installed on demand by the supervisor *)
(* (ensure_manager), replaced when a push names another build              *)
(* (ensure_core_build), deleted on request, across failed downloads and    *)
(* stops of the Agent.  The Agent handles one message at a time; what      *)
(* interleaves with it is only its end.                                    *)
(***************************************************************************)
CONSTANTS
  Build,   \* what a push can ask for: a version with the id of its build
  AnyBuild, \* a push, or a restore, that names none
  Missing, \* no such file
  Partial  \* a file that an extraction left unfinished

ASSUME BuildAssumption == {AnyBuild, Missing, Partial} \intersect Build = {}
                          /\ AnyBuild # Missing /\ AnyBuild # Partial
                          /\ Missing # Partial

VARIABLES
  binary,   \* bin_dir/<core>
  backup,   \* bin_dir/.backup.<core>
  marker,   \* bin_dir/.build_id.<core>: the build it names
  manager,  \* the supervisor has a manager for the core
  agent,    \* where the Agent is: stopped, idle, or in a push or a restore
  want,     \* the build that push asks for
  aside     \* has_binary: its upgrade moved a binary aside

\* History of the push being handled, and of the file.
VARIABLES
  before,   \* the binary when the push began
  failed,   \* the push could not upgrade the binary
  owned,    \* a whole binary was installed, and not deleted since
  unmarked, \* the binary was downloaded since the marker was written
  damaged   \* an upgrade did not put back what it had moved aside: the Agent
            \* ended, or the rename failed; until the next one that succeeds

installHistory == <<before, failed, owned, unmarked, damaged>>
installVars == <<binary, backup, marker, manager, agent, want, aside, installHistory>>

File == Build \union {Missing, Partial}

InstallTypeOK ==
  /\ binary \in File /\ backup \in File /\ marker \in Build \union {Missing}
  /\ manager \in BOOLEAN
  /\ agent \in {"stopped", "idle", "install", "check", "fetch", "restore",
                "done", "mark", "apply"}
  /\ want \in Build \union {AnyBuild} /\ before \in File
  /\ {aside, failed, owned, unmarked, damaged} \subseteq BOOLEAN

InstallInit ==
  /\ binary = Missing /\ backup = Missing /\ marker = Missing
  /\ manager = FALSE /\ agent = "stopped" /\ want = AnyBuild
  /\ aside = FALSE /\ before = Missing
  /\ failed = FALSE /\ owned = FALSE /\ unmarked = FALSE /\ damaged = FALSE

\* What a failed download of b leaves: nothing, a part of it (validate_archive
\* looks at the size and the first bytes of the archive only), or all of it
\* when the last step, set_executable, fails.
Leftovers(b) == {Missing, Partial, b}

\* A push that names no build gets the latest release.
Candidates == IF want = AnyBuild THEN Build ELSE {want}

-----------------------------------------------------------------------------
\* handle_config_push (and a start or restart command, or the restore after
\* a start, which name no build): without a manager the core is installed.
BeginPush(b) ==
  /\ agent = "idle"
  /\ agent' = IF manager THEN "check" ELSE "install"
  /\ want' = b /\ before' = binary /\ failed' = FALSE
  /\ UNCHANGED <<binary, backup, marker, manager, aside, owned, unmarked, damaged>>

\* ensure_manager: a file that exists is taken as it is.
AdoptBinary ==
  /\ agent = "install" /\ binary # Missing
  /\ manager' = TRUE /\ agent' = "check"
  /\ UNCHANGED <<binary, backup, marker, want, aside, installHistory>>

\* Otherwise one is downloaded, and what build it is is not written down; the
\* push ends when that fails.
InstallBinary ==
  /\ agent = "install" /\ binary = Missing
  /\ unmarked' = TRUE
  /\ \E b \in Candidates :
       \/ binary' = b /\ owned' = TRUE /\ manager' = TRUE /\ agent' = "check"
       \/ binary' \in Leftovers(b) /\ agent' = "idle" /\ UNCHANGED <<manager, owned>>
  /\ UNCHANGED <<backup, marker, want, aside, before, failed, damaged>>

\* ensure_core_build: nothing to do when the marker names the build.
UpToDate == want = AnyBuild \/ marker = want

\* Variant: the old binary is removed rather than moved aside.
CheckMarkerRemoves ==
  /\ agent = "check"
  /\ IF UpToDate THEN agent' = "apply" /\ UNCHANGED <<binary, aside>>
                 ELSE agent' = "fetch" /\ binary' = Missing /\ aside' = FALSE
  /\ UNCHANGED <<backup, marker, manager, want, installHistory>>

\* Otherwise the binary, if there is one, is moved aside, over the backup that
\* an earlier upgrade may have left; when that fails the upgrade ends there and
\* the push goes on.
CheckMarker ==
  /\ agent = "check"
  /\ \/ UpToDate /\ agent' = "apply" /\ UNCHANGED <<binary, backup, aside, failed>>
     \/ /\ ~UpToDate /\ binary = Missing
        /\ agent' = "fetch" /\ aside' = FALSE /\ UNCHANGED <<binary, backup, failed>>
     \/ /\ ~UpToDate /\ binary # Missing
        /\ \/ /\ agent' = "fetch" /\ aside' = TRUE
              /\ backup' = binary /\ binary' = Missing /\ UNCHANGED failed
           \/ agent' = "apply" /\ failed' = TRUE /\ UNCHANGED <<binary, backup, aside>>
  /\ UNCHANGED <<marker, manager, want, before, owned, unmarked, damaged>>

\* ... and the build downloaded.  Bound: upstream publishes no other build
\* under the version between the Hub's look and this.
Fetch ==
  /\ agent = "fetch"
  /\ \/ /\ binary' = want /\ agent' = "done"
        /\ owned' = TRUE /\ unmarked' = TRUE /\ damaged' = FALSE /\ UNCHANGED failed
     \/ /\ binary' \in Leftovers(want) /\ agent' = "restore" /\ failed' = TRUE
        /\ UNCHANGED <<owned, unmarked, damaged>>
  /\ UNCHANGED <<backup, marker, manager, want, aside, before>>

\* Variant: the marker is written however the download ended.
RestoreAndMark ==
  /\ agent = "restore" /\ agent' = "apply"
  /\ IF aside THEN binary' = backup /\ backup' = Missing ELSE UNCHANGED <<binary, backup>>
  /\ marker' = want
  /\ UNCHANGED <<manager, want, aside, installHistory>>

\* The download failed: what was moved aside comes back, or stays there when
\* the rename fails too, whose error is ignored.
RestoreBackup ==
  /\ agent = "restore" /\ agent' = "apply"
  /\ \/ aside /\ binary' = backup /\ backup' = Missing /\ UNCHANGED damaged
     \/ aside /\ damaged' = TRUE /\ UNCHANGED <<binary, backup>>
     \/ ~aside /\ UNCHANGED <<binary, backup, damaged>>
  /\ UNCHANGED <<marker, manager, want, aside, before, failed, owned, unmarked>>

RemoveBackup ==
  /\ agent = "done" /\ agent' = "mark"
  /\ backup' \in {backup, Missing}
  /\ UNCHANGED <<binary, marker, manager, want, aside, installHistory>>

WriteMarker ==
  /\ agent = "mark" /\ agent' = "apply"
  /\ \/ marker' = want /\ unmarked' = FALSE /\ UNCHANGED failed
     \/ failed' = TRUE /\ marker' \in {marker, Missing} /\ UNCHANGED unmarked
  /\ UNCHANGED <<binary, backup, manager, want, aside, before, owned, damaged>>

\* The configuration is applied with the binary as it is then.
Apply ==
  /\ agent = "apply" /\ agent' = "idle"
  /\ UNCHANGED <<binary, backup, marker, manager, want, aside, installHistory>>

\* delete_core_binary, refused for a core that has a manager; the marker and
\* the backup, whose names begin with a dot, stay.
DeleteBinary ==
  /\ agent = "idle" /\ ~manager /\ binary # Missing
  /\ binary' = Missing /\ owned' = FALSE
  /\ UNCHANGED <<backup, marker, manager, agent, want, aside, before, failed,
                 unmarked, damaged>>

\* The Agent ends wherever it is; a download may have begun to write.
AgentEnds ==
  /\ agent # "stopped" /\ agent' = "stopped" /\ manager' = FALSE
  /\ binary' \in IF agent = "fetch" \/ (agent = "install" /\ binary = Missing)
                 THEN {Missing, Partial} ELSE {binary}
  /\ unmarked' = (unmarked \/ binary' # binary)
  /\ damaged' = (damaged \/ agent \in {"fetch", "restore"})
  /\ UNCHANGED <<backup, marker, want, aside, before, failed, owned>>

\* discover, then restore_last_config if the core has a snapshot: like a push
\* that names no build.
AgentStarts ==
  /\ agent = "stopped"
  /\ manager' = (binary # Missing)
  /\ \/ agent' = "idle" /\ UNCHANGED <<want, before, failed>>
     \/ /\ binary = Missing /\ agent' = "install"
        /\ want' = AnyBuild /\ before' = binary /\ failed' = FALSE
  /\ UNCHANGED <<binary, backup, marker, aside, owned, unmarked, damaged>>

-----------------------------------------------------------------------------
InstallNext == \/ \E b \in Build \union {AnyBuild} : BeginPush(b)
               \/ AdoptBinary \/ InstallBinary \/ CheckMarker \/ Fetch
               \/ RestoreBackup \/ RemoveBackup \/ WriteMarker \/ Apply
               \/ DeleteBinary \/ AgentEnds \/ AgentStarts

InstallSpec == InstallInit /\ [][InstallNext]_installVars

-----------------------------------------------------------------------------
(* Properties                                                              *)

\* "if the download fails the core must be able to restart with the old
\* build" (client.rs:473): a push that found a whole binary ends with a whole
\* one, of the build it asked for or of the one before; or, when that one could
\* not be put back, with it still aside.
FallbackKept ==
  (agent = "apply" /\ before \in Build) => binary \in {before, want} \/ backup = before

\* A core the supervisor manages has a file to run, whatever was deleted or
\* failed (delete_core_binary, has_binary); and a node that once had a whole
\* build keeps a whole copy until it is deleted.  The exception is an upgrade
\* that did not put back what it had moved aside, cut short by the Agent's end
\* or by a rename that failed: the half of a file it leaves is later moved over
\* the backup.
KeepsBinary ==
  \/ damaged
  \/ /\ (manager /\ agent \in {"idle", "check", "apply"}) => binary # Missing
     /\ owned => binary \in Build \/ backup \in Build

\* A push that names a build is applied with that build, unless its upgrade
\* failed.  The exceptions are the two ways in which the marker file lies:
\* a download after it, by ensure_manager or cut short before the marker was
\* written, and an upgrade that did not put back what it had moved aside.
BuildAsAsked ==
  (agent = "apply" /\ want \in Build) =>
     binary = want \/ failed \/ unmarked \/ damaged
=============================================================================
