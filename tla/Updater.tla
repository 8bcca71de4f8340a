------------------------------ MODULE Updater ------------------------------
(***************************************************************************)
(* The signed updater (crates/server/src/updater.rs) and the launcher that *)
(* activates what it staged (bin/sift-launcher.rs).                        *)
(*                                                                         *)
(* The state directory is three files: the last sequence number observed   *)
(* on the channel (sequence-<channel>), the version pointers               *)
(* (versions.json) and one executable per release under versions/.  The    *)
(* first two are replaced atomically (atomic_write); nothing locks them,   *)
(* and a pointer update is a read, an edit and a write.  A release is its  *)
(* sequence number; its version names its directory.  Signatures, digests, *)
(* expiry and targets are checks of the bytes alone: a manifest or         *)
(* artifact that fails one ends the check, which here is a failed fetch or *)
(* download.                                                               *)
(*                                                                         *)
(* One launcher and the server it supervises share the directory.  The     *)
(* server's first check comes initial_delay_secs after its start, which    *)
(* nothing validates: the check of a candidate may run while the launcher  *)
(* still probes and commits it.                                            *)
(***************************************************************************)
EXTENDS Naturals, Sequences, FiniteSets

CONSTANTS
    MaxSeq,       \* manifests the publisher signs (bound)
    MaxVersion,   \* release versions 1..MaxVersion (bound)
    Good          \* the versions whose server becomes ready and answers

ASSUME UpdaterAssumption ==
    /\ MaxSeq \in Nat /\ MaxVersion \in Nat
    /\ Good \subseteq 1..MaxVersion

Bundled  == 0                  \* the version of the binary beside the launcher
None     == 0                  \* an absent pointer
NoServer == MaxVersion + 1     \* no process is running
Versions == 0..MaxVersion
PointerFields == {"current", "previous", "pending"}

VARIABLES
    channel,    \* channel[s]: version of the release signed with sequence s
    seq,        \* the sequence file
    ptr,        \* versions.json
    file,       \* file[v]: the executable of version v
    chk,        \* the check_and_stage call of the server's background task
    launcher,   \* the launcher process
    running,    \* version of the server the launcher spawned
    proven,     \* history: versions the launcher saw ready and answering
    slipped     \* history: releases whose staging met the pointer update of an activation

disk == <<seq, ptr, file>>
hist == <<proven, slipped>>
vars == <<channel, seq, ptr, file, chk, launcher, running, proven, slipped>>

NoPointers == [f \in PointerFields |-> None]
IdleChecker == [pc |-> "idle", man |-> None, copy |-> NoPointers]
IdleLauncher == [pc |-> "off", cand |-> None, copy |-> NoPointers]

Init ==
    /\ channel = <<>>
    /\ seq = 0
    /\ ptr = NoPointers
    /\ file = [v \in Versions |-> IF v = Bundled THEN "exec" ELSE "absent"]
    /\ chk = IdleChecker
    /\ launcher = IdleLauncher
    /\ running = NoServer
    /\ proven = {} /\ slipped = {}

-----------------------------------------------------------------------------
(* The release channel.                                                    *)

\* The publisher signs the next manifest.  It may repeat or withdraw a
\* version: only the sequence number grows.
Publish(v) ==
    /\ Len(channel) < MaxSeq
    /\ channel' = Append(channel, v)
    /\ UNCHANGED <<disk, chk, launcher, running, hist>>

-----------------------------------------------------------------------------
(* check_and_stage, by the server's background task.                       *)

Goto(pc) == chk' = IF pc = "idle" THEN IdleChecker ELSE [chk EXCEPT !.pc = pc]

\* spawn_background's next turn.  The host may serve an old manifest, whose
\* signature is as good as the newest one's.
Fetch ==
    /\ chk.pc = "idle" /\ running # NoServer
    /\ \E s \in 1..Len(channel) :
          chk' = [chk EXCEPT !.pc = "verify", !.man = s]
    /\ UNCHANGED <<channel, disk, launcher, running, hist>>

\* As Verify, without the comparison with the observed sequence.
VerifyForgetsSequence ==
    /\ chk.pc = "verify"
    /\ Goto(IF channel[chk.man] >= running THEN "compare" ELSE "idle")
    /\ UNCHANGED <<channel, disk, launcher, running, hist>>

\* verify_manifest_owned: refuse a manifest older than the one observed or a
\* release older than this binary.
Verify ==
    /\ chk.pc = "verify"
    /\ Goto(IF chk.man >= seq /\ channel[chk.man] >= running
            THEN "compare" ELSE "idle")
    /\ UNCHANGED <<channel, disk, launcher, running, hist>>

\* The two early returns: nothing new, or no newer than this binary.
Compare ==
    /\ chk.pc = "compare"
    /\ \/ /\ chk.man = seq
          /\ Goto("idle") /\ UNCHANGED seq
       \/ /\ chk.man # seq /\ channel[chk.man] <= running
          /\ Goto("idle") /\ seq' = chk.man
       \/ /\ chk.man # seq /\ channel[chk.man] > running
          /\ Goto("download") /\ UNCHANGED seq
    /\ UNCHANGED <<channel, ptr, file, launcher, running, hist>>

\* download_to_staging: the private .part file either verifies or is removed
\* and the check fails.
Download ==
    /\ chk.pc = "download"
    /\ Goto("install") \/ Goto("idle")
    /\ UNCHANGED <<channel, disk, launcher, running, hist>>

\* As Install, taking the version's directory for its executable.
InstallTrustsDirectory ==
    /\ chk.pc = "install"
    /\ Goto("record")
    /\ UNCHANGED <<channel, disk, launcher, running, hist>>

\* install_staging: an executable that exists already is verified and reused.
Install ==
    /\ chk.pc = "install"
    /\ Goto(IF file[channel[chk.man]] = "absent" THEN "rename" ELSE "record")
    /\ UNCHANGED <<channel, disk, launcher, running, hist>>

\* rename(staging, executable): the file has mode 0600.
Rename ==
    /\ chk.pc = "rename"
    /\ file' = [file EXCEPT ![channel[chk.man]] = "plain"]
    /\ Goto("chmod")
    /\ UNCHANGED <<channel, seq, ptr, launcher, running, hist>>

\* make_executable, then sync_directory.
Chmod ==
    /\ chk.pc = "chmod"
    /\ file' = [file EXCEPT ![channel[chk.man]] = "exec"]
    /\ Goto("record")
    /\ UNCHANGED <<channel, seq, ptr, launcher, running, hist>>

\* record_sequence: what was staged is observed before it is selected.
Record ==
    /\ chk.pc = "record"
    /\ seq' = chk.man
    /\ Goto("read")
    /\ UNCHANGED <<channel, ptr, file, launcher, running, hist>>

ReadPointers ==
    /\ chk.pc = "read"
    /\ chk' = [chk EXCEPT !.pc = "write", !.copy = ptr]
    /\ UNCHANGED <<channel, disk, launcher, running, hist>>

\* write_pointers with the new candidate as pending, in the pointers as they
\* were read: during an activation, or over its commit.
Stage ==
    /\ chk.pc = "write"
    /\ ptr' = [chk.copy EXCEPT !.pending = chk.man]
    /\ slipped' = IF launcher.pc = "supervising" /\ chk.copy = ptr
                  THEN slipped ELSE slipped \cup {chk.man}
    /\ Goto("idle")
    /\ UNCHANGED <<channel, seq, file, launcher, running, proven>>

CheckAndStage ==
    \/ Fetch \/ Verify \/ Compare \/ Download \/ Install
    \/ Rename \/ Chmod \/ Record \/ ReadPointers \/ Stage

-----------------------------------------------------------------------------
(* The two operations on the pointers that end an activation.              *)

\* commit_healthy_candidate, applied to the pointers as it read them.
CommitHealthyCandidate(p) ==
    [current |-> p.pending, previous |-> p.current, pending |-> None]

\* As RollbackCandidate, but the candidate stays selected.
RollbackKeepsCandidate(p) == [p EXCEPT !.current = p.pending, !.pending = None]

\* rollback_candidate, applied to the pointers as it read them.
RollbackCandidate(p) == [p EXCEPT !.pending = None]

-----------------------------------------------------------------------------
(* The launcher.                                                           *)

LauncherGoto(pc) ==
    launcher' = IF pc \in {"off", "failed", "fallback", "supervising"}
                THEN [IdleLauncher EXCEPT !.pc = pc]
                ELSE [launcher EXCEPT !.pc = pc]

\* The server process is gone, and its background check with it.
StopServer ==
    /\ running' = NoServer
    /\ chk' = IdleChecker

\* main: pending_release decides between an activation and a plain start.
Launch ==
    /\ launcher.pc \in {"off", "failed"}
    /\ launcher' = [launcher EXCEPT !.pc = "migrate", !.cand = ptr.pending]
    /\ UNCHANGED <<channel, disk, chk, running, hist>>

\* apply_automatic_migrations runs the selected executable and waits for it
\* without a deadline.  Of a candidate that fails the launcher rolls back,
\* otherwise it ends with the metadata as it was.
Migrate ==
    /\ launcher.pc = "migrate"
    /\ IF launcher.cand = None THEN LauncherGoto("select") \/ LauncherGoto("off")
       ELSE LauncherGoto("activate") \/ LauncherGoto("rollback")
    /\ UNCHANGED <<channel, disk, chk, running, hist>>


\* spawn_server on the candidate.
Activate ==
    /\ launcher.pc = "activate"
    /\ IF file[channel[launcher.cand]] = "exec"
       THEN running' = channel[launcher.cand] /\ LauncherGoto("probe")
       ELSE LauncherGoto("rollback") /\ UNCHANGED running
    /\ UNCHANGED <<channel, disk, chk, hist>>

\* await_candidate_health saw /ready, a handshake and the signed version.
CandidateHealthy ==
    /\ launcher.pc = "probe"
    /\ channel[launcher.cand] \in Good
    /\ proven' = proven \cup {channel[launcher.cand]}
    /\ LauncherGoto("commit")
    /\ UNCHANGED <<channel, disk, chk, running, slipped>>

\* As CandidateUnhealthy, taking the deadline for readiness.
DeadlineTakenForReady ==
    /\ launcher.pc = "probe"
    /\ LauncherGoto("commit")
    /\ UNCHANGED <<channel, disk, chk, running, hist>>

\* The candidate exited or missed the 20-second deadline: kill and wait.
CandidateUnhealthy ==
    /\ launcher.pc = "probe"
    /\ StopServer
    /\ LauncherGoto("rollback")
    /\ UNCHANGED <<channel, disk, hist>>

\* commit_healthy_candidate reads the pointers again.  With nothing pending it
\* fails, the launcher ends with the error and the server runs on.
CommitRead ==
    /\ launcher.pc = "commit"
    /\ launcher' = [launcher EXCEPT
          !.pc = IF ptr.pending = None THEN "orphaned" ELSE "commit_write",
          !.copy = ptr]
    /\ UNCHANGED <<channel, disk, chk, running, hist>>

CommitWrite ==
    /\ launcher.pc = "commit_write"
    /\ ptr' = CommitHealthyCandidate(launcher.copy)
    /\ LauncherGoto("supervising")
    /\ UNCHANGED <<channel, seq, file, chk, running, hist>>

RollbackRead ==
    /\ launcher.pc = "rollback"
    /\ launcher' = [launcher EXCEPT !.pc = "rollback_write", !.copy = ptr]
    /\ UNCHANGED <<channel, disk, chk, running, hist>>

RollbackWrite ==
    /\ launcher.pc = "rollback_write"
    /\ ptr' = RollbackCandidate(launcher.copy)
    /\ LauncherGoto("fallback")
    /\ UNCHANGED <<channel, seq, file, chk, running, hist>>

\* current_release if its file is there, else the bundled binary.
KnownGood ==
    IF ptr.current # None /\ file[channel[ptr.current]] # "absent"
    THEN channel[ptr.current] ELSE Bundled

\* spawn_server: an executable that cannot be run ends the launcher.
Spawn(v) ==
    IF file[v] = "exec"
    THEN running' = v /\ LauncherGoto("supervising")
    ELSE LauncherGoto("failed") /\ UNCHANGED running

Fallback ==
    /\ launcher.pc = "fallback"
    /\ Spawn(KnownGood)
    /\ UNCHANGED <<channel, disk, chk, hist>>

\* Without a candidate: the selected binary, which has migrated the metadata.
Select ==
    /\ launcher.pc = "select"
    /\ Spawn(KnownGood)
    /\ UNCHANGED <<channel, disk, chk, hist>>

\* supervise: the server stopped, by itself or by a forwarded signal.
ServerExit ==
    /\ launcher.pc \in {"supervising", "orphaned"}
    /\ StopServer
    /\ LauncherGoto("off")
    /\ UNCHANGED <<channel, disk, hist>>

LauncherStep ==
    \/ Activate \/ CandidateHealthy \/ CandidateUnhealthy \/ CommitRead
    \/ CommitWrite \/ RollbackRead \/ RollbackWrite \/ Fallback \/ Select

-----------------------------------------------------------------------------
\* The machine goes down: every process is lost, the files stay.
Crash ==
    /\ launcher.pc # "off"
    /\ launcher' = IdleLauncher
    /\ running' = NoServer
    /\ chk' = IdleChecker
    /\ UNCHANGED <<channel, disk, hist>>

Next ==
    \/ \E v \in 1..MaxVersion : Publish(v)
    \/ CheckAndStage
    \/ Launch \/ Migrate \/ LauncherStep \/ ServerExit
    \/ Crash

\* The launcher's own steps follow one another without waiting for anyone but
\* the probe, which has a deadline, and the migration, which has none and may
\* never end.  A restart, a publication, a check and a crash may never come.
Spec == Init /\ [][Next]_vars /\ WF_vars(LauncherStep)

-----------------------------------------------------------------------------
(* Properties.                                                             *)

FileStates == {"absent", "plain", "exec"}
CheckerPcs == {"idle", "verify", "compare", "download", "install", "rename",
               "chmod", "record", "read", "write"}
LauncherPcs == {"off", "failed", "migrate", "select", "activate", "probe", "commit",
                "commit_write", "rollback", "rollback_write", "fallback",
                "supervising", "orphaned"}

\* A release that has been published, or no release.
Releases == 0..Len(channel)
Pointers == [PointerFields -> Releases]

\* Type invariant of the state directory and of the processes that use it.
TypeOK ==
    /\ channel \in Seq(1..MaxVersion) /\ Len(channel) <= MaxSeq
    /\ seq \in Releases /\ ptr \in Pointers
    /\ file \in [Versions -> FileStates]
    /\ chk \in [pc : CheckerPcs, man : Releases, copy : Pointers]
    /\ launcher \in [pc : LauncherPcs, cand : Releases, copy : Pointers]
    /\ running \in 0..NoServer
    /\ proven \subseteq Versions /\ slipped \subseteq Releases

\* Every release versions.json names has its executable on disk, whenever the
\* machine goes down and whoever wrote the pointers last: install_staging
\* renames it into place before write_pointers selects it, and nothing removes
\* a version.
Installed(p) ==
    \A f \in PointerFields : p[f] # None => file[channel[p[f]]] # "absent"
PointersInstalled == TypeOK /\ Installed(ptr)

\* A release that was seen ready, or whose staging met an activation.
Known(r) == r # None => channel[r] \in proven \/ r \in slipped

\* What is current or previous was seen ready by its owner, although
\* commit_healthy_candidate reads the pointers anew and takes whatever is
\* pending by then.  The exception is a release that the candidate's own check
\* staged while it was being activated.
CurrentProven == Known(ptr.current) /\ Known(ptr.previous)

\* "Commit a candidate only after its owner observed readiness and a
\* compatible ADR-016 handshake" (updater.rs:310), without the exception.
CommittedWasReady == ptr.current # None => channel[ptr.current] \in proven

\* An update never leaves an installation that cannot start: the known-good
\* binary a plain start or a rollback falls back to is executable, although a
\* crash between rename and make_executable leaves a file that stays installed
\* and cannot be run.
Restartable == slipped = {} => launcher.pc # "failed"

\* The observed sequence never decreases, and the current release is only ever
\* replaced by a newer version, although the host replays old manifests and
\* the publisher withdraws versions.  A staging that meets an activation may
\* write back the pointers of before its commit.
NoRollbackOfChannel ==
    [][/\ seq' >= seq
       /\ slipped' = {} /\ ptr.current # None /\ ptr'.current # ptr.current =>
             channel'[ptr'.current] > channel[ptr.current]]_vars

-----------------------------------------------------------------------------
(* The inductive invariant of Spec.                                        *)

\* The version of the current pointer; the bundled binary without one.
CurrentVersion == IF ptr.current = None THEN Bundled ELSE channel[ptr.current]

Serving == {"probe", "commit", "commit_write", "supervising"}

\* The background check lives in a server, knows which manifest it works on,
\* and has found it new: its sequence is not behind the observed one and its
\* release is newer than the running server.
CheckIsCurrent ==
    /\ launcher.pc \notin Serving => chk.pc = "idle" /\ running = NoServer
    /\ chk.pc # "idle" => chk.man \in 1..Len(channel)
    /\ chk.pc \notin {"idle", "verify"} => chk.man >= seq
    /\ chk.pc \notin {"idle", "verify", "compare"} => channel[chk.man] > running

\* How far the installation of the release under way has come.
InstallProgress ==
    /\ chk.pc = "rename" => file[channel[chk.man]] = "absent"
    /\ chk.pc = "chmod" => file[channel[chk.man]] = "plain"
    /\ chk.pc \in {"record", "read", "write"} => file[channel[chk.man]] # "absent"

\* Pointers that may be written back: all they name is installed, and what they
\* hold as current or previous is known.
Sound(p) ==
    /\ Installed(p) /\ Known(p.current) /\ Known(p.previous)
    /\ p.previous # None => p.current # None

CopiesSound ==
    /\ Sound(ptr)
    /\ chk.pc = "write" => Sound(chk.copy)
    /\ launcher.pc \in {"commit_write", "rollback_write"} => Sound(launcher.copy)

\* The candidate under activation is the one pending, or what a check has put
\* in its place.
InPlace(r) == r # None /\ (r = launcher.cand \/ r \in slipped)

CandidateInHand ==
    /\ launcher.pc # "orphaned"
    /\ launcher.pc \in {"activate", "probe", "commit", "commit_write"} => launcher.cand # None
    /\ launcher.pc = "migrate" => launcher.cand = ptr.pending
    /\ launcher.pc \in {"activate", "probe", "commit"} => InPlace(ptr.pending)
    /\ launcher.pc = "commit_write" => InPlace(launcher.copy.pending)
    /\ launcher.pc = "rollback_write" => launcher.copy = ptr
    /\ launcher.pc \in {"probe", "commit", "commit_write"} =>
          /\ running = channel[launcher.cand]
          /\ file[channel[launcher.cand]] = "exec"
    /\ launcher.pc \in {"commit", "commit_write"} => channel[launcher.cand] \in proven

\* What was seen ready can be run again, the bundled binary too.
ProvenRuns ==
    /\ file[Bundled] = "exec"
    /\ \A v \in proven : file[v] = "exec"

\* As long as no staging meets an activation: the server that is supervised is
\* the current version, a commit works on the pointers there are, the pending
\* release is newer than the current one and that newer than the previous.
Undisturbed ==
    slipped = {} =>
        /\ Restartable
        /\ launcher.pc = "supervising" => running = CurrentVersion
        /\ launcher.pc = "commit_write" => launcher.copy = ptr
        /\ ptr.pending # None => channel[ptr.pending] > CurrentVersion
        /\ ptr.previous # None => channel[ptr.previous] < CurrentVersion

\* The properties above and what makes them inductive.
IInv ==
    /\ TypeOK /\ CheckIsCurrent /\ InstallProgress /\ CopiesSound
    /\ CandidateInHand /\ ProvenRuns /\ Undisturbed

-----------------------------------------------------------------------------

=============================================================================
