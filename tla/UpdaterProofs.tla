--------------------------- MODULE UpdaterProofs ---------------------------
(***************************************************************************)
(* The inductive invariant of the updater and what follows from it, for    *)
(* any number of manifests and versions and any set of good versions.      *)
(*                                                                         *)
(* There is one lemma for each file or process a step writes; each shows   *)
(* the conjuncts of IInv the step can disturb and takes the others from    *)
(* Untouched.                                                              *)
(***************************************************************************)
EXTENDS Updater, TLAPS

\* What each conjunct of the invariant is about: a step that leaves those
\* variables alone keeps it.
LEMMA Untouched ==
  ASSUME IInv
  PROVE  /\ UNCHANGED <<channel, seq, chk, launcher, running>> => CheckIsCurrent'
         /\ UNCHANGED <<channel, file, chk>> => InstallProgress'
         /\ UNCHANGED <<channel, ptr, file, chk, launcher, proven, slipped>> => CopiesSound'
         /\ UNCHANGED <<channel, ptr, file, launcher, running, proven, slipped>> => CandidateInHand'
         /\ UNCHANGED <<file, proven>> => ProvenRuns'
         /\ UNCHANGED <<channel, ptr, launcher, running, slipped>> => Undisturbed'
<1>1. UNCHANGED <<channel, seq, chk, launcher, running>> => CheckIsCurrent'
  BY DEF IInv, CheckIsCurrent
<1>2. UNCHANGED <<channel, file, chk>> => InstallProgress'
  BY DEF IInv, InstallProgress
<1>3. UNCHANGED <<channel, ptr, file, chk, launcher, proven, slipped>> => CopiesSound'
  BY DEF IInv, CopiesSound, Sound, Installed, Known
<1>4. UNCHANGED <<channel, ptr, file, launcher, running, proven, slipped>> => CandidateInHand'
  BY DEF IInv, CandidateInHand, InPlace
<1>5. UNCHANGED <<file, proven>> => ProvenRuns'
  BY DEF IInv, ProvenRuns
<1>6. UNCHANGED <<channel, ptr, launcher, running, slipped>> => Undisturbed'
  BY DEF IInv, Undisturbed, Restartable, CurrentVersion
<1> QED BY <1>1, <1>2, <1>3, <1>4, <1>5, <1>6

\* The idle records are of their types, whatever has been published.
LEMMA IdleTypes ==
  ASSUME channel \in Seq(1..MaxVersion)
  PROVE  /\ NoPointers \in Pointers
         /\ IdleChecker \in [pc : CheckerPcs, man : Releases, copy : Pointers]
         /\ IdleLauncher \in [pc : LauncherPcs, cand : Releases, copy : Pointers]
<1>1. Len(channel) \in Nat /\ 0 \in Releases
  BY DEF Releases
<1>2. NoPointers \in Pointers
  BY <1>1 DEF NoPointers, Pointers, None
<1> QED BY <1>1, <1>2 DEF IdleChecker, IdleLauncher, CheckerPcs, LauncherPcs, None

LEMMA InitIInv == Init => IInv
<1> SUFFICES ASSUME Init PROVE IInv
  OBVIOUS
<1> USE UpdaterAssumption
<1>1. channel = <<>> /\ channel \in Seq(1..MaxVersion) /\ Len(channel) = 0
  BY DEF Init
<1>2. ptr = NoPointers /\ \A f \in PointerFields : ptr[f] = None
  BY DEF Init, NoPointers
<1>3. ptr.current = None /\ ptr.previous = None /\ ptr.pending = None
  BY <1>2 DEF PointerFields
<1>4. TypeOK
  BY <1>1, <1>2, IdleTypes
     DEF Init, TypeOK, Releases, Versions, FileStates, NoServer, Bundled
<1>5. chk.pc = "idle" /\ launcher.pc = "off" /\ running = NoServer
  BY DEF Init, IdleChecker, IdleLauncher
<1>6. file[Bundled] = "exec" /\ proven = {}
  BY DEF Init, Bundled, Versions
<1> QED BY <1>2, <1>3, <1>4, <1>5, <1>6
     DEF IInv, CheckIsCurrent, InstallProgress, CopiesSound, Sound, Installed, Known,
         CandidateInHand, ProvenRuns, Undisturbed, Restartable

-----------------------------------------------------------------------------
(* The release channel.                                                    *)

\* Pointers stay sound when releases are added, files put into place and
\* versions proven, and none goes away.
LEMMA SoundGrows ==
  ASSUME IInv, NEW p \in Pointers, Sound(p),
         \A s \in Releases : s # None => channel'[s] = channel[s],
         \A v \in Versions : file[v] # "absent" => file'[v] # "absent",
         proven \subseteq proven', slipped \subseteq slipped'
  PROVE  Sound(p)'
<1>1. \A f \in PointerFields : p[f] \in Releases
  BY DEF Pointers
<1>2. \A s \in Releases : s # None => channel[s] \in Versions
  BY UpdaterAssumption DEF IInv, TypeOK, Releases, None, Versions
<1>3. Installed(p)'
  BY <1>1, <1>2 DEF Sound, Installed
<1>4. Known(p.current)' /\ Known(p.previous)'
  <2>1. p.current \in Releases /\ p.previous \in Releases
    BY <1>1 DEF PointerFields
  <2> QED BY <2>1 DEF Sound, Known
<1> QED BY <1>3, <1>4 DEF Sound

\* A publication leaves every release that anything refers to as it is.
LEMMA PublishStep ==
  ASSUME IInv, NEW v \in 1..MaxVersion, Publish(v)
  PROVE  IInv'
<1> USE UpdaterAssumption
<1>1. channel \in Seq(1..MaxVersion) /\ Len(channel) \in Nat /\ TypeOK
  BY DEF IInv, TypeOK
<1>2. /\ channel' \in Seq(1..MaxVersion) /\ Len(channel') = Len(channel) + 1
      /\ Len(channel') <= MaxSeq
      /\ \A s \in 1..Len(channel) : channel'[s] = channel[s]
  BY <1>1 DEF Publish
<1>3. UNCHANGED <<seq, ptr, file, chk, launcher, running, proven, slipped>>
  BY DEF Publish, disk, hist
<1>4. Releases \subseteq Releases' /\ \A s \in Releases : s # None => channel'[s] = channel[s]
  BY <1>1, <1>2 DEF Releases, None
<1>5. Pointers \subseteq Pointers'
  BY <1>4 DEF Pointers
<1>6. TypeOK'
  BY <1>1, <1>2, <1>3, <1>4, <1>5 DEF TypeOK
<1>7. /\ ptr \in Pointers /\ chk.copy \in Pointers /\ launcher.copy \in Pointers
      /\ chk.man \in Releases /\ launcher.cand \in Releases
  BY <1>1 DEF TypeOK
<1>8. /\ ptr.current \in Releases /\ ptr.previous \in Releases /\ ptr.pending \in Releases
  BY <1>7 DEF Pointers, PointerFields
<1>9. CopiesSound'
  <2>1. \A p \in Pointers : Sound(p) => Sound(p)'
    BY <1>3, <1>4, SoundGrows
  <2>2. Sound(ptr)' /\ (chk.pc = "write" => Sound(chk.copy)')
        /\ (launcher.pc \in {"commit_write", "rollback_write"} => Sound(launcher.copy)')
    BY <1>3, <1>7, <2>1 DEF IInv, CopiesSound, Sound, Installed, Known
  <2> QED BY <1>3, <2>2 DEF CopiesSound, Sound, Installed, Known
<1>10. chk.pc # "idle" => chk.man # None
  BY DEF IInv, CheckIsCurrent, None
<1>11. CheckIsCurrent' /\ InstallProgress'
  BY <1>1, <1>2, <1>3, <1>4, <1>7, <1>10 DEF IInv, CheckIsCurrent, InstallProgress
<1>12. CurrentVersion' = CurrentVersion
  BY <1>3, <1>4, <1>8 DEF CurrentVersion
<1>13. CandidateInHand' /\ ProvenRuns'
  BY <1>3, <1>4, <1>7 DEF IInv, CandidateInHand, InPlace, ProvenRuns
<1>14. Undisturbed'
  BY <1>3, <1>4, <1>8, <1>12 DEF IInv, Undisturbed, Restartable
<1> QED BY <1>6, <1>9, <1>11, <1>13, <1>14 DEF IInv

-----------------------------------------------------------------------------
(* check_and_stage.                                                        *)

\* The type of chk and the facts about it that the steps below start from.
LEMMA CheckFacts ==
  ASSUME IInv
  PROVE  /\ channel \in Seq(1..MaxVersion) /\ Len(channel) \in Nat
         /\ ptr \in Pointers
         /\ chk \in [pc : CheckerPcs, man : Releases, copy : Pointers]
         /\ IdleChecker \in [pc : CheckerPcs, man : Releases, copy : Pointers]
         /\ IdleChecker.pc = "idle"
         /\ chk.pc # "idle" =>
              /\ launcher.pc \in Serving /\ chk.man \in 1..Len(channel)
              /\ channel[chk.man] \in 1..MaxVersion
<1>1. channel \in Seq(1..MaxVersion) /\ Len(channel) \in Nat /\ ptr \in Pointers
  BY DEF IInv, TypeOK
<1>2. chk.pc # "idle" => launcher.pc \in Serving /\ chk.man \in 1..Len(channel)
  BY DEF IInv, CheckIsCurrent
<1>3. ASSUME NEW s \in 1..Len(channel) PROVE channel[s] \in 1..MaxVersion
  BY <1>1, UpdaterAssumption
<1>4. IdleChecker.pc = "idle"
  BY DEF IdleChecker
<1> QED BY <1>1, <1>2, <1>3, <1>4, IdleTypes DEF IInv, TypeOK

\* A step of the check that writes no pointers and holds none keeps them sound.
LEMMA CheckKeepsCopies ==
  ASSUME IInv, UNCHANGED <<channel, ptr, file, launcher, proven, slipped>>,
         chk'.pc = "write" => chk'.copy = ptr
  PROVE  CopiesSound'
BY DEF IInv, CopiesSound, Sound, Installed, Known

\* The steps that write nothing but the check's own state.
LEMMA LookStep ==
  ASSUME IInv, Fetch \/ Verify \/ Download \/ Install \/ ReadPointers
  PROVE  IInv'
<1> USE UpdaterAssumption
<1>1. UNCHANGED <<channel, seq, ptr, file, launcher, running, proven, slipped>>
  BY DEF Fetch, Verify, Download, Install, ReadPointers, disk, hist
<1>2. CandidateInHand' /\ ProvenRuns' /\ Undisturbed'
  BY <1>1, Untouched
<1>3. /\ chk' \in [pc : CheckerPcs, man : Releases, copy : Pointers]
      /\ CheckIsCurrent' /\ InstallProgress'
      /\ chk'.pc = "write" => chk'.copy = ptr
  <2>1. CASE Fetch
    <3>1. PICK s \in 1..Len(channel) : chk' = [chk EXCEPT !.pc = "verify", !.man = s]
      BY <2>1 DEF Fetch
    <3>2. launcher.pc \in Serving /\ s \in Releases /\ "verify" \in CheckerPcs
      <4>1. Len(channel) \in Nat
        BY CheckFacts
      <4>2. s \in Releases
        BY <4>1 DEF Releases
      <4>3. launcher.pc \in Serving
        BY <2>1 DEF Fetch, IInv, CheckIsCurrent
      <4> QED BY <4>2, <4>3 DEF CheckerPcs
    <3>3. chk'.pc = "verify" /\ chk'.man = s
      BY <3>1, CheckFacts
    <3>4. chk' \in [pc : CheckerPcs, man : Releases, copy : Pointers]
      BY <3>1, <3>2, CheckFacts
    <3> QED BY <3>2, <3>3, <3>4, <1>1 DEF CheckIsCurrent, InstallProgress
  <2>2. CASE Verify
    <3>1. CASE chk' = IdleChecker
      BY <3>1, <1>1, CheckFacts DEF IInv, CheckIsCurrent, InstallProgress
    <3>2. CASE /\ chk' = [chk EXCEPT !.pc = "compare"]
               /\ chk.man >= seq
      BY <2>2, <3>2, <1>1, CheckFacts
         DEF Verify, CheckIsCurrent, InstallProgress, CheckerPcs
    <3> QED BY <2>2, <3>1, <3>2 DEF Verify, Goto
  <2>3. CASE Download
    <3>1. CASE chk' = IdleChecker
      BY <3>1, <1>1, CheckFacts DEF IInv, CheckIsCurrent, InstallProgress
    <3>2. CASE chk' = [chk EXCEPT !.pc = "install"]
      BY <2>3, <3>2, <1>1, CheckFacts
         DEF Download, IInv, CheckIsCurrent, InstallProgress, CheckerPcs
    <3> QED BY <2>3, <3>1, <3>2 DEF Download, Goto
  <2>4. CASE Install
    BY <2>4, <1>1, CheckFacts
       DEF Install, Goto, IInv, CheckIsCurrent, InstallProgress, CheckerPcs
  <2>5. CASE ReadPointers
    BY <2>5, <1>1, CheckFacts
       DEF ReadPointers, IInv, TypeOK, CheckIsCurrent, InstallProgress, CheckerPcs
  <2> QED BY <2>1, <2>2, <2>3, <2>4, <2>5
<1>4. TypeOK'
  BY <1>1, <1>3 DEF IInv, TypeOK, Releases, Pointers
<1>5. CopiesSound'
  BY <1>1, <1>3, CheckKeepsCopies
<1> QED BY <1>2, <1>3, <1>4, <1>5 DEF IInv

\* The steps that write the sequence file: it follows the manifest at hand.
LEMMA SequenceStep ==
  ASSUME IInv, Compare \/ Record
  PROVE  IInv'
<1> USE UpdaterAssumption
<1>1. UNCHANGED <<channel, ptr, file, launcher, running, proven, slipped>>
  BY DEF Compare, Record, hist
<1>2. CandidateInHand' /\ ProvenRuns' /\ Undisturbed'
  BY <1>1, Untouched
<1>3. /\ chk' \in [pc : CheckerPcs, man : Releases, copy : Pointers]
      /\ seq' \in Releases /\ CheckIsCurrent' /\ InstallProgress'
      /\ chk'.pc # "write"
  <2>1. CASE Compare /\ chk' = IdleChecker
    BY <2>1, <1>1, CheckFacts
       DEF Compare, IInv, TypeOK, CheckIsCurrent, InstallProgress, Releases
  <2>2. CASE Compare /\ chk' # IdleChecker
    BY <2>2, <1>1, CheckFacts
       DEF Compare, Goto, IInv, TypeOK, CheckIsCurrent, InstallProgress, CheckerPcs
  <2>3. CASE Record
    BY <2>3, <1>1, CheckFacts
       DEF Record, Goto, IInv, CheckIsCurrent, InstallProgress, CheckerPcs, Releases
  <2> QED BY <2>1, <2>2, <2>3
<1>4. TypeOK'
  BY <1>1, <1>3 DEF IInv, TypeOK, Releases, Pointers
<1>5. CopiesSound'
  BY <1>1, <1>3, CheckKeepsCopies
<1> QED BY <1>2, <1>3, <1>4, <1>5 DEF IInv

\* The steps that put an executable into place.  Its file is not executable
\* yet, so no proven version, no candidate and no pointer loses its file.
LEMMA FileStep ==
  ASSUME IInv, Rename \/ Chmod
  PROVE  IInv'
<1> USE UpdaterAssumption
<1> DEFINE v == channel[chk.man]
<1>1. UNCHANGED <<channel, seq, ptr, launcher, running, proven, slipped>>
  BY DEF Rename, Chmod, hist
<1>2. Undisturbed'
  BY <1>1, Untouched
<1>3. /\ chk.pc \in {"rename", "chmod"} /\ v \in Versions /\ file[v] # "exec"
  BY CheckFacts DEF Rename, Chmod, IInv, InstallProgress, Versions
<1>4. /\ file' = [file EXCEPT ![v] = file'[v]]
      /\ file'[v] = IF chk.pc = "rename" THEN "plain" ELSE "exec"
      /\ chk' = [chk EXCEPT !.pc = IF chk.pc = "rename" THEN "chmod" ELSE "record"]
  BY <1>3 DEF Rename, Chmod, Goto, IInv, TypeOK
<1>5. /\ file' \in [Versions -> FileStates]
      /\ \A w \in Versions \ {v} : file'[w] = file[w]
      /\ file'[v] # "absent"
  BY <1>3, <1>4 DEF IInv, TypeOK, FileStates
<1>6. /\ chk' \in [pc : CheckerPcs, man : Releases, copy : Pointers]
      /\ CheckIsCurrent' /\ InstallProgress' /\ chk'.pc # "write"
  BY <1>1, <1>3, <1>4, CheckFacts DEF IInv, CheckIsCurrent, InstallProgress, CheckerPcs
<1>7. TypeOK'
  BY <1>1, <1>5, <1>6 DEF IInv, TypeOK, Releases, Pointers
<1>8. CopiesSound'
  <2>1. \A p \in Pointers : Sound(p) => Sound(p)'
    BY <1>1, <1>5, SoundGrows
  <2>2. Sound(ptr)'
    BY <1>1, <2>1 DEF IInv, TypeOK, CopiesSound
  <2>3. (launcher.pc \in {"commit_write", "rollback_write"} => Sound(launcher.copy))'
    <3> SUFFICES ASSUME launcher'.pc \in {"commit_write", "rollback_write"}
                 PROVE  Sound(launcher.copy)'
      OBVIOUS
    <3>1. PICK c \in Pointers : c = launcher.copy
      BY DEF IInv, TypeOK
    <3>2. Sound(c)
      BY <1>1, <3>1 DEF IInv, CopiesSound
    <3>3. Sound(c)'
      BY <2>1, <3>2
    <3> QED BY <1>1, <3>1, <3>3 DEF Sound, Installed, Known
  <2> QED BY <1>6, <2>2, <2>3 DEF CopiesSound
<1>9. CandidateInHand'
  <2>1. launcher.pc \in {"probe", "commit", "commit_write"} => channel[launcher.cand] \in Versions
    BY CheckFacts DEF IInv, TypeOK, CandidateInHand, Releases, None, Versions
  <2> QED BY <2>1, <1>1, <1>3, <1>5 DEF IInv, CandidateInHand, InPlace
<1>10. ProvenRuns'
  BY <1>1, <1>3, <1>5 DEF IInv, TypeOK, ProvenRuns, Bundled, Versions
<1> QED BY <1>2, <1>6, <1>7, <1>8, <1>9, <1>10 DEF IInv

\* The check's write of the pointers: the release is installed, and newer than
\* the running server.  Where it meets an activation it says so.
LEMMA StageStep ==
  ASSUME IInv, Stage
  PROVE  IInv'
<1> USE UpdaterAssumption
<1>1. UNCHANGED <<channel, seq, file, launcher, running, proven>> /\ chk' = IdleChecker
  BY DEF Stage, Goto
<1>2. /\ chk.pc = "write" /\ chk.man \in 1..Len(channel) /\ launcher.pc \in Serving
      /\ chk.copy \in Pointers /\ Len(channel) \in Nat /\ chk.man \in Releases /\ chk.man # None
      /\ ptr' = [chk.copy EXCEPT !.pending = chk.man]
  BY CheckFacts DEF Stage, Releases, None
<1>3. /\ ptr' \in Pointers /\ ptr'.current = chk.copy.current
      /\ ptr'.previous = chk.copy.previous /\ ptr'.pending = chk.man
      /\ \A f \in PointerFields : ptr'[f] = IF f = "pending" THEN chk.man ELSE chk.copy[f]
  BY <1>2 DEF Pointers, PointerFields, Releases
<1>4. /\ slipped' = slipped /\ launcher.pc = "supervising" /\ chk.copy = ptr
      \/ slipped' = slipped \cup {chk.man}
  BY DEF Stage
<1>5. slipped \subseteq slipped' /\ slipped' \subseteq Releases
  BY <1>2, <1>4 DEF IInv, TypeOK
<1>6. TypeOK'
  BY <1>1, <1>3, <1>5, IdleTypes DEF IInv, TypeOK, Releases, Pointers
<1>7. channel[chk.man] > running /\ file[channel[chk.man]] # "absent"
  BY <1>2 DEF IInv, CheckIsCurrent, InstallProgress
<1>8. CopiesSound'
  <2>1. Sound(chk.copy)
    BY <1>2 DEF IInv, CopiesSound
  <2>2. Installed(ptr)'
    BY <1>1, <1>3, <1>7, <2>1 DEF Sound, Installed
  <2>3. Sound(ptr)'
    BY <1>1, <1>3, <1>5, <2>1, <2>2 DEF Sound, Known
  <2>4. \A p \in Pointers : Sound(p) => Sound(p)'
    BY <1>1, <1>5, SoundGrows
  <2>5. (launcher.pc \in {"commit_write", "rollback_write"} => Sound(launcher.copy))'
    <3> SUFFICES ASSUME launcher'.pc \in {"commit_write", "rollback_write"}
                 PROVE  Sound(launcher.copy)'
      OBVIOUS
    <3>1. PICK c \in Pointers : c = launcher.copy
      BY DEF IInv, TypeOK
    <3>2. Sound(c)
      BY <1>1, <3>1 DEF IInv, CopiesSound
    <3>3. Sound(c)'
      BY <2>4, <3>2
    <3> QED BY <1>1, <3>1, <3>3 DEF Sound, Installed, Known
  <2>6. chk'.pc # "write"
    BY <1>1 DEF IdleChecker
  <2> QED BY <2>3, <2>5, <2>6 DEF CopiesSound
<1>9. CheckIsCurrent' /\ InstallProgress'
  BY <1>1 DEF IInv, CheckIsCurrent, InstallProgress, IdleChecker
<1>10. CandidateInHand'
  <2>1. launcher.pc # "supervising" => ptr'.pending \in slipped'
    BY <1>3, <1>4
  <2> QED BY <1>1, <1>2, <1>3, <1>5, <2>1 DEF IInv, CandidateInHand, InPlace, Serving
<1>11. ProvenRuns'
  BY <1>1 DEF IInv, ProvenRuns
<1>12. Undisturbed'
  <2> SUFFICES ASSUME slipped' = {} PROVE Undisturbed'
    BY DEF Undisturbed
  <2>1. slipped = {} /\ launcher.pc = "supervising" /\ chk.copy = ptr
    BY <1>4
  <2>2. CurrentVersion' = CurrentVersion /\ running = CurrentVersion
    BY <1>1, <1>3, <2>1 DEF CurrentVersion, IInv, Undisturbed
  <2> QED BY <1>1, <1>3, <1>7, <2>1, <2>2 DEF IInv, Undisturbed, Restartable
<1> QED BY <1>6, <1>8, <1>9, <1>10, <1>11, <1>12 DEF IInv

-----------------------------------------------------------------------------
(* The launcher.                                                           *)

\* What the steps of the launcher start from.
LEMMA LauncherFacts ==
  ASSUME IInv
  PROVE  /\ launcher \in [pc : LauncherPcs, cand : Releases, copy : Pointers]
         /\ IdleLauncher \in [pc : LauncherPcs, cand : Releases, copy : Pointers]
         /\ ptr \in Pointers
         /\ ptr.current \in Releases /\ ptr.previous \in Releases /\ ptr.pending \in Releases
         /\ None \in Releases
         /\ \A s \in Releases : s # None => channel[s] \in 1..MaxVersion
         /\ launcher.pc \notin Serving => chk.pc = "idle" /\ running = NoServer
<1>1. channel \in Seq(1..MaxVersion) /\ Len(channel) \in Nat /\ ptr \in Pointers
  BY DEF IInv, TypeOK
<1>2. ASSUME NEW s \in Releases, s # None PROVE channel[s] \in 1..MaxVersion
  BY <1>1, <1>2, UpdaterAssumption DEF Releases, None
<1>3. ptr.current \in Releases /\ ptr.previous \in Releases /\ ptr.pending \in Releases
  BY <1>1 DEF Pointers, PointerFields
<1>4. launcher.pc \notin Serving => chk.pc = "idle" /\ running = NoServer
  BY DEF IInv, CheckIsCurrent
<1>5. None \in Releases
  BY <1>1 DEF None, Releases
<1> QED BY <1>1, <1>2, <1>3, <1>4, <1>5, IdleTypes DEF IInv, TypeOK

\* The binary a plain start or a rollback takes is the current version, and as
\* long as no staging met an activation it can be run: it was proven, and
\* nothing takes the mode of a file away.
LEMMA KnownGoodRuns ==
  ASSUME IInv
  PROVE  /\ KnownGood = CurrentVersion /\ KnownGood \in 0..MaxVersion
         /\ slipped = {} => file[KnownGood] = "exec"
<1>1. CASE ptr.current = None
  BY <1>1, UpdaterAssumption DEF KnownGood, CurrentVersion, Bundled, IInv, ProvenRuns
<1>2. CASE ptr.current # None
  <2>1. file[channel[ptr.current]] # "absent"
    BY <1>2 DEF IInv, CopiesSound, Sound, Installed, PointerFields
  <2>2. slipped = {} => file[channel[ptr.current]] = "exec"
    BY <1>2 DEF IInv, CopiesSound, Sound, Known, ProvenRuns
  <2>3. channel[ptr.current] \in 0..MaxVersion
    BY <1>2, LauncherFacts, UpdaterAssumption
  <2> QED BY <1>2, <2>1, <2>2, <2>3 DEF KnownGood, CurrentVersion
<1> QED BY <1>1, <1>2

\* A step of the launcher that leaves the pointers alone keeps them sound.
LEMMA LaunchKeepsCopies ==
  ASSUME IInv, UNCHANGED <<channel, ptr, file, chk, proven, slipped>>,
         launcher'.pc \in {"commit_write", "rollback_write"} => launcher'.copy = ptr
  PROVE  CopiesSound'
BY DEF IInv, CopiesSound, Sound, Installed, Known

\* The steps that read the pointers, or start a server, and write no file.
LEMMA StartStep ==
  ASSUME IInv,
         Launch \/ Migrate \/ Activate \/ CommitRead \/ RollbackRead \/ Fallback \/ Select
  PROVE  IInv'
<1> USE UpdaterAssumption
<1>1. UNCHANGED <<channel, seq, ptr, file, chk, proven, slipped>>
  BY DEF Launch, Migrate, Activate, CommitRead, RollbackRead, Fallback, Select, disk, hist
<1>2. ProvenRuns' /\ InstallProgress'
  BY <1>1, Untouched
<1>3. CurrentVersion' = CurrentVersion
  BY <1>1 DEF CurrentVersion
<1>4. /\ launcher' \in [pc : LauncherPcs, cand : Releases, copy : Pointers]
      /\ running' \in 0..NoServer
      /\ launcher'.pc \in {"commit_write", "rollback_write"} => launcher'.copy = ptr
      /\ launcher'.pc \notin Serving => chk.pc = "idle" /\ running' = NoServer
      /\ launcher.pc \notin Serving \/ running' = running
      /\ launcher'.pc = "supervising" => running' = CurrentVersion
      /\ launcher'.pc = "failed" => slipped # {}
      /\ CandidateInHand'
  <2>1. CASE Launch
    <3>1. /\ launcher'.cand = ptr.pending /\ launcher'.pc = "migrate"
          /\ launcher.pc \notin Serving /\ running' = running
          /\ launcher' \in [pc : LauncherPcs, cand : Releases, copy : Pointers]
      BY <2>1, LauncherFacts DEF Launch, LauncherPcs, Serving
    <3> QED BY <3>1, <1>1, LauncherFacts DEF IInv, TypeOK, CandidateInHand, Serving
  <2>2. CASE Migrate
    <3>1. /\ launcher.pc = "migrate" /\ launcher.cand = ptr.pending /\ running' = running
          /\ launcher.pc \notin Serving
      BY <2>2 DEF Migrate, IInv, CandidateInHand, Serving
    <3>2. CASE launcher' = [IdleLauncher EXCEPT !.pc = "off"]
      BY <3>1, <3>2, <1>1, LauncherFacts DEF IInv, TypeOK, CandidateInHand, LauncherPcs, Serving
    <3>3. CASE launcher' = [launcher EXCEPT !.pc = "rollback"]
      BY <3>1, <3>3, <1>1, LauncherFacts DEF IInv, TypeOK, CandidateInHand, LauncherPcs, Serving
    <3>4. CASE launcher' = [launcher EXCEPT !.pc = "select"]
      BY <3>1, <3>4, <1>1, LauncherFacts DEF IInv, TypeOK, CandidateInHand, LauncherPcs, Serving
    <3>5. CASE launcher.cand # None /\ launcher' = [launcher EXCEPT !.pc = "activate"]
      <4>1. launcher'.pc = "activate" /\ launcher'.cand = ptr.pending /\ ptr.pending # None
        BY <3>1, <3>5, LauncherFacts
      <4>2. launcher' \in [pc : LauncherPcs, cand : Releases, copy : Pointers]
        BY <3>5, LauncherFacts DEF LauncherPcs
      <4>3. running' \in 0..NoServer
        BY <3>1 DEF IInv, TypeOK
      <4> QED BY <3>1, <4>1, <4>2, <4>3, <1>1, LauncherFacts
               DEF CandidateInHand, InPlace, Serving
    <3> QED BY <2>2, <3>2, <3>3, <3>4, <3>5 DEF Migrate, LauncherGoto
  <2>3. CASE Activate
    <3>1. /\ launcher'.pc \in {"probe", "rollback"} /\ launcher'.cand = launcher.cand
          /\ launcher' \in [pc : LauncherPcs, cand : Releases, copy : Pointers]
      BY <2>3, LauncherFacts DEF Activate, LauncherGoto, LauncherPcs
    <3>2. /\ launcher.pc = "activate" /\ launcher.cand # None
          /\ InPlace(ptr.pending) /\ channel[launcher.cand] \in 1..MaxVersion
          /\ launcher.pc \notin Serving
      BY <2>3, LauncherFacts DEF Activate, IInv, CandidateInHand, Serving
    <3>3. launcher'.pc = "probe" =>
              running' = channel[launcher.cand] /\ file[channel[launcher.cand]] = "exec"
      BY <2>3, LauncherFacts DEF Activate, LauncherGoto
    <3>4. launcher'.pc = "rollback" => running' = running
      BY <2>3, LauncherFacts DEF Activate, LauncherGoto
    <3>5. running' \in 0..NoServer
      BY <3>1, <3>2, <3>3, <3>4 DEF IInv, TypeOK, NoServer
    <3> QED BY <3>1, <3>2, <3>3, <3>4, <3>5, <1>1, LauncherFacts
            DEF CandidateInHand, InPlace, Serving
  <2>4. CASE CommitRead
    <3>1. /\ InPlace(ptr.pending) /\ ptr.pending # None /\ launcher.cand # None
          /\ running = channel[launcher.cand] /\ file[channel[launcher.cand]] = "exec"
          /\ channel[launcher.cand] \in proven
      BY <2>4 DEF CommitRead, IInv, CandidateInHand, InPlace
    <3>2. /\ launcher'.pc = "commit_write" /\ launcher'.cand = launcher.cand
          /\ launcher'.copy = ptr /\ running' = running
          /\ launcher' \in [pc : LauncherPcs, cand : Releases, copy : Pointers]
      BY <2>4, <3>1, LauncherFacts DEF CommitRead, LauncherPcs
    <3> QED BY <3>1, <3>2, <1>1 DEF IInv, TypeOK, CandidateInHand, InPlace, Serving
  <2>5. CASE RollbackRead
    <3>1. /\ launcher'.pc = "rollback_write" /\ launcher'.copy = ptr /\ running' = running
          /\ launcher' \in [pc : LauncherPcs, cand : Releases, copy : Pointers]
          /\ launcher.pc \notin Serving
      BY <2>5, LauncherFacts DEF RollbackRead, LauncherPcs, Serving
    <3> QED BY <3>1, <1>1, LauncherFacts DEF IInv, TypeOK, CandidateInHand, Serving
  <2>6. CASE Fallback \/ Select
    <3>1. \/ running' = CurrentVersion /\ launcher' = [IdleLauncher EXCEPT !.pc = "supervising"]
          \/ /\ running' = running /\ launcher' = [IdleLauncher EXCEPT !.pc = "failed"]
             /\ slipped # {}
      BY <2>6, KnownGoodRuns DEF Fallback, Select, Spawn, LauncherGoto
    <3>2. /\ launcher'.pc \in {"supervising", "failed"}
          /\ launcher' \in [pc : LauncherPcs, cand : Releases, copy : Pointers]
          /\ launcher'.pc = "supervising" => running' = CurrentVersion
          /\ launcher'.pc = "failed" => slipped # {} /\ running' = running
      BY <3>1, LauncherFacts DEF LauncherPcs
    <3>3. running' \in 0..NoServer
      BY <3>1, KnownGoodRuns DEF IInv, TypeOK, NoServer
    <3>4. launcher.pc \notin Serving
      BY <2>6 DEF Fallback, Select, Serving
    <3> QED BY <3>2, <3>3, <3>4, LauncherFacts DEF CandidateInHand, Serving
  <2> QED BY <2>1, <2>2, <2>3, <2>4, <2>5, <2>6
<1>5. TypeOK'
  BY <1>1, <1>4 DEF IInv, TypeOK, Releases, Pointers
<1>6. CopiesSound'
  BY <1>1, <1>4, LaunchKeepsCopies
<1>7. CheckIsCurrent'
  BY <1>1, <1>4, LauncherFacts DEF IInv, CheckIsCurrent
<1>8. Undisturbed'
  BY <1>1, <1>3, <1>4 DEF IInv, Undisturbed, Restartable
<1> QED BY <1>2, <1>4, <1>5, <1>6, <1>7, <1>8 DEF IInv

\* The candidate is ready: its executable is the one that runs.
LEMMA HealthyStep ==
  ASSUME IInv, CandidateHealthy
  PROVE  IInv'
<1> USE UpdaterAssumption
<1>1. UNCHANGED <<channel, seq, ptr, file, chk, running, slipped>>
  BY DEF CandidateHealthy, disk
<1>2. /\ launcher.pc = "probe" /\ launcher'.pc = "commit" /\ launcher'.cand = launcher.cand
      /\ launcher' \in [pc : LauncherPcs, cand : Releases, copy : Pointers]
      /\ proven' = proven \cup {channel[launcher.cand]}
  BY LauncherFacts DEF CandidateHealthy, LauncherGoto, LauncherPcs
<1>3. /\ launcher.cand # None /\ InPlace(ptr.pending)
      /\ file[channel[launcher.cand]] = "exec" /\ running = channel[launcher.cand]
      /\ channel[launcher.cand] \in Versions
  BY <1>2, LauncherFacts DEF IInv, CandidateInHand, Versions
<1>4. TypeOK'
  BY <1>1, <1>2, <1>3 DEF IInv, TypeOK, Releases, Pointers
<1>5. CheckIsCurrent' /\ InstallProgress'
  BY <1>1, <1>2 DEF IInv, CheckIsCurrent, InstallProgress, Serving
<1>6. CopiesSound'
  BY <1>1, <1>2 DEF IInv, CopiesSound, Sound, Installed, Known
<1>7. CandidateInHand' /\ ProvenRuns'
  BY <1>1, <1>2, <1>3 DEF IInv, CandidateInHand, InPlace, ProvenRuns
<1>8. Undisturbed'
  BY <1>1, <1>2 DEF IInv, Undisturbed, Restartable, CurrentVersion
<1> QED BY <1>4, <1>5, <1>6, <1>7, <1>8 DEF IInv

\* The steps that end the server, and its check with it.
LEMMA StopStep ==
  ASSUME IInv, CandidateUnhealthy \/ ServerExit \/ Crash
  PROVE  IInv'
<1> USE UpdaterAssumption
<1>1. /\ UNCHANGED <<channel, seq, ptr, file, proven, slipped>>
      /\ running' = NoServer /\ chk' = IdleChecker
  BY DEF CandidateUnhealthy, ServerExit, Crash, StopServer, disk, hist
<1>2. /\ launcher'.pc \in {"off", "rollback"}
      /\ launcher' \in [pc : LauncherPcs, cand : Releases, copy : Pointers]
  BY LauncherFacts
     DEF CandidateUnhealthy, ServerExit, Crash, LauncherGoto, LauncherPcs, IdleLauncher
<1>3. TypeOK'
  BY <1>1, <1>2, IdleTypes DEF IInv, TypeOK, Releases, Pointers, NoServer
<1>4. ProvenRuns'
  BY <1>1, Untouched
<1>5. CheckIsCurrent' /\ InstallProgress'
  BY <1>1 DEF CheckIsCurrent, InstallProgress, IdleChecker
<1>6. CopiesSound'
  BY <1>1, <1>2 DEF IInv, CopiesSound, Sound, Installed, Known, IdleChecker
<1>7. CandidateInHand' /\ Undisturbed'
  BY <1>1, <1>2 DEF IInv, CandidateInHand, Undisturbed, Restartable, CurrentVersion
<1> QED BY <1>3, <1>4, <1>5, <1>6, <1>7 DEF IInv

\* The commit: what becomes current is the release that was proven, or one that
\* slipped in, and what it displaces stays as the previous one.
LEMMA CommitStep ==
  ASSUME IInv, CommitWrite
  PROVE  IInv'
<1> USE UpdaterAssumption
<1> DEFINE q == launcher.copy
<1>1. /\ UNCHANGED <<channel, seq, file, chk, running, proven, slipped>>
      /\ launcher.pc = "commit_write" /\ launcher' = [IdleLauncher EXCEPT !.pc = "supervising"]
  BY DEF CommitWrite, LauncherGoto, hist
<1>2. /\ Sound(q) /\ InPlace(q.pending) /\ q \in Pointers
      /\ channel[launcher.cand] \in proven /\ running = channel[launcher.cand]
  BY <1>1, LauncherFacts DEF IInv, CopiesSound, CandidateInHand
<1>3. q.current \in Releases /\ q.pending \in Releases
  BY <1>2 DEF Pointers, PointerFields
<1>4. /\ ptr'.current = q.pending /\ ptr'.previous = q.current /\ ptr'.pending = None
      /\ ptr' \in Pointers
  <2>1. ptr' = [current |-> q.pending, previous |-> q.current, pending |-> None]
    BY DEF CommitWrite, CommitHealthyCandidate
  <2>2. ptr' \in [current : Releases, previous : Releases, pending : Releases]
    BY <1>3, <2>1, LauncherFacts
  <2>3. [current : Releases, previous : Releases, pending : Releases] \subseteq Pointers
    BY DEF Pointers, PointerFields
  <2> QED BY <2>1, <2>2, <2>3
<1>5. /\ launcher'.pc = "supervising"
      /\ launcher' \in [pc : LauncherPcs, cand : Releases, copy : Pointers]
  BY <1>1, LauncherFacts DEF LauncherPcs
<1>6. TypeOK'
  BY <1>1, <1>4, <1>5 DEF IInv, TypeOK, Releases, Pointers
<1>7. CopiesSound'
  <2>1. Installed(ptr)'
    <3>1. Installed(ptr)' =
            \A f \in {"current", "previous", "pending"} :
                ptr'[f] # None => file[channel[ptr'[f]]] # "absent"
      BY <1>1 DEF Installed, PointerFields
    <3> QED BY <3>1, <1>2, <1>4 DEF Sound, Installed, PointerFields
  <2>2. Known(ptr.current)' /\ Known(ptr.previous)' /\ ptr'.current # None
    BY <1>1, <1>2, <1>4 DEF Sound, Known, InPlace
  <2>3. Sound(ptr)'
    BY <2>1, <2>2 DEF Sound
  <2>4. chk.pc = "write" => Sound(chk.copy)'
    BY <1>1 DEF IInv, CopiesSound, Sound, Installed, Known
  <2> QED BY <1>1, <1>5, <2>3, <2>4 DEF CopiesSound, Sound, Installed, Known
<1>8. CheckIsCurrent' /\ InstallProgress'
  BY <1>1, <1>5 DEF IInv, CheckIsCurrent, InstallProgress, Serving
<1>9. CandidateInHand' /\ ProvenRuns'
  BY <1>1, <1>5 DEF IInv, CandidateInHand, ProvenRuns
<1>10. Undisturbed'
  <2> SUFFICES ASSUME slipped' = {} PROVE Undisturbed'
    BY DEF Undisturbed
  <2>1. slipped = {} /\ q = ptr /\ q.pending = launcher.cand /\ q.pending # None
    BY <1>1, <1>2 DEF IInv, Undisturbed, InPlace
  <2>2. channel[q.pending] > CurrentVersion
    BY <2>1 DEF IInv, Undisturbed
  <2>3. CurrentVersion' = channel[q.pending]
    BY <1>1, <1>4, <2>1 DEF CurrentVersion
  <2>4. ptr'.previous # None => channel[ptr'.previous] = CurrentVersion
    BY <1>4, <2>1 DEF CurrentVersion
  <2>5. CurrentVersion \in Nat /\ channel[q.pending] \in Nat
    BY <1>3, <2>1, KnownGoodRuns, LauncherFacts
  <2> QED BY <1>1, <1>2, <1>4, <1>5, <2>1, <2>2, <2>3, <2>4, <2>5
          DEF Undisturbed, Restartable
<1> QED BY <1>6, <1>7, <1>8, <1>9, <1>10 DEF IInv

\* The rollback takes back the candidate and nothing else.
LEMMA RollbackStep ==
  ASSUME IInv, RollbackWrite
  PROVE  IInv'
<1> USE UpdaterAssumption
<1>1. /\ UNCHANGED <<channel, seq, file, chk, running, proven, slipped>>
      /\ launcher.pc = "rollback_write" /\ launcher' = [IdleLauncher EXCEPT !.pc = "fallback"]
  BY DEF RollbackWrite, LauncherGoto, hist
<1>2. launcher.copy = ptr /\ chk.pc = "idle" /\ running = NoServer
  BY <1>1, LauncherFacts DEF IInv, CandidateInHand, Serving
<1>3. /\ ptr'.current = ptr.current /\ ptr'.previous = ptr.previous /\ ptr'.pending = None
      /\ ptr' \in Pointers
      /\ \A f \in PointerFields : ptr'[f] = IF f = "pending" THEN None ELSE ptr[f]
  BY <1>2, LauncherFacts DEF RollbackWrite, RollbackCandidate, Pointers, PointerFields
<1>4. /\ launcher'.pc = "fallback"
      /\ launcher' \in [pc : LauncherPcs, cand : Releases, copy : Pointers]
  BY <1>1, LauncherFacts DEF LauncherPcs
<1>5. TypeOK'
  BY <1>1, <1>3, <1>4 DEF IInv, TypeOK, Releases, Pointers
<1>6. CopiesSound'
  BY <1>1, <1>2, <1>3, <1>4 DEF IInv, CopiesSound, Sound, Installed, Known
<1>7. CheckIsCurrent' /\ InstallProgress'
  BY <1>1, <1>2 DEF CheckIsCurrent, InstallProgress
<1>8. CandidateInHand' /\ ProvenRuns'
  BY <1>1, <1>4 DEF IInv, CandidateInHand, ProvenRuns
<1>9. Undisturbed'
  BY <1>1, <1>3, <1>4 DEF IInv, Undisturbed, Restartable, CurrentVersion
<1> QED BY <1>5, <1>6, <1>7, <1>8, <1>9 DEF IInv

-----------------------------------------------------------------------------

\* Every step keeps the inductive invariant.
LEMMA NextIInv == IInv /\ [Next]_vars => IInv'
<1> SUFFICES ASSUME IInv, [Next]_vars PROVE IInv'
  OBVIOUS
<1>1. CASE \E v \in 1..MaxVersion : Publish(v)
  BY <1>1, PublishStep
<1>2. CASE CheckAndStage
  BY <1>2, LookStep, SequenceStep, FileStep, StageStep DEF CheckAndStage
<1>3. CASE Launch \/ Migrate \/ LauncherStep \/ ServerExit \/ Crash
  BY <1>3, StartStep, HealthyStep, StopStep, CommitStep, RollbackStep DEF LauncherStep
<1>4. CASE UNCHANGED vars
  <2>1. UNCHANGED <<channel, seq, ptr, file, chk, launcher, running, proven, slipped>>
    BY <1>4 DEF vars
  <2>2. TypeOK'
    BY <2>1 DEF IInv, TypeOK, Releases, Pointers
  <2> QED BY <2>1, <2>2, Untouched DEF IInv
<1> QED BY <1>1, <1>2, <1>3, <1>4 DEF Next

\* The state directory, the check and the launcher stay consistent with each
\* other, however checks, activations and crashes fall and even where a check
\* of the candidate meets its activation.
THEOREM DirectoryConsistent == Spec => []IInv
<1> QED BY InitIInv, NextIInv, PTL DEF Spec

\* What versions.json names is on disk after any crash and after any two
\* read-edit-write updates of it (updater.rs install_staging, write_pointers).
THEOREM NamedIsInstalled == Spec => []PointersInstalled
<1>1. IInv => PointersInstalled BY DEF IInv, CopiesSound, Sound, PointersInstalled
<1> QED BY <1>1, DirectoryConsistent, PTL

\* The current release was seen ready and answering before it was committed,
\* or it is one that the candidate's own check staged during its activation
\* (updater.rs commit_healthy_candidate, sift-launcher.rs).
THEOREM OnlyProvenIsCurrent == Spec => []CurrentProven
<1>1. IInv => CurrentProven BY DEF IInv, CopiesSound, Sound, CurrentProven
<1> QED BY <1>1, DirectoryConsistent, PTL

\* As long as no check met an activation, no update leaves an installation
\* whose launcher finds nothing it can run (sift-launcher.rs, the fallback to
\* the current release or the bundled one).
THEOREM AlwaysRestartable == Spec => []Restartable
<1>1. IInv => Restartable BY DEF IInv, Undisturbed, Restartable
<1> QED BY <1>1, DirectoryConsistent, PTL

\* The observed sequence never goes back, nor the current release as long as no
\* check met an activation (updater.rs verify_manifest_owned, record_sequence).
THEOREM ChannelNeverRollsBack == Spec => NoRollbackOfChannel
<1> DEFINE Forward ==
      /\ seq' >= seq
      /\ slipped' = {} /\ ptr.current # None /\ ptr'.current # ptr.current =>
            channel'[ptr'.current] > channel[ptr.current]
<1>1. ASSUME IInv, Next PROVE Forward
  <2>1. seq \in Nat /\ Len(channel) \in Nat
    BY <1>1 DEF IInv, TypeOK, Releases
  <2>2. seq' >= seq
    <3>1. CASE Compare \/ Record
      BY <3>1, <1>1, <2>1, CheckFacts DEF Compare, Record, IInv, CheckIsCurrent
    <3>2. CASE seq' = seq
      BY <3>2, <2>1
    <3> QED BY <3>1, <3>2, <1>1
         DEF Next, Publish, CheckAndStage, Fetch, Verify, Download, Install, Rename, Chmod,
             ReadPointers, Stage, Launch, Migrate, LauncherStep, Activate, CandidateHealthy,
             CandidateUnhealthy, CommitRead, CommitWrite, RollbackRead, RollbackWrite,
             Fallback, Select, ServerExit, Crash, disk
  <2>3. slipped' = {} /\ ptr.current # None /\ ptr'.current # ptr.current =>
            channel'[ptr'.current] > channel[ptr.current]
    <3>1. CASE Stage
      <4>1. slipped' = {} => chk.copy = ptr
        BY <3>1 DEF Stage
      <4> QED BY <3>1, <4>1, <1>1, LauncherFacts DEF Stage, Pointers, PointerFields
    <3>2. CASE RollbackWrite
      BY <3>2, <1>1, LauncherFacts
         DEF RollbackWrite, RollbackCandidate, IInv, CandidateInHand, Pointers, PointerFields
    <3>3. CASE CommitWrite
      <4> SUFFICES ASSUME slipped' = {}, ptr.current # None, ptr'.current # ptr.current
                   PROVE  channel'[ptr'.current] > channel[ptr.current]
        OBVIOUS
      <4>1. slipped = {} /\ launcher.pc = "commit_write" /\ channel' = channel
        BY <3>3 DEF CommitWrite, hist
      <4>2. launcher.copy = ptr /\ ptr.pending # None
        BY <1>1, <4>1 DEF IInv, Undisturbed, CandidateInHand, InPlace
      <4>3. ptr'.current = ptr.pending
        BY <3>3, <4>2 DEF CommitWrite, CommitHealthyCandidate
      <4> QED BY <1>1, <4>1, <4>2, <4>3 DEF IInv, Undisturbed, CurrentVersion
    <3>4. CASE ptr' = ptr
      BY <3>4
    <3> QED BY <3>1, <3>2, <3>3, <3>4, <1>1
         DEF Next, Publish, CheckAndStage, Fetch, Verify, Compare, Download, Install, Rename,
             Chmod, Record, ReadPointers, Launch, Migrate, LauncherStep, Activate,
             CandidateHealthy, CandidateUnhealthy, CommitRead, RollbackRead, Fallback, Select,
             ServerExit, Crash, disk
  <2> QED BY <2>2, <2>3
<1>2. IInv /\ [Next]_vars => [Forward]_vars
  BY <1>1
<1> QED BY <1>2, DirectoryConsistent, PTL DEF Spec, NoRollbackOfChannel
=============================================================================
