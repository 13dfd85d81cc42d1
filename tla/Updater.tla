------------------------------ MODULE Updater ------------------------------
(***************************************************************************)
(* How the car updates itself (updater.sh) and what its boot script then   *)
(* launches (deploy/real/physicar.sh).  The boot script runs the updater   *)
(* once to the end, builds what is missing, and starts two processes: the  *)
(* loop that launches the nodes, and the updater again, which from then on *)
(* only fetches.  The power may fail, or the service be restarted, at any  *)
(* point.                                                                  *)
(*                                                                         *)
(* A revision is a number; tags come out in its order.  A long operation   *)
(* (rm -rf, colcon build, git checkout) is one action, and Crash also has  *)
(* its half-done outcomes.  The marker files are in /tmp, which a reboot   *)
(* may clear.  Damage to the repository's objects is not modelled.         *)
(***************************************************************************)
EXTENDS Naturals

CONSTANTS
  MaxRevision,   \* bound: the last release
  MaxCrashes,    \* bound: crashes
  Mixed,         \* a working tree between two revisions
  NoDir          \* no such directory

ASSUME BoundAssumption == MaxRevision \in Nat \ {0} /\ MaxCrashes \in Nat
ASSUME ContentAssumption ==
  /\ Mixed \notin Nat
  /\ NoDir \notin [from : Nat \cup {Mixed}, stamp : Nat, whole : BOOLEAN]

VARIABLES
  remote,      \* the newest tag published
  known,       \* the newest tag fetched
  head, tree,  \* the revision of HEAD and that of the working tree
  lock,        \* git's index.lock: "none", "fresh", or "stale" (over 5 min)
  pending,     \* the tag in PENDING_UPDATE_FILE
  building,    \* PENDING_BUILD_FILE exists
  install,     \* install/:     [from, stamp, whole]
  backup,      \* install.bak/: the same
  goal,        \* the tag force_checkout was called for in this boot
  boot,        \* where the boot script is
  watcher,     \* where the background updater is
  crashes,
  fetched,     \* history: the newest tag at this boot's successful fetch
  trouble,     \* history: a step of this boot's update or a build failed
  cut          \* history: a crash cut an rm -rf install short; nothing built since

repoVars == <<known, head, tree, lock, pending>>
dirVars == <<building, install, backup>>
historyVars == <<crashes, fetched, trouble, cut>>
updaterVars == <<remote, repoVars, dirVars, goal, boot, watcher, historyVars>>

NoTag == 0
Revisions == 1 .. MaxRevision

\* What colcon makes of the present working tree, and a build cut short.
Built == [from |-> tree, stamp |-> head, whole |-> TRUE]
Rubble == [from |-> tree, stamp |-> NoTag, whole |-> FALSE]
Succeeds == install' = Built /\ cut' = FALSE /\ UNCHANGED trouble
Fails == install' = Rubble /\ trouble' = TRUE /\ UNCHANGED cut
Torn(dir) == IF dir = NoDir THEN NoDir ELSE [dir EXCEPT !.whole = FALSE]

At(p, place) == IF p = "boot" THEN boot = place ELSE watcher = place
GoTo(p, place) ==
  IF p = "boot" THEN boot' = place /\ UNCHANGED watcher
                ELSE watcher' = place /\ UNCHANGED boot

UpdaterInit ==
  /\ remote = 1 /\ known = 1
  /\ head \in Revisions /\ head <= 2 /\ tree = head
  /\ lock = "none" /\ pending = NoTag
  /\ building = FALSE /\ backup = NoDir
  /\ install \in {NoDir, Built}
  /\ goal = NoTag /\ boot = "recover" /\ watcher = "off"
  /\ crashes = 0 /\ fetched = NoTag /\ trouble = FALSE /\ cut = FALSE

-----------------------------------------------------------------------------
(* recover_install, at the start of either run of the updater.             *)

\* Where a process goes on after the directories are settled.
Settled(p) == IF p = "watcher" THEN "watch"
              ELSE IF goal = NoTag THEN "resume" ELSE "prepare"

RecoverInstall(p) ==
  /\ At(p, "recover")
  /\ GoTo(p, IF building \/ backup # NoDir THEN "remove" ELSE Settled(p))
  /\ UNCHANGED <<remote, repoVars, dirVars, goal, historyVars>>

\* rm -rf install; mv install.bak install; rm the marker.  A failed build of
\* safe_build is rolled back by the same three commands.
RemoveInstall(p) ==
  /\ At(p, "remove")
  /\ install' = NoDir
  /\ GoTo(p, "restore")
  /\ UNCHANGED <<remote, repoVars, building, backup, goal, historyVars>>

RestoreBackup(p) ==
  /\ At(p, "restore")
  /\ IF backup = NoDir THEN UNCHANGED <<install, backup>>
                       ELSE install' = backup /\ backup' = NoDir
  /\ GoTo(p, "unmark")
  /\ UNCHANGED <<remote, repoVars, building, goal, historyVars>>

\* Mutant: the marker is left behind.
MarkerKept == building
MarkerGone == FALSE

Unmark(p) ==
  /\ At(p, "unmark")
  /\ building' = MarkerGone
  /\ GoTo(p, Settled(p))
  /\ UNCHANGED <<remote, repoVars, install, backup, goal, historyVars>>

-----------------------------------------------------------------------------
(* safe_update of the boot run                                             *)

\* resume_pending_update: git checkout refuses while index.lock is there.
Resume ==
  /\ boot = "resume"
  /\ known' \in IF pending = NoTag THEN {known} ELSE {known, remote}
  /\ \/ pending = NoTag /\ boot' = "locks" /\ UNCHANGED <<pending, goal>>
     \/ /\ pending # NoTag /\ lock = "none"
        /\ goal' = pending /\ boot' = "checkout"
        /\ UNCHANGED pending
     \/ /\ pending # NoTag /\ lock # "none"
        /\ pending' = NoTag /\ boot' = "locks"
        /\ UNCHANGED goal
  /\ UNCHANGED <<remote, head, tree, lock, dirVars, watcher, historyVars>>

\* clean_stale_locks: a lock younger than five minutes ends the update.
CleanLocks ==
  /\ boot = "locks"
  /\ boot' = IF lock = "fresh" THEN "prepare" ELSE "fetch"
  /\ lock' = IF lock = "stale" THEN "none" ELSE lock
  /\ UNCHANGED <<remote, known, head, tree, pending, dirVars, goal, watcher,
                 historyVars>>

Listed == remote

\* check_disk_space and the fetch: either may end the update.
Fetch ==
  /\ boot = "fetch"
  /\ \/ known' = Listed /\ fetched' = remote /\ boot' = "compare"
     \/ boot' = "prepare" /\ UNCHANGED <<known, fetched>>
  /\ UNCHANGED <<remote, head, tree, lock, pending, dirVars, goal, watcher,
                 crashes, trouble, cut>>

\* HEAD is the newest tag or ahead of it.
UpToDate == head >= known

\* Step 8 writes the marker first.
Compare ==
  /\ boot = "compare"
  /\ IF UpToDate
     THEN boot' = "prepare" /\ UNCHANGED <<pending, goal>>
     ELSE boot' = "checkout" /\ pending' = known /\ goal' = known
  /\ UNCHANGED <<remote, known, head, tree, lock, dirVars, watcher, historyVars>>

\* git checkout -f writes the files under index.lock, then moves HEAD.
Halfway == IF tree = goal THEN tree ELSE Mixed

WriteTree ==
  /\ boot = "checkout"
  /\ tree' = goal /\ boot' = "head"
  /\ UNCHANGED <<remote, known, head, lock, pending, dirVars, goal, watcher,
                 historyVars>>

MoveHead ==
  /\ boot = "head"
  /\ head' = goal /\ boot' = "verified"
  /\ UNCHANGED <<remote, known, tree, lock, pending, dirVars, goal, watcher,
                 historyVars>>

\* The checkout fails.  A resumed one is given up and the update goes on from
\* its next step; a first one stays pending.
CheckoutFails ==
  /\ boot = "checkout"
  /\ tree' \in {tree, Halfway} /\ trouble' = TRUE
  /\ \/ /\ fetched = NoTag
        /\ boot' = "locks" /\ pending' = NoTag /\ goal' = NoTag
     \/ /\ fetched # NoTag
        /\ boot' = "prepare" /\ UNCHANGED <<pending, goal>>
  /\ UNCHANGED <<remote, known, head, lock, dirVars, watcher, crashes, fetched,
                 cut>>

Verified ==
  /\ boot = "verified"
  /\ pending' = NoTag /\ boot' = "mark"
  /\ UNCHANGED <<remote, known, head, tree, lock, dirVars, goal, watcher,
                 historyVars>>

-----------------------------------------------------------------------------
(* safe_build of the boot run                                              *)

\* Not enough disk: the checkout stands and nothing is built.
Mark ==
  /\ boot = "mark"
  /\ \/ building' = TRUE /\ boot' = "backup" /\ UNCHANGED trouble
     \/ boot' = "prepare" /\ trouble' = TRUE /\ UNCHANGED building
  /\ UNCHANGED <<remote, repoVars, install, backup, goal, watcher, crashes,
                 fetched, cut>>

BackUp ==
  /\ boot = "backup"
  /\ IF install = NoDir THEN UNCHANGED <<install, backup>>
                        ELSE backup' = install /\ install' = NoDir
  /\ boot' = "colcon"
  /\ UNCHANGED <<remote, repoVars, building, goal, watcher, historyVars>>

Colcon ==
  /\ boot = "colcon"
  /\ \/ Succeeds /\ boot' = "drop"
     \/ Fails /\ boot' = "remove"
  /\ UNCHANGED <<remote, repoVars, building, backup, goal, watcher, crashes,
                 fetched>>

DropBackup ==
  /\ boot = "drop"
  /\ backup' = NoDir /\ boot' = "unmark"
  /\ UNCHANGED <<remote, repoVars, building, install, goal, watcher, historyVars>>

-----------------------------------------------------------------------------
(* the boot script after the updater                                       *)

\* No install/ at all is built at once; then the launch loop and the
\* background updater start.
Prepare ==
  /\ boot = "prepare"
  /\ IF install = NoDir THEN boot' = "first_build" /\ UNCHANGED watcher
                        ELSE boot' = "verify" /\ watcher' = "recover"
  /\ UNCHANGED <<remote, repoVars, dirVars, goal, historyVars>>

FirstBuild ==
  /\ boot = "first_build"
  /\ Succeeds \/ Fails
  /\ boot' = "verify" /\ watcher' = "recover"
  /\ UNCHANGED <<remote, repoVars, building, backup, goal, crashes, fetched>>

\* Mutant: the stamp is not compared.
AnyStamp == install # NoDir
\* verify_install's second test
StampMatches == install # NoDir /\ install.stamp = head

\* verify_install: a torn install/ may or may not lack an executable.
Verify ==
  /\ boot = "verify"
  /\ \/ StampMatches /\ boot' = "running"
     \/ (StampMatches => ~install.whole) /\ boot' = "build"
  /\ UNCHANGED <<remote, repoVars, dirVars, goal, watcher, historyVars>>

\* Mutant: the launch waits for a build that succeeds.
OnlyIfBuilt(ok) == IF ok THEN "running" ELSE "verify"
\* The loop launches whatever do_build returned.
LaunchAfter(ok) == "running"

\* do_build, with its second, clean attempt.
Build ==
  /\ boot = "build"
  /\ \/ Succeeds /\ boot' = LaunchAfter(TRUE)
     \/ Fails /\ boot' = LaunchAfter(FALSE)
  /\ UNCHANGED <<remote, repoVars, building, backup, goal, watcher, crashes,
                 fetched>>

\* The launch ends and is started anew.
LaunchExits ==
  /\ boot = "running"
  /\ boot' = "verify"
  /\ UNCHANGED <<remote, repoVars, dirVars, goal, watcher, historyVars>>

\* The background updater's loop: update_available fetches and tells.
Watch ==
  /\ watcher = "watch"
  /\ known' = remote /\ known' # known
  /\ UNCHANGED <<remote, head, tree, lock, pending, dirVars, goal, boot, watcher,
                 historyVars>>

-----------------------------------------------------------------------------
Release ==
  /\ remote < MaxRevision
  /\ remote' = remote + 1
  /\ UNCHANGED <<repoVars, dirVars, goal, boot, watcher, historyVars>>

LockAges ==
  /\ lock = "fresh"
  /\ lock' = "stale"
  /\ UNCHANGED <<remote, known, head, tree, pending, dirVars, goal, boot, watcher,
                 historyVars>>

\* Power failure or restart of the service; what was in the middle of an
\* operation is half done.
HalfRemoved(dir) == {dir, Torn(dir), NoDir}
HalfBuilt == {install, Torn(install), Rubble, NoDir}

Crash(tmpKept) ==
  /\ crashes < MaxCrashes
  /\ crashes' = crashes + 1
  /\ install' \in IF "remove" \in {boot, watcher} THEN HalfRemoved(install)
                  ELSE IF boot \in {"colcon", "first_build", "build"} THEN HalfBuilt
                  ELSE {install}
  /\ backup' \in IF boot = "drop" THEN HalfRemoved(backup) ELSE {backup}
  /\ \/ UNCHANGED <<tree, lock>>
     \/ boot = "checkout" /\ tree' = Halfway /\ lock' = "fresh"
  /\ pending' = IF tmpKept THEN pending ELSE NoTag
  /\ building' = (tmpKept /\ building)
  /\ goal' = NoTag /\ fetched' = NoTag /\ trouble' = FALSE
  /\ cut' = (cut \/ "remove" \in {boot, watcher})
  /\ boot' = "recover" /\ watcher' = "off"
  /\ UNCHANGED <<remote, known, head>>

Recovery(p) == RecoverInstall(p) \/ RemoveInstall(p) \/ RestoreBackup(p) \/ Unmark(p)

BootStep ==
  \/ Recovery("boot")
  \/ Resume \/ CleanLocks \/ Fetch \/ Compare
  \/ WriteTree \/ MoveHead \/ CheckoutFails \/ Verified
  \/ Mark \/ BackUp \/ Colcon \/ DropBackup
  \/ Prepare \/ FirstBuild \/ Verify \/ Build

UpdaterNext ==
  \/ BootStep
  \/ Recovery("watcher")
  \/ LaunchExits \/ Watch \/ Release \/ LockAges
  \/ \E tmpKept \in BOOLEAN : Crash(tmpKept)

UpdaterSpec == UpdaterInit /\ [][UpdaterNext]_updaterVars

-----------------------------------------------------------------------------
Installs == [from : Revisions \cup {Mixed}, stamp : Revisions \cup {NoTag},
             whole : BOOLEAN]

UpdaterTypeOK ==
  /\ {remote, known, head} \subseteq Revisions /\ known <= remote
  /\ tree \in Revisions \cup {Mixed}
  /\ lock \in {"none", "fresh", "stale"}
  /\ {pending, goal, fetched} \subseteq Revisions \cup {NoTag}
  /\ {building, trouble, cut} \subseteq BOOLEAN
  /\ {install, backup} \subseteq Installs \cup {NoDir}
  /\ boot \in {"recover", "remove", "restore", "unmark", "resume", "locks",
               "fetch", "compare", "checkout", "head", "verified", "mark",
               "backup", "colcon", "drop", "prepare", "first_build", "verify",
               "build", "running"}
  /\ watcher \in {"off", "recover", "remove", "restore", "unmark", "watch"}
  /\ crashes \in 0 .. MaxCrashes
  \* what marks an update in progress is gone when the updater is done
  /\ boot \in {"resume", "prepare", "first_build", "verify", "build", "running"}
       => ~building /\ backup = NoDir

\* verify_install and do_build: whatever crashes left behind, the nodes are
\* launched from a complete install/ stamped with the revision of HEAD, unless
\* a step of this boot failed outright, or a crash cut a recovery short, whose
\* half-removed install/ may still pass for whole.
LaunchesWholeInstall ==
  boot = "running" /\ ~trouble /\ ~cut =>
    install # NoDir /\ install.whole /\ install.stamp = head

\* "Fetch/notify ONLY": nothing moves install/ or the working tree away from
\* under the running nodes, not even the background updater's recovery.
LiveTreeUntouched ==
  [][boot = "running" /\ boot' = "running" =>
       UNCHANGED <<install, tree, head>>]_updaterVars

\* A boot that reached the remote and met no failure runs the newest tag, with
\* no trace in the working tree of an update that was interrupted before.
FetchedBootIsCurrent ==
  boot = "running" /\ fetched # NoTag /\ ~trouble => head >= fetched /\ tree = head

\* What a boot launches is whole, and as new as the boot knows of.
LaunchIsSound == LaunchesWholeInstall /\ FetchedBootIsCurrent

\* The car comes up: every boot that is not cut short launches the nodes,
\* however often builds, checkouts and fetches fail.
BootComesUp == boot # "running" ~> boot = "running"

\* "Backs up install/ so a failed or interrupted build can be rolled back on
\* next boot": until the boot script itself rebuilds, the updater and its
\* recovery keep a complete install/ if there was one.
WholeInstall == \E dir \in {install, backup} : dir # NoDir /\ dir.whole
LastInstallKept ==
  [][WholeInstall /\ boot \notin {"first_build", "build"} => WholeInstall']_updaterVars
=============================================================================
