# HarnessTap in TLA+

HarnessTap (`ht`) keeps *profiles* of agent configuration (skills, rules, MCP
servers, plugins) and applies them to the configuration folders of some fifty
coding agents ("harnesses") in the user's home or in a project. The same
services run in two kinds of process: short-lived `ht` commands, and the
sidecar of the Desktop app, a long-lived HTTP server that also updates plugins
on a schedule. They share the home, a SQLite database and a few JSON and lock
files under the HarnessTap directory, and nothing coordinates them but those
files. That is where the model starts.

Paths below are relative to `src/src/` unless they start with `docs/`.

## The system

| Part | State | Operations | Correct when |
| --- | --- | --- | --- |
| profile apply lock (`services/profile-apply-lock.ts`) | the lock file; per process `lockDepth`, `lockFd`; a handle per call | acquire, join, refuse, release (two kinds) | handles out are of one process; the counter is exact; the lock is free again when its users are done |
| upstream update lock (`services/upstream-update-lock.ts`) | the lock file with a pid; per process `depth`, `heldFd` | join, try, clear a stale file, poll, release | one process updates at a time; a dead holder's lock is cleared; a release removes its own file |
| profile switch (`services/profile-switch.ts`, `profile-commands.ts`, `active-profile.ts`) | the active-profile pointer; which plugins are profiles; the profile to restore | switch, use, restore on failure, cancel, delete | the pointer names what is in the home; a failed switch restores |
| sidecar requests (`agent/routes.ts`, `switch-registry.ts`, `switch-orchestrator.ts`, `parity-handlers/apply.ts`) | `activeSwitchId`, `applyInFlight`, sessions | receive, preflight, start, end | one session at a time; a session always ends |
| profile apply (`services/profile-apply.ts`, `global-profile-cleanup.ts`) | snapshots and their installs | resolve, write, record, remove stale files, point | a completed apply leaves its files and nothing a snapshot lists of another profile |
| materialization and ownership (`services/applier.ts`, `materialization-ownership.ts`, `safe-file-removal.ts`) | per path: on-disk bytes, ownership row, pre-existing row, removal backup | write, keep, adopt, remove with backup, revert | the user's bytes survive every sequence of applies; HarnessTap's do not outlive their profile |
| profile stash (`services/profile-stash.ts`, `profile-untracked-resources.ts`) | `profile-stash.json`, the home | push, pop, apply, stash drift | what the user wrote is in the home, the stash or a removal backup; the stash keeps its entries in order |
| status read cache (`services/status-read-cache.ts`, `status-refresh-worker.ts`, `db/write-generation.ts`) | entries with epoch, write generation and data version; refreshes in flight; the worker | read, refresh on the worker or here, invalidate, clear | no answer is older than what the process knew when it was asked, or than the last clear; no reader waits for ever |
| upstream updates (`services/upstream-check-runner.ts`, `upstream-check.ts`, `upstream-auto-install.ts`, `plugin-origin-update.ts`, `plugin-versioning.ts`) | the working head of a pulled plugin, its frozen cuts, working snapshot and library rows; the stored check; the job in flight | check, install, update, cut, edit | the head is what was published or what the user made of it; the version before stays; what installs unasked stays in the range; new versions arrive |
| snapshots and revert (`models/global-apply-snapshot.ts`, `services/snapshot-revert.ts`) | snapshots, installs, backups | create, record, revert | revert undoes an apply |
| composition (`services/resolve/`) | none | resolve a dependency graph to versions and resources | the result does not depend on the order of traversal beyond the documented precedence |
| project configuration (`services/project-config-use.ts`, `project-sync.ts`) | `apm.yml`, the lock file of the project | use, sync, apply | the steps of `ht use` agree on one configuration |
| package cache (`services/package-cache/`) | folders of host plugins and the record of who owns them | hydrate, link, prune | folders of the user's own plugins are left alone |

The rest (serializers of the harnesses' formats, marketplaces and cloud
clients, the command line, the Desktop user interface, telemetry, self-update)
is conversion, network I/O and presentation; `PROJECT.json` lists each with the
reason it has no module.

**Interaction.** Every apply, switch and stash takes the profile apply lock of
its process; calls made by the process that has it join it. The sidecar's
handlers are asynchronous functions on one event loop: what one handler checks
before an `await` another may change before it goes on. A switch is an apply,
and on failure a second apply of the profile that was active before. An apply
reads the pointer and the snapshots, writes the home file by file, records a
snapshot and removes the files of other profiles; the pointer is set last.

**What is hard.** Two processes between two file system calls; two requests of
the sidecar between two awaits; a process killed within an apply; an apply that
fails after it has written some files, and the apply that is to restore it;
locks left behind. `PROJECT.json` lists these hazards at their lines, with the
properties that would catch them.

## Modules

| Module | Models |
| --- | --- |
| `ProcessLock` | What a lock between processes promises: the tasks inside are all of one process; a task enters an empty lock or joins its own process; a task leaves, or all of a process are dropped |
| `UpstreamUpdateLock` | `withUpstreamUpdateLock` and its helpers, one action per file system call and pid probe |
| `ProfileApplyLock` | `acquireProfileApplyLock` and the two release functions, crash, restart, removal of the file by the user |
| `ProfileSwitch` | Extends `ProfileApplyLock`: switch and apply requests of the sidecar, `ht profile switch`, the steps of an apply, failures, restore, crash, deletion of profiles |
| `ProfileStash` | Extends `ProfileApplyLock`: push, pop, apply and the drift stash, the user's edits, failures and kills within a step |
| `FileCustody` | What an apply, switch or revert promises about the user's files: a text the user counts on stays where it is or goes to a backup |
| `HomeApply` | What an apply does to each file of the home: conflicts, ownership rows, stale files, snapshots; the revert; edits, saves and profile changes; stops anywhere |
| `StatusReadCache` | The cached `ht profile status` of the sidecar: entries, refreshes, the worker thread, the load on the main thread with its nested read, what makes an entry old |
| `UpstreamInstall` | A plugin pulled from a catalog: checks, the unattended installation, Desktop's and the terminal's update, its frozen cuts, the user's edits, failures and kills |
| `UpstreamUpdateLock_proofs`, `ProfileApplyLock_proofs`, `ProfileSwitch_proofs`, `ProfileStash_proofs`, `HomeApply_proofs`, `StatusReadCache_proofs`, `StatusCurrent_proofs`, `UpstreamInstall_proofs` | Theorems and proofs |
| `MCUpstreamUpdateLock`, `MCProfileSwitch`, `MCProfileStash`, `MCHomeApply`, `MCStatusReadCache`, `MCUpstreamInstall` | Names and mappings for TLC |

### UpstreamUpdateLock

A task is a call of `withUpstreamUpdateLock`. `pc[t]` says which system call it
makes next: `open` and `write` (`tryAcquire`), `read`, `probe`, `clear`
(`clearIfStale`), `poll` and `sleep` (the loop), `fn`, `unlink` (`release`).
The synchronous ones hold the event loop of their process (`Scheduled`): another
task of the process moves only at `idle`, `sleep` and `fn`, while another
*process* moves between any two calls. `lockFile.by` stands for the inode: the
pid is written to the file the descriptor opened, wherever the path points by
then. `Exit` forgets a process's memory and keeps the file; `Reuse` brings its
pid back. `stolen` is a history variable: a stale check has removed a file in
use.

### ProfileApplyLock

Acquire and release are synchronous and a process killed within one leaves the
file as just before or after it, so each is one action. `handle[t]` says which
of the two release functions a call holds. Nobody reads the file, so a file left
by a dead process blocks everyone until the user removes it, which the error
message allows when no other HarnessTap process runs (`UserRemovesLock`).

### ProfileSwitch

`pc[t]` is where a request or command is between two awaits: `preflight`, then
`resolve` (the composition, and which files of other profiles are known), `write`
(`materializeFiles`), `record` (ownership rows, snapshot, removal of stale files)
and `point` (`setActiveProfileName`). `home[q]` says how much of profile `q`'s
files the home holds. A step that fails, or whose process is killed, leaves one
of the states of `Partial(t)`: some of the target's files; a new snapshot that
lists no file yet, and some stale files removed; a pointer file that does not
parse. `FailAndRestore` applies the previous profile, `FailAndThrow` ends the
call; `Finish` is what every way out has in common.

Cancellation has no action. `switchProfile` looks for it only in the run from
its start to the `apply_home` event and in the one from a failure to the
restore; both are synchronous, so neither a signal handler nor the cancel
request can run within them, and while an apply is awaited both turn the request
down (`isSigintCancelAllowed`, `requestAgentSwitchCancel`). The hint "Ctrl-C
cancels before apply starts" (`services/profile-switch.ts:46`) therefore
promises what cannot happen.

`Demote` and `Unpoint` are the deletion of a profile, in a terminal or by a request
of the sidecar, whose check for a running switch comes before an await. It takes no
lock, so it may come between any two steps of an apply, and between its own two
another process may have moved the pointer (`pointerLost`). An apply looks both
profiles up once (`Found`), and fails when one is missing; what is deleted later
it applies to the end. Deletions come one at a time. Renaming a profile has the
same effect on the calls in flight and has no action.

Abstractions: profiles share no file, and files the user owns or edits are left
to `HomeApply`; a dry run has no effect on the state and no action;
the apply request stands for every command that applies under the lock without
the switch's restore (`ht profile use`, `ht apply`).

### ProfileStash

`home`, `stash` and `backup` are the disk: the text at each path, the entries of
`profile-stash.json`, newest first, and the removal backups. `pc[t]` is where a
call is between two awaits. `Enter` is `withProfileApplyLock`; a push then scans
(`Scan`), reads the files (`Capture`) and removes and records them (`Push`), with
an await between each; `Drift`, `Pop` and `Restore` do all of theirs in one run
of the event loop. `Detect` is the status the switch prompt shows: it is taken
without the lock, and the list of changed files may be old by the time the
answer comes. `Edit` is the user's editor, at any await.

`LeavesPartOf(t)` is what a step leaves when it throws or its process is killed:
files are handled one by one, backups come before removals, and
`writeFileSync` truncates before it writes, so that a stash file may be `Torn`,
which `readProfileStashFile` reads as no entries at all.

A text stands for the bytes of a file. Reading a file as UTF-8 is not the
identity: a push decodes whatever it finds (`Decoded`; a binary becomes
`Mangled`), a drift stash leaves out what does not decode (`Stashable`) and
leaves it in place. `kept` is what the user last wrote at each path and did not
replace; `overwritten` is what a pop or apply wrote over, which both do without
asking for the `--on-conflict` policy.

What a drift stash puts in place of an edit (`Reverted`) is what the snapshot of the
profile's latest apply has there, and that is the home *before* the apply
(`lastWrittenContent` reads `state`, which `services/profile-apply.ts:900` sets to
`preApplyState`). `snapshot` holds it: any texts, at any of the profile's paths. Where the
apply found no file, the edit stays in place, and is in the stash as well.

Abstractions: the scan finds every file at the untracked paths; the user does
not write between two system calls of a step; the save and discard answers of
the prompt, and which profile is active, are left out.

### HomeApply

`ProfileSwitch` knows of a profile's files only how many are there; `HomeApply`
is about each file and whose it is. A file is HarnessTap's when an ownership row
(`resource_materializations`) has the hash of the bytes it holds (`Owned`),
*modified* when there are rows and none matches, unowned otherwise. `disk` is the
home, `lib` what each profile wants, `rows`, `preexisting`, `snaps`,
`removedRows` and `backups` the database and the files beside it.

`pc` is where the apply in flight is between two awaits: the composition is
`resolved`, what may have to go is `tracked`, the home is captured and the
conflicts are `decided`, the files are `written`, their rows `persisted`, the
snapshot is `recorded` with the removal of stale files and the pointer is set.
A skill that leaves takes its copy in the shared hub with it (`Mirrors`,
`expandStaleSkillHubMirrors`), a path which the apply has neither tracked nor captured.
The user edits at any of these (`Edit`), saves an edit to a profile (`Save`) or
changes one (`Update`), and a revert takes no lock and may fall anywhere
(`Revert`). A step handles its files one by one and each touches its own path
only; what it leaves when it throws or is killed is a subset (`Fails`,
`RevertFails`), with backups before removals.

`FileCustody` is the promise. `mine` is what the user wrote at a path and neither
replaced, removed nor saved to a profile; the program may do anything that
leaves such a text in place or in a backup. `HomeApply` implements it with the
backups of stale removals and reverts as `saved` (`KeepsCustody`).

Abstractions: files are written whole (merged configuration files such as
`settings.json` keep foreign keys, which is conversion), outside the folders of
host plugins; so the MCP configurations are left out, and the mirrors of those with
them; no links or folders at the paths; one harness, and one resource per profile and
path. Applies exclude each other, which `ProfileApplyLock` is about.

### StatusReadCache

`detectGlobalProfileStatus` answers from `buckets`, one entry per key, or starts
or joins a refresh. A refresh (`job`) is `posted` to the worker thread and
`replied`, or runs here: `timer`, then `loaded`. Its load first asks for the
dry-run core through the same cache under the key `Core`, so that a refresh may
itself be a caller (`call[j]`). `Hit`, `Superseded`, `Stale` and `LoadsNow` are
the four ways of `withStatusReadCache`, `Joined` and `Waited` what its
continuations do when a refresh is settled. The `kind` of a value tells a core from
a status; its forms `old core` and `old status` are history: what a caller was given
after its own load threw, and what was computed from that.

The main thread runs one macrotask and then every continuation that is ready;
`Turn` is the moment at which the next macrotask may start. The worker, other
processes and the editor are not bound by it. `WorkerFails` is a read that
throws, `WorkerDies` a crash, an exit or a reply that does not come in time, all
after which the load runs here; `Respawn` starts a new worker.

An entry is compared with the database (`writeGen` for commits of this process,
`dataVersion` for those of others) and, while the watchers are healthy, with
their `epoch`; without them with the mtimes. `heard` is a history variable: the
commits and file changes the cache *could* know of, whatever it does with them;
`cleared` is what had happened before the latest clear. A read notes both when it
is asked for. `answer` is what a step hands to a reader.

Abstractions: a load reads the database and the files at one moment, the earliest
of the code's; loads write nothing; a watcher may or may not signal a change, as
it may not be armed yet; one home; no eviction (16 keys).

### UpstreamInstall

The library knows a plugin by its *working head* (`version`, `attached`, `dirty`,
`stamp`) and by *frozen cuts*, each a version with the resources it lists; `text` is
the row of each resource, which head, cuts and other plugins (`others`) share. A cut
keeps ids and not texts: an update overwrites the rows in place, and deletes one only
when nothing lists it any more (`Unused`).

`pc[t]` is where a task is between two awaits. The sidecar's check (`job`) is `asked`
while the catalog answers; a scheduled one in install mode then goes on with
`installOne`: `stored` (the check is in `row`), `planned` (the published package of the
installed version is on its way), `compared` (that of the new one is), `cut`. From
there on everything is synchronous, but not one transaction: `Cut` is
`cutPluginVersion`, which commits, `Replace` is `applyCheckedPluginOrigin`.
`LeavesPartOf(t)` is what a replacement leaves when it throws or its process is
killed: some of the resources written, then some of the dropped ones removed, then the
version, then the stamp. Desktop's update and `ht plugin update` (`desktop`, `update`)
are `asked` and `fetching` and end in the same `Replace`; `ht plugin check` compares
origins and then runs the check, both without the lock.

`CanEnter` is `withUpstreamUpdateLock` as `ProcessLock` specifies it: other processes
are kept out, tasks of the sidecar join each other. `Raced` notes when the head changes
under a task of the same process that has already chosen its version, and `late` what
the user edits after the comparison; `clean` says that there was no edit, no broken
write and no such race. All three are history.

The catalog publishes in any order and withdraws what it likes (`Yank`): a yanked
version cannot be downloaded, by an update (`FetchFails`), as the new package
(`CutFails`) or as the published one to compare with (`Skip`). What it calls the latest
version is any it has published, since `compareCatalog` looks whether it is the same and
not whether it is higher. `LatestInRange` has what a check may learn of the range: from
a current Cloud, the newest version to be had; from an older one, the newest even if
yanked, which then counts for none, or the plugin's latest if it happens to be in the
range.

Abstractions: versions are numbers in semver order; the resources are material, of one
namespace and without metadata; a yanked version stays yanked; the cuts of the user and their
pruning, the notifications and the apply that may follow are left out; a check may
become due at any moment.

## Runs

| Run | Checks | Bounds |
| --- | --- | --- |
| `upstream_lock` | typing; `ExclusiveUnlessStolen`, `HeldWhileRunning`, `DepthCountsTasks`, `ReleaseRemovesOwn`; the refinement `ImplementsLock`; `GonePidCleared` under fairness | two tasks of the sidecar and one of a command, 0 or 1 polls, one crash, one reused pid, one failed write |
| `upstream_lock_race` | `OneUpdateAtATime` is violated | three processes, one crash |
| `switch_processes` | `PointerNamesHome`, `BaselineIsCurrent`, `HeldByOneProcess`, `CompletedApplyIsClean`, `ImplementsLock`, `LockIsGivenBack` | a switch of the sidecar and one of a command, three profiles, two failures or one and a deletion, one crash, one restart, one failed write |
| `switch_requests` | typing, `AppliesUnderLock`, `DepthCountsHandles`, `BusyIsRunning`, `SwitchEnds` | two switch requests and an apply request in one process, one profile, one failure or deletion, one crash, one restart, one failed write |
| `switch_twice` | `OneSwitchAtATime` is violated | two switch requests and a command |
| `switch_leak` | `FreeWhenIdle` is violated | a switch and an apply request |
| `switch_restore` | `RestoresPrevious` is violated | one failure |
| `stash_requests` | typing, `UntrackedTextIsKept`, `ManagedTextIsKept`, `StashIsStack` | two pushes, a pop and an apply of the sidecar, a drift stash in a terminal; one untracked path, one file of the profile; two entries; two of one edit, one failure and one crash; one restart, one failed write |
| `home_apply` | typing, `UserTextIsKept`, `HomeIsClean`, `RevertUndoes`, the refinement `KeepsCustody` | a skill's path and its copy in the shared hub, two profiles, two snapshots; any two of edits, changes of a profile, saves and failures |
| `status_cache` | typing, `AnswersAreCurrent`, `AnswersAreSinceClear`, `AwaitedIsAtWork` | two readers, the core, four refreshes in memory; one key and two commits, file changes, clears or failures of the worker or a load, or two keys, no worker and three commits or loads that throw, at most one commit of each side (`Bounds`) |
| `upstream_install` | typing, `UndisturbedIsPublished`, `PreviousIsKept`, `CutsAreKept`, `EditIsNotOverwritten`, `UnattendedStaysInRange`; `CatchesUp` under fairness | one plugin with two versions of a line and a major one, two resources, of which another plugin may share one; one yank, one edit, one check or update by the user, one failure or kill, at most three of these in all |
| `stash_dry_run` | `ManagedTextIsKept` is violated | a drift stash and a pop with `--dry-run`; one edit |

**Why the bounds are enough.** A lock between processes needs a holder, a joiner
in its process and a competitor: three tasks in two processes. Stealing needs a
dead process, one that reads its pid, and one that takes the lock meanwhile: three
processes, or two with a reused pid (`stolen` is reachable in `upstream_lock`).
A switch needs the outgoing profile, the incoming one and one that a failed or
killed apply left behind: three profiles; two failures are a failed apply and a
failed restore. What the requests of one process share is the lock, the session
and the flag, none of which depends on the profile, so `switch_requests` has one.
A stash that loses something needs a captured text that differs from the one
removed (two pushes that overlap, or an edit between) or an entry that is written
over or popped out of order (two entries); both kinds of path occur once, since
no step relates two paths except in how far it came when it was killed.
A file that is lost or left needs the text of one profile, of another and of the
user at one path, and for a revert a second snapshot over the first; paths meet
only in how far a step came and where a removal takes a hub's copy along, which two
paths show (`home_apply` has also been run with a failure besides two of an edit, a
change and a save, 1.7 million states, and with one path, three snapshots, one edit or
change and no save or failure, 208,000 states). A cached answer that is too old needs an event before the
load, one after it and a reader between; a second reader joins the refresh of
the first; each refresh may need one of the core, so two readers need four
(with three events the run has 3.75 million states and shows nothing else). A load that
throws, a commit before it and one after it, and a second status on the same core
take two keys and three events, which the run has where there is no worker and the
files are left alone; it has also been made with two keys and two events (2.3 million
states), and with two keys and three of any changes and no worker (14 million).
An installation that goes wrong needs a version to be planned and an update to another
in between, or an update back to a version there is a cut of: two versions of a line and
a major one that must not come, of which the second drops a resource that the third
brings back. A comparison that cannot be made takes one yanked version. As the catalog
may name any version the latest, updates go up and down among three.
An installation that meets a cut of its version takes four versions, a yank and two
updates: `upstream_install` has also been run so, with one resource, no edit and no failure
(919,000 states), and `CatchesUp` without its last words is violated there.
Two resources tell a replacement that stopped midway from one that did not.
Tasks start again when they are done, so each stands for any number of calls one
after the other.

**What holds only with a condition, and why.** `ExclusiveUnlessStolen` and the
properties like it have the premise that no file in use was removed by the stale
check; `upstream_lock_race` shows the premise is needed. `PointerNamesHome` is
about runs without a failure or a crash in which no deletion clears a pointer that
has moved on, and about profiles that were not deleted, whose files stay until the
next apply. Partial states are the subject of
`CompletedApplyIsClean` (the next completed apply cleans them up as far as a
snapshot lists them) and `RestoresPrevious`. `LockIsGivenBack` is about calls
that do not overlap in one process: `switch_leak` shows what happens when they
do. `switch_processes` therefore has one call per process and `switch_requests`
states nothing about the home.

`UntrackedTextIsKept` holds through failures and kills. `ManagedTextIsKept` and
`StashIsStack` do not: an edit of a profile's file has no backup, is written over
before its entry is pushed, and leaves the stash before it is restored; a torn
stash file loses all entries. Both have the premise that nothing has failed or
been killed. The two about texts except what a pop or apply wrote over.

`HomeIsClean` has the premise that nothing has failed and that the latest snapshot
of every profile lists the files of its latest apply (`listed`): nothing was
reverted, and no apply that changed nothing went unrecorded with other files than
the snapshot before it. `RevertUndoes` has the premise that nothing happened
between the apply and its revert, and excludes paths that were there before HarnessTap;
of a copy in the skill hub that the snapshot does not list it says only that a removal
backup has the text.
`AnswersAreCurrent` counts what the process could know of (`heard`), and leaves
out the answers that go back to a load that threw, which the model marks as old
(`Old`, `StatusOf`); the next section says
what that hides. `UserTextIsKept`, `KeepsCustody`, `AnswersAreSinceClear` and
`AwaitedIsAtWork` have no premise.

`UndisturbedIsPublished` and `PreviousIsKept` are about plugins that were never edited,
never left by a broken write and not raced over; `UnattendedStaysInRange` excepts the
updates the user asked for and an installation that was raced, and `EditIsNotOverwritten`
the edits after the comparison. `CutsAreKept` has no premise. `CatchesUp` is about such an
undisturbed plugin whose resources no other shares, whose version is not withdrawn and of
whose range the catalog gives the right answer; and it takes a version that is a cut
already as arrived at. The next section says what happens without them.

**Fairness.** `Call`, `Proceed` and `Settle` of `UpstreamUpdateLock` are weakly
fair for each task: the event loop runs every task that can run, timers fire, an
update ends, and the scheduled job and the user keep calling. `Proceed` of
`ProfileSwitch` is weakly fair: a request that has arrived is carried on; that
requests arrive, that processes crash or that applies fail on purpose is not
assumed (a failing step is one of the ways on). In `UpstreamInstall` the schedule's timer is
fair (`Tick`), the job goes on when its answers come (`JobSteps`), and updates end
(`UpdateSteps`); failures and the user's calls are bounded, so that one or the other
cannot hold the lock at every tick for ever. That answers come is what the requests'
timeouts see to.

### What the code does against its own word

Each is a run in which TLC finds the violation, listed under `findings`.

1. *Two updates at once.* `clearIfStale` reads a pid, probes it and unlinks the
   path; between the probe and the unlink another process may have cleared the
   file and created its own.
2. *Two switches at once.* `handleSwitch` checks for a running switch before it
   awaits the preflight and starts the session without checking again; the
   second switch joins the lock of the first.
3. *A leaked profile lock.* Only the handle of the call that created the file
   removes it. When that one is released before one that joined, the file stays
   and every later apply is refused although nothing runs. A switch request
   during an apply request is enough.
4. *A restore that leaves files.* An apply that fails while it writes has no
   snapshot yet; the restore removes what snapshots list, and leaves the rest.
5. *A preview that pops.* `stash pop --dry-run` ("Show what would be restored
   without writing") removes the entry from the stash file and restores nothing.
   Edits of profile files were only there.

### What the models show and no run reports

These are limits of the code that the modules contain and that the premises above
step around.

1. *A stop makes HarnessTap's files the user's.* An apply killed after it wrote a
   file and before it wrote the row (`services/applier.ts:848`) leaves a file that
   the retry finds unowned and records as preexisting (`:827`): it is never updated
   or removed again.
2. *A revert can leave a file "modified".* After two applies, a revert of the later
   one restores the earlier text, and the row of the later stays
   (`services/snapshot-revert.ts:359`, `:378`): later applies leave the file alone.
3. *"Replace" does not replace.* The decision to replace a conflicting file is
   recorded, and the write loop then skips every file that is not HarnessTap's
   (`services/applier.ts:834`).
4. *A commit during a load goes unseen.* The data version stored with an entry is
   read after the status was computed (`services/status-read-cache.ts:609`), and a
   load on the main thread stores the write generation of its end (`:946`). A commit
   in between is taken to be in the entry.
5. *After a load that threw* its reader gets whatever is cached for the key, without
   a look at the database (`:1087`). If the reader is itself the load of a status,
   asking for the core, the status made of the old core is stored as read now: a
   commit the process could know of stays unseen until the next one or a file change.
6. *A status under the core's key.* The load on the main thread asks for the core
   through the cache (`services/global-profile-drift.ts:506`); a worker that came
   back answers with a status, the load throws on its missing fields and the status
   stays under that key. The comment at `services/status-read-cache.ts:992` says the
   load then computes the status.
7. *A pointer to a deleted profile.* A profile deleted while an apply of it is past
   its lookup becomes the active one again (`services/profile-commands.ts:143`), and
   stays so when a deletion is killed before it clears the pointer (`:238`). Every
   later apply then looks the active profile up for its dry run and fails
   (`services/profile-apply.ts:665`, `:671`), until the profile is tagged or
   untagged again.
8. *A revert can bring back a file for good.* A resource taken out of the active
   profile is removed by the next apply, whose snapshot no longer lists it. When that
   snapshot is reverted, the file and its row come back; the applies that follow
   track the files of the latest snapshot of the profile
   (`services/profile-apply.ts:185`, `:207`), and never remove it. It takes three
   snapshots to see.
9. *An apply that changes nothing is forgotten.* It writes and removes nothing, so it
   takes no snapshot (`services/profile-apply.ts:890`-`895`), although the profile may
   list other files by then, all there already or kept by the user. A file it lists
   and a later version drops is in no snapshot, and stays.
10. *A blank lock is for ever.* A process killed between the creation of the update lock
    and the write of its pid (`services/upstream-update-lock.ts:57`), or whose write
    fails, leaves a file without a pid, which no stale check clears (`:46`); line 38 says
    that "A lock left by a process that is gone is cleared".
11. *A pushed image comes back changed.* A stash push decodes every file as UTF-8
    (`services/profile-untracked-resources.ts:877`); the bytes of one that is not are in
    the removal backup only.
12. *A cut keeps names, not contents.* "The installed version stays as a frozen cut next
    to the new one" (`docs/cli/concepts/plugins.md:166`): the cut lists the ids of the
    resources, whose texts the installation then overwrites in place
    (`services/plugin-origin-apply.ts:226`). And it cannot be gone back to: the
    notification's "kept so you can roll back" (`services/upstream-auto-install.ts:307`)
    meets a rollback that takes authored plugins only (`services/plugin-versioning.ts:550`).
13. *An update inside an installation goes down.* The same paragraph says that "a
    scheduled run is skipped while `ht plugin update` or a Desktop Update is running".
    Desktop's update is in the same process, so it joins the lock
    (`agent/parity-handlers/plugin-origin-update.ts:70`), or the scheduled run joins its.
    An update to the latest version between the plan and the installation of an older
    one is undone by it, and the cut that is made of the newer version then refuses it
    for ever (`models/plugin-model.ts:450`).
14. *A snapshot outlives what it shows.* The first edit of a plugin's resource list takes
    a working snapshot, which updates neither renew nor drop. The next cut freezes that
    (`services/plugin-versioning.ts:416`): another version than the head's, or one whose
    resources are gone, or a version that is there already, and then it fails at every
    run.
15. *A stop in the middle is an edit.* What a replacement that broke off leaves differs from
    the published package of its version, and every later run skips it with "has local
    edits" (`services/upstream-auto-install.ts:200`). The cut comes first and moves the
    version (`:238`), so a stop right after it is enough.
16. *Later edits are lost.* An edit during the download after the comparison is
    overwritten, and so is a resource of the user's own that nothing lists, when the new
    package brings one of its name (`services/plugin-origin-apply.ts:226`).
17. *A joined run installs nothing.* A scheduled run that finds a manual check in flight
    joins it, and its installation is dropped (`services/upstream-check-runner.ts:72`).
    `CatchesUp` says that a later run makes up for it.
18. *The dirty flag.* "A fresh pull sets it" (`services/upstream-auto-install.ts:189`) is
    not so: the pull ends with `markPluginClean` (`services/plugin-catalog-install.ts:378`).
19. *"Last-apply bytes" are those before it.* The drift stash is to "restore last-apply
    bytes when known" (`services/profile-stash.ts:233`), and its variable is called what was
    last written; it reads the snapshot's `state`, which is the home before that apply
    (`services/profile-apply.ts:900`). After a first apply over nothing the edit stays where
    it is, after one over an older text the older text comes back.
20. *A forced removal takes more than a revert gives back.* A skill that leaves takes
    `.agents/skills/<name>/SKILL.md` with it (`services/global-profile-cleanup.ts:123`), a
    path no snapshot lists. With forced removal that may be the user's own file; the revert
    of that apply goes by what was captured and leaves it in the removal backup.
21. *The catalog's latest may be lower.* An update looks whether the catalog's latest version
    is the one installed, not whether it is higher
    (`services/plugin-origin-update.ts:312`-`330`): when a version is withdrawn and the
    catalog names an older one, `ht plugin check` calls the plugin outdated and
    `ht plugin update` goes down.
22. *A withdrawn version is never left unasked.* When the installed version has been
    yanked, the package to compare with cannot be downloaded, and every scheduled run skips
    the plugin (`services/upstream-auto-install.ts:190`-`208`), although the newer version it
    should move to is there.
23. *An older Cloud hides the range.* Without `updates-since` a check knows only the
    plugin's latest version (`services/upstream-check.ts:268`, `:357`). Once that is a new
    major, nothing in the range is found, and nothing is installed.
24. *A cut blocks its version.* An unattended run has moved a plugin that was updated to one
    version on to a newer one, which is then withdrawn, and an update goes back to the oldest.
    The newest version in range is now a cut, and its installation fails at every run
    (`services/plugin-versioning.ts:392`, `models/plugin-model.ts:450`).

## Theorems

All hold for every set of processes, tasks, profiles, paths, readers, keys, versions and packages and every bound, from the
assumptions on the constants only (tasks are finite, every task has a process and
runs one kind of command, the special values are distinct, a torn stash file is no
sequence of entries).

| Theorem | Says |
| --- | --- |
| `Typing` | `UpstreamUpdateLock` keeps its types |
| `ExclusionUnlessStolen`, `HolderKeepsFile`, `DepthIsExact`, `ReleaseIsOwn` | the safety properties of the run `upstream_lock` |
| `UpdateLockRefines` | the upstream update lock implements `ProcessLock` until it is stolen |
| `OneProcessHolds`, `DepthIsHandles` | the safety properties of the profile apply lock |
| `LockRefines` | the profile apply lock implements `ProcessLock` |
| `SwitchUsesLock` | every behaviour of `ProfileSwitch` is one of `ProfileApplyLock`, so that the lock's theorems hold of it |
| `SwitchTypes` | `ProfileSwitch` keeps its types |
| `BaselineStaysCurrent`, `ActiveProfileIsInHome`, `ApplyCleansUp` | `BaselineIsCurrent`, `PointerNamesHome` and `CompletedApplyIsClean`, for calls in processes of their own (`OneTaskPerProcess`) and any failures, kills and deletions |
| `TurnedDownOnlyWhileRunning` | `BusyIsRunning`, for any requests that overlap in the sidecar |
| `LockOutlivesNoCall` | while `Undisturbed` holds, no lock file is there without a call that holds it |
| `AppliesAreLocked` | whatever is applied is applied under the lock of its process |
| `StashUsesLock` | every behaviour of `ProfileStash` is one of `ProfileApplyLock` |
| `StashTypesHold` | `ProfileStash` keeps its types |
| `UntrackedTextsSurvive` | `UntrackedTextIsKept`, for any number of paths, calls, edits, failures and crashes |
| `StashStaysStack` | `StashIsStack`, for any calls that overlap |
| `ManagedTextsSurvive` | `ManagedTextIsKept`, where no pop is a dry run |
| `UserTextIsKeptAlways`, `HomeKeepsCustody` | `UserTextIsKept`, and that `HomeApply` implements `FileCustody` |
| `RevertUndoesApply` | `RevertUndoes`, for any profiles, any paths that were not recorded as preexisting and any hub |
| `HomeTypes` | `HomeApply` keeps its types |
| `HomeStaysClean` | `HomeIsClean`, for any profiles and paths |
| `StatusTypes` | `StatusReadCache` keeps its types |
| `NobodyWaitsForNothing`, `ClearsAreSeen` | `AwaitedIsAtWork` and `AnswersAreSinceClear`, for any readers, keys, refreshes and events |
| `AnswersKnowWhatWasHeard` | `AnswersAreCurrent`, for the same |
| `UpstreamTypes` | `UpstreamInstall` keeps its types |
| `UndisturbedStaysPublished`, `PreviousStaysKept` | `UndisturbedIsPublished` and `PreviousIsKept`, for any catalog and any sequence of updates and installations |
| `FrozenCutsAreKept`, `EditsAreSpared`, `UnattendedInstallsStayInRange` | `CutsAreKept`, `EditIsNotOverwritten` and `UnattendedStaysInRange`, for any catalog, whatever it withdraws or calls the latest |

*Upstream update lock.* Mutual exclusion is not inductive: it needs to know whose
file is at the path in each phase of its use. `IInv` adds that the file of a
process in `fn` has its pid and was created by one of its tasks (`RunningHolds`),
that a task about to write its pid has its own blank file there (`WritingHolds`),
that one about to unlink has its process's file there and nobody in `fn`
(`UnlinkingHolds`), that `depth` counts the tasks in `fn` (`DepthExact`), that at
most one task of a process is between two synchronous calls (`OneSynchronous`),
without which another could open the file in between, and that a dead process
holds nothing (`GoneForgets`). All but typing and the last two are under the
premise that the lock was not stolen. The refinement follows: a joiner finds
`depth > 0`, so a task of its process in `fn`; a writer finds a blank file, so
nobody; a theft drops all tasks inside, which are of one process.

*Profile apply lock.* `LockInv` says that any handle out is of the process whose
file is at the path, that `lockDepth` counts the handles, and that dead processes
have none. It holds although the file may be leaked: what is lost is freedom, not
exclusion.

*Composition.* Each action of `ProfileSwitch` is an action of the lock or leaves
its variables alone (`StepOfLock`), so `Spec => LockSpec`, and the lock's
invariant carries over. With `AppliesWithHandle` (a task that applies holds a
handle), preserved by each action, `AppliesUnderLock` follows.

*What is left behind.* `BusyIsRunning` is the part of `SwitchEnds` that needs no
fairness, and is inductive with the types: the active session applies, so a call that
ends before it applied is not it, and one that ends later clears itself. In the same
way `LockOutlivesNoCall` is the part of `LockIsGivenBack` that needs none. Its premise
is that `Undisturbed` holds throughout, its invariant `SoleHolder`: one call holds the
lock, it is the owner, and `lockFd` is set for the file at the path. Then the counter is
1 at every release (`DepthCountsHandles`), which therefore removes the file.
`switch_leak` shows that without the premise on joined handles this is false.

*Switch.* With one call per process that leaves one apply at a time, which the
home's invariant (`HomeInv`) builds on. `StagesDone` says what the steps of the
apply have achieved: what it tracks covers every snapshot until they are removed,
its own files are there from `record` on, and at `point` no other profile's are
that a snapshot lists. `FilesAreListed` says that, while nothing fails, no file is
there that a snapshot does not list, `HomeMatches` that the home is the pointer's
until the write, and `DemotedIsGone` that the pointer a deletion clears is of a
profile that is gone. A failure may leave anything in `Partial`: it ends the apply
it concerns, and what is said of a calm home no longer applies. The premise is
needed: `switch_twice` has two applies of one process under one lock.

*Stash.* `KeptInv` is `UntrackedTextIsKept` with `home` a function on the paths,
and is inductive. A step changes the home in one of four ways, each a lemma: not at
all; files of the profile are reverted, which no untracked path is; files are
removed, whose texts at that moment are in `backup'`; texts are restored, and
those that were there and are not among them are in `overwritten'`. What is left
of a step that failed or was killed is of the same four kinds, which is why the
theorem needs no premise. It does need that a backup is of what is removed, not
of what was captured.

Typing needs that the id of an entry stays in range: a call is counted in `calls`
before it pushes, so the entries pushed and the calls that may still push are
together no more than the calls made (`CallsCounted`). `StackInv` is `IsStack` of
what the stash file holds, while nothing failed: push and pop read and write the
file in one synchronous step, so that calls which overlap neither lose nor repeat
an entry. `ManagedTextIsKept` takes that a push removes untracked files only
(`PushesUntracked`) and that a drift prompt reverts what the entry it pushes in
the same step has, and nothing else, whatever the snapshot holds (which is of the
profile's files only, `SnapshotIsManaged`); a dry pop breaks it (`stash_dry_run`), hence the premise
`DryPops = {}`.

*Home.* That a step keeps the user's texts follows when nothing it writes over or
removes without a backup is one of them. It writes over owned files, so the
invariant says that no row has a text the user counts on at its path (`NoClaim`),
and since rows come from what an apply wants, from what profiles hold and from
rows a removal put aside, it says so of those as well: a revert may put a row
back long after. `Rows` and `RemovedRows` say that these texts were written by
now, and so differ from the user's next one. A forced removal needs none of
this, as its backup comes first. The refinement is then each step's lemma.

`RevertUndoes` rests on `UndoInv`. While an apply is under way and nothing
happened since it captured the home, each path holds what was captured or what
the apply wrote, and by the time of the snapshot a row vouches for what it wrote
(`CapturedNow`); from then until something happens, a path holds what it held
before, or HarnessTap's own text, or nothing with its text in the snapshot's first
backup (`FreshIsUndoable`), which are the three cases of a revert. A path that was
not captured stays as it was, unless it is a hub's and went with a skill to the removal
backup (`StaleLeaves`). Typing says
besides that a path has one row per profile (`OneRow`), which a restored row
must not break, and that an apply under way has room for its snapshot (`Room`).

`HomeIsClean` rests on `CleanWhileListed`: a file a row vouches for, and that was not
there before, is one the active profile's latest snapshot lists; then one the apply
tracks, then one of those or of the wanted files, and, after the removal, a wanted
one. That the files of the active profile are among the tracked ones
(`ActiveIsTracked`) and that the new snapshot is the latest of its profile
(`RecordedFiles`) close the circle; the user's edits take files out of a row's word
and never into it, since their texts are new.

*Status cache.* `Work` says that a refresh at the worker is in its queue and the
worker is up, that what is in flight for a key is unsettled and of that key, and
that a refresh is a caller only while it loads a status here, of a core: nobody
waits in a circle. `Sound` is about age: an entry is as recent as the latest
clear (`Stored`); a value that a refresh holds, that its nested read holds or
waits for, is so too while the refresh is of the current generation, and is in
any case as recent as the clear before each read that waits for it (`Covered`).
A clear makes all refreshes those of an old generation and forgets what is in
flight, so no later reader joins one. Typing says that there is one entry and one refresh
per key, a queue without repetitions, and counters within the events that happened.

`AnswersAreCurrent` rests on `Current` besides. What makes it hard is that neither
an entry nor a value on its way has every commit: that is false (item 4 above).
What is true is that `heard` moves on only while nothing that has read is held, and
that a change it then counts leaves its mark on the entries. So a plain entry that
is not seen to be moved has the commits that were heard, and one that is seen to be
current their file changes (`Fetched`); for the mark to be one, entries must not be
ahead of the counters (`Aged`). A value that a refresh holds, that its nested read
holds or waits for, has them too, as far as the entry it would become would not be
seen to be old, and in any case what each read that waits for the refresh asked for
(`Kept`): a refresh is begun after the read that waits for it asked, and reads later
still. A commit of this process counts as heard although the worker may have replied,
since that reply is stored under the write generation it was asked in. A commit or a
change that is heard must find nothing held: a core that a load waits for is held by
that load or by one of the same generation (`Matched`). At the end a
waiting call is given the entry and not its own outcome, which differ in nothing
while the generation is the same (`StoredIsOwn`); and that a reader is never given a
core (`EntriesOfKind`, `LoadsOfKind`) is what makes an answer that is not marked old
a plain one. TLC has found `Current` to hold of the run's instance before it was
proved. A change that moves neither `epoch` nor the mtimes is not heard, and no
theorem says when it will be.

*Upstream install.* Each theorem needs only what its property is about, and few steps
touch that, so the steps are first put in cases: what a step does to the library
(`LibraryCases`: nothing that a cut lists, a cut, a replacement or a part of one, an
edit) and what it does to one task (`TaskCases`: it starts, moves, ends or stays).
`FrozenCutsAreKept` follows from the first alone: a row is deleted only when no cut lists
it. `EditsAreSpared` adds `NotEdited`, from the comparison on no text of the plugin is
the user's but those edited since. For `UnattendedInstallsStayInRange` the lock comes in
(`Apart`: the tasks inside are of one process, and the installing job is inside): the
version the job has chosen is in the range of the head (`Chosen`) until another task
changes the head, which the lock allows a task of the same process only, and then the job
has been raced. Of the catalog nothing is assumed. `Untouched` makes the two properties of an undisturbed plugin inductive: there is
no working snapshot, the installing job's version is a cut and its target none, and the
cuts have their packages' resources; that the head is never a cut (`HeadIsNotCut`) is what lets the cut
of an undisturbed head succeed.

Left to TLC: the liveness properties `GonePidCleared`, `LockIsGivenBack`, `SwitchEnds` and `CatchesUp` (fairness is out of
the prover's reach). Every other property of a passing run is stated by a theorem.

## Plan

In this order; each module with its instance, runs and proofs.

1. Switches of home and project, as actions beside those of `ProfileSwitch`.
2. `Resolution` as a pure module: version mediation and resource precedence
   against a declarative definition, over all graphs of a few plugins.
3. Project configuration: the steps of `ht use` and the lock they take one by one.

## Not modelled

Merging into shared configuration files and the formats of the harnesses; the
package cache of host plugins; updates of plugins that come from git or a marketplace, or follow
another plugin; cuts and rollbacks by the user; which files the status cache watches; marketplaces,
cloud clients, telemetry, self-update, the command line and the Desktop user
interface. Most of this is conversion, network I/O and presentation, and makes up most
of the repository's lines. `PROJECT.json` has the reason for each.
