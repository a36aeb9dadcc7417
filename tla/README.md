# Debian installer: TLA+ models

The Debian installer (d-i) is a set of small packages, called udebs, that run
from an initial RAM disk. Most of them are linear scripts. A few keep state
that several processes share, or run a loop whose decisions depend on
everything that happened before; these decide whether an installation goes
through, and they are what the modules here describe.

Paths below are relative to the repository (`packages/...`); the exact lines
each definition models are in `PROJECT.json` under `map`.

Contents

1. [The system](#1-the-system)
2. [Modules and the code they model](#2-modules-and-the-code-they-model)
3. [Runs](#3-runs)
4. [Fairness and deadlock](#4-fairness-and-deadlock)
5. [Proofs](#5-proofs)
6. [Where code and text disagree](#6-where-code-and-text-disagree)
7. [Abstractions](#7-abstractions)
8. [Plan and what is not modelled](#8-plan-and-what-is-not-modelled)
9. [Using the project](#9-using-the-project)

## 1. The system

```
 rootskel ──starts──> main-menu ──runs──> udpkg --configure <package>
                        │   ▲                │        │ runs the package's
                        │   └── reads ── status file  ▼ config and postinst
                        ▼                    ▲     maintainer script
                     cdebconf <──asks────────┼────────┤
                                             │        ├─ anna ──> udpkg --unpack
                                             └────────┤          udpkg --configure
                                                      └─ partman ──> parted_server
                                                             (three FIFOs)
```

`main-menu` sorts the unpacked udebs that are menu items, puts the menu to the
user through debconf (or answers it silently), and has `udpkg` configure the
chosen one after its dependencies. Configuring a package runs its maintainer
scripts; some of them (anna, hw-detect, network-console) run udpkg again, so a
udpkg process can be an ancestor of another one that uses the same status file.
`partman`, one of the menu items, is a collection of shell scripts that talk to
a server holding the partition tables in memory. `netcfg`, another one, runs
DHCP clients and waits for them. `anna` fetches further udebs, and any script
may ask for more of them with `anna-install`.

| component | state | operations | what is hard | what makes it correct | status |
|---|---|---|---|---|---|
| **udpkg** (`packages/udpkg`) | `/var/lib/dpkg/status` with `.new`, `.bak`; `status.lck`; per process the tree it read and the packages of the command line | `--unpack`, `--configure`, `-i`, `-r`; lock, read, merge | invocations side by side and nested in scripts; the lock given up in the middle of `--configure`; kills between two renames; one package of several failing | no invocation loses packages or undoes another one's work; the database can be recovered; no process waits for its own ancestor | `Udpkg` |
| **main-menu** (`packages/main-menu`) | priority (its own idea, debconf's, the default to restore), the flag that asks for the menu, last successful item, seen and not installable packages, package statuses, recursion | menu, default item, configuring with dependencies, virtual packages, priority changes | long sequences of failures, backups and successes; return codes through two mutually recursive functions; loops of dependencies; postinsts that change the priority | dependencies first; the menu shows when it should; a hidden menu runs the default; the recursion is bounded; the user is not locked out | `MainMenu` |
| **parted_server and its clients** (`packages/partman-base`) | FIFOs; per device the table in memory, the changed flag and remembered geometries; the device; the pid file and the server's life | a dialog per command, exceptions, progress reports, resynchronisation; starting, stopping, restarting | two processes that open, close and drain three FIFOs in opposite orders; nested questions inside a command; failing writes; a new server while the old one removes its files | replies reach the dialog they belong to; nobody waits for ever; the changed flag and the client's idea of the device are right; the menu has a server that listens | `PartedDialog`, `PartedRestart` |
| **cdebconf** (`packages/cdebconf`) | the questions to ask and those to give defaults, linked through the questions themselves; the backup flag; what is hidden | INPUT, GO, CLEAR, RESET, CAPB, SET and FSET as far as they change what is hidden | a backup flag that outlives its question; links of one list seen by another; steps without a visible question | every question put is asked or gets a default; a backup goes back, and no further than the module | `Debconf` |
| **anna and the retrievers** (`packages/anna`, `packages/udpkg` as it runs it) | the cached package list, the queue, `anna/choose_modules`, the versions installed | `anna <retriever>`, `anna install`, retrieving, checking, unpacking and configuring passes | retries and error replies; one of several packages failing and what the next run makes of the rest; runs nested in maintainer scripts; lists of different age | success means installed; nothing unchecked is unpacked, nothing replaced by something older; a retry can succeed | `Anna` |
| **libdebian-installer** (`packages/libdebian-installer`) | package lists, dependency graph with marker bits; parser, hash, memory | reading, resolving, sorting | providers of virtual packages | the result contains dependencies | the permissive walk of the resolver, as a least closed set, in `Anna`; the rest is not modelled |
| **netcfg** (`packages/netcfg`) | interface, the pids and exit codes of the DHCP, DHCPv6 and rdnssd processes, what is to be written | the questions of `main`, `netcfg_activate_dhcp` and `netcfg_get_static`; fork, poll, cancel, kill | a child that ends before its pid is known; a timeout and a retry against a late answer; signals; backing up through states; results that survive a change of mind | a lease is this try's; exits are noticed; no client is left running; every try ends; what the user configured is written | `Netcfg` |
| choose-mirror, preseed, rootskel, hw-detect, base-installer, partman-auto and other partman-* clients, network-console, lowmem, cdrom-checker, boot loaders, apt-setup, s390 tools, image build | | | mostly linear scripts around external programs | | not modelled, see section 8 |

Everything that is hard to reach with a test is listed in `PROJECT.json` under
`hazards`, at its line, with the properties that watch over it. A hazard without
a property says why there is none.

## 2. Modules and the code they model

| module | models | instance for TLC | proofs |
|---|---|---|---|
| `Udpkg` | `packages/udpkg/udpkg.c`, `status.c` | `MCUdpkg` | `UdpkgProofs` |
| `MainMenu` | `packages/main-menu/main-menu.c`, with the parts of libdebian-installer, debconf and udpkg it uses | `MCMainMenu` | `MainMenuProofs` |
| `StatusDB` | nothing in the code: the abstract database that `Udpkg` implements | through `MCUdpkg` | `UdpkgRefinement` |
| `PartedDialog` | `packages/partman-base/parted_server.c`, `lib/base.sh` | `MCPartedDialog` | `PartedDialogProofs` |
| `PartedRestart` | `packages/partman-base/parted_server.c` (`main`, `cleanup_and_die`), `partman`, `init.d/parted`, `lib/base.sh` | `MCPartedRestart` | `PartedRestartProofs` |
| `Debconf` | `packages/cdebconf/src/commands.c`, `frontend.c`, as the installer builds them | `MCDebconf` | `DebconfProofs` |
| `Netcfg` | `packages/netcfg`: `netcfg.c`, `dhcp.c`, `autoconfig.c`, `rdnssd.c`, `static.c`, `write_interface.c`, `kill-all-dhcp` | `MCNetcfg` | `NetcfgProofs` |
| `Anna` | `packages/anna`: `anna.c`, `retriever.c`, `util.c`, `anna-install`, and the resolver of libdebian-installer it calls | `MCAnna` | `AnnaProofs` |

A definition whose comment begins with "A mutated" or "Mutated" (`merged_dropping`,
`ItemBackedUp_hidden`, ...) is not part of the model: it is a plausible bug
that stands before the definition it changes, and with it in place the property
named in `PROJECT.json` under `mutants` fails.

### Udpkg

Each member of `Procs` is a udpkg process. `pc` follows `main` through
`status_lock`, `status_read`, the work on the packages of the command line (with
`script` while maintainer scripts run), `status_merge` in three steps (writing
`.new`, and the two renames), and `status_unlock`. All four operations that
change the database are there:

| operation | lock | work | results go to |
|---|---|---|---|
| `--configure` | released after the read, taken again before the merge | stops at the first failure | its `tree`, which is then merged whole |
| `--unpack` | kept | stops at the first failure, merges what it has | the command line's structures (`list`) |
| `-i` | kept, also while scripts run | two stages; goes on after a failure | `list` |
| `-r` | kept | after one failure all later packages count as failed | `list` |

A script may run another udpkg (`Spawn`) and waits for it. `Kill` ends a process
anywhere. A system call may fail: an open or a rename ends the merge, while a
failing write of `.new` goes unnoticed (`status_merge` looks at no result of
`fputs`, `fprintf` or `fclose`) and the short file is renamed into place. `torn` says
that `.new` is such a file; `cut_short` says what may be missing from it.
`status_print` and `status_parse` are modelled by what they do to the
three groups of bits, including the `(null)` that is printed, and read back as
no status at all, when a group has no bit.

### MainMenu

One process, so the concurrency is in its environment: every outcome of every
postinst, packages that appear while one runs, priorities that change under it,
refusals of `isinstallable`, choices and backups of the user. `stack` holds the
activations of `di_config_package` and `satisfy_virtual`, `ret` the value being
returned; `depth` is `di_config_package_depth` with its early return that does
not count down. `show_main_menu` is one action, since nothing else acts between
the questions it sends; so is what `main` does after an item, with one action
per return code.

### PartedDialog

The two programs are sequences of opens, closes and reads (`Program`); the
definitions `close_fifos_and_synchronise` and `close_dialog` follow the C
function and the shell function step by step. A FIFO has the kernel's
semantics: an open waits until the other end has been opened, at the same time
or since (also if it has been closed again before the waiting process runs), a
read returns nothing once the last writer is gone, a write without a reader
kills the writer, and a FIFO nobody has open forgets its contents. Inside a
command the server raises exceptions and reports progress
(`pseudo_exception`, `timer_handler`), and the client's `error_handler` answers
them. The commands change one device's `dev`, `disk`, `changed` and `geometries` and
the table on the device itself (`media`). Three of them do so in ways that matter
for the mark: PARTITIONS and GET_RESIZE_RANGE make the extended partition as
small as possible (`Minimal`) without marking the table, and DISK_UNCHANGED takes
the mark off without writing anything (`waived`). `fault` records
what would end one of the two programs: a SIGPIPE, a `critical_error`, a line
the client cannot use, a device that NEW_LABEL cannot open again, a table with too many
partitions for `remember_geometries_named` (`Crowded`), and a COMMIT that looks at the
device of a table that is not there.

### StatusDB

The database as a function from packages to entries, and jobs that look at it
once, work on packages of their own and change it in one atomic commit or not
at all. An exclusive job changes nothing but its own packages; a shared one
may also put back what it saw of others, but loses no package and touches none
that it did not see. A job whose writing fails (`spoiled`) commits all the same, and
packages are missing from what it commits, or have lost their status (`Broken`): this is
the one way in which a package is lost, and it ends with that commit.
`Udpkg!AtomicDatabase` is its specification under the mapping that
takes the database to be `file`, or `bak` while a merge is between its two
renames, so that the second rename is the commit; a view of
`StatusDB` is what the tree says about packages the job was not asked to change.
The weak promise of shared jobs is not a choice of the model: it is the
strongest one that `--configure` keeps, and `udpkg_race` shows what is missing.

### PartedRestart

The files `partman` and its server find each other by: the pid file, the three
FIFOs, and the regular file that the shell makes when it redirects into a FIFO
that is not there. Each server is at a place of `main` (`check` the pid file,
make `fifos`, `signal` the parent, `loop`, `waiting` in the open of infifo,
`serving`, the two halves of `cleanup_and_die`); the scripts are at one place, since
they run one at a time. Dialogs are those of `PartedDialog`, without their
content. QUIT has no answer, so the scripts go on, and perhaps start a new
server, while the old one is still removing its files: whatever has the names by
then. `causes` records what has gone wrong so far, so that the properties can
say what the system does as long as nothing has: `overlap` when a script looks at
the files while a server is in its cleanup, `died` and `killed` for a server that
ends by itself.

### Debconf

`questions` and `questions_noninteractive` are the heads of lists that run through
`next` and `prev` of the questions. `frontend_add` and `frontend_add_noninteractive`
follow those links, so a list that a question was put into twice can become a
circle, in which the code would not end (`fate = "hangs"`), or run into the
assertion. `switch_frontend` is the part of GO that replaces the frontend when
another one was asked for: the new one is handed the heads of the lists, and
deleting the old one cuts the links of all questions (`unlink`). `mishaps` records what
a GO does not report: such a switch, choices that cannot be split, at which
`go_noninteractive` stops, and a question of a type without a handler, which
`frontend_notimpl` passes over. The module that debconf serves is the usual one: steps that put
questions and GO, forward on success and back on a backup.

### Netcfg

One process with its questions (`WifiQuestions`, `StaticQuestions`, `DhcpQuestions`
for those that only lead on) and the processes it forks. The DHCP client of each
try, the child and daemon of the DHCPv6 client and rdnssd run by themselves:
they get a lease, fail, fork a daemon, or are killed by name through
`kill-all-dhcp`, which looks up and kills the processes of one name after another,
each in two steps (`pidof`, `kill_all`): if one of those it saw has gone since, `kill -0` may
fail for all of them and the others are spared (`spares`). A forked child that cannot
execute its client goes on as a copy of netcfg (`copy4`), and without any client
on the image netcfg ends with a message (`NO_CLIENT`). SIGCHLD is
pending until `sigchld_handler` runs, and lost while no handler is installed.
`v4` keeps how the client of each try ended, so that a lease of an old try, or the
0 with which a client may answer TERM, can be told from a lease of this one.

### Anna

`run` holds one run of anna for each level: level 1 is started by a menu item or a
script, level 2 by a maintainer script that level 1's `udpkg --configure` runs.
`retriever_packages` takes the list of any generation of the archive, or the cached
one; `select_arguments` and `choose_modules` compute what to install; two
passes follow, in the order of the list and without the packages whose stanza names no
file (`nameless`). A stanza without a checksum lets any file pass (`sha256sum`), and a bad
file may hold any version. The initrd of a boot configuration has packages
that are unpacked and not configured. `unpack_package` takes every result
that `Udpkg` allows for a package that fails to unpack, and `ScriptEnd` the words
that the merge of `--configure` writes back for the stanzas it had read, nested
changes included. `left` and `unlisted` record what later runs trip over: packages that
the initrd or a failed run left unconfigured, and a run that gave up on its list.

## 3. Runs

| run | instance | what it shows |
|---|---|---|
| `udpkg_safety` | 2 processes, 2 packages, command lines of up to 2, 2 invocations of which one may run in a script of the other, 2 kills or failing system calls, writes included; about 1.3 million states | `TypeOK`; `LockedJobsKeepOthers`; `ConfigureKeepsNewcomers`; `NoAncestorLock`; `RecoverableDatabase`; `AtomicDatabase` (the refinement of `StatusDB`) |
| `udpkg_live` | 2 processes, 1 package, 3 invocations, no `-i` | `EveryJobEnds` |
| `mainmenu_menu` | 4 packages, one of them fetched later and one depending on another, one that changes the priority, one that may refuse | `HiddenMeansDefault`, `PriorityInStep`, `MenuWhenAsked`, `NoSilentLoop` |
| `mainmenu_deps` | 7 real and 3 virtual packages, a dependency loop, recursion limit 3; about 780,000 states | `TypeOK`, `DepsFirst`, `VirtualHasProvider`, `RecursionBounded` |
| `parted_dialog` | 4 tables: one, the same with a larger extended partition, another, and one of fifty partitions; dialogs numbered modulo 2, up to 2 exceptions or reports in each, a device that works and one that may fail; about 1.5 million states | `NoFault`, `OwnDialog`, `ClientKnows`, `ChangedTells`, `EveryDialogEnds`, and no deadlock |
| `parted_restart` | 4 servers, 2 exits or kills | `TypeOK`, `ServerReady`, `NoStrayCommand`, `PidNamesServer`, `NeverStuck` |
| `debconf` | 3 questions in 3 steps, 3 INPUTs in a step, 2 backups, a switch of the frontend at any GO; about 590,000 states | `OnlyTwiceFatal`, `ListsAreInputs`, `AnsweredValid`, `BackupGoesBack`, `EndsByWish`, and no deadlock |
| `netcfg` | 2 autoconfigurations, timeouts of 3 and 1, six combinations of DHCPv6 client and network, machines with and without an interface, images with and without a DHCP client; about 2.3 million states | `LeaseIsOurs`, `ExitNoticed`, `NoClientLeft`, `AutoconfigEnds`, `ManualIsWritten`, and no deadlock |
| `anna` | 3 runs on 2 levels, 3 packages, 2 generations of the archive, one stanza without a file name and one without a checksum, 2 boot configurations, one with a package in the initrd, scripts that ask for one of the packages; about 560,000 states | `TypeOK`, `DoneMeansInstalled`, `NoDeadRetry`, `OnlyChecked`, `NoDowngrade` |
| `udpkg_race`, `parted_commit_fails`, `netcfg_stateful` | | section 6 |

Why the bounds are enough for the cases to happen:

- *Udpkg.* Every interference needs two processes: the one that reads and merges
  and the one whose work it could undo. Two packages give each of two
  overlapping invocations a package of its own; command
  lines of two packages make a failure after a success, and a package not yet
  reached, possible. Two faults allow a write that fails and a kill between the
  renames that follow, or a fault in each invocation. `udpkg_live` has
  a third invocation, so that a script can run udpkg while somebody waits. The
  theorems of section 5 lift all of this for safety.
- *MainMenu.* The menu instance has an item in every class the code treats
  differently: an ordinary one, one below the last successful item
  (`late`, fetched by `anna`), one that may be refused and has a dependency (`disk`),
  and one that is never the default and sets the priority (`mode`). The dependency instance has a
  virtual package whose providers include a menu item (the user chooses), one
  whose providers do not (all are configured), a provider that does not exist,
  and a loop that runs through a virtual package. `MaxDepth` is 1000 in the
  code; with 3 the loop meets the limit, and the dependencies outside the loop,
  which are at most three deep, just fit, until a loop that was refused has
  left the counter higher.
- *PartedDialog.* With dialogs numbered modulo 2 a line that outlives its dialog
  is told from those of the next. Of the four tables two make "changed" and "unchanged"
  differ, one differs from another in its extended partition only, and one is too large
  for the server. Two reports allow an exception while the progress bar is up, followed
  by another report.
- *PartedRestart.* Two servers overlap; a third is started on what they leave, and
  a fourth on what the third made of it. Two deaths allow a server to be killed
  and the one that finds its files to exit.
- *Debconf.* Three questions make the first circle that does not contain the
  question being put; three steps leave one between the step that was backed
  out of and the one to go back to, all of whose questions may be hidden.
- *Netcfg.* Interference between tries needs two of them. A timeout of 3 lets a
  client end in the first poll, in the last one, in between and not at all.
- *Anna.* One run leaves something behind, one trips over it, and one is nested
  in either. The packages are a library, a menu item that depends on it, and a
  package of standard priority that is only in the newer archive and whose name
  contains the library's; the boot configurations have plenty of memory and
  little, standard modules and none, an included and an excluded package, an initrd
  with the library and one without. Scripts ask `anna-install` for the third package,
  which the older list does not know, and which an outer run may have yet to
  configure. The library has no file name in the older list, so that the menu item
  is installed without it, and the third package no checksum. (That an
  unchecked file replaces a package by an older one takes three generations; there the
  exception of `NoDowngrade` is needed, and the proof covers it.)

Symmetry is declared only over sets whose members no definition tells apart
(`Procs` and `Pkgs` of Udpkg) and only in runs without liveness properties.

## 4. Fairness and deadlock

- `Udpkg!FairSpec`: a process that can take a step takes it (`WF`). A process
  that waits for the flock gets it when it is free again and again (`SF`: the
  kernel queues waiters). A script that is free to end does, even if it could run
  udpkg once more (`SF` on `ScriptEnd`). No fairness makes anybody start udpkg,
  and none makes a fault happen.
- `MainMenu!FairSpec`: one process, always scheduled again (`WF` of `Next`).
  Nothing is assumed about the outcome of a postinst or about the user.
- `PartedDialog!FairSpec`: `WF` for each of the two processes. The client's fairness
  includes its going on with the script; while it waits in a FIFO it has no step.
- `PartedRestart!FairSpec`: `WF` for the steps of each server, and for the scripts
  where they run by themselves (`run`). Choosing something in the menu, leaving
  it and entering partman is the user's, without fairness; servers need not
  die.
- `Netcfg!FairSpec`: `WF` for `Working`, what netcfg does by itself (forks, polls, the
  steps of `kill-all-dhcp`, reading the DHCPv6 client's answers), and for the
  delivery of SIGCHLD. Answers and the Cancel of the progress bar are the
  user's; nothing makes a DHCP client get a lease, fail or end.

`CHECK_DEADLOCK FALSE` stands where the model may really stop: in the runs of
Udpkg, when the invocations the bound allows are used up and all have ended; in
those of MainMenu, after the program exits; in `parted_restart`, where a
script may wait for ever once a server was killed (`NeverStuck` says that it never
waits otherwise), and outside of partman when all servers are used up; in
`anna`, when the runs are used up. The other runs check for deadlock. In
the runs of Udpkg a lock cycle would also count as a legal stop; that there is
none is what `NoAncestorLock` and `EveryJobEnds` say.

## 5. Proofs

`UdpkgProofs`, `UdpkgRefinement`, `MainMenuProofs`, `PartedDialogProofs`,
`PartedRestartProofs`, `DebconfProofs`, `NetcfgProofs` and `AnnaProofs` prove the
following for every value of the constants that satisfies `ConstantsAssumption`
(types, and that the special values are no members of the sets they are added
to). The inductive invariants were checked with TLC first, as far as TLC can
evaluate them. Every safety property of the passing runs is a theorem.

| theorem | property |
|---|---|
| `UdpkgProofs!TypeCorrect` | `TypeOK` |
| `UdpkgProofs!LockedJobsSafe` | `LockedJobsKeepOthers` |
| `UdpkgProofs!ConfigureSafe` | `ConfigureKeepsNewcomers` |
| `UdpkgProofs!DatabaseRecoverable` | `RecoverableDatabase` |
| `UdpkgProofs!AncestorLock` | `NoAncestorLock` |
| `UdpkgRefinement!Refinement` | `AtomicDatabase`: Udpkg implements `StatusDB` |
| `MainMenuProofs!TypeCorrect` | `TypeOK` |
| `MainMenuProofs!PriorityAgrees` | `PriorityInStep` |
| `MainMenuProofs!HiddenRunsDefault` | `HiddenMeansDefault` |
| `MainMenuProofs!MenuShown` | `MenuWhenAsked` (an action property) |
| `MainMenuProofs!DependenciesFirst` | `DepsFirst` |
| `MainMenuProofs!ProviderInstalled` | `VirtualHasProvider` |
| `MainMenuProofs!LoopsStop` | `RecursionBounded` |
| `PartedDialogProofs!NobodyFails` | `NoFault` |
| `PartedDialogProofs!RepliesToItsOwn` | `OwnDialog` |
| `PartedDialogProofs!ClientIsRight` | `ClientKnows` |
| `PartedDialogProofs!MarkIsTrue` | `ChangedTells` |
| `PartedRestartProofs!TypeCorrect` | `TypeOK` |
| `PartedRestartProofs!PidFile` | `PidNamesServer` |
| `PartedRestartProofs!Ready` | `ServerReady` |
| `PartedRestartProofs!NoStray` | `NoStrayCommand` |
| `DebconfProofs!FatalOnlyTwice` | `OnlyTwiceFatal` |
| `DebconfProofs!ListsHoldInputs` | `ListsAreInputs` |
| `DebconfProofs!AllAnswered` | `AnsweredValid` |
| `DebconfProofs!BackupReachesBack` | `BackupGoesBack` |
| `DebconfProofs!ModuleEndsByWish` | `EndsByWish` |
| `NetcfgProofs!LeaseOfThisTry` | `LeaseIsOurs` |
| `NetcfgProofs!EndIsNoticed` | `ExitNoticed` |
| `NetcfgProofs!ClientsGone` | `NoClientLeft` |
| `NetcfgProofs!WrittenByHand` | `ManualIsWritten` (an action property) |
| `AnnaProofs!TypeCorrect` | `TypeOK` |
| `AnnaProofs!SuccessMeansInstalled` | `DoneMeansInstalled` |
| `AnnaProofs!CacheThere` | `NoDeadRetry` |
| `AnnaProofs!Checked` | `OnlyChecked` (an action property) |
| `AnnaProofs!Upgrades` | `NoDowngrade` (an action property) |

*Udpkg.* None of the invariants is inductive: that a merge at `rename1` leaves
other packages alone depends on what the process did since it read the file, and
on nobody else having written. The inductive invariant `IInv` adds

- `PathInv`, which places each operation visits;
- `LockInv`, a process has the lock exactly at the places where the code holds it
  (so at most one process is at any of them);
- `ListInv`, only packages already worked on have a status in the command line's
  structures, and `--configure` uses none of them;
- `FreshInv`, between its read and its merge a job that keeps the lock has a tree
  that agrees with the file. This is the fact that fails for `--configure`, and
  with it `NoForeignWrite`;
- `DiskInv` and `KidInv`, the files during a merge, and children only of processes
  whose scripts run. All of it is said of a `.new` that was written in full; a torn one
  is excepted, and stays torn until it is renamed.

The lemma `PrintParse`, that printing a status that was read gives the same
status back, carries `FreshInv` over to the file that is written.

*The refinement.* That a commit of `StatusDB` does what `Outcomes` allows depends on
what `.new` is when it replaces the file. `RInv` says so: at `rename1` it is the
merge (`MergeOf`) of the job's results with the `file` that is there, at `rename2`
with `bak`, which is that file by then, except for packages that a torn `.new` lacks or
names without a status; and a job has touched no package before
it has read. `StepRInv` needs the lock (`LockInv` of `IInv`): no other process writes one of the
three files meanwhile. `StepRefines` then has one case per action: the read is
`Look`, work on a package is `Work`, a failing write is `WriteFails`, the second rename
is `Commit`, an error is `GiveUp`, and the rest stutters.

*MainMenu.* `IInv` is `TypeOK /\ PriorityInStep /\ HiddenMeansDefault`. The
step from one menu to the next rests on the priority: a menu that was asked for
is put to debconf with the priority main-menu believes to be current, so it
shows because that belief is right (`PriorityInStep`), and a menu without a
default is always such a menu. The frames of the recursion need lemmas of their
own (that what each action makes of its frame is a frame again), because the
same action pushes activations for real and for virtual packages.

The recursion has an invariant of its own, `SInv`, over all frames of the stack,
because what a frame may rely on was done by frames that are gone. `Linked` says
that each frame is the callee of the one below it (`Held`), and that a value is returned
only to a frame that called. `Bounded` counts the activations that walk
dependencies: never more than the counter, never more than the limit, and at
most one frame of `satisfy_virtual` between two of them, which gives the factor
of two in `RecursionBounded`. `Progress` says that, unless a failure or a backup is on
its way down, every frame is past only settled packages (`Passed`): a settled
package is installed, does not exist, or was declined, and stays so whatever
later postinsts do (`Grows`). A virtual package is settled when it returns because
some provider is there and every provider was passed.

*PartedDialog.* `ChangedTells` does not depend on the dialog: `Noted` states it
whether the device is open or not, and each command keeps it. It rests on tables being
`alike`, equal up to the extended partition, which PARTITIONS and GET_RESIZE_RANGE keep
although they mark nothing (`Alike`). That the server gives up only for one of the three reasons
in `ServerExits` is part of the invariant, since nothing happens after it. The rest needs to know where the two programs are with
respect to each other, for all 17 times 18 pairs of positions. An open returns
only if the other side has opened the same FIFO, so the programs pass their opens
in pairs: `Passed` counts the opens behind a position, `Phase` adds one that has met
its partner, and `Together` says that the phases are equal. `Held` derives from the
positions alone which ends are open. Within a phase `Talking` says what is on its
way: nothing (`Silent`), the command (`Commanding`), or the conversation. For that,
`Leads` says that the lines in outfifo, heard one after another, take the client from
what it expects now to where the server is; with it a client never meets a line it
cannot use, however many reports are queued. At most one exception is
unanswered (`Asking`), and the results on their way say how the device is
(`ToLearn`), which is what `ClientKnows` rests on when the reply has been heard.

*PartedRestart.* Whether the menu has a server depends on all the steps that led
there, so the invariant goes through the life of a server. `Types(n)` counts the
servers started, `PidWritten` says in which stages a server can be that the pid
file names, and `Orderly(n)` says that, while nothing has gone wrong, all servers but
the last are gone, and the last one is at a stage (`Last(n)`) that fits the place the
scripts are at and the files there are: this is where stopping a server
without waiting for it is seen to be harmless as long as nobody looks at the
files before it is gone. `IInv` states them for some n; starting a server is
the one step (`StartStep`) that goes from n to n + 1.

*Debconf.* The lists are links in the questions, and `Walk`, a recursive function,
follows them. That it finds the whole list cannot be proved by induction here; the
proof takes the least place at which it would differ (`WellFoundedInduction`). With
that a list is a sequence without repetition whose links lead from each element to
the next (`Chain`), and adding a question, clearing and walking become facts about
sequences. `LInv` says that both lists are chains (`Chains`), that `prev` is the converse
of `next` (`Converse`), that only questions that were put have links (`Unlinked`), and that
while the user is asked, whatever has no value yet is still ahead of the cursor
(`ToCome`). Putting a question twice without an abort leaves a common
tail of the two lists, or a question that follows itself (`Looped`); the invariant has
both, since the code goes on from there. After a switch of the frontend no question has
a link (`Bare`), so each list is its head, and nothing is said of what was behind it;
`Noted` says that only a GO has mishaps, so that the next step starts without. `Way` says where a backup leads: after
one the module is at an earlier step, and either the flag is still set or a question
of that step is to be asked.

*Netcfg.* What `LeaseIsOurs` needs is what netcfg knows while it waits (`Watched`): a
pid that is 0 with exit code 0 means that the client of this try got its lease, and a
client that has ended while its pid is still kept has a SIGCHLD pending or
ended before the handler was there. `Over` says that a client that has ended does
not run, so nothing else can end it again, and `Numbered` that each try has a number
of its own. `Gone` says that outside of a try every process is one that `kill-all-dhcp`
may leave (`Left`: it escaped by forking, was spared beside one that had gone, or is
a copy of netcfg), and during the kill of a name that those of this name are on its list or
escaped. That a daemon which appears late really is the child of one on the list
needs `Fresh`, a try has no process before it has started one, and `Alone`, a forked process
is the only one of its try and protocol as long as it runs. `Manual` says
that the questions about a static address come with no lease in the interface.

*Anna.* That a successful run leaves its packages installed cannot be seen from its
last step: a package it never touched counts as installed because it has a
version. `IInv` therefore accounts for every stanza of the status file at all
times (`Accounted`): it is settled (installed, or unpacked and a menu item), or
left behind by a run that failed, or pending, unpacked by a run that is alive and
has not come to it in its configuring pass. Packages of the initrd start as left
behind. A nested run makes this harder,
because the udpkg around it writes back the statuses it read before: so
`TreeAccounted` says the same of the stanzas a waiting udpkg will write, without the
pending packages of the inner run, and `Nested` that there is an inner run only
while the outer one is in a maintainer script. `Asking` says that what was asked
for has a stanza or is still to be fetched, or the list names no file for it, `Passing` that the packages behind the
point a fetching pass has reached are unpacked and the ones ahead are older than the
list (which also gives `NoDowngrade`), and that a file about to be unpacked has passed
`sha256sum`, and `Cached` that the default retriever's list
is cached except while the run that made it the default is still getting it. That
the next package of a pass exists is the one use of well-foundedness (`NextAhead`).

Only model-checked: the liveness properties `EveryJobEnds`, `NoSilentLoop`,
`EveryDialogEnds`, `NeverStuck` and `AutoconfigEnds`, and the absence of deadlock: they
rest on fairness and `ENABLED`, which are beyond the prover.

## 6. Where code and text disagree

Three runs end in a violation. Each checks what a comment or a changelog of the
repository says, against what the code does; the quotations are in
`PROJECT.json` under `findings`.

- `udpkg_race`, `NoForeignWrite`: two overlapping `--configure` invocations.
  The second to merge writes the whole tree it read before the first one
  worked, so that the first one's package gets its old status back. The lock is
  described as protection against exactly this.
- `parted_commit_fails`, `ChangedAlwaysTells`: the result of writing the table is
  ignored, and the table noted as unchanged. `ChangedTells` is the same for a
  device that works.
- `netcfg_stateful`, `StatefulStaysRunning`: the process that puts dhcp6c into the
  background ends before SIGCHLD has a handler; its pid is then never
  forgotten, and netcfg terminates the dhcp6c that has just got the lease.

Other things a reader of the properties will meet as named exceptions, each of
which is needed for the property to hold:

- `DepsFirst` (main-menu): backing up from the question for a provider makes
  `satisfy_virtual` return 0, which its caller takes for success; the package is
  configured without that dependency.
- `LockedJobsKeepOthers`, `ConfigureKeepsNewcomers`, `RecoverableDatabase`,
  `AtomicDatabase` (udpkg): a write of `.new` that fails is not noticed, and the short
  file replaces the status file.
- `NoFault`, `EveryDialogEnds` (parted_server): the server exits in the middle of a dialog
  when NEW_LABEL cannot open the device again, when it takes up a table of fifty
  partitions or more, and when COMMIT is said of a device without a table on a machine with
  its firmware on the disk (`ServerExits`).
- `ChangedTells` (parted_server): PARTITIONS and GET_RESIZE_RANGE alter the extended
  partition without a mark, and DISK_UNCHANGED takes the mark off a table that was changed.
- `ExitNoticed` (netcfg): a client that ends before the SIGCHLD handler is installed is
  not noticed.
- `ManualIsWritten` (netcfg): the interface's `slaac` member is reset by the next
  autoconfiguration only, so that an address given by hand after SLAAC succeeded is not
  written.
- `AutoconfigEnds` (netcfg): the answers of the DHCPv6 client are read without a
  timeout.
- `NoClientLeft` (netcfg): a client that forks its daemon between `pidof` and `kill`
  is missed; one of several of a name is spared if another of that name ends in
  between; and a child that could not execute its client, a copy of netcfg, has none of
  the names that are killed.
- `OnlyTwiceFatal` (cdebconf): `frontend_add` means to ignore a question that is
  put twice before GO, and does if it is alone on its list; otherwise the
  assertion fails, or the search for the end of the list does not end.
- `ListsAreInputs`, `AnsweredValid` (cdebconf): a GO that replaces the frontend loses all
  questions but the first of each list. GO also reports success when the choices of
  a hidden question cannot be split, which leaves the hidden questions after it without a
  value, and when it meets a question of unknown type.
- `ServerReady`, `NoStrayCommand`, `NeverStuck` (partman): a script that overtakes the
  cleanup of the server it stopped may lose the files of the next one.
- `DoneMeansInstalled` (anna): a package that the initrd or a failed run left unpacked, or
  whose unpacking failed, counts as installed for the next one, which then
  reports success; so does a package that the run around a nested one has yet
  to configure. A package whose stanza names no file is passed over. A queued package of standard priority is only offered, not
  installed, when standard modules are turned off.
- `OnlyChecked`, `NoDowngrade` (anna): a stanza without a checksum lets any file pass.
- `NoDeadRetry` (anna): the retriever is made the default before its package list
  is there. If the user gives up on the list, `anna install` has no cached list,
  and every retry looks for it again in the same place.

## 7. Abstractions

*Udpkg.* A package is its status; of a stanza, whether it is there and its
status line. Pseudo packages that the tree keeps for Provides, a package named
twice on one command line, and the read-only actions are left out. The status
files an initrd ships have only unpacked packages, so `Init` has no others.
A failing write loses any packages, and of at most one leaves the name; a stanza that is
cut after its status counts as whole, and none is cut within its name. A kill drops the lock at once; in reality a maintainer script that survives
its udpkg has inherited the descriptor and keeps the lock until it ends. The
sort of `depends.c` is not compiled into the installer's build.

*MainMenu.* `Order`, the menu as the resolver of libdebian-installer sorts it, is
a constant. `isinstallable` scripts answer the same whenever they are asked
within one menu. Debconf is the promise that a question is asked when its
priority is high enough; its backup flag is the subject of `Debconf`. Above `MaxDepth` the counter of the recursion stops in the model: the
code keeps counting, with the same effect until it overflows. A postinst
that is run by `udpkg --configure` is one step here, and what it does to the
status file is the part of `Udpkg` that `ConfigureKeepsNewcomers` guarantees:
its own package's status changes, and unpacked newcomers stay.

*PartedDialog.* One device stands for the registry, which has no state across
devices. A table is an abstract content; the geometries remembered for it stand
for the partitions that are on the device. Of a reply only where it ends
matters, and whether it says yes. The client follows the protocol's documentation: it uses a device only
while it is open, and resizes only partitions the server listed. It never exits
in the middle of a dialog; what that would do to the server is one of the ends
by itself of `PartedRestart`.

A remark on the FIFO protocol: with the semantics of a kernel's FIFO, leaving
out only the three synchronisations over `stopfifo` violates nothing in this
model; leaving out the whole resynchronisation (`Program_closing_only`) lets a
client's next command run into the previous dialog.

*PartedRestart.* The three FIFOs are made, and removed, in one step. outfifo and
stopfifo are one flag. Pids are not used again, so that a stale pid file never
names another living process.

*Debconf.* A question is its links, whether it is hidden and whether its value
is one of its choices. Priorities, seen flags and the type of a frontend only
decide what is hidden, which may change at any time. Every frontend is an interactive
one. References to questions are not counted,
so that the heads handed to a new frontend, which are given up once too often when both
frontends have dropped them, do no further harm here. The seen stack is not
compiled into the installer's build. Progress bars, templates, substitution,
databases and plugins are left out.

*Netcfg.* One interface stands for all; addresses and names are not modelled,
so a question is the set of places its answers lead to. wpa_supplicant either
connects or does not. A copy of netcfg that could not execute its client runs until
something ends it; that it goes on to talk to the same debconf is left out. `MaxTries` bounds the autoconfigurations: at the bound the
user is not offered another.

*Anna.* The version of a package is the archive it is from. Package lists have no
kernel versions or subarchitectures (every package fits) and no provided
names, so that the resolver's search for a provider is left out. A file that passes unchecked is
still of the package its name says. Packages in the initrd are of one archive and
unpacked. half-configured counts
as unpacked, and half-installed and unreadable statuses as `broken`: anna
does not tell them apart. The archive may change between any two
retrievals. The second pass follows the order of the list. That a menu
item which runs anna is itself configured by main-menu's udpkg, whose merge
comes after anna has ended, is left out: `Udpkg` shows what it does.

## 8. Plan and what is not modelled

Done: the modules of section 2, the runs of section 3 and the proofs of section 5.

Next: a safety reading of the liveness properties, as far as it goes (that in
every reachable state of a dialog one of the two processes has a step, from `InStep`
of `PartedDialogProofs`; that a script of `PartedRestart` waits only for a server that
will come to it), and the hazards that have no property yet.

Not modelled, and why:

- *Vendored packages.* Nine tenths of the C code under `packages/` is busybox,
  with hundreds of programs that are not the installer's; debootstrap,
  console-setup, tasksel, mklibs and win32-loader have projects of their own. Most of the
  other lines are text: drawing in cdebconf's frontends, parsing, string and list
  functions, translations. The modules cover the code that shares state
  between processes or runs, which is a small part of the lines; the share of
  the repository the map covers is small for that reason.
- *libdebian-installer.* The containers and parsers are sequential and have unit
  tests. Of the resolver the installer only uses the variants whose walk does not
  fail, and the state of the marker bits then shows in nothing but the set of
  packages, which `Anna` states directly. `depends.c` of udpkg is compiled out.
- *choose-mirror, s390 tools.* Questions with backing up over a table of states, as
  in `Netcfg`, without processes behind them.
- *partman-auto and the other partman-\* packages.* Scripts that compute and then
  issue the dialogs of `PartedDialog`, one at a time.
- *preseed, rootskel, hw-detect, base-installer, lowmem, cdrom-checker, boot loader
  installers, apt-setup and the like.* Linear scripts around other programs. To
  main-menu they are postinsts with an exit code, and that is how `MainMenu` has them.
- *network-console* starts a second main-menu on another terminal; the two meet in
  the status file, which `Udpkg` covers.

## 9. Using the project

In this directory, with TLC and TLAPS installed:

```
tlc -config MCUdpkg.cfg MCUdpkg             # a run: the cfg and module of PROJECT.json
tlapm UdpkgProofs.tla                       # the proofs of a module
tlapm UdpkgRefinement.tla
tlapm MainMenuProofs.tla
tlapm PartedDialogProofs.tla                # the longest, some minutes
tlapm PartedRestartProofs.tla
tlapm DebconfProofs.tla
tlapm NetcfgProofs.tla
tlapm AnnaProofs.tla
```

`PROJECT.json` lists the components, the runs with their properties, the mutants
that show each property can fail, the map from definitions to source lines, the
findings, the hazards and the theorems.
