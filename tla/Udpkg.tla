-------------------------------- MODULE Udpkg --------------------------------
(***************************************************************************)
(* packages/udpkg: the package manager of the installer.  Several udpkg    *)
(* invocations share /var/lib/dpkg/status.  An invocation reads the file   *)
(* into a tree, works on some packages and merges its results back, under  *)
(* an flock that --configure gives up while maintainer scripts run.        *)
(* A maintainer script may itself run udpkg (anna, hw-detect,              *)
(* network-console do), and waits for it.                                  *)
(***************************************************************************)
EXTENDS Naturals, Sequences, FiniteSets

CONSTANTS
    Procs,      \* udpkg processes that may be alive together
    Pkgs,       \* package names
    TopOps,     \* operations run from outside any maintainer script
    NestOps,    \* operations a maintainer script may run
    MaxArgs,    \* packages on one command line
    MaxJobs,    \* udpkg invocations in one behaviour
    MaxFaults,  \* kills and failing system calls in one behaviour
    None,       \* no process
    NoFile      \* the file does not exist

VARIABLES
    lock,       \* holder of status.lck
    file,       \* STATUSFILE
    new,        \* STATUSFILE.new
    bak,        \* STATUSFILE.bak
    torn,       \* the last .new was written short: a write of it failed
    pc,         \* where each process is
    job,        \* its operation, the packages still to process, --force-configure
    tree,       \* what it read with status_read, as updated since
    list,       \* status of the command line's package_t structures
    touched,    \* packages it has given a status
    kid,        \* the udpkg its maintainer script is waiting for
    jobs,       \* invocations so far
    faults      \* kills and failed system calls so far

vars == <<lock, file, new, bak, torn, pc, job, tree, list, touched, kid, jobs, faults>>
disk == <<file, new, bak, torn>>

Ops == {"configure", "unpack", "install", "remove"}
Words == {"not-installed", "unpacked", "half-configured", "installed", "half-installed"}

\* A Status: line of the file, or the absence of the package's stanza.
Entries == Words \cup {"(null)", "absent"}
Database == [Pkgs -> Entries]

\* The status bits in memory: sel, the want and flag bits are set (install ok,
\* or deinstall ok after -r); word, the third group, "none" when no bit is set
\* and "absent" when there is no structure for the package.
Status == [sel : BOOLEAN, word : Words \cup {"none", "absent"}]
NoStatus == [sel |-> FALSE, word |-> "absent"]
ZeroStatus == [sel |-> FALSE, word |-> "none"]

ASSUME ConstantsAssumption ==
    /\ TopOps \subseteq Ops
    /\ NestOps \subseteq Ops
    /\ MaxArgs \in Nat /\ MaxJobs \in Nat /\ MaxFaults \in Nat
    /\ None \notin Procs
    /\ NoFile \notin Database

\* Command lines: distinct packages (a duplicate argument is not modelled).
Argvs == {s \in UNION {[1..n -> Pkgs] : n \in 1..MaxArgs} :
            \A i, j \in DOMAIN s : s[i] = s[j] => i = j}

Jobs == [op : Ops, argv : Seq(Pkgs), force : BOOLEAN]
PCs == {"idle", "lock", "read", "unlock1", "clean", "control", "work",
        "script", "relock", "write", "rename1", "rename2", "unlock"}

-----------------------------------------------------------------------------
\* status.c: the conversions, the tree, and the merge.

status_parse(entry) ==
    IF entry = "absent" THEN NoStatus
    ELSE IF entry = "(null)" THEN ZeroStatus
    ELSE [sel |-> TRUE, word |-> entry]

\* A mutated status_print: it does not notice a group without a bit.
status_print_unchecked(s) == s.word

\* A missing bit in any of the three groups makes status_print return NULL,
\* which the caller prints with %s.
status_print(s) == IF s.sel /\ s.word \in Words THEN s.word ELSE "(null)"

\* With no STATUSFILE the tree is empty.
status_read ==
    [q \in Pkgs |-> IF file = NoFile THEN NoStatus ELSE status_parse(file[q])]

\* A mutated merge: it drops the stanzas its tree does not know.
merged_dropping(p) ==
    [q \in Pkgs |->
        IF list[p][q] # NoStatus THEN status_print(list[p][q])
        ELSE IF file[q] # "absent" /\ tree[p][q] # NoStatus
             THEN status_print(tree[p][q])
             ELSE "absent"]

\* Command line packages are written afresh; the others keep their stanza, with
\* the status of the tree, or their own where the tree does not know them.
merged(p) ==
    [q \in Pkgs |->
        IF list[p][q] # NoStatus THEN status_print(list[p][q])
        ELSE IF file[q] # "absent" /\ tree[p][q] # NoStatus
             THEN status_print(tree[p][q])
             ELSE file[q]]

\* No write of .new is checked.  A failing one (the RAM disk is full) leaves the
\* stanzas of lost out; of the one it breaks off in, if any, the name is left,
\* which reads as a package without a status.
cut_short(db, lost, at) ==
    [q \in Pkgs |->
        IF q \notin lost THEN db[q]
        ELSE IF q = at /\ db[q] # "absent" THEN "(null)" ELSE "absent"]

-----------------------------------------------------------------------------
\* Starting and ending a process.

Init ==
    /\ lock = None
    /\ file \in [Pkgs -> {"absent", "unpacked"}]    \* as the initrd ships it
    /\ new = NoFile
    /\ bak = NoFile
    /\ torn = FALSE
    /\ pc = [p \in Procs |-> "idle"]
    /\ job = [p \in Procs |-> [op |-> "configure", argv |-> <<>>, force |-> FALSE]]
    /\ tree = [p \in Procs |-> [q \in Pkgs |-> NoStatus]]
    /\ list = [p \in Procs |-> [q \in Pkgs |-> NoStatus]]
    /\ touched = [p \in Procs |-> {}]
    /\ kid = [p \in Procs |-> None]
    /\ jobs = 0
    /\ faults = 0

\* Process p begins main() with the given action and packages.
begin(p, op, argv, force) ==
    /\ pc[p] = "idle"
    /\ jobs < MaxJobs
    /\ jobs' = jobs + 1
    /\ pc' = [pc EXCEPT ![p] = "lock"]
    /\ job' = [job EXCEPT ![p] = [op |-> op, argv |-> argv, force |-> force]]
    /\ UNCHANGED <<lock, disk, tree, list, touched, faults>>

Start(p) ==
    /\ \E op \in TopOps, argv \in Argvs, force \in BOOLEAN :
          begin(p, op, argv, force)
    /\ UNCHANGED kid

\* A maintainer script of p runs udpkg as k and waits for it.
Spawn(p, k) ==
    /\ pc[p] = "script"
    /\ kid[p] = None
    /\ \E op \in NestOps, argv \in Argvs, force \in BOOLEAN :
          begin(k, op, argv, force)
    /\ kid' = [kid EXCEPT ![p] = k]

\* What is left of p once it has exited: nothing, and its parent goes on.
exit(p) ==
    /\ pc' = [pc EXCEPT ![p] = "idle"]
    /\ job' = [job EXCEPT ![p] = [op |-> "configure", argv |-> <<>>, force |-> FALSE]]
    /\ tree' = [tree EXCEPT ![p] = [q \in Pkgs |-> NoStatus]]
    /\ list' = [list EXCEPT ![p] = [q \in Pkgs |-> NoStatus]]
    /\ touched' = [touched EXCEPT ![p] = {}]
    /\ kid' = [x \in Procs |-> IF x = p \/ kid[x] = p THEN None ELSE kid[x]]
    /\ lock' = IF lock = p THEN None ELSE lock

\* The process is killed; the kernel drops its flock.
Kill(p) ==
    /\ pc[p] # "idle"
    /\ faults < MaxFaults
    /\ faults' = faults + 1
    /\ exit(p)
    /\ UNCHANGED <<disk, jobs>>

goto(p, where) == pc' = [pc EXCEPT ![p] = where]

-----------------------------------------------------------------------------
\* Locking and reading.

status_lock(p) ==
    /\ pc[p] = "lock"
    /\ lock = None
    /\ lock' = p
    /\ goto(p, "read")
    /\ UNCHANGED <<disk, job, tree, list, touched, kid, jobs, faults>>

Read(p) ==
    /\ pc[p] = "read"
    /\ tree' = [tree EXCEPT ![p] = status_read]
    /\ goto(p, IF job[p].op = "configure" THEN "unlock1"
               ELSE IF job[p].op = "remove" THEN "work"
               ELSE "clean")
    /\ UNCHANGED <<lock, disk, job, list, touched, kid, jobs, faults>>

\* A mutated dpkg_configure: it keeps the lock while the scripts run.
ConfigureUnlock_held(p) ==
    /\ pc[p] = "unlock1"
    /\ goto(p, "work")
    /\ UNCHANGED <<lock, disk, job, tree, list, touched, kid, jobs, faults>>

\* dpkg_configure gives the lock up before it runs any script.
ConfigureUnlock(p) ==
    /\ pc[p] = "unlock1"
    /\ lock' = None
    /\ goto(p, "work")
    /\ UNCHANGED <<disk, job, tree, list, touched, kid, jobs, faults>>

\* A mutated dpkg_unpack: it gives the lock up before it works, like dpkg_configure.
Clean_unlocking(p) ==
    /\ pc[p] = "clean"
    /\ lock' = None
    /\ goto(p, IF job[p].op = "install" THEN "control" ELSE "work")
    /\ UNCHANGED <<disk, job, tree, list, touched, kid, jobs, faults>>

\* rm -rf and mkdir of tmp.ci; when they fail nothing is merged.
Clean(p) ==
    /\ pc[p] = "clean"
    /\ \/ /\ goto(p, IF job[p].op = "install" THEN "control" ELSE "work")
          /\ UNCHANGED faults
       \/ /\ faults < MaxFaults
          /\ faults' = faults + 1
          /\ goto(p, "unlock")
    /\ UNCHANGED <<lock, disk, job, tree, list, touched, kid, jobs>>

\* dpkg_install, stage 1: one bad control archive and no package is installed.
UnpackControl(p) ==
    /\ pc[p] = "control"
    /\ \E where \in {"work", "unlock"} : goto(p, where)
    /\ UNCHANGED <<lock, disk, job, tree, list, touched, kid, jobs, faults>>

-----------------------------------------------------------------------------
\* Working on the packages of the command line.

\* The bits dpkg_dounpack leaves and whether it succeeds: tar fails, a script
\* cannot be copied or the templates loaded, the final chdir fails, or all is well.
UnpackOutcomes(sel) ==
    { [status |-> [sel |-> sel, word |-> "none"], ok |-> FALSE],
      [status |-> [sel |-> TRUE, word |-> "half-installed"], ok |-> FALSE],
      [status |-> [sel |-> TRUE, word |-> "unpacked"], ok |-> FALSE],
      [status |-> [sel |-> TRUE, word |-> "unpacked"], ok |-> TRUE] }

pop(p) == job' = [job EXCEPT ![p].argv = Tail(@)]

\* --unpack stops at the first failure but merges what it has (packages it has
\* not come to are merged under their file names, which is no package's stanza);
\* -i goes on to the next package, after configuring the ones that unpack.
dpkg_dounpack(p) ==
    /\ pc[p] = "work"
    /\ job[p].op \in {"unpack", "install"}
    /\ job[p].argv # <<>>
    /\ LET q == Head(job[p].argv) IN
       \E o \in UnpackOutcomes(job[p].op = "install") :
          /\ list' = [list EXCEPT ![p][q] = o.status]
          /\ touched' = [touched EXCEPT ![p] = @ \cup {q}]
          /\ IF job[p].op = "unpack"
             THEN /\ goto(p, IF o.ok THEN "work" ELSE "write")
                  /\ pop(p)
             ELSE /\ goto(p, IF o.ok THEN "script" ELSE "work")
                  /\ IF o.ok THEN UNCHANGED job ELSE pop(p)
    /\ UNCHANGED <<lock, disk, tree, kid, jobs, faults>>

\* dpkg_configure looks the package up in its tree and, unless it is missing or
\* already installed, clears its bits and runs config and postinst.
dpkg_doconfigure(p) ==
    /\ pc[p] = "work"
    /\ job[p].op = "configure"
    /\ job[p].argv # <<>>
    /\ LET q == Head(job[p].argv) IN
       IF \/ tree[p][q] = NoStatus
          \/ tree[p][q].word = "installed" /\ ~job[p].force
       THEN /\ goto(p, "relock")
            /\ UNCHANGED <<tree, touched>>
       ELSE /\ goto(p, "script")
            /\ tree' = [tree EXCEPT ![p][q].word = "none"]
            /\ touched' = [touched EXCEPT ![p] = @ \cup {q}]
    /\ UNCHANGED <<lock, disk, job, list, kid, jobs, faults>>

\* The scripts have returned: -i notes the result in its list and goes on,
\* --configure in its tree, and it stops at the first failure.
ScriptEnd(p) ==
    /\ pc[p] = "script"
    /\ kid[p] = None
    /\ pop(p)
    /\ LET q == Head(job[p].argv) IN
       \E ok \in BOOLEAN :
          LET word == IF ok THEN "installed" ELSE "half-configured" IN
          IF job[p].op = "install"
          THEN /\ list' = [list EXCEPT ![p][q].word = word]
               /\ goto(p, "work")
               /\ UNCHANGED tree
          ELSE /\ tree' = [tree EXCEPT ![p][q].word = word]
               /\ goto(p, IF ok THEN "work" ELSE "relock")
               /\ UNCHANGED list
    /\ UNCHANGED <<lock, disk, touched, kid, jobs, faults>>

\* -r: once one package has failed (r = 1) every later one is half-installed.
dpkg_remove(p) ==
    /\ pc[p] = "work"
    /\ job[p].op = "remove"
    /\ job[p].argv # <<>>
    /\ LET q == Head(job[p].argv) IN
       \E word \in {"not-installed", "half-installed"} :
          /\ word = "not-installed" =>
                \A x \in touched[p] : list[p][x].word = "not-installed"
          /\ list' = [list EXCEPT ![p][q] = [sel |-> TRUE, word |-> word]]
          /\ touched' = [touched EXCEPT ![p] = @ \cup {q}]
    /\ pop(p)
    /\ UNCHANGED <<lock, disk, pc, tree, kid, jobs, faults>>

NoMoreArgs(p) ==
    /\ pc[p] = "work"
    /\ job[p].argv = <<>>
    /\ goto(p, IF job[p].op = "configure" THEN "relock" ELSE "write")
    /\ UNCHANGED <<lock, disk, job, tree, list, touched, kid, jobs, faults>>

-----------------------------------------------------------------------------
\* Merging.

Relock(p) ==
    /\ pc[p] = "relock"
    /\ lock = None
    /\ lock' = p
    /\ goto(p, "write")
    /\ UNCHANGED <<disk, job, tree, list, touched, kid, jobs, faults>>

\* status_merge gives up silently when either file cannot be opened, and does
\* not notice when what it writes does not reach the disk.
status_merge(p) ==
    /\ pc[p] = "write"
    /\ \/ /\ file # NoFile
          /\ new' = merged(p)
          /\ torn' = FALSE
          /\ goto(p, "rename1")
          /\ UNCHANGED faults
       \/ /\ file # NoFile
          /\ faults < MaxFaults
          /\ faults' = faults + 1
          /\ \E lost \in SUBSET Pkgs \ {{}}, at \in Pkgs :
                new' = cut_short(merged(p), lost, at)
          /\ torn' = TRUE
          /\ goto(p, "rename1")
       \/ /\ file = NoFile
          /\ goto(p, "unlock")
          /\ UNCHANGED <<new, torn, faults>>
       \/ /\ faults < MaxFaults
          /\ faults' = faults + 1
          /\ goto(p, "unlock")
          /\ UNCHANGED <<new, torn>>
    /\ UNCHANGED <<lock, file, bak, job, tree, list, touched, kid, jobs>>

\* A mutated merge: it removes the old file instead of renaming it.
RenameOld_unlink(p) ==
    /\ pc[p] = "rename1"
    /\ file' = NoFile
    /\ goto(p, "rename2")
    /\ UNCHANGED <<lock, new, bak, torn, job, tree, list, touched, kid, jobs, faults>>

\* A rename that fails changes nothing and ends the merge.
RenameFails(p) ==
    /\ faults < MaxFaults
    /\ faults' = faults + 1
    /\ goto(p, "unlock")
    /\ UNCHANGED disk

RenameOld(p) ==
    /\ pc[p] = "rename1"
    /\ \/ /\ bak' = file
          /\ file' = NoFile
          /\ goto(p, "rename2")
          /\ UNCHANGED <<new, torn, faults>>
       \/ RenameFails(p)
    /\ UNCHANGED <<lock, job, tree, list, touched, kid, jobs>>

RenameNew(p) ==
    /\ pc[p] = "rename2"
    /\ \/ /\ file' = new
          /\ new' = NoFile
          /\ torn' = FALSE
          /\ goto(p, "unlock")
          /\ UNCHANGED <<bak, faults>>
       \/ RenameFails(p)
    /\ UNCHANGED <<lock, job, tree, list, touched, kid, jobs>>

status_unlock(p) ==
    /\ pc[p] = "unlock"
    /\ exit(p)
    /\ UNCHANGED <<disk, jobs, faults>>

-----------------------------------------------------------------------------
Step(p) ==
    \/ Read(p) \/ ConfigureUnlock(p) \/ Clean(p) \/ UnpackControl(p)
    \/ dpkg_dounpack(p) \/ dpkg_doconfigure(p) \/ dpkg_remove(p)
    \/ NoMoreArgs(p) \/ status_merge(p)
    \/ RenameOld(p) \/ RenameNew(p) \/ status_unlock(p)

Next ==
    \E p \in Procs :
        \/ Start(p) \/ Kill(p)
        \/ status_lock(p) \/ Relock(p)
        \/ ScriptEnd(p)
        \/ Step(p)
        \/ \E k \in Procs : Spawn(p, k)

Spec == Init /\ [][Next]_vars

\* A process that can run does; waiters for an flock are served; a maintainer
\* script runs udpkg finitely often and ends.
Fairness ==
    \A p \in Procs :
        /\ WF_vars(Step(p))
        /\ SF_vars(status_lock(p)) /\ SF_vars(Relock(p))
        /\ SF_vars(ScriptEnd(p))

FairSpec == Spec /\ Fairness
-----------------------------------------------------------------------------
\* Properties.

\* Every variable holds a value of its kind.
TypeOK ==
    /\ lock \in Procs \cup {None}
    /\ file \in Database \cup {NoFile}
    /\ new \in Database \cup {NoFile}
    /\ bak \in Database \cup {NoFile}
    /\ torn \in BOOLEAN
    /\ pc \in [Procs -> PCs]
    /\ job \in [Procs -> Jobs]
    /\ tree \in [Procs -> [Pkgs -> Status]]
    /\ list \in [Procs -> [Pkgs -> Status]]
    /\ touched \in [Procs -> SUBSET Pkgs]
    /\ kid \in [Procs -> Procs \cup {None}]
    /\ jobs \in Nat /\ faults \in Nat

\* A job that keeps the lock from its status_read to its status_merge writes
\* back, for every package it was not asked about, exactly the status that is
\* in the file it replaces, whatever other udpkg processes did meanwhile; unless
\* a write of the new file failed, which status_merge does not check.
LockedJobsKeepOthers ==
    \A p \in Procs :
        pc[p] = "rename1" /\ job[p].op # "configure" /\ ~torn =>
            \A q \in Pkgs \ touched[p] : new[q] = file[q]

\* dpkg_configure merges a tree read before its scripts ran.  A package that
\* came into the status file since then (unpacked by a script through anna)
\* keeps the status it has, and no stanza of the file is dropped, unless a
\* write of the new file failed.
ConfigureKeepsNewcomers ==
    \A p \in Procs :
        pc[p] = "rename1" /\ ~torn =>
            \A q \in Pkgs :
                /\ job[p].op = "configure" /\ tree[p][q] = NoStatus => new[q] = file[q]
                /\ file[q] # "absent" => new[q] # "absent"

\* status_merge leaves a moment without STATUSFILE, or longer if the second
\* rename fails.  Whoever dies in it, the previous file is in .bak and there is
\* a merged one in .new; and unless a write of that one failed, no package of
\* the former is missing from it.
RecoverableDatabase ==
    file = NoFile =>
        /\ bak # NoFile /\ new # NoFile
        /\ ~torn => \A q \in Pkgs : bak[q] # "absent" => new[q] # "absent"

\* A udpkg run by a maintainer script waits for a lock that its own parent
\* holds, and would never get, only when the parent is an -i: --configure has
\* released the lock before the scripts start.
NoAncestorLock ==
    \A p \in Procs :
        kid[p] # None /\ lock = p => job[p].op = "install"

\* What status.c says the lock is for: invocations that run side by side do not
\* undo each other, so a job changes the status of no package but its own.
NoForeignWrite ==
    \A p \in Procs :
        pc[p] = "rename1" => \A q \in Pkgs \ touched[p] : new[q] = file[q]

-----------------------------------------------------------------------------
\* udpkg implements StatusDB.

\* The database is STATUSFILE or, in the moment without one, the .bak that was it.
Current == IF file = NoFile THEN bak ELSE file

Mode ==
    [p \in Procs |->
        IF pc[p] = "idle" THEN "idle"
        ELSE IF pc[p] = "unlock" THEN "done"
        ELSE IF job[p].op = "configure" THEN "shared" ELSE "exclusive"]

\* Of what a process has read, what it has overwritten itself does not count.
View ==
    [p \in Procs |-> [q \in Pkgs |->
        IF q \in touched[p] \/ tree[p][q] = NoStatus THEN "absent"
        ELSE status_print(tree[p][q])]]

\* The jobs about to commit a file that was written short.
Spoiled == {p \in Procs : torn /\ pc[p] \in {"rename1", "rename2"}}

DB == INSTANCE StatusDB WITH
    Absent <- "absent", Broken <- "(null)", db <- Current, mode <- Mode,
    view <- View, own <- touched, spoiled <- Spoiled

\* Whatever process is killed and whatever opening, writing or renaming fails,
\* the database changes only by one commit of one job, which alters the packages
\* that job may change.  A failing write is the exception, and the only way to
\* lose a package: what that job commits lacks some, but no other job's does.
AtomicDatabase == DB!Spec

\* Every udpkg invocation comes to an end, nested ones included.
EveryJobEnds ==
    \A p \in Procs : pc[p] # "idle" ~> pc[p] = "idle"
=============================================================================
