----------------------------- MODULE UdpkgProofs -----------------------------
(***************************************************************************)
(* The safety properties of Udpkg, for any number of processes, packages,  *)
(* invocations and faults.                                                 *)
(***************************************************************************)
EXTENDS Udpkg, SequenceTheorems, TLAPS

\* The places at which a process holds status.lck.
Holding(p) ==
    \/ pc[p] \in {"read", "unlock1", "clean", "control",
                  "write", "rename1", "rename2", "unlock"}
    \/ pc[p] \in {"work", "script"} /\ job[p].op # "configure"

\* Which places each operation visits.
PathInv ==
    \A p \in Procs :
        /\ pc[p] \in {"idle", "unlock1", "relock"} => job[p].op = "configure"
        /\ pc[p] \in {"clean", "control"} => job[p].op # "configure"
        /\ pc[p] = "script" => /\ job[p].op \in {"configure", "install"}
                               /\ job[p].argv # <<>>
                               /\ Head(job[p].argv) \in touched[p]

LockInv == \A p \in Procs : lock = p <=> Holding(p)

\* The command line structures have a status only for processed packages, and
\* --configure uses none of them.
ListInv ==
    \A p \in Procs : \A q \in Pkgs :
        (q \notin touched[p] \/ job[p].op = "configure") => list[p][q] = NoStatus

\* Between its status_read and its merge, a job that keeps the lock has a tree
\* that agrees with the file.
FreshInv ==
    \A p \in Procs :
        /\ job[p].op # "configure"
        /\ pc[p] \in {"clean", "control", "work", "script", "write"}
        /\ file # NoFile
        => \A q \in Pkgs : tree[p][q] = status_parse(file[q])

\* The three files while a merge is being put in place.
DiskInv ==
    \A p \in Procs :
        /\ pc[p] = "rename1" => file # NoFile /\ new # NoFile
        /\ pc[p] = "rename2" => file = NoFile

KidInv == \A p \in Procs : kid[p] # None => pc[p] = "script"

IInv ==
    /\ TypeOK /\ PathInv /\ LockInv /\ ListInv /\ FreshInv /\ DiskInv /\ KidInv
    /\ LockedJobsKeepOthers /\ ConfigureKeepsNewcomers /\ RecoverableDatabase

-----------------------------------------------------------------------------
\* Reading back what was printed, and printing what was read, loses nothing.
LEMMA PrintParse ==
    ASSUME NEW e \in Entries
    PROVE  /\ status_parse(e) \in Status
           /\ e # "absent" => status_print(status_parse(e)) = e
           /\ status_parse(e) = NoStatus <=> e = "absent"
BY DEF Entries, Words, status_parse, status_print, Status, NoStatus, ZeroStatus

\* What status_print produces is a Status: line, never the absence of one.
LEMMA PrintType ==
    ASSUME NEW s \in Status
    PROVE  status_print(s) \in Entries /\ status_print(s) # "absent"
BY DEF Entries, Words, status_print, Status

\* A database cut short is a database.
LEMMA CutType ==
    ASSUME NEW db \in Database, NEW lost, NEW at
    PROVE  cut_short(db, lost, at) \in Database
BY DEF Database, Entries, Words, cut_short

\* Every command line is a sequence of packages.
LEMMA ArgvType == Argvs \subseteq Seq(Pkgs)
<1> SUFFICES ASSUME NEW n \in 1..MaxArgs, NEW s \in [1..n -> Pkgs]
             PROVE  s \in Seq(Pkgs)
  BY DEF Argvs
<1> n \in Nat
  BY ConstantsAssumption
<1> QED
  BY SeqDef

\* Taking the first package off a command line leaves a job.
LEMMA PopType ==
    ASSUME NEW p \in Procs, job \in [Procs -> Jobs], job[p].argv # <<>>
    PROVE  [job EXCEPT ![p].argv = Tail(@)] \in [Procs -> Jobs]
<1>1. Tail(job[p].argv) \in Seq(Pkgs)
  BY DEF Jobs
<1>2. [job[p] EXCEPT !.argv = Tail(@)] \in Jobs
  BY <1>1 DEF Jobs
<1> QED
  BY <1>2

\* Replacing the third group of one status leaves a table of statuses.
LEMMA WordType ==
    ASSUME NEW f \in [Procs -> [Pkgs -> Status]], NEW p \in Procs, NEW q \in Pkgs,
           NEW w \in Words \cup {"none"}
    PROVE  [f EXCEPT ![p][q].word = w] \in [Procs -> [Pkgs -> Status]]
<1>1. [f[p][q] EXCEPT !.word = w] \in Status
  BY DEF Status
<1>2. [f[p] EXCEPT ![q] = [f[p][q] EXCEPT !.word = w]] \in [Pkgs -> Status]
  BY <1>1
<1> QED
  BY <1>2

\* Replacing one status leaves a table of statuses.
LEMMA StatType ==
    ASSUME NEW f \in [Procs -> [Pkgs -> Status]], NEW p \in Procs, NEW q \in Pkgs,
           NEW s \in Status
    PROVE  [f EXCEPT ![p][q] = s] \in [Procs -> [Pkgs -> Status]]
OBVIOUS
\* dpkg_dounpack leaves a status.
LEMMA OutcomeType ==
    ASSUME NEW b \in BOOLEAN, NEW o \in UnpackOutcomes(b)
    PROVE  o.status \in Status
<1>1. \A w \in Words \cup {"none"} : [sel |-> b, word |-> w] \in Status
  BY DEF Status
<1>2. \A w \in Words : [sel |-> TRUE, word |-> w] \in Status
  BY DEF Status
<1>3. "half-installed" \in Words /\ "unpacked" \in Words
  BY DEF Words
<1> QED
  BY <1>1, <1>2, <1>3 DEF UnpackOutcomes

\* The initial states satisfy the inductive invariant.
LEMMA InitInv == Init => IInv
<1> SUFFICES ASSUME Init PROVE IInv
  OBVIOUS
<1> USE DEF Init
<1>1. TypeOK
  <2>1. file \in Database
    BY DEF Database, Entries, Words
  <2>2. <<>> \in Seq(Pkgs)
    OBVIOUS
  <2> QED
    BY <2>1, <2>2 DEF TypeOK, Jobs, Ops, PCs, Status, NoStatus
<1>2. file # NoFile
  BY ConstantsAssumption DEF Database, Entries, Words
<1> QED
  BY <1>1, <1>2, ConstantsAssumption
     DEF IInv, PathInv, LockInv, Holding, ListInv, FreshInv, DiskInv, KidInv,
         LockedJobsKeepOthers, ConfigureKeepsNewcomers, RecoverableDatabase

\* Every step preserves the inductive invariant.
LEMMA StepInv ==
    ASSUME IInv, [Next]_vars
    PROVE  IInv'
<1> USE ConstantsAssumption DEF IInv, disk, goto, pop
<1>1. ASSUME NEW p \in Procs, Start(p) PROVE IInv'
  <2> USE <1>1 DEF Start, begin
  <2>1. TypeOK'
    <3>1. job' \in [Procs -> Jobs]
      BY ArgvType DEF TypeOK, Jobs
    <3>2. pc' \in [Procs -> PCs]
      BY DEF TypeOK, PCs
    <3> QED
      BY <3>1, <3>2 DEF TypeOK
  <2>2. PathInv' /\ KidInv'
    BY DEF PathInv, KidInv, TypeOK, Jobs
  <2>3. LockInv'
    BY DEF LockInv, Holding, PathInv, TypeOK, Jobs
  <2>4. ListInv'
    BY DEF ListInv, PathInv, TypeOK, Jobs
  <2>5. FreshInv'
    BY DEF FreshInv, PathInv, LockInv, Holding, TypeOK, Jobs
  <2>6. DiskInv'
    BY DEF DiskInv, RecoverableDatabase, LockInv, Holding, PathInv, TypeOK, Jobs
  <2>7. RecoverableDatabase'
    BY DEF RecoverableDatabase, ConfigureKeepsNewcomers, DiskInv, LockInv, Holding, TypeOK
  <2>8. LockedJobsKeepOthers'
    BY DEF LockedJobsKeepOthers, LockInv, Holding, TypeOK, Jobs
  <2>9. ConfigureKeepsNewcomers'
    BY DEF ConfigureKeepsNewcomers, LockInv, Holding, TypeOK, Jobs
  <2> QED
    BY <2>1, <2>2, <2>3, <2>4, <2>5, <2>6, <2>7, <2>8, <2>9
<1>2. ASSUME NEW p \in Procs, NEW k \in Procs, Spawn(p, k) PROVE IInv'
  <2> USE <1>2 DEF Spawn, begin
  <2>1. TypeOK'
    <3>1. job' \in [Procs -> Jobs]
      BY ArgvType DEF TypeOK, Jobs
    <3>2. pc' \in [Procs -> PCs]
      BY DEF TypeOK, PCs
    <3> QED
      BY <3>1, <3>2 DEF TypeOK
  <2>2. PathInv' /\ KidInv'
    BY DEF PathInv, KidInv, TypeOK, Jobs
  <2>3. LockInv'
    BY DEF LockInv, Holding, PathInv, TypeOK, Jobs
  <2>4. ListInv'
    BY DEF ListInv, PathInv, TypeOK, Jobs
  <2>5. FreshInv'
    BY DEF FreshInv, PathInv, LockInv, Holding, TypeOK, Jobs
  <2>6. DiskInv'
    BY DEF DiskInv, RecoverableDatabase, LockInv, Holding, PathInv, TypeOK, Jobs
  <2>7. RecoverableDatabase'
    BY DEF RecoverableDatabase, ConfigureKeepsNewcomers, DiskInv, LockInv, Holding, TypeOK
  <2>8. LockedJobsKeepOthers'
    BY DEF LockedJobsKeepOthers, LockInv, Holding, TypeOK, Jobs
  <2>9. ConfigureKeepsNewcomers'
    BY DEF ConfigureKeepsNewcomers, LockInv, Holding, TypeOK, Jobs
  <2> QED
    BY <2>1, <2>2, <2>3, <2>4, <2>5, <2>6, <2>7, <2>8, <2>9
<1>3. ASSUME NEW p \in Procs, Kill(p) PROVE IInv'
  <2> USE <1>3 DEF Kill, exit
  <2>1. TypeOK'
    BY DEF TypeOK, Jobs, PCs, Ops, Status, Words, NoStatus
  <2>2. PathInv' /\ KidInv'
    BY DEF PathInv, KidInv, TypeOK, Jobs
  <2>3. LockInv'
    BY DEF LockInv, Holding, PathInv, TypeOK, Jobs
  <2>4. ListInv'
    BY DEF ListInv, PathInv, TypeOK, Jobs
  <2>5. FreshInv'
    BY DEF FreshInv, PathInv, LockInv, Holding, TypeOK, Jobs
  <2>6. DiskInv'
    BY DEF DiskInv, RecoverableDatabase, LockInv, Holding, PathInv, TypeOK, Jobs
  <2>7. RecoverableDatabase'
    BY DEF RecoverableDatabase, ConfigureKeepsNewcomers, DiskInv, LockInv, Holding, TypeOK
  <2>8. LockedJobsKeepOthers'
    BY DEF LockedJobsKeepOthers, LockInv, Holding, TypeOK, Jobs
  <2>9. ConfigureKeepsNewcomers'
    BY DEF ConfigureKeepsNewcomers, LockInv, Holding, TypeOK, Jobs
  <2> QED
    BY <2>1, <2>2, <2>3, <2>4, <2>5, <2>6, <2>7, <2>8, <2>9
<1>4. ASSUME NEW p \in Procs, status_lock(p) PROVE IInv'
  <2> USE <1>4 DEF status_lock
  <2>1. TypeOK'
    BY DEF TypeOK, Jobs, PCs, Ops, Status, Words, NoStatus
  <2>2. PathInv' /\ KidInv'
    BY DEF PathInv, KidInv, TypeOK, Jobs
  <2>3. LockInv'
    BY DEF LockInv, Holding, PathInv, TypeOK, Jobs
  <2>4. ListInv'
    BY DEF ListInv, PathInv, TypeOK, Jobs
  <2>5. FreshInv'
    BY DEF FreshInv, PathInv, LockInv, Holding, TypeOK, Jobs
  <2>6. DiskInv'
    BY DEF DiskInv, RecoverableDatabase, LockInv, Holding, PathInv, TypeOK, Jobs
  <2>7. RecoverableDatabase'
    BY DEF RecoverableDatabase, ConfigureKeepsNewcomers, DiskInv, LockInv, Holding, TypeOK
  <2>8. LockedJobsKeepOthers'
    BY DEF LockedJobsKeepOthers, LockInv, Holding, TypeOK, Jobs
  <2>9. ConfigureKeepsNewcomers'
    BY DEF ConfigureKeepsNewcomers, LockInv, Holding, TypeOK, Jobs
  <2> QED
    BY <2>1, <2>2, <2>3, <2>4, <2>5, <2>6, <2>7, <2>8, <2>9
<1>5. ASSUME NEW p \in Procs, Relock(p) PROVE IInv'
  <2> USE <1>5 DEF Relock
  <2>1. TypeOK'
    BY DEF TypeOK, Jobs, PCs, Ops, Status, Words, NoStatus
  <2>2. PathInv' /\ KidInv'
    BY DEF PathInv, KidInv, TypeOK, Jobs
  <2>3. LockInv'
    BY DEF LockInv, Holding, PathInv, TypeOK, Jobs
  <2>4. ListInv'
    BY DEF ListInv, PathInv, TypeOK, Jobs
  <2>5. FreshInv'
    BY DEF FreshInv, PathInv, LockInv, Holding, TypeOK, Jobs
  <2>6. DiskInv'
    BY DEF DiskInv, RecoverableDatabase, LockInv, Holding, PathInv, TypeOK, Jobs
  <2>7. RecoverableDatabase'
    BY DEF RecoverableDatabase, ConfigureKeepsNewcomers, DiskInv, LockInv, Holding, TypeOK
  <2>8. LockedJobsKeepOthers'
    BY DEF LockedJobsKeepOthers, LockInv, Holding, TypeOK, Jobs
  <2>9. ConfigureKeepsNewcomers'
    BY DEF ConfigureKeepsNewcomers, LockInv, Holding, TypeOK, Jobs
  <2> QED
    BY <2>1, <2>2, <2>3, <2>4, <2>5, <2>6, <2>7, <2>8, <2>9
<1>6. ASSUME NEW p \in Procs, ScriptEnd(p) PROVE IInv'
  <2> USE <1>6 DEF ScriptEnd
  <2>1. TypeOK'
    <3>1. Head(job[p].argv) \in Pkgs /\ Tail(job[p].argv) \in Seq(Pkgs)
      BY DEF TypeOK, Jobs, PathInv
    <3>2. job' \in [Procs -> Jobs]
      BY PopType DEF TypeOK, PathInv
    <3>3. pc' \in [Procs -> PCs]
      BY DEF TypeOK, PCs
    <3>4. \A w \in Words : /\ [tree EXCEPT ![p][Head(job[p].argv)].word = w] \in [Procs -> [Pkgs -> Status]]
                         /\ [list EXCEPT ![p][Head(job[p].argv)].word = w] \in [Procs -> [Pkgs -> Status]]
      BY <3>1, WordType DEF TypeOK
    <3>5. "installed" \in Words /\ "half-configured" \in Words
      BY DEF Words
    <3>6. \E w \in Words :
             /\ tree' = tree \/ tree' = [tree EXCEPT ![p][Head(job[p].argv)].word = w]
             /\ list' = list \/ list' = [list EXCEPT ![p][Head(job[p].argv)].word = w]
      BY <3>5, Zenon
    <3>7. tree \in [Procs -> [Pkgs -> Status]] /\ list \in [Procs -> [Pkgs -> Status]]
      BY DEF TypeOK
    <3>8. tree' \in [Procs -> [Pkgs -> Status]] /\ list' \in [Procs -> [Pkgs -> Status]]
      BY ONLY <3>4, <3>6, <3>7, Zenon
    <3> QED
      BY <3>2, <3>3, <3>8 DEF TypeOK
  <2>2. PathInv' /\ KidInv'
    BY DEF PathInv, KidInv, TypeOK, Jobs
  <2>3. LockInv'
    BY DEF LockInv, Holding, PathInv, TypeOK, Jobs
  <2>4. ListInv'
    BY DEF ListInv, PathInv, TypeOK, Jobs, NoStatus
  <2>5. FreshInv'
    BY DEF FreshInv, PathInv, LockInv, Holding, TypeOK, Jobs
  <2>6. DiskInv'
    BY DEF DiskInv, RecoverableDatabase, LockInv, Holding, PathInv, TypeOK, Jobs
  <2>7. RecoverableDatabase'
    BY DEF RecoverableDatabase, ConfigureKeepsNewcomers, DiskInv, LockInv, Holding, TypeOK
  <2>8. LockedJobsKeepOthers'
    BY DEF LockedJobsKeepOthers, LockInv, Holding, TypeOK, Jobs
  <2>9. ConfigureKeepsNewcomers'
    BY DEF ConfigureKeepsNewcomers, LockInv, Holding, TypeOK, Jobs
  <2> QED
    BY <2>1, <2>2, <2>3, <2>4, <2>5, <2>6, <2>7, <2>8, <2>9
<1>7. ASSUME NEW p \in Procs, Read(p) PROVE IInv'
  <2> USE <1>7 DEF Read
  <2>1. TypeOK'
    <3>1. status_read \in [Pkgs -> Status]
      BY PrintParse DEF TypeOK, Database, status_read, Status, NoStatus, Words
    <3> QED
      BY <3>1 DEF TypeOK, Jobs, PCs, Ops, Status, Words, NoStatus
  <2>2. PathInv' /\ KidInv'
    BY DEF PathInv, KidInv, TypeOK, Jobs
  <2>3. LockInv'
    BY DEF LockInv, Holding, PathInv, TypeOK, Jobs
  <2>4. ListInv'
    BY DEF ListInv, PathInv, TypeOK, Jobs
  <2>5. FreshInv'
    BY DEF FreshInv, PathInv, LockInv, Holding, TypeOK, Jobs, status_read
  <2>6. DiskInv'
    BY DEF DiskInv, RecoverableDatabase, LockInv, Holding, PathInv, TypeOK, Jobs
  <2>7. RecoverableDatabase'
    BY DEF RecoverableDatabase, ConfigureKeepsNewcomers, DiskInv, LockInv, Holding, TypeOK
  <2>8. LockedJobsKeepOthers'
    BY DEF LockedJobsKeepOthers, LockInv, Holding, TypeOK, Jobs
  <2>9. ConfigureKeepsNewcomers'
    BY DEF ConfigureKeepsNewcomers, LockInv, Holding, TypeOK, Jobs
  <2> QED
    BY <2>1, <2>2, <2>3, <2>4, <2>5, <2>6, <2>7, <2>8, <2>9
<1>8. ASSUME NEW p \in Procs, ConfigureUnlock(p) PROVE IInv'
  <2> USE <1>8 DEF ConfigureUnlock
  <2>1. TypeOK'
    BY DEF TypeOK, Jobs, PCs, Ops, Status, Words, NoStatus
  <2>2. PathInv' /\ KidInv'
    BY DEF PathInv, KidInv, TypeOK, Jobs
  <2>3. LockInv'
    BY DEF LockInv, Holding, PathInv, TypeOK, Jobs
  <2>4. ListInv'
    BY DEF ListInv, PathInv, TypeOK, Jobs
  <2>5. FreshInv'
    BY DEF FreshInv, PathInv, LockInv, Holding, TypeOK, Jobs
  <2>6. DiskInv'
    BY DEF DiskInv, RecoverableDatabase, LockInv, Holding, PathInv, TypeOK, Jobs
  <2>7. RecoverableDatabase'
    BY DEF RecoverableDatabase, ConfigureKeepsNewcomers, DiskInv, LockInv, Holding, TypeOK
  <2>8. LockedJobsKeepOthers'
    BY DEF LockedJobsKeepOthers, LockInv, Holding, TypeOK, Jobs
  <2>9. ConfigureKeepsNewcomers'
    BY DEF ConfigureKeepsNewcomers, LockInv, Holding, TypeOK, Jobs
  <2> QED
    BY <2>1, <2>2, <2>3, <2>4, <2>5, <2>6, <2>7, <2>8, <2>9
<1>9. ASSUME NEW p \in Procs, Clean(p) PROVE IInv'
  <2> USE <1>9 DEF Clean
  <2>1. TypeOK'
    <3>1. pc' \in [Procs -> PCs]
      BY DEF TypeOK, PCs
    <3> QED
      BY <3>1 DEF TypeOK
  <2>2. PathInv' /\ KidInv'
    BY DEF PathInv, KidInv, TypeOK, Jobs
  <2>3. LockInv'
    BY DEF LockInv, Holding, PathInv, TypeOK, Jobs
  <2>4. ListInv'
    BY DEF ListInv, PathInv, TypeOK, Jobs
  <2>5. FreshInv'
    BY DEF FreshInv, PathInv, LockInv, Holding, TypeOK, Jobs
  <2>6. DiskInv'
    BY DEF DiskInv, RecoverableDatabase, LockInv, Holding, PathInv, TypeOK, Jobs
  <2>7. RecoverableDatabase'
    BY DEF RecoverableDatabase, ConfigureKeepsNewcomers, DiskInv, LockInv, Holding, TypeOK
  <2>8. LockedJobsKeepOthers'
    BY DEF LockedJobsKeepOthers, LockInv, Holding, TypeOK, Jobs
  <2>9. ConfigureKeepsNewcomers'
    BY DEF ConfigureKeepsNewcomers, LockInv, Holding, TypeOK, Jobs
  <2> QED
    BY <2>1, <2>2, <2>3, <2>4, <2>5, <2>6, <2>7, <2>8, <2>9
<1>10. ASSUME NEW p \in Procs, UnpackControl(p) PROVE IInv'
  <2> USE <1>10 DEF UnpackControl
  <2>1. TypeOK'
    BY DEF TypeOK, Jobs, PCs, Ops, Status, Words, NoStatus
  <2>2. PathInv' /\ KidInv'
    BY DEF PathInv, KidInv, TypeOK, Jobs
  <2>3. LockInv'
    BY DEF LockInv, Holding, PathInv, TypeOK, Jobs
  <2>4. ListInv'
    BY DEF ListInv, PathInv, TypeOK, Jobs
  <2>5. FreshInv'
    BY DEF FreshInv, PathInv, LockInv, Holding, TypeOK, Jobs
  <2>6. DiskInv'
    BY DEF DiskInv, RecoverableDatabase, LockInv, Holding, PathInv, TypeOK, Jobs
  <2>7. RecoverableDatabase'
    BY DEF RecoverableDatabase, ConfigureKeepsNewcomers, DiskInv, LockInv, Holding, TypeOK
  <2>8. LockedJobsKeepOthers'
    BY DEF LockedJobsKeepOthers, LockInv, Holding, TypeOK, Jobs
  <2>9. ConfigureKeepsNewcomers'
    BY DEF ConfigureKeepsNewcomers, LockInv, Holding, TypeOK, Jobs
  <2> QED
    BY <2>1, <2>2, <2>3, <2>4, <2>5, <2>6, <2>7, <2>8, <2>9
<1>11. ASSUME NEW p \in Procs, dpkg_dounpack(p) PROVE IInv'
  <2> USE <1>11 DEF dpkg_dounpack
  <2>1. TypeOK'
    <3>1. Head(job[p].argv) \in Pkgs /\ Tail(job[p].argv) \in Seq(Pkgs)
      BY DEF TypeOK, Jobs
    <3>2. job' \in [Procs -> Jobs]
      BY PopType DEF TypeOK
    <3>3. pc' \in [Procs -> PCs]
      <4>1. \E w \in {"work", "write", "script"} : pc' = [pc EXCEPT ![p] = w]
        BY Zenon
      <4>2. pc \in [Procs -> PCs]
        BY DEF TypeOK
      <4> QED
        BY ONLY <4>1, <4>2 DEF PCs
    <3>4. \A s \in Status : [list EXCEPT ![p][Head(job[p].argv)] = s] \in [Procs -> [Pkgs -> Status]]
      BY <3>1, StatType DEF TypeOK
    <3>5. \A o \in UnpackOutcomes(job[p].op = "install") : o.status \in Status
      BY OutcomeType
    <3>6. \E o \in UnpackOutcomes(job[p].op = "install") :
             list' = [list EXCEPT ![p][Head(job[p].argv)] = o.status]
      BY Zenon
    <3>7. touched' \in [Procs -> SUBSET Pkgs]
      BY <3>1 DEF TypeOK
    <3> QED
      BY <3>2, <3>3, <3>4, <3>5, <3>6, <3>7 DEF TypeOK
  <2>2. PathInv' /\ KidInv'
    BY DEF PathInv, KidInv, TypeOK, Jobs
  <2>3. LockInv'
    BY DEF LockInv, Holding, PathInv, TypeOK, Jobs
  <2>4. ListInv'
    BY DEF ListInv, PathInv, TypeOK, Jobs
  <2>5. FreshInv'
    <3>1. \A x \in Procs : job'[x].op = job[x].op
      <4>1. job' = job \/ job' = [job EXCEPT ![p].argv = Tail(@)]
        BY Zenon
      <4>2. job \in [Procs -> Jobs]
        BY DEF TypeOK
      <4> QED
        BY ONLY <4>1, <4>2 DEF Jobs
    <3>2. \A x \in Procs \ {p} : pc'[x] = pc[x]
      BY DEF TypeOK
    <3> QED
      BY <3>1, <3>2 DEF FreshInv, TypeOK
  <2>6. DiskInv'
    BY DEF DiskInv, RecoverableDatabase, LockInv, Holding, PathInv, TypeOK, Jobs
  <2>7. RecoverableDatabase'
    BY DEF RecoverableDatabase, ConfigureKeepsNewcomers, DiskInv, LockInv, Holding, TypeOK
  <2>8. LockedJobsKeepOthers'
    BY DEF LockedJobsKeepOthers, LockInv, Holding, TypeOK, Jobs
  <2>9. ConfigureKeepsNewcomers'
    <3>1. pc'[p] # "rename1"
      BY DEF TypeOK
    <3>2. \A x \in Procs \ {p} : pc'[x] = pc[x] /\ job'[x].op = job[x].op
      BY DEF TypeOK
    <3> QED
      BY <3>1, <3>2 DEF ConfigureKeepsNewcomers
  <2> QED
    BY <2>1, <2>2, <2>3, <2>4, <2>5, <2>6, <2>7, <2>8, <2>9
<1>12. ASSUME NEW p \in Procs, dpkg_doconfigure(p) PROVE IInv'
  <2> USE <1>12 DEF dpkg_doconfigure
  <2>1. TypeOK'
    <3>1. Head(job[p].argv) \in Pkgs /\ Tail(job[p].argv) \in Seq(Pkgs)
      BY DEF TypeOK, Jobs
    <3>2. job' \in [Procs -> Jobs]
      BY DEF TypeOK
    <3>3. pc' \in [Procs -> PCs]
      BY DEF TypeOK, PCs
    <3>4. [tree EXCEPT ![p][Head(job[p].argv)].word = "none"] \in [Procs -> [Pkgs -> Status]]
      BY <3>1, WordType DEF TypeOK
    <3>5. tree' = tree \/ tree' = [tree EXCEPT ![p][Head(job[p].argv)].word = "none"]
      BY Zenon
    <3>6. touched' \in [Procs -> SUBSET Pkgs]
      BY <3>1 DEF TypeOK
    <3> QED
      BY <3>2, <3>3, <3>4, <3>5, <3>6 DEF TypeOK
  <2>2. PathInv' /\ KidInv'
    BY DEF PathInv, KidInv, TypeOK, Jobs
  <2>3. LockInv'
    BY DEF LockInv, Holding, PathInv, TypeOK, Jobs
  <2>4. ListInv'
    BY DEF ListInv, PathInv, TypeOK, Jobs
  <2>5. \A x \in Procs \ {p} : tree'[x] = tree[x]
    BY DEF TypeOK
  <2>10. FreshInv'
    BY <2>5 DEF FreshInv, TypeOK
  <2>6. DiskInv'
    BY DEF DiskInv, RecoverableDatabase, LockInv, Holding, PathInv, TypeOK, Jobs
  <2>7. RecoverableDatabase'
    BY DEF RecoverableDatabase, ConfigureKeepsNewcomers, DiskInv, LockInv, Holding, TypeOK
  <2>8. LockedJobsKeepOthers'
    BY DEF LockedJobsKeepOthers, LockInv, Holding, TypeOK, Jobs
  <2>9. ConfigureKeepsNewcomers'
    BY <2>5 DEF ConfigureKeepsNewcomers, TypeOK
  <2> QED
    BY <2>1, <2>2, <2>3, <2>4, <2>5, <2>6, <2>7, <2>8, <2>9, <2>10
<1>13. ASSUME NEW p \in Procs, dpkg_remove(p) PROVE IInv'
  <2> USE <1>13 DEF dpkg_remove
  <2>1. TypeOK'
    <3>1. Head(job[p].argv) \in Pkgs /\ Tail(job[p].argv) \in Seq(Pkgs)
      BY DEF TypeOK, Jobs
    <3>2. job' \in [Procs -> Jobs]
      BY PopType DEF TypeOK
    <3>3. pc' \in [Procs -> PCs]
      BY DEF TypeOK, PCs
    <3>4. list' \in [Procs -> [Pkgs -> Status]]
      BY <3>1, StatType DEF TypeOK, Status, Words
    <3> QED
      BY <3>1, <3>2, <3>3, <3>4 DEF TypeOK
  <2>2. PathInv' /\ KidInv'
    BY DEF PathInv, KidInv, TypeOK, Jobs
  <2>3. LockInv'
    BY DEF LockInv, Holding, PathInv, TypeOK, Jobs
  <2>4. ListInv'
    BY DEF ListInv, PathInv, TypeOK, Jobs
  <2>5. FreshInv'
    BY DEF FreshInv, PathInv, LockInv, Holding, TypeOK, Jobs
  <2>6. DiskInv'
    BY DEF DiskInv, RecoverableDatabase, LockInv, Holding, PathInv, TypeOK, Jobs
  <2>7. RecoverableDatabase'
    BY DEF RecoverableDatabase, ConfigureKeepsNewcomers, DiskInv, LockInv, Holding, TypeOK
  <2>8. LockedJobsKeepOthers'
    BY DEF LockedJobsKeepOthers, LockInv, Holding, TypeOK, Jobs
  <2>9. ConfigureKeepsNewcomers'
    BY DEF ConfigureKeepsNewcomers, LockInv, Holding, TypeOK, Jobs
  <2> QED
    BY <2>1, <2>2, <2>3, <2>4, <2>5, <2>6, <2>7, <2>8, <2>9
<1>14. ASSUME NEW p \in Procs, NoMoreArgs(p) PROVE IInv'
  <2> USE <1>14 DEF NoMoreArgs
  <2>1. TypeOK'
    BY DEF TypeOK, Jobs, PCs, Ops, Status, Words, NoStatus
  <2>2. PathInv' /\ KidInv'
    BY DEF PathInv, KidInv, TypeOK, Jobs
  <2>3. LockInv'
    BY DEF LockInv, Holding, PathInv, TypeOK, Jobs
  <2>4. ListInv'
    BY DEF ListInv, PathInv, TypeOK, Jobs
  <2>5. FreshInv'
    BY DEF FreshInv, PathInv, LockInv, Holding, TypeOK, Jobs
  <2>6. DiskInv'
    BY DEF DiskInv, RecoverableDatabase, LockInv, Holding, PathInv, TypeOK, Jobs
  <2>7. RecoverableDatabase'
    BY DEF RecoverableDatabase, ConfigureKeepsNewcomers, DiskInv, LockInv, Holding, TypeOK
  <2>8. LockedJobsKeepOthers'
    BY DEF LockedJobsKeepOthers, LockInv, Holding, TypeOK, Jobs
  <2>9. ConfigureKeepsNewcomers'
    BY DEF ConfigureKeepsNewcomers, LockInv, Holding, TypeOK, Jobs
  <2> QED
    BY <2>1, <2>2, <2>3, <2>4, <2>5, <2>6, <2>7, <2>8, <2>9
<1>15. ASSUME NEW p \in Procs, status_merge(p) PROVE IInv'
  <2> USE <1>15 DEF status_merge
  <2>1. TypeOK'
    <3>1. file # NoFile => merged(p) \in Database
      BY PrintType DEF TypeOK, Database, merged
    <3>2. pc' \in [Procs -> PCs]
      BY DEF TypeOK, PCs
    <3>3. new' \in Database \cup {NoFile}
      BY <3>1, CutType DEF TypeOK
    <3>4. faults' \in Nat
      BY DEF TypeOK
    <3>5. torn' \in BOOLEAN
      BY Zenon DEF TypeOK
    <3> QED
      BY <3>2, <3>3, <3>4, <3>5 DEF TypeOK
  <2>2. PathInv' /\ KidInv'
    BY DEF PathInv, KidInv, TypeOK, Jobs
  <2>3. LockInv'
    BY DEF LockInv, Holding, PathInv, TypeOK, Jobs
  <2>4. ListInv'
    BY DEF ListInv, PathInv, TypeOK, Jobs
  <2>5. FreshInv'
    BY DEF FreshInv, PathInv, LockInv, Holding, TypeOK, Jobs
  <2>6. DiskInv'
    <3>1. file # NoFile => merged(p) \in Database
      BY PrintType DEF TypeOK, Database, merged
    <3> QED
      BY <3>1, CutType DEF DiskInv, LockInv, Holding, TypeOK
  <2>7. RecoverableDatabase'
    BY DEF RecoverableDatabase, ConfigureKeepsNewcomers, DiskInv, LockInv, Holding, TypeOK
  <2>8. LockedJobsKeepOthers'
    <3>1. ASSUME file # NoFile, job[p].op # "configure", NEW q \in Pkgs \ touched[p]
          PROVE  merged(p)[q] = file[q]
      BY <3>1, PrintParse DEF TypeOK, Database, merged, ListInv, FreshInv
    <3> QED
      BY <3>1 DEF LockedJobsKeepOthers, LockInv, Holding, TypeOK
  <2>9. ConfigureKeepsNewcomers'
    <3>1. ASSUME file # NoFile, NEW q \in Pkgs
          PROVE  /\ job[p].op = "configure" /\ tree[p][q] = NoStatus => merged(p)[q] = file[q]
                 /\ file[q] # "absent" => merged(p)[q] # "absent"
      BY <3>1, PrintType DEF TypeOK, Database, merged, ListInv
    <3> QED
      BY <3>1 DEF ConfigureKeepsNewcomers, LockInv, Holding, TypeOK
  <2> QED
    BY <2>1, <2>2, <2>3, <2>4, <2>5, <2>6, <2>7, <2>8, <2>9
<1>16. ASSUME NEW p \in Procs, RenameOld(p) PROVE IInv'
  <2> USE <1>16 DEF RenameOld, RenameFails
  <2>1. TypeOK'
    <3>1. pc' \in [Procs -> PCs]
      BY DEF TypeOK, PCs
    <3>2. /\ file' \in Database \cup {NoFile} /\ new' \in Database \cup {NoFile}
          /\ bak' \in Database \cup {NoFile} /\ faults' \in Nat
      BY DEF TypeOK
    <3>3. torn' \in BOOLEAN
      BY Zenon DEF TypeOK
    <3> QED
      BY <3>1, <3>2, <3>3 DEF TypeOK
  <2>2. PathInv' /\ KidInv'
    BY DEF PathInv, KidInv, TypeOK, Jobs
  <2>3. LockInv'
    BY DEF LockInv, Holding, PathInv, TypeOK, Jobs
  <2>4. ListInv'
    BY DEF ListInv, PathInv, TypeOK, Jobs
  <2>5. FreshInv'
    BY DEF FreshInv, PathInv, LockInv, Holding, TypeOK, Jobs
  <2>6. DiskInv'
    BY DEF DiskInv, RecoverableDatabase, LockInv, Holding, PathInv, TypeOK, Jobs
  <2>7. RecoverableDatabase'
    BY DEF RecoverableDatabase, ConfigureKeepsNewcomers, DiskInv, LockInv, Holding, TypeOK
  <2>8. LockedJobsKeepOthers'
    BY DEF LockedJobsKeepOthers, LockInv, Holding, TypeOK, Jobs
  <2>9. ConfigureKeepsNewcomers'
    BY DEF ConfigureKeepsNewcomers, LockInv, Holding, TypeOK, Jobs
  <2> QED
    BY <2>1, <2>2, <2>3, <2>4, <2>5, <2>6, <2>7, <2>8, <2>9
<1>17. ASSUME NEW p \in Procs, RenameNew(p) PROVE IInv'
  <2> USE <1>17 DEF RenameNew, RenameFails
  <2>1. TypeOK'
    <3>1. pc' \in [Procs -> PCs]
      BY DEF TypeOK, PCs
    <3>2. /\ file' \in Database \cup {NoFile} /\ new' \in Database \cup {NoFile}
          /\ bak' \in Database \cup {NoFile} /\ faults' \in Nat
      BY DEF TypeOK
    <3>3. torn' \in BOOLEAN
      BY Zenon DEF TypeOK
    <3> QED
      BY <3>1, <3>2, <3>3 DEF TypeOK
  <2>2. PathInv' /\ KidInv'
    BY DEF PathInv, KidInv, TypeOK, Jobs
  <2>3. LockInv'
    BY DEF LockInv, Holding, PathInv, TypeOK, Jobs
  <2>4. ListInv'
    BY DEF ListInv, PathInv, TypeOK, Jobs
  <2>5. FreshInv'
    BY DEF FreshInv, PathInv, LockInv, Holding, TypeOK, Jobs
  <2>6. DiskInv'
    BY DEF DiskInv, RecoverableDatabase, LockInv, Holding, PathInv, TypeOK, Jobs
  <2>7. RecoverableDatabase'
    BY DEF RecoverableDatabase, ConfigureKeepsNewcomers, DiskInv, LockInv, Holding, TypeOK
  <2>8. LockedJobsKeepOthers'
    BY DEF LockedJobsKeepOthers, LockInv, Holding, TypeOK, Jobs
  <2>9. ConfigureKeepsNewcomers'
    BY DEF ConfigureKeepsNewcomers, LockInv, Holding, TypeOK, Jobs
  <2> QED
    BY <2>1, <2>2, <2>3, <2>4, <2>5, <2>6, <2>7, <2>8, <2>9
<1>18. ASSUME NEW p \in Procs, status_unlock(p) PROVE IInv'
  <2> USE <1>18 DEF status_unlock, exit
  <2>1. TypeOK'
    BY DEF TypeOK, Jobs, PCs, Ops, Status, Words, NoStatus
  <2>2. PathInv' /\ KidInv'
    BY DEF PathInv, KidInv, TypeOK, Jobs
  <2>3. LockInv'
    BY DEF LockInv, Holding, PathInv, TypeOK, Jobs
  <2>4. ListInv'
    BY DEF ListInv, PathInv, TypeOK, Jobs
  <2>5. FreshInv'
    BY DEF FreshInv, PathInv, LockInv, Holding, TypeOK, Jobs
  <2>6. DiskInv'
    BY DEF DiskInv, RecoverableDatabase, LockInv, Holding, PathInv, TypeOK, Jobs
  <2>7. RecoverableDatabase'
    BY DEF RecoverableDatabase, ConfigureKeepsNewcomers, DiskInv, LockInv, Holding, TypeOK
  <2>8. LockedJobsKeepOthers'
    BY DEF LockedJobsKeepOthers, LockInv, Holding, TypeOK, Jobs
  <2>9. ConfigureKeepsNewcomers'
    BY DEF ConfigureKeepsNewcomers, LockInv, Holding, TypeOK, Jobs
  <2> QED
    BY <2>1, <2>2, <2>3, <2>4, <2>5, <2>6, <2>7, <2>8, <2>9
<1>19. CASE UNCHANGED vars
  BY <1>19 DEF vars, TypeOK, PathInv, LockInv, Holding, ListInv, FreshInv, DiskInv,
     KidInv, LockedJobsKeepOthers, ConfigureKeepsNewcomers, RecoverableDatabase
<1> QED
  BY <1>1, <1>2, <1>3, <1>4, <1>5, <1>6, <1>7, <1>8, <1>9, <1>10, <1>11, <1>12, <1>13, <1>14, <1>15, <1>16, <1>17, <1>18, <1>19 DEF Next, Step

\* The inductive invariant holds in every reachable state.
THEOREM Invariance == Spec => []IInv
BY InitInv, StepInv, PTL DEF Spec

\* Types: in particular the status file only ever holds lines that status_print
\* can write.
THEOREM TypeCorrect == Spec => []TypeOK
<1>1. IInv => TypeOK
  BY DEF IInv
<1> QED
  BY <1>1, Invariance, PTL

\* --unpack, -i and -r keep the lock from status_read to status_merge, so the
\* tree they merge is the file they replace: no other package's status changes.
THEOREM LockedJobsSafe == Spec => []LockedJobsKeepOthers
<1>1. IInv => LockedJobsKeepOthers
  BY DEF IInv
<1> QED
  BY <1>1, Invariance, PTL

\* --configure merges a stale tree, and still loses no stanza and overwrites no
\* package that entered the file after the tree was read.
THEOREM ConfigureSafe == Spec => []ConfigureKeepsNewcomers
<1>1. IInv => ConfigureKeepsNewcomers
  BY DEF IInv
<1> QED
  BY <1>1, Invariance, PTL

\* Whenever STATUSFILE is missing, wherever a process was killed, both the file
\* before the merge and the file after it are on disk.
THEOREM DatabaseRecoverable == Spec => []RecoverableDatabase
<1>1. IInv => RecoverableDatabase
  BY DEF IInv
<1> QED
  BY <1>1, Invariance, PTL

\* A nested udpkg finds the lock held by its own parent only under -i.
THEOREM AncestorLock == Spec => []NoAncestorLock
<1>1. IInv => NoAncestorLock
  BY DEF IInv, NoAncestorLock, KidInv, LockInv, PathInv, Holding, TypeOK
<1> QED
  BY <1>1, Invariance, PTL
=============================================================================
