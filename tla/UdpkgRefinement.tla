--------------------------- MODULE UdpkgRefinement ---------------------------
(***************************************************************************)
(* Udpkg implements StatusDB, for any number of processes, packages,       *)
(* invocations and faults.                                                 *)
(***************************************************************************)
EXTENDS UdpkgProofs

\* What .new says of a package, of the file base it was made from, if the whole
\* of it was written.
Whole(p, base, q) ==
    IF q \in touched[p] THEN base[q] # "absent" => new[q] # "absent"
    ELSE IF job[p].op = "configure" /\ base[q] # "absent" /\ tree[p][q] # NoStatus
    THEN new[q] = status_print(tree[p][q])
    ELSE new[q] = base[q]

MergeOf(p, base) ==
    \A q \in Pkgs :
        Whole(p, base, q) \/ (torn /\ new[q] \in {"absent", "(null)"})

\* A process has overwritten nothing when it reads, and the .new it renames was
\* made from the file that it replaces.
RInv ==
    \A p \in Procs :
        /\ pc[p] \in {"idle", "lock", "read"} => touched[p] = {}
        /\ pc[p] = "rename1" => MergeOf(p, file)
        /\ pc[p] = "rename2" => MergeOf(p, bak)

\* The initial states satisfy it.
LEMMA InitRInv == Init => RInv
BY DEF Init, RInv

\* The file .new is what status_merge wrote until it is renamed: only the holder
\* of the lock writes the three files.
LEMMA StepRInv ==
    ASSUME IInv, RInv, [Next]_vars
    PROVE  RInv'
<1> USE ConstantsAssumption DEF IInv, disk, goto, pop
<1> DEFINE Safe(x) == /\ pc[x] \in {"idle", "lock", "read"} => touched[x] = {}
                      /\ pc[x] = "rename1" => MergeOf(x, file)
                      /\ pc[x] = "rename2" => MergeOf(x, bak)
<1> SUFFICES ASSUME NEW x \in Procs PROVE Safe(x)'
  BY DEF RInv
<1>0. Safe(x)
  BY DEF RInv
<1>1. ASSUME pc'[x] = pc[x], touched'[x] = touched[x], tree'[x] = tree[x],
             job'[x].op = job[x].op, UNCHANGED disk
      PROVE  Safe(x)'
  BY <1>0, <1>1 DEF MergeOf, Whole
<1>2. CASE UNCHANGED vars
  BY <1>1, <1>2 DEF vars
<1>3. ASSUME NEW p \in Procs, Start(p) PROVE Safe(x)'
  BY <1>0, <1>1, <1>3 DEF Start, begin, TypeOK, Jobs
<1>4. ASSUME NEW p \in Procs, NEW k \in Procs, Spawn(p, k) PROVE Safe(x)'
  BY <1>0, <1>1, <1>4 DEF Spawn, begin, TypeOK, Jobs
<1>5. ASSUME NEW p \in Procs, Kill(p) \/ status_unlock(p) PROVE Safe(x)'
  BY <1>0, <1>1, <1>5 DEF Kill, status_unlock, exit, TypeOK, Jobs
<1>6. ASSUME NEW p \in Procs, status_lock(p) \/ Relock(p) \/ ConfigureUnlock(p) PROVE Safe(x)'
  BY <1>0, <1>1, <1>6 DEF status_lock, Relock, ConfigureUnlock, TypeOK
<1>7. ASSUME NEW p \in Procs, ScriptEnd(p) PROVE Safe(x)'
  <2>1. CASE x = p
    BY <2>1, <1>7 DEF ScriptEnd, TypeOK
  <2>2. CASE x # p
    BY <2>2, <1>1, <1>7 DEF ScriptEnd, TypeOK
  <2> QED
    BY <2>1, <2>2
<1>8. ASSUME NEW p \in Procs, Read(p) PROVE Safe(x)'
  BY <1>0, <1>1, <1>8 DEF Read, TypeOK
<1>9. ASSUME NEW p \in Procs, Clean(p) \/ UnpackControl(p) \/ NoMoreArgs(p) PROVE Safe(x)'
  BY <1>0, <1>1, <1>9 DEF Clean, UnpackControl, NoMoreArgs, TypeOK
<1>10. ASSUME NEW p \in Procs, dpkg_dounpack(p) PROVE Safe(x)'
  <2>1. CASE x = p
    BY <2>1, <1>10 DEF dpkg_dounpack, TypeOK
  <2>2. CASE x # p
    BY <2>2, <1>1, <1>10 DEF dpkg_dounpack, TypeOK
  <2> QED
    BY <2>1, <2>2
<1>11. ASSUME NEW p \in Procs, dpkg_doconfigure(p) PROVE Safe(x)'
  <2>1. CASE x = p
    BY <2>1, <1>11 DEF dpkg_doconfigure, TypeOK
  <2>2. CASE x # p
    BY <2>2, <1>1, <1>11 DEF dpkg_doconfigure, TypeOK
  <2> QED
    BY <2>1, <2>2
<1>12. ASSUME NEW p \in Procs, dpkg_remove(p) PROVE Safe(x)'
  <2>1. CASE x = p
    BY <2>1, <1>12 DEF dpkg_remove, TypeOK
  <2>2. CASE x # p
    BY <2>2, <1>1, <1>12 DEF dpkg_remove, TypeOK
  <2> QED
    BY <2>1, <2>2
<1>13. ASSUME NEW p \in Procs, status_merge(p) PROVE Safe(x)'
  <2>1. CASE x # p
    BY <2>1, <1>0, <1>13 DEF status_merge, TypeOK, LockInv, Holding
  <2>2. CASE x = p /\ pc'[p] = "rename1" /\ file # NoFile
    <3>1. \A q \in Pkgs : list[p][q] # NoStatus => merged(p)[q] # "absent"
      BY PrintType DEF merged, TypeOK
    <3>2. \A q \in Pkgs \ touched[p] :
             merged(p)[q] = IF file[q] # "absent" /\ tree[p][q] # NoStatus
                            THEN status_print(tree[p][q]) ELSE file[q]
      BY DEF merged, ListInv
    <3>3. \A q \in Pkgs : job[p].op # "configure" => tree[p][q] = status_parse(file[q])
      BY <2>2, <1>13 DEF FreshInv, status_merge
    <3>4. \A q \in Pkgs : file[q] \in Entries
      BY <2>2 DEF TypeOK, Database
    <3>5. \A q \in Pkgs : file[q] # "absent" => merged(p)[q] # "absent"
      BY PrintType, <3>4 DEF merged, TypeOK
    <3>6. \A q \in Pkgs \ touched[p] :
             job[p].op # "configure" => merged(p)[q] = file[q]
      BY <3>2, <3>3, <3>4, PrintParse
    <3>7. \A q \in Pkgs : new'[q] = merged(p)[q] => Whole(p, file, q)'
      BY <1>13, <3>2, <3>5, <3>6 DEF status_merge, Whole
    <3>8. CASE new' = merged(p)
      BY <3>7, <3>8, <2>2, <1>13 DEF status_merge, MergeOf, TypeOK
    <3>9. CASE torn' /\ \E lost \in SUBSET Pkgs, at \in Pkgs :
                            new' = cut_short(merged(p), lost, at)
      <4>1. \A q \in Pkgs : new'[q] = merged(p)[q] \/ new'[q] \in {"absent", "(null)"}
        BY <3>9 DEF cut_short
      <4> QED
        BY <4>1, <3>7, <3>9, <2>2, <1>13 DEF status_merge, MergeOf, TypeOK
    <3> QED
      BY <3>8, <3>9, <2>2, <1>13 DEF status_merge, TypeOK
  <2>3. CASE x = p /\ pc'[p] = "unlock"
    BY <2>3
  <2> QED
    BY <2>1, <2>2, <2>3, <1>13 DEF status_merge, TypeOK
<1>14. ASSUME NEW p \in Procs, RenameOld(p) \/ RenameNew(p) PROVE Safe(x)'
  <2>1. CASE x # p
    BY <2>1, <1>0, <1>14 DEF RenameOld, RenameNew, RenameFails, TypeOK, LockInv, Holding
  <2>2. CASE x = p
    <3>1. CASE pc'[p] = "unlock"
      BY <3>1, <2>2
    <3>2. CASE pc[p] = "rename1" /\ pc'[p] = "rename2" /\ bak' = file
               /\ UNCHANGED <<new, torn, job, tree, touched>>
      BY <3>2, <2>2, <1>0 DEF MergeOf, Whole
    <3> QED
      BY <3>1, <3>2, <1>14 DEF RenameOld, RenameNew, RenameFails, TypeOK
  <2> QED
    BY <2>1, <2>2
<1> QED
  BY <1>2, <1>3, <1>4, <1>5, <1>6, <1>7, <1>8, <1>9, <1>10, <1>11, <1>12, <1>13,
     <1>14 DEF Next, Step

-----------------------------------------------------------------------------
\* When one process reads or overwrites, the views of the others stay.
LEMMA OneView ==
    ASSUME NEW p \in Procs, NEW v,
           \A x \in Procs \ {p} : tree'[x] = tree[x] /\ touched'[x] = touched[x],
           View'[p] = v
    PROVE  View' = [View EXCEPT ![p] = v]
BY DEF View

\* A process that goes from one place to another within the same mode.
LEMMA SameMode ==
    ASSUME NEW p \in Procs,
           \A x \in Procs \ {p} : pc'[x] = pc[x],
           \A x \in Procs : job'[x].op = job[x].op,
           pc[p] \notin {"idle", "unlock"}, pc'[p] \notin {"idle", "unlock"}
    PROVE  Mode' = Mode
BY DEF Mode

\* When one process begins or ends, the modes of the others stay.
LEMMA OneMode ==
    ASSUME NEW p \in Procs, NEW m,
           \A x \in Procs \ {p} : pc'[x] = pc[x] /\ job'[x] = job[x],
           Mode'[p] = m
    PROVE  Mode' = [Mode EXCEPT ![p] = m]
BY DEF Mode

\* Only the holder of the lock can be about to rename.
LEMMA OneRenames ==
    ASSUME IInv, NEW p \in Procs, lock = p
    PROVE  Spoiled \subseteq {p}
BY DEF IInv, LockInv, Holding, Spoiled

\* A step that starts and ends no renaming spoils nothing.
LEMMA SameSpoiled ==
    ASSUME torn' = torn,
           \A x \in Procs : \/ pc'[x] = pc[x]
                            \/ {pc[x], pc'[x]} \cap {"rename1", "rename2"} = {}
                            \/ pc[x] = "rename1" /\ pc'[x] = "rename2"
    PROVE  Spoiled' = Spoiled
BY DEF Spoiled

\* A process that goes to a place where nothing is renamed is spoiled no more.
LEMMA LessSpoiled ==
    ASSUME torn' = torn, NEW p \in Procs, pc'[p] \notin {"rename1", "rename2"},
           \A x \in Procs \ {p} : pc'[x] = pc[x]
    PROVE  Spoiled' = Spoiled \ {p}
BY DEF Spoiled

\* The initial states are initial states of the database.
LEMMA InitRefines == Init => DB!Init
<1> SUFFICES ASSUME Init PROVE DB!Init
  OBVIOUS
<1>1. file \in [Pkgs -> Entries] /\ file # NoFile
  BY ConstantsAssumption DEF Init, Database, Entries, Words
<1> QED
  BY <1>1 DEF Init, DB!Init, DB!Nothing, Current, Mode, View, Spoiled

\* Every step of udpkg is a step of the database, or none.
LEMMA StepRefines ==
    ASSUME IInv, RInv, IInv', [Next]_vars
    PROVE  [DB!Next]_DB!vars
<1> USE ConstantsAssumption DEF disk, goto, pop
<1> TypeOK /\ TypeOK'
  BY DEF IInv
<1>1. CASE UNCHANGED vars
  BY <1>1 DEF vars, DB!vars, Current, Mode, View, Spoiled
<1>2. ASSUME NEW p \in Procs, Start(p) \/ \E x \in Procs : Spawn(x, p) PROVE DB!Begin(p)
  <2>1. /\ pc[p] = "idle" /\ pc' = [pc EXCEPT ![p] = "lock"]
        /\ \E j : job' = [job EXCEPT ![p] = j]
        /\ UNCHANGED <<file, bak, torn, tree, touched>>
    BY <1>2 DEF Start, Spawn, begin
  <2>2. Mode[p] = "idle"
    BY <2>1 DEF Mode
  <2>3. Mode'[p] \in {"exclusive", "shared"}
    BY <2>1 DEF Mode, TypeOK
  <2>4. Mode' = [Mode EXCEPT ![p] = Mode'[p]]
    BY <2>1, OneMode DEF TypeOK
  <2>5. UNCHANGED <<Current, View, touched>>
    BY <2>1 DEF Current, View
  <2>6. Spoiled' = Spoiled
    BY <2>1, SameSpoiled DEF TypeOK
  <2> QED
    BY <2>2, <2>3, <2>4, <2>5, <2>6 DEF DB!Begin
<1>3. ASSUME NEW p \in Procs, Kill(p) \/ status_unlock(p) PROVE DB!End(p)
  <2> USE <1>3 DEF Kill, status_unlock, exit
  <2>1. UNCHANGED Current
    BY DEF Current
  <2>2. touched' = [touched EXCEPT ![p] = {}]
    OBVIOUS
  <2>3. View'[p] = DB!Nothing
    BY DEF View, DB!Nothing, TypeOK
  <2>4. Mode'[p] = "idle"
    BY DEF Mode, TypeOK
  <2>5. View' = [View EXCEPT ![p] = DB!Nothing]
    BY <2>3, OneView DEF TypeOK
  <2>6. Mode' = [Mode EXCEPT ![p] = "idle"]
    BY <2>4, OneMode DEF TypeOK
  <2>7. Spoiled' = Spoiled \ {p}
    BY LessSpoiled DEF TypeOK
  <2> QED
    BY <2>1, <2>2, <2>5, <2>6, <2>7 DEF DB!End
<1>4. ASSUME NEW p \in Procs,
             status_lock(p) \/ Relock(p) \/ ConfigureUnlock(p) \/ NoMoreArgs(p)
      PROVE  UNCHANGED DB!vars
  <2> USE <1>4 DEF status_lock, Relock, ConfigureUnlock, NoMoreArgs
  <2>1. UNCHANGED <<Current, View, touched>>
    BY DEF Current, View
  <2>2. Mode' = Mode
    BY DEF Mode, TypeOK
  <2>3. Spoiled' = Spoiled
    BY SameSpoiled DEF TypeOK
  <2> QED
    BY <2>1, <2>2, <2>3 DEF DB!vars
<1>15. ASSUME NEW p \in Procs, pc' = [pc EXCEPT ![p] = "unlock"],
              pc[p] \notin {"idle", "unlock"}, UNCHANGED <<disk, job, tree, touched>>
       PROVE  DB!GiveUp(p)
  <2>1. UNCHANGED <<Current, View, touched>>
    BY <1>15 DEF Current, View
  <2>2. Mode[p] \in {"exclusive", "shared"}
    BY <1>15 DEF Mode
  <2>3. Mode'[p] = "done"
    BY <1>15 DEF Mode, TypeOK
  <2>4. Mode' = [Mode EXCEPT ![p] = "done"]
    BY <1>15, <2>3, OneMode DEF TypeOK
  <2>5. Spoiled' = Spoiled \ {p}
    BY <1>15, LessSpoiled DEF TypeOK
  <2> QED
    BY <2>1, <2>2, <2>4, <2>5 DEF DB!GiveUp
<1>5. ASSUME NEW p \in Procs, Clean(p) \/ UnpackControl(p) PROVE [DB!GiveUp(p)]_DB!vars
  <2> USE <1>5 DEF Clean, UnpackControl
  <2>1. UNCHANGED <<Current, View, touched>>
    BY DEF Current, View
  <2>2. CASE pc' = [pc EXCEPT ![p] = "unlock"]
    BY <2>2, <1>15
  <2>3. CASE pc' = [pc EXCEPT ![p] = "work"] \/ pc' = [pc EXCEPT ![p] = "control"]
    <3>1. Spoiled' = Spoiled
      BY <2>3, SameSpoiled DEF TypeOK
    <3> QED
      BY <2>1, <2>3, <3>1 DEF DB!vars, Mode, TypeOK
  <2> QED
    BY <2>2, <2>3
<1>6. ASSUME NEW p \in Procs, Read(p) PROVE DB!Look(p)
  <2> USE <1>6 DEF Read
  <2>1. touched[p] = {} /\ UNCHANGED <<Current, touched>>
    BY DEF RInv, Current
  <2>2. Mode[p] \in {"exclusive", "shared"} /\ Mode' = Mode
    BY DEF Mode, TypeOK
  <2>3. View'[p] \in {Current, DB!Nothing}
    <3>1. tree'[p] = status_read
      BY DEF TypeOK
    <3>2. CASE file = NoFile
      <4>1. \A q \in Pkgs : tree'[p][q] = NoStatus
        BY <3>1, <3>2 DEF status_read
      <4> QED
        BY <4>1 DEF View, DB!Nothing
    <3>3. CASE file # NoFile
      <4>1. file \in [Pkgs -> Entries]
        BY <3>3 DEF TypeOK, Database
      <4>2. \A q \in Pkgs : tree'[p][q] = status_parse(file[q])
        BY <3>1, <3>3 DEF status_read
      <4>3. \A q \in Pkgs : View'[p][q] = file[q]
        BY <4>1, <4>2, <2>1, PrintParse DEF View
      <4>4. View'[p] = [q \in Pkgs |-> View'[p][q]]
        BY DEF View
      <4> QED
        BY <4>1, <4>3, <4>4, <3>3 DEF Current
    <3> QED
      BY <3>2, <3>3
  <2>4. View' = [View EXCEPT ![p] = View'[p]]
    BY OneView DEF TypeOK
  <2>5. Spoiled' = Spoiled
    BY SameSpoiled DEF TypeOK
  <2> QED
    BY <2>1, <2>2, <2>3, <2>4, <2>5 DEF DB!Look
<1> DEFINE Worked(p, q) ==
        /\ touched' = [touched EXCEPT ![p] = @ \cup {q}]
        /\ \A x \in Procs \ {p} : tree'[x] = tree[x]
        /\ \A x \in Pkgs \ {q} : tree'[p][x] = tree[p][x]
<1>7. ASSUME NEW p \in Procs, NEW q \in Pkgs, Worked(p, q), UNCHANGED <<Current, Mode, Spoiled>>,
             Mode[p] \in {"exclusive", "shared"}
      PROVE  DB!Work(p)
  <2>1. View' = [View EXCEPT ![p] = View'[p]]
    BY <1>7, OneView DEF TypeOK
  <2>2. View'[p] = [View[p] EXCEPT ![q] = "absent"]
    <3>1. \A x \in Pkgs : x \in touched'[p] <=> x \in touched[p] \/ x = q
      BY <1>7 DEF TypeOK
    <3> QED
      BY <3>1, <1>7 DEF View
  <2>3. View' = [View EXCEPT ![p][q] = "absent"]
    BY <2>1, <2>2 DEF View
  <2> QED
    BY <2>3, <1>7 DEF DB!Work
<1>8. ASSUME NEW p \in Procs, dpkg_dounpack(p) PROVE DB!Work(p)
  <2> USE <1>8 DEF dpkg_dounpack
  <2>1. Head(job[p].argv) \in Pkgs
    BY DEF TypeOK, Jobs
  <2>2. Worked(p, Head(job[p].argv)) /\ UNCHANGED Current
    BY DEF Current
  <2>3. Mode[p] \in {"exclusive", "shared"}
    BY DEF Mode
  <2>4. Mode' = Mode
    <3>1. \A x \in Procs : job'[x].op = job[x].op
      <4>1. job' = job \/ job' = [job EXCEPT ![p].argv = Tail(@)]
        BY Zenon
      <4>2. job \in [Procs -> Jobs]
        BY DEF TypeOK
      <4> QED
        BY ONLY <4>1, <4>2 DEF Jobs
    <3>2. /\ \A x \in Procs \ {p} : pc'[x] = pc[x]
          /\ pc'[p] \in {"work", "write", "script"}
      BY DEF TypeOK
    <3> QED
      BY <3>1, <3>2, SameMode
  <2>5. Spoiled' = Spoiled
    BY SameSpoiled DEF TypeOK
  <2> QED
    BY <2>1, <2>2, <2>3, <2>4, <2>5, <1>7
<1>9. ASSUME NEW p \in Procs, dpkg_remove(p) PROVE DB!Work(p)
  <2> USE <1>9 DEF dpkg_remove
  <2>1. Head(job[p].argv) \in Pkgs
    BY DEF TypeOK, Jobs
  <2>2. Worked(p, Head(job[p].argv)) /\ UNCHANGED Current
    BY DEF Current
  <2>3. Mode[p] \in {"exclusive", "shared"}
    BY DEF Mode
  <2>4. Mode' = Mode
    <3>1. \A x \in Procs : job'[x].op = job[x].op
      BY DEF TypeOK, Jobs
    <3>2. /\ \A x \in Procs \ {p} : pc'[x] = pc[x]
          /\ pc'[p] \in {"work"}
      BY DEF TypeOK
    <3> QED
      BY <3>1, <3>2, SameMode
  <2>5. Spoiled' = Spoiled
    BY SameSpoiled DEF TypeOK
  <2> QED
    BY <2>1, <2>2, <2>3, <2>4, <2>5, <1>7
<1>10. ASSUME NEW p \in Procs, dpkg_doconfigure(p) PROVE [DB!Work(p)]_DB!vars
  <2> USE <1>10 DEF dpkg_doconfigure
  <2>1. Head(job[p].argv) \in Pkgs
    BY DEF TypeOK, Jobs
  <2>2. Mode[p] \in {"exclusive", "shared"}
    BY DEF Mode
  <2>3. Mode' = Mode
    BY SameMode DEF TypeOK, Jobs
  <2>4. UNCHANGED Current
    BY DEF Current
  <2>8. Spoiled' = Spoiled
    BY SameSpoiled DEF TypeOK
  <2>5. CASE UNCHANGED <<tree, touched>>
    BY <2>3, <2>4, <2>5, <2>8 DEF DB!vars, View
  <2>6. CASE Worked(p, Head(job[p].argv))
    BY <2>1, <2>2, <2>3, <2>4, <2>6, <2>8, <1>7
  <2>7. UNCHANGED <<tree, touched>> \/ Worked(p, Head(job[p].argv))
    BY <2>1 DEF TypeOK
  <2> QED
    BY <2>5, <2>6, <2>7
<1>11. ASSUME NEW p \in Procs, ScriptEnd(p) PROVE UNCHANGED DB!vars
  <2> USE <1>11 DEF ScriptEnd
  <2>1. Head(job[p].argv) \in touched[p]
    BY DEF IInv, PathInv
  <2>2. Mode' = Mode
    <3>1. \A x \in Procs : job'[x].op = job[x].op
      BY DEF TypeOK, Jobs
    <3>2. /\ \A x \in Procs \ {p} : pc'[x] = pc[x]
          /\ pc'[p] \in {"work", "relock"}
      BY DEF TypeOK
    <3> QED
      BY <3>1, <3>2, SameMode
  <2>3. UNCHANGED <<Current, touched>>
    BY DEF Current
  <2>4. \A x \in Procs \ {p} : tree'[x] = tree[x]
    BY DEF TypeOK
  <2>5. \A q \in Pkgs \ {Head(job[p].argv)} : tree'[p][q] = tree[p][q]
    BY DEF TypeOK
  <2>6. View' = View
    BY <2>1, <2>3, <2>4, <2>5 DEF View
  <2>7. Spoiled' = Spoiled
    BY SameSpoiled DEF TypeOK
  <2> QED
    BY <2>2, <2>3, <2>6, <2>7 DEF DB!vars
<1>12. ASSUME NEW p \in Procs, status_merge(p)
       PROVE  [DB!GiveUp(p) \/ DB!WriteFails(p)]_DB!vars
  <2> USE <1>12 DEF status_merge
  <2>1. UNCHANGED <<Current, View, touched>>
    BY DEF Current, View
  <2>2. CASE pc' = [pc EXCEPT ![p] = "unlock"] /\ UNCHANGED <<new, torn>>
    BY <2>2, <1>15
  <2>3. CASE pc' = [pc EXCEPT ![p] = "rename1"]
    <3>1. Mode' = Mode /\ Mode[p] \in {"exclusive", "shared"}
      BY <2>3 DEF Mode, TypeOK
    <3>2. Spoiled = {}
      BY OneRenames DEF IInv, LockInv, Holding, Spoiled
    <3>3. \A x \in Procs \ {p} : pc'[x] \notin {"rename1", "rename2"}
      BY <2>3 DEF IInv, LockInv, Holding, TypeOK
    <3>4. pc'[p] = "rename1"
      BY <2>3 DEF TypeOK
    <3>5. CASE torn' = FALSE
      BY <2>1, <3>1, <3>2, <3>5 DEF DB!vars, Spoiled
    <3>6. CASE torn' = TRUE
      <4>1. Spoiled' = {p}
        BY <3>3, <3>4, <3>6 DEF Spoiled
      <4> QED
        BY <2>1, <3>1, <3>2, <4>1 DEF DB!WriteFails
    <3> QED
      BY <3>5, <3>6, <2>3 DEF TypeOK
  <2> QED
    BY <2>2, <2>3
<1>13. ASSUME NEW p \in Procs, RenameOld(p) PROVE [DB!GiveUp(p)]_DB!vars
  <2> USE <1>13 DEF RenameOld
  <2>1. CASE RenameFails(p)
    BY <2>1, <1>15 DEF RenameFails
  <2>2. CASE bak' = file /\ file' = NoFile /\ pc' = [pc EXCEPT ![p] = "rename2"]
             /\ UNCHANGED torn
    <3>1. UNCHANGED <<View, touched>>
      BY DEF View
    <3>2. Current' = Current
      BY <2>2 DEF Current, IInv, DiskInv
    <3>3. Mode' = Mode
      BY <2>2 DEF Mode, TypeOK
    <3>4. Spoiled' = Spoiled
      BY <2>2, SameSpoiled DEF TypeOK
    <3> QED
      BY <3>1, <3>2, <3>3, <3>4 DEF DB!vars
  <2> QED
    BY <2>1, <2>2
<1>14. ASSUME NEW p \in Procs, RenameNew(p) PROVE DB!Commit(p) \/ DB!GiveUp(p)
  <2> USE <1>14 DEF RenameNew
  <2>8. CASE RenameFails(p)
    BY <2>8, <1>15 DEF RenameFails
  <2>9. CASE file' = new /\ pc' = [pc EXCEPT ![p] = "unlock"] /\ torn' = FALSE
    <3>1. UNCHANGED <<View, touched>>
      BY DEF View
    <3>2. Mode[p] = IF job[p].op = "configure" THEN "shared" ELSE "exclusive"
      BY DEF Mode
    <3>3. Mode'[p] = "done"
      BY <2>9 DEF Mode, TypeOK
    <3>4. Mode' = [Mode EXCEPT ![p] = "done"]
      BY <3>3, <2>9, OneMode DEF TypeOK
    <3>5. /\ file = NoFile /\ Current = bak /\ Current' = new
          /\ new \in [Pkgs -> Entries] /\ bak \in [Pkgs -> Entries]
      BY <2>9 DEF IInv, DiskInv, RecoverableDatabase, Current, TypeOK, Database
    <3>6. MergeOf(p, bak)
      BY DEF RInv
    <3>7. Spoiled' = Spoiled \ {p} /\ (torn => p \in Spoiled)
      <4>1. Spoiled \subseteq {p}
        BY OneRenames DEF IInv, LockInv, Holding
      <4>2. Spoiled' = {}
        BY <2>9 DEF Spoiled
      <4>3. torn => p \in Spoiled
        BY DEF Spoiled
      <4> QED
        BY <4>1, <4>2, <4>3
    <3>8. ASSUME NEW q \in Pkgs
          PROVE  \/ Current'[q] \in DB!Outcomes(p, q)
                 \/ p \in Spoiled /\ Current'[q] \in {"absent", "(null)"}
      <4>1. tree[p][q] \in Status
        BY DEF TypeOK
      <4>2. View[p][q] = IF q \in touched[p] \/ tree[p][q] = NoStatus THEN "absent"
                         ELSE status_print(tree[p][q])
        BY DEF View
      <4>3. status_print(tree[p][q]) # "absent"
        BY <4>1, PrintType
      <4>4. CASE Whole(p, bak, q) /\ q \in touched[p]
        BY <4>4, <3>5 DEF Whole, DB!Outcomes
      <4>5. CASE Whole(p, bak, q) /\ q \notin touched[p]
        BY <4>2, <4>3, <4>5, <3>2, <3>5 DEF Whole, DB!Outcomes
      <4>6. CASE torn /\ new[q] \in {"absent", "(null)"}
        BY <4>6, <3>5, <3>7
      <4> QED
        BY <4>4, <4>5, <4>6, <3>6 DEF MergeOf
    <3> QED
      BY <3>1, <3>2, <3>4, <3>5, <3>7, <3>8 DEF DB!Commit
  <2> QED
    BY <2>8, <2>9
<1> QED
  BY <1>1, <1>2, <1>3, <1>4, <1>5, <1>6, <1>8, <1>9, <1>10, <1>11, <1>12, <1>13,
     <1>14 DEF Next, Step, DB!Next

\* The status database changes only by one commit of one job at a time, whatever
\* runs side by side, wherever a process is killed and whichever opening or
\* renaming fails; a commit lacks packages only if a write of it failed, which
\* status_merge does not check.  udpkg, with its lock, its two renames and its
\* scripts, implements StatusDB.
THEOREM Refinement == Spec => AtomicDatabase
<1>1. Spec => [](IInv /\ RInv)
  <2>1. Init => IInv /\ RInv
    BY InitInv, InitRInv
  <2>2. (IInv /\ RInv) /\ [Next]_vars => (IInv /\ RInv)'
    BY StepInv, StepRInv
  <2> QED
    BY <2>1, <2>2, PTL DEF Spec
<1>2. (IInv /\ RInv) /\ (IInv /\ RInv)' /\ [Next]_vars => [DB!Next]_DB!vars
  BY StepRefines
<1> QED
  BY <1>1, <1>2, InitRefines, PTL DEF Spec, AtomicDatabase, DB!Spec
=============================================================================
