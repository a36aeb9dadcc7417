------------------------------- MODULE StatusDB -------------------------------
(***************************************************************************)
(* What udpkg promises about the status database, without files, locks,    *)
(* renames or scripts: jobs look at the database once, work on packages    *)
(* of their own, and change the database in one atomic commit, or not at   *)
(* all.  An exclusive job changes nothing but its own packages.  A shared  *)
(* one (--configure) may also put back what it saw of others, but neither  *)
(* loses a package nor touches one it did not see.  A job whose writing    *)
(* fails is not told: it commits all the same, and what it commits lacks   *)
(* packages.                                                               *)
(***************************************************************************)
CONSTANTS
    Procs,
    Pkgs,
    Entries,    \* what the database says of a package,
    Absent,     \* one of them: it says nothing
    Broken      \* another: it names the package and no more

VARIABLES
    db,         \* the database
    mode,       \* of each process: "idle", "exclusive", "shared" or "done"
    view,       \* what it saw of the packages that are not its own
    own,        \* the packages it works on
    spoiled     \* the processes whose writing has failed

vars == <<db, mode, view, own, spoiled>>

Nothing == [q \in Pkgs |-> Absent]

Init ==
    /\ db \in [Pkgs -> Entries]
    /\ mode = [p \in Procs |-> "idle"]
    /\ view = [p \in Procs |-> Nothing]
    /\ own = [p \in Procs |-> {}]
    /\ spoiled = {}

Begin(p) ==
    /\ mode[p] = "idle"
    /\ \E m \in {"exclusive", "shared"} : mode' = [mode EXCEPT ![p] = m]
    /\ UNCHANGED <<db, view, own, spoiled>>

\* The whole database is seen, or, while another job's commit was cut short,
\* nothing at all.
Look(p) ==
    /\ mode[p] \in {"exclusive", "shared"}
    /\ own[p] = {}
    /\ \E seen \in {db, Nothing} : view' = [view EXCEPT ![p] = seen]
    /\ UNCHANGED <<db, mode, own, spoiled>>

Work(p) ==
    /\ mode[p] \in {"exclusive", "shared"}
    /\ \E q \in Pkgs :
          /\ own' = [own EXCEPT ![p] = @ \cup {q}]
          /\ view' = [view EXCEPT ![p][q] = Absent]
    /\ UNCHANGED <<db, mode, spoiled>>

\* What the commit of p may make of package q.
Outcomes(p, q) ==
    IF q \in own[p] THEN {e \in Entries : db[q] # Absent => e # Absent}
    ELSE IF mode[p] = "shared" /\ db[q] # Absent /\ view[p][q] # Absent
         THEN {view[p][q]}
         ELSE {db[q]}

\* Writing what is to be committed fails.
WriteFails(p) ==
    /\ mode[p] \in {"exclusive", "shared"}
    /\ spoiled' = spoiled \cup {p}
    /\ UNCHANGED <<db, mode, view, own>>

Commit(p) ==
    /\ mode[p] \in {"exclusive", "shared"}
    /\ db' \in [Pkgs -> Entries]
    /\ \A q \in Pkgs :
          \/ db'[q] \in Outcomes(p, q)
          \/ p \in spoiled /\ db'[q] \in {Absent, Broken}
    /\ mode' = [mode EXCEPT ![p] = "done"]
    /\ spoiled' = spoiled \ {p}
    /\ UNCHANGED <<view, own>>

GiveUp(p) ==
    /\ mode[p] \in {"exclusive", "shared"}
    /\ mode' = [mode EXCEPT ![p] = "done"]
    /\ spoiled' = spoiled \ {p}
    /\ UNCHANGED <<db, view, own>>

\* The job ends, finished or killed.
End(p) ==
    /\ mode' = [mode EXCEPT ![p] = "idle"]
    /\ view' = [view EXCEPT ![p] = Nothing]
    /\ own' = [own EXCEPT ![p] = {}]
    /\ spoiled' = spoiled \ {p}
    /\ UNCHANGED db

Next ==
    \E p \in Procs :
        \/ Begin(p) \/ Look(p) \/ Work(p) \/ WriteFails(p)
        \/ Commit(p) \/ GiveUp(p) \/ End(p)

Spec == Init /\ [][Next]_vars
=============================================================================
