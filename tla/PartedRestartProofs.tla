-------------------------- MODULE PartedRestartProofs --------------------------
(***************************************************************************)
(* Proofs about PartedRestart, for any number of servers and deaths.       *)
(***************************************************************************)
EXTENDS PartedRestart, FiniteSetTheorems, TLAPS

Places == {"outside", "early", "testing", "starting", "menu", "opening", "dialog", "abort"}
Stages == Starting \cup Working \cup Exiting \cup {"none", "gone", "killed"}

\* The types, with n servers started so far.
Types(n) ==
    /\ pidfile \in Servers \cup {NoFile}
    /\ infifo \in Files
    /\ line \in {"none", "dialog", "QUIT"} /\ others \in BOOLEAN
    /\ srv \in [Servers -> Stages]
    /\ fd \in [Servers -> Files]
    /\ at \in Places
    /\ out \in Files /\ cmd \in {"none", "dialog", "QUIT"}
    /\ goal \in {"none", "menu", "early", "outside", "abort"}
    /\ causes \subseteq {"overlap", "died", "killed"} /\ deaths \in 0..MaxDeaths
    /\ \A s \in Servers : srv[s] = "none" <=> s > n
    /\ at = "opening" => goal # "none" /\ (cmd = "QUIT" => goal # "menu")
    /\ at = "starting" => n \in Servers /\ srv[n] \notin Working

\* The pid file names a server that has written it and has not removed it.
PidWritten ==
    pidfile # NoFile =>
        \/ srv[pidfile] \in {"fifos", "signal", "unlink_pid"} \cup Working
        \/ srv[pidfile] = "killed" /\ "killed" \in causes

\* Where the last server, n, can be while nothing has gone wrong, with the files
\* it has and the places the scripts are in.
Resting == {"outside", "early", "testing", "abort"}
Talking == {"early", "testing", "menu", "abort"}

Last(n) ==
    \/ n = 0 /\ pidfile = NoFile /\ infifo = NoFile /\ at \in Resting
    \/ /\ n \in Servers
       /\ \/ srv[n] = "check" /\ at = "starting" /\ pidfile = NoFile /\ infifo = NoFile
          \/ srv[n] = "fifos" /\ at = "starting" /\ pidfile = n /\ infifo = NoFile
          \/ srv[n] = "signal" /\ at = "starting" /\ pidfile = n /\ infifo = n
          \/ /\ srv[n] = "loop" \/ (srv[n] = "waiting" /\ fd[n] = n)
             /\ at \in Talking \/ (at = "opening" /\ out = n)
             /\ pidfile = n /\ infifo = n
          \/ srv[n] = "serving" /\ at = "dialog" /\ pidfile = n /\ infifo = n
          \/ srv[n] = "unlink_pid" /\ at \in Resting /\ pidfile = n /\ infifo = n
          \/ srv[n] = "unlink_fifos" /\ at \in Resting /\ pidfile = NoFile /\ infifo = n
          \/ srv[n] = "gone" /\ at \in Resting /\ pidfile = NoFile /\ infifo = NoFile

\* While nothing has gone wrong there is no server but the last.
Orderly(n) ==
    causes = {} =>
        /\ \A s \in Servers : s < n => srv[s] = "gone"
        /\ Last(n)

IInv == \E n \in 0..MaxServers : Types(n) /\ PidWritten /\ Orderly(n)

-----------------------------------------------------------------------------
\* As many servers are started as have a stage.
LEMMA StartedCount ==
    ASSUME NEW n \in 0..MaxServers, Types(n)
    PROVE  Cardinality(started) = n
<1>1. started = 1..n
    BY ConstantsAssumption DEF Types, started, Servers
<1>2. n \in Nat
    BY ConstantsAssumption
<1> QED
    BY <1>1, <1>2, FS_Interval

\* The invariant holds before the first server is started.
LEMMA InitIInv == Init => IInv
<1> SUFFICES ASSUME Init PROVE Types(0) /\ PidWritten /\ Orderly(0)
    BY ConstantsAssumption DEF IInv
<1>1. Types(0)
    <2>1. others \in BOOLEAN
        BY DEF Init
    <2>2. /\ srv \in [Servers -> Stages]
          /\ \A s \in Servers : srv[s] = "none" <=> s > 0
        BY ConstantsAssumption DEF Init, Servers, Stages
    <2>3. fd \in [Servers -> Files]
        BY ConstantsAssumption DEF Init, Files, NoFile
    <2> QED
        BY ConstantsAssumption, <2>1, <2>2, <2>3 DEF Init, Types, Files, NoFile, Places
<1>2. PidWritten
    BY DEF Init, PidWritten
<1>3. Orderly(0)
    BY ConstantsAssumption DEF Init, Orderly, Last, Resting, Servers
<1> QED
    BY <1>1, <1>2, <1>3

USE DEF NoFile, RegularFile, Files, goto

\* The steps of a server keep the invariant, with the same number of servers.
LEMMA ServerStep ==
    ASSUME NEW n \in 0..MaxServers, Types(n), PidWritten, Orderly(n),
           NEW s \in Servers, serve(s) \/ Die(s) \/ Kill(s)
    PROVE  Types(n)' /\ PidWritten' /\ Orderly(n)'
<1> USE ConstantsAssumption DEF Types, PidWritten, Orderly, Last, Servers, Starting, Working,
        Exiting, Stages, Places, Resting, Talking, files, scripts, servers
<1>1. CASE write_pid_file(s)
    <2>1. Types(n)'
        BY <1>1 DEF write_pid_file, alive
    <2>2. PidWritten'
        BY <1>1 DEF write_pid_file, alive
    <2>3. ASSUME causes = {} PROVE s = n
        BY <1>1, <2>3 DEF write_pid_file
    <2>4. Orderly(n)'
        BY <1>1, <2>3 DEF write_pid_file, alive
    <2> QED
        BY <2>1, <2>2, <2>4
<1>2. CASE make_fifos(s)
    BY <1>2 DEF make_fifos
<1>3. CASE signal_ready(s)
    <2>1. Types(n)' /\ PidWritten'
        BY <1>3 DEF signal_ready
    <2>2. Orderly(n)'
        BY <1>3 DEF signal_ready
    <2> QED
        BY <2>1, <2>2
<1>4. CASE open_in(s)
    BY <1>4 DEF open_in
<1>5. CASE ReadCommand(s)
    <2>1. Types(n)'
        BY <1>5 DEF ReadCommand
    <2>2. PidWritten'
        BY <1>5 DEF ReadCommand
    <2>3. ASSUME causes = {} PROVE s = n
        BY <1>5, <2>3 DEF ReadCommand
    <2>4. Orderly(n)'
        BY <1>5, <2>3 DEF ReadCommand
    <2> QED
        BY <2>1, <2>2, <2>4
<1>6. CASE StaleAnswer(s)
    BY <1>6 DEF StaleAnswer
<1>7. CASE EndDialog(s)
    BY <1>7 DEF EndDialog
<1>8. CASE unlink_pid(s)
    BY <1>8 DEF unlink_pid
<1>9. CASE unlink_fifos(s)
    <2>0. others' \in BOOLEAN
        BY <1>9, Zenon DEF unlink_fifos
    <2>1. Types(n)'
        BY <1>9, <2>0 DEF unlink_fifos
    <2>2. PidWritten'
        BY <1>9 DEF unlink_fifos
    <2>3. ASSUME causes = {} PROVE s = n
        BY <1>9, <2>3 DEF unlink_fifos
    <2>4. Orderly(n)'
        BY <1>9, <2>3 DEF unlink_fifos
    <2> QED
        BY <2>1, <2>2, <2>4
<1>10. CASE Die(s)
    BY <1>10 DEF Die
<1>11. CASE Kill(s)
    BY <1>11 DEF Kill, alive
<1> QED
    BY <1>1, <1>2, <1>3, <1>4, <1>5, <1>6, <1>7, <1>8, <1>9, <1>10, <1>11 DEF serve

\* Opening infifo keeps the invariant, from the menu or where there is a pid file.
LEMMA OpenStep ==
    ASSUME NEW n \in 0..MaxServers, Types(n), PidWritten, Orderly(n),
           at = "menu" \/ (at = "abort" /\ pidfile # NoFile),
           NEW c, NEW after, open_infifo(c, after),
           \/ c = "dialog" /\ after = "menu"
           \/ c = "QUIT" /\ after \in {"early", "outside", "abort"}
    PROVE  Types(n)' /\ PidWritten' /\ Orderly(n)'
<1> USE ConstantsAssumption DEF open_infifo, Servers, servers
<1>1. Types(n)'
    BY DEF Types, overlap, Places, Stages, Starting, Working, Exiting
<1>2. PidWritten'
    BY DEF PidWritten
<1>3. Orderly(n)'
    <2> SUFFICES ASSUME causes' = {} PROVE Orderly(n)'
        BY DEF Orderly
    <2>1. causes = {} /\ \A s \in Servers : srv[s] \notin Exiting
        BY DEF overlap
    <2>2. /\ n \in Servers /\ pidfile = n /\ infifo = n
          /\ srv[n] = "loop" \/ (srv[n] = "waiting" /\ fd[n] = n)
        BY <2>1 DEF Types, Orderly, Last, Resting, Talking, Exiting
    <2>3. at' = "opening" /\ out' = n
        BY <2>2
    <2> QED
        BY <2>1, <2>2, <2>3 DEF Orderly, Last
<1> QED
    BY <1>1, <1>2, <1>3

\* The script that starts a server: there is none yet, or one more from now on.
LEMMA StartStep ==
    ASSUME NEW n \in 0..MaxServers, Types(n), PidWritten, Orderly(n), init_parted
    PROVE  IInv'
<1> USE ConstantsAssumption DEF init_parted, Servers
<1>1. CASE pidfile # NoFile
    <2>1. Types(n)'
        BY <1>1 DEF Types, overlap, Places, Stages, Starting, Working, Exiting, files
    <2>2. PidWritten'
        BY <1>1 DEF PidWritten, files
    <2>3. Orderly(n)'
        <3> SUFFICES ASSUME causes' = {} PROVE Orderly(n)'
            BY DEF Orderly
        <3>1. causes = {} /\ \A s \in Servers : srv[s] \notin Exiting
            BY DEF overlap
        <3> QED
            BY <1>1, <3>1 DEF Types, Orderly, Last, Resting, Talking, Exiting, files
    <2> QED
        BY <2>1, <2>2, <2>3 DEF IInv
<1>2. CASE pidfile = NoFile
    <2>1. n + 1 \in 1..MaxServers /\ srv' = [srv EXCEPT ![n + 1] = "check"]
        BY <1>2, StartedCount
    <2>2. Types(n + 1)'
        BY <1>2, <2>1 DEF Types, overlap, Places, Stages, Starting, Working, Exiting, files
    <2>3. PidWritten'
        BY <1>2 DEF PidWritten, files
    <2>4. Orderly(n + 1)'
        <3> SUFFICES ASSUME causes' = {} PROVE Orderly(n + 1)'
            BY DEF Orderly
        <3>1. causes = {} /\ \A s \in Servers : srv[s] \notin Exiting
            BY DEF overlap
        <3>2. infifo = NoFile /\ (n = 0 \/ srv[n] = "gone")
            BY <1>2, <3>1 DEF Types, Orderly, Last, Resting, Talking, Exiting
        <3>3. \A s \in Servers : s < n + 1 => srv'[s] = "gone"
            BY <2>1, <3>1, <3>2 DEF Types, Orderly
        <3>4. srv'[n + 1] = "check"
            BY <2>1 DEF Types
        <3> QED
            BY <1>2, <2>1, <3>2, <3>3, <3>4 DEF Orderly, Last, files
    <2>5. n + 1 \in 0..MaxServers
        BY <2>1
    <2> QED
        BY <2>2, <2>3, <2>4, <2>5 DEF IInv
<1> QED
    BY <1>1, <1>2

\* The other steps of the scripts.
LEMMA ScriptStep ==
    ASSUME NEW n \in 0..MaxServers, Types(n), PidWritten, Orderly(n),
           \/ Enter \/ Early \/ StartFails \/ LoseServer \/ abort \/ backup \/ Again
           \/ open_dialog \/ stop_parted_server \/ UNCHANGED vars
    PROVE  Types(n)' /\ PidWritten' /\ Orderly(n)'
<1> USE ConstantsAssumption DEF Servers, files, servers, scripts
<1>1. CASE \E there \in {"early", "testing", "abort"} :
             /\ at \in {"outside", "early", "menu"} /\ at' = there
             /\ at = "outside" => there # "abort" /\ there # "testing"
             /\ UNCHANGED <<files, servers, out, cmd, goal, causes, deaths>>
    <2>1. Types(n)' /\ PidWritten'
        BY <1>1 DEF Types, PidWritten, Places
    <2>2. Orderly(n)'
        BY <1>1 DEF Types, Orderly, Last, Resting, Talking
    <2> QED
        BY <2>1, <2>2
<1>2. CASE StartFails
    <2>1. srv[n] = "gone"
        BY <1>2, StartedCount DEF StartFails
    <2>2. causes # {}
        BY <1>2, <2>1 DEF StartFails, Types, Orderly, Last, Resting
    <2> QED
        BY <1>2, <2>2 DEF StartFails, Types, PidWritten, Orderly, Places
<1>3. CASE LoseServer
    <2>1. causes # {}
        BY <1>3 DEF LoseServer, Types, Orderly, Last, Resting, Talking
    <2> QED
        BY <1>3, <2>1 DEF LoseServer, Types, PidWritten, Orderly, Places
<1>4. CASE abort
    <2>1. CASE pidfile # NoFile
        BY <1>4, <2>1, OpenStep DEF abort
    <2>2. CASE pidfile = NoFile
        <3>1. Types(n)' /\ PidWritten'
            BY <1>4, <2>2 DEF abort, Types, PidWritten, Places, overlap
        <3>2. Orderly(n)'
            BY <1>4, <2>2 DEF abort, Types, Orderly, Last, Resting, Talking, overlap
        <3> QED
            BY <3>1, <3>2
    <2> QED
        BY <2>1, <2>2
<1>5. CASE open_dialog
    BY <1>5, OpenStep DEF open_dialog
<1>6. CASE stop_parted_server
    BY <1>6, OpenStep DEF stop_parted_server
<1>7. CASE UNCHANGED vars
    BY <1>7 DEF vars, Types, PidWritten, Orderly, Last
<1> QED
    BY <1>1, <1>2, <1>3, <1>4, <1>5, <1>6, <1>7 DEF Enter, Early, backup, Again

\* The invariant is inductive: its n is the number of servers started so far.
THEOREM Inductive == Spec => []IInv
<1>1. Init => IInv
    BY InitIInv
<1>2. IInv /\ [Next]_vars => IInv'
    <2> SUFFICES ASSUME NEW n \in 0..MaxServers, Types(n), PidWritten, Orderly(n), [Next]_vars
                 PROVE  IInv'
        BY DEF IInv
    <2>1. CASE \E s \in Servers : serve(s) \/ Die(s) \/ Kill(s)
        BY <2>1, ServerStep DEF IInv
    <2>2. CASE init_parted
        BY <2>2, StartStep
    <2>3. CASE \/ Enter \/ Early \/ StartFails \/ LoseServer \/ abort \/ backup \/ Again
               \/ open_dialog \/ stop_parted_server \/ UNCHANGED vars
        BY <2>3, ScriptStep DEF IInv
    <2> QED
        BY <2>1, <2>2, <2>3 DEF Next, run
<1> QED
    BY <1>1, <1>2, PTL DEF Spec

\* Every variable keeps its type, and init.d/parted never waits for a server that
\* is at work already.
THEOREM TypeCorrect == Spec => []TypeOK
<1>1. IInv => TypeOK
    BY StartedCount DEF IInv, Types, TypeOK, Places, Stages
<1> QED
    BY <1>1, Inductive, PTL

\* The pid file names a living server unless one was killed, whatever else went
\* wrong: each server that exits removes it.
THEOREM PidFile == Spec => []PidNamesServer
<1>1. IInv => PidNamesServer
    BY DEF IInv, PidWritten, PidNamesServer, alive, Starting, Exiting
<1> QED
    BY <1>1, Inductive, PTL

\* In the menu there is a server that opens the infifo the scripts would open.
THEOREM Ready == Spec => []ServerReady
<1>1. IInv => ServerReady
    BY ConstantsAssumption DEF IInv, Orderly, Last, ServerReady, Resting, Talking
<1> QED
    BY <1>1, Inductive, PTL

\* No command is left in a regular file while nothing went wrong.
THEOREM NoStray == Spec => []NoStrayCommand
<1>1. IInv => NoStrayCommand
    BY ConstantsAssumption DEF IInv, Orderly, Last, NoStrayCommand, Servers
<1> QED
    BY <1>1, Inductive, PTL
=============================================================================
