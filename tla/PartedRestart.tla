----------------------------- MODULE PartedRestart -----------------------------
(***************************************************************************)
(* packages/partman-base: the life of parted_server.  init.d/parted starts *)
(* it unless there is a pid file, and waits until it has made its FIFOs;   *)
(* the scripts of partman talk to it, and stop it before they start it     *)
(* again or leave.  QUIT has no answer, so a script goes on while the      *)
(* server is still removing its files.  Dialogs are those of PartedDialog, *)
(* here without their content.                                             *)
(***************************************************************************)
EXTENDS Naturals, FiniteSets

CONSTANTS
    MaxServers, \* servers started in one behaviour
    MaxDeaths   \* servers that die or are killed

ASSUME ConstantsAssumption == MaxServers \in Nat /\ MaxDeaths \in Nat

Servers == 1..MaxServers

\* A file is known by the server that made it.
NoFile == 0
RegularFile == MaxServers + 1
Files == 0..MaxServers + 1

VARIABLES
    \* files
    pidfile,
    infifo,
    line,       \* the command in the regular file
    others,     \* outfifo and stopfifo exist
    \* servers
    srv,        \* where each server is
    fd,         \* the infifo it is opening
    \* the scripts
    at,         \* where they are: "outside" of partman, in its "early" init
                \* scripts, "testing" the pid file in init.d/parted, "starting"
                \* the server, in the "menu", "opening" infifo, in a "dialog"
                \* or in "abort"
    out,        \* the infifo they are opening
    cmd,        \* the command they are to send
    goal,       \* where they go after QUIT
    \* what has gone wrong so far
    causes,     \* "overlap": a script looked at the files while a server was
                \* removing them; "died", "killed": a server ended by itself
    deaths

files == <<pidfile, infifo, line, others>>
servers == <<srv, fd>>
scripts == <<at, out, cmd, goal>>
vars == <<files, servers, scripts, causes, deaths>>

Starting == {"check", "fifos", "signal"}
Working == {"loop", "waiting", "serving", "behind"}
Exiting == {"unlink_pid", "unlink_fifos"}
alive(s) == srv[s] \in Starting \cup Working \cup Exiting
started == {s \in Servers : srv[s] # "none"}

overlap == IF \E s \in Servers : srv[s] \in Exiting THEN {"overlap"} ELSE {}

Init ==
    /\ pidfile = NoFile /\ infifo = NoFile /\ line = "none" /\ others = FALSE
    /\ srv = [s \in Servers |-> "none"] /\ fd = [s \in Servers |-> NoFile]
    /\ at = "outside" /\ out = NoFile /\ cmd = "none" /\ goal = "none"
    /\ causes = {} /\ deaths = 0

goto(s, where) == srv' = [srv EXCEPT ![s] = where]

-----------------------------------------------------------------------------
\* The server.

\* write_pid_file: a pid file that names a living process makes it exit(250),
\* before cleanup_and_die is registered.
write_pid_file(s) ==
    /\ srv[s] = "check"
    /\ IF pidfile # NoFile /\ alive(pidfile)
       THEN goto(s, "gone") /\ UNCHANGED pidfile
       ELSE goto(s, "fifos") /\ pidfile' = s
    /\ UNCHANGED <<infifo, line, others, fd, scripts, causes, deaths>>

\* The three FIFOs, here in one step.  Whatever has the name of a FIFO already is left.
make_fifos(s) ==
    /\ srv[s] = "fifos"
    /\ infifo' = IF infifo = NoFile THEN s ELSE infifo
    /\ others' = TRUE
    /\ goto(s, "signal")
    /\ UNCHANGED <<pidfile, line, fd, scripts, causes, deaths>>

\* A mutated server: it forgets its parent.
signal_ready_not(s) ==
    /\ srv[s] = "signal"
    /\ goto(s, "loop")
    /\ UNCHANGED <<files, fd, scripts, causes, deaths>>

\* SIGUSR1: the parent, which init.d/parted has started, exits with 0.
signal_ready(s) ==
    /\ srv[s] = "signal"
    /\ goto(s, "loop")
    /\ at' = IF at = "starting" THEN "menu" ELSE at
    /\ UNCHANGED <<files, fd, out, cmd, goal, causes, deaths>>

\* The fopen of open_in waits for a writer, unless it fails or there is a regular
\* file: then the server exits for want of data, quits, or does the command that
\* is in it and waits in open_out for somebody to take the answer.
open_in(s) ==
    /\ srv[s] = "loop"
    /\ goto(s, IF infifo \in Servers THEN "waiting"
               ELSE IF infifo = RegularFile /\ line = "dialog" THEN "behind"
               ELSE "unlink_pid")
    /\ fd' = [fd EXCEPT ![s] = infifo]
    /\ UNCHANGED <<files, scripts, causes, deaths>>

\* A script has opened the same FIFO: the server reads its command.
ReadCommand(s) ==
    /\ srv[s] = "waiting"
    /\ at = "opening" /\ out = fd[s]
    /\ IF cmd = "QUIT"
       THEN goto(s, "unlink_pid") /\ at' = goal
       ELSE goto(s, "serving") /\ at' = "dialog"
    /\ UNCHANGED <<files, fd, out, cmd, goal, causes, deaths>>

\* A script reads the answer to somebody else's command.
StaleAnswer(s) ==
    /\ srv[s] = "behind"
    /\ at = "opening" /\ out = RegularFile /\ others
    /\ goto(s, "serving") /\ at' = "dialog"
    /\ UNCHANGED <<files, fd, out, cmd, goal, causes, deaths>>

\* The dialog ends on both sides.  To synchronise the server opens infifo for
\* writing, which empties a regular file.
EndDialog(s) ==
    /\ srv[s] = "serving" /\ at = "dialog"
    /\ goto(s, "loop") /\ at' = "menu"
    /\ line' = "none"
    /\ UNCHANGED <<pidfile, infifo, others, fd, out, cmd, goal, causes, deaths>>

\* A mutated cleanup_and_die: it leaves the pid file behind.
unlink_pid_not(s) ==
    /\ srv[s] = "unlink_pid"
    /\ goto(s, "unlink_fifos")
    /\ UNCHANGED <<files, fd, scripts, causes, deaths>>

\* cleanup_and_die: the pid file first,
unlink_pid(s) ==
    /\ srv[s] = "unlink_pid"
    /\ pidfile' = NoFile
    /\ goto(s, "unlink_fifos")
    /\ UNCHANGED <<infifo, line, others, fd, scripts, causes, deaths>>

\* then what has the names of the FIFOs by now.
unlink_fifos(s) ==
    /\ srv[s] = "unlink_fifos"
    /\ infifo' = NoFile /\ line' = "none" /\ others' = FALSE
    /\ goto(s, "gone")
    /\ UNCHANGED <<pidfile, fd, scripts, causes, deaths>>

serve(s) ==
    \/ write_pid_file(s) \/ make_fifos(s) \/ signal_ready(s) \/ open_in(s)
    \/ ReadCommand(s) \/ StaleAnswer(s) \/ EndDialog(s) \/ unlink_pid(s) \/ unlink_fifos(s)

\* An exit where a file cannot be made, within a command, or by critical_error.
Die(s) ==
    /\ srv[s] \in {"check", "fifos", "serving"}
    /\ deaths < MaxDeaths /\ deaths' = deaths + 1
    /\ causes' = causes \cup {"died"}
    /\ goto(s, IF srv[s] = "check" THEN "gone" ELSE "unlink_pid")
    /\ UNCHANGED <<files, fd, scripts>>

\* A server that is killed removes nothing.
Kill(s) ==
    /\ alive(s)
    /\ deaths < MaxDeaths /\ deaths' = deaths + 1
    /\ causes' = causes \cup {"killed"}
    /\ goto(s, "killed")
    /\ UNCHANGED <<files, fd, scripts>>

-----------------------------------------------------------------------------
\* The scripts.

\* The user runs partman, and all goes well until init.d/parted, or not.
Enter ==
    /\ at = "outside"
    /\ Cardinality(started) < MaxServers
    /\ at' = "early"
    /\ UNCHANGED <<files, servers, out, cmd, goal, causes, deaths>>

Early ==
    /\ at = "early"
    /\ at' \in {"testing", "abort"}
    /\ UNCHANGED <<files, servers, out, cmd, goal, causes, deaths>>

\* init.d/parted: a server is started only when there is no pid file.
init_parted ==
    /\ at = "testing"
    /\ causes' = causes \cup overlap
    /\ IF pidfile # NoFile
       THEN at' = "menu" /\ UNCHANGED srv
       ELSE /\ at' = "starting"
            /\ Cardinality(started) < MaxServers
            /\ goto(Cardinality(started) + 1, "check")
    /\ UNCHANGED <<files, fd, out, cmd, goal, deaths>>

\* SIGCHLD: the server has exited before it was ready.  The handler does nothing
\* about one that was killed.
StartFails ==
    /\ at = "starting"
    /\ srv[Cardinality(started)] = "gone"
    /\ at' = "abort"
    /\ UNCHANGED <<files, servers, out, cmd, goal, causes, deaths>>

\* open_infifo and write_line: without a FIFO the shell makes a regular file and
\* does not wait.
open_infifo(c, after) ==
    /\ causes' = causes \cup overlap
    /\ cmd' = c /\ goal' = after
    /\ IF infifo \in Servers
       THEN /\ out' = infifo
            /\ at' = "opening"
            /\ UNCHANGED <<infifo, line>>
       ELSE /\ out' = RegularFile
            /\ infifo' = RegularFile /\ line' = c
            /\ at' = IF c = "QUIT" THEN after ELSE "opening"
    /\ UNCHANGED <<pidfile, others, servers, deaths>>

open_dialog ==
    /\ at = "menu"
    /\ open_infifo("dialog", "menu")

\* QUIT has no answer: the script goes on, to restart_partman, to the end, or to
\* a later script of finish.d that fails.
stop_parted_server ==
    /\ at = "menu"
    /\ \E after \in {"early", "outside", "abort"} : open_infifo("QUIT", after)

\* The server is gone in the middle of a dialog, or there is no outfifo and the
\* shell ends the script.
LoseServer ==
    /\ \/ at = "dialog" /\ \A s \in Servers : srv[s] # "serving"
       \/ at = "opening" /\ out = RegularFile /\ ~others
    /\ at' = "abort"
    /\ UNCHANGED <<files, servers, out, cmd, goal, causes, deaths>>

\* A mutated abort: it stops the server without looking whether there is one.
abort_untested ==
    /\ at = "abort"
    /\ open_infifo("QUIT", "outside")

\* Backing up, errors: the server is stopped if there is a pid file.
abort ==
    /\ at = "abort"
    /\ IF pidfile # NoFile
       THEN open_infifo("QUIT", "outside")
       ELSE /\ at' = "outside"
            /\ causes' = causes \cup overlap
            /\ UNCHANGED <<files, servers, out, cmd, goal, deaths>>

backup ==
    /\ at = "menu"
    /\ at' = "abort"
    /\ UNCHANGED <<files, servers, out, cmd, goal, causes, deaths>>

\* A script of commit.d or an early one of finish.d fails: the init scripts run
\* once more, with the server still at work.
Again ==
    /\ at = "menu"
    /\ at' = "early"
    /\ UNCHANGED <<files, servers, out, cmd, goal, causes, deaths>>

run == Early \/ init_parted \/ StartFails \/ LoseServer \/ abort

Next ==
    \/ \E s \in Servers : serve(s) \/ Die(s) \/ Kill(s)
    \/ run \/ Enter \/ open_dialog \/ stop_parted_server \/ backup \/ Again

Spec == Init /\ [][Next]_vars

\* Processes that can run do.  What the user does is up to the user.
FairSpec ==
    /\ Spec
    /\ \A s \in Servers : WF_vars(serve(s))
    /\ WF_vars(run)
-----------------------------------------------------------------------------
\* Properties.

\* Every variable holds a value of its kind, and the parent waits for no server
\* that is at work.
TypeOK ==
    /\ pidfile \in Servers \cup {NoFile}
    /\ infifo \in Files
    /\ line \in {"none", "dialog", "QUIT"} /\ others \in BOOLEAN
    /\ srv \in [Servers -> Starting \cup Working \cup Exiting \cup {"none", "gone", "killed"}]
    /\ fd \in [Servers -> Files]
    /\ at \in {"outside", "early", "testing", "starting", "menu", "opening", "dialog", "abort"}
    /\ at = "starting" => srv[Cardinality(started)] \notin Working
    /\ out \in Files /\ cmd \in {"none", "dialog", "QUIT"}
    /\ goal \in {"none", "menu", "early", "outside", "abort"}
    /\ causes \subseteq {"overlap", "died", "killed"} /\ deaths \in 0..MaxDeaths

\* The scripts are in the menu, after the first start or a restart, only with a
\* server that is ready to take requests: it opens, or will open, the infifo that
\* has the name now.  The only ways to lose it are a server that ended by itself
\* and a script that went on while the one before was still removing its files.
ServerReady ==
    at = "menu" /\ causes = {} =>
        \E s \in Servers :
            /\ pidfile = s /\ infifo = s
            /\ srv[s] = "loop" \/ (srv[s] = "waiting" /\ fd[s] = s)

\* A command is written into a regular file, for a server that is started later
\* to take it for one of its own, only after one of the same causes.
NoStrayCommand == infifo = RegularFile => causes # {}

\* init.d/parted may rely on the pid file: one that names no living server was
\* left by a server that was killed, never by a restart or an error exit.
PidNamesServer == pidfile # NoFile => alive(pidfile) \/ "killed" \in causes

\* No script waits for ever: for the start of the server, for its FIFO, or for
\* the end of a dialog.
NeverStuck ==
    at \in {"starting", "opening", "dialog"} ~> at = "menu" \/ at = goal \/ causes # {}
=============================================================================
