---------------------------- MODULE PartedDialog ----------------------------
(***************************************************************************)
(* packages/partman-base: parted_server and a client script talking to it  *)
(* through three FIFOs (lib/base.sh).  A dialog is one command: the client *)
(* writes it to infifo and reads the reply from outfifo, answering the     *)
(* exceptions the server raises meanwhile; then both go through a sequence *)
(* of opens that keeps the next dialog from running into this one.  One    *)
(* device stands for the server's registry.                                *)
(***************************************************************************)
EXTENDS Naturals, Sequences, FiniteSets

CONSTANTS
    Tables,     \* contents a partition table can have
    NoTable,    \* no disk label
    Crowded,    \* the tables of fifty partitions or more
    Minimal,    \* a table with its extended partition made as small as possible
    Dialogs,    \* dialogs are numbered modulo this
    MaxWork,    \* exceptions and progress reports in one dialog
    IOErrors    \* kinds of device: whether reading and writing it may fail

ASSUME ConstantsAssumption ==
    /\ NoTable \notin Tables
    /\ Crowded \subseteq Tables
    /\ Minimal \in [Tables -> Tables]
    /\ \A t \in Tables : /\ Minimal[Minimal[t]] = Minimal[t]
                         /\ Minimal[t] \in Crowded <=> t \in Crowded
    /\ Dialogs \in Nat /\ Dialogs >= 2
    /\ MaxWork \in Nat \ {0}
    /\ IOErrors \subseteq BOOLEAN

Procs == {"server", "client"}
Fifos == {"infifo", "outfifo", "stopfifo"}
Other(mode) == IF mode = "r" THEN "w" ELSE "r"
Disks == Tables \cup {NoTable}

\* The tables that differ from a table at most in their extended partition.
alike(table) == {t \in Tables : table \in Tables /\ Minimal[t] = Minimal[table]}

OnPartitions == {"RESIZE_PARTITION", "GET_RESIZE_RANGE", "NEW_PARTITION"}
Commands == {"OPEN", "CLOSE", "IS_CHANGED", "DISK_UNCHANGED", "PARTITIONS",
             "COMMIT", "UNDO", "NEW_LABEL"} \cup OnPartitions
Words == Commands \cup {"answer", "OK", "exception", "Timer", "progress",
                        "ready", "value", "end"}
Lines == [word : Words, dialog : 1..Dialogs, yes : BOOLEAN]

-----------------------------------------------------------------------------
\* The two programs.  "read", "run", "idle", "write" and "talk" are the steps
\* that do more than to open, to close or to read a FIFO to its end.

step(op) == [op |-> op, fifo |-> "none", mode |-> "none"]
open(f, mode) == [op |-> "open", fifo |-> f, mode |-> mode]
close(f) == [op |-> "close", fifo |-> f, mode |-> "none"]
drain(f) == [op |-> "drain", fifo |-> f, mode |-> "none"]

synchronise(mode) == <<open("stopfifo", mode), close("stopfifo")>>

close_fifos_and_synchronise ==
    <<close("infifo"), close("outfifo")>> \o synchronise("r")
    \o <<open("outfifo", "r"), drain("outfifo"), close("outfifo")>> \o synchronise("r")
    \o <<open("infifo", "w"), close("infifo")>> \o synchronise("r")

close_dialog ==
    <<close("outfifo"), close("infifo")>> \o synchronise("w")
    \o <<open("outfifo", "w"), close("outfifo")>> \o synchronise("w")
    \o <<open("infifo", "r"), drain("infifo"), close("infifo")>> \o synchronise("w")

main_loop ==
    <<open("infifo", "r"), step("read"), open("outfifo", "w"), step("run")>>
    \o close_fifos_and_synchronise

open_dialog ==
    <<step("idle"), open("infifo", "w"), step("write"), open("outfifo", "r"), step("talk")>>

\* Mutated programs: they close the FIFOs and begin again at once.
Program_closing_only == [p \in Procs |->
    (IF p = "server" THEN SubSeq(main_loop, 1, 4) ELSE open_dialog)
    \o <<close("infifo"), close("outfifo")>>]

Program == [p \in Procs |-> IF p = "server" THEN main_loop ELSE open_dialog \o close_dialog]

VARIABLES
    at,         \* [Procs -> position in Program]
    opening,    \* [Procs -> "no", "waits" or "met"]: the open in progress
    ends,       \* open ends of FIFOs: <<fifo, mode, process>>
    buf,        \* [Fifos -> lines not read yet]
    fault,      \* what went wrong, or "none"
    \* server
    command,    \* the command being run, with its dialog
    stage,      \* "work", "asked" (an exception is unanswered) or "reply"
    timer_started,
    work,       \* exceptions and progress reports so far in this dialog
    left,       \* lines of the reply still to write
    dev, disk, changed, geometries,  \* its struct devdisk
    waived,     \* history: a change was declared none, and never written
    media,      \* table on the device itself
    fails,      \* reading and writing the device may fail
    \* client
    dialog,     \* number of the current dialog
    request,    \* its command
    hearing,    \* "handler", "timer" or "results": who reads the next line
    opened,     \* the client knows the device to be open
    listed      \* and knows partitions on it

ipc == <<at, opening, ends, buf, fault>>
registry == <<dev, disk, changed, geometries, waived, media, fails>>
serving == <<command, stage, timer_started, work, left>>
asking == <<dialog, request, hearing, opened, listed>>
vars == <<ipc, serving, registry, asking>>

-----------------------------------------------------------------------------
\* FIFOs.  An open waits until the other end has been opened since; a waiting
\* process already counts as a holder of its end.  A FIFO nobody holds loses
\* what was in it.

holders(f, mode) == {p \in Procs : <<f, mode, p>> \in ends}
now(p) == Program[p][at[p]]
doing(p, op) == fault = "none" /\ now(p).op = op
succ(p) == IF at[p] = Len(Program[p]) THEN 1 ELSE at[p] + 1
advance(p) == at' = [at EXCEPT ![p] = succ(p)]

met(f, mode) == {q \in Procs : /\ opening[q] = "waits"
                               /\ now(q).fifo = f /\ now(q).mode = mode}

Open(p) ==
    /\ doing(p, "open") /\ opening[p] = "no"
    /\ LET f == now(p).fifo
           mode == now(p).mode
           woken == met(f, Other(mode))
       IN
       /\ ends' = ends \cup {<<f, mode, p>>}
       /\ IF holders(f, Other(mode)) # {}
          THEN /\ opening' = [q \in Procs |-> IF q \in woken THEN "met" ELSE opening[q]]
               /\ advance(p)
          ELSE /\ opening' = [opening EXCEPT ![p] = "waits"]
               /\ UNCHANGED at
    /\ UNCHANGED <<buf, fault, serving, registry, asking>>

Opened(p) ==
    /\ doing(p, "open") /\ opening[p] = "met"
    /\ opening' = [opening EXCEPT ![p] = "no"]
    /\ advance(p)
    /\ UNCHANGED <<ends, buf, fault, serving, registry, asking>>

Close(p) ==
    /\ doing(p, "close")
    /\ LET f == now(p).fifo IN
       /\ ends' = {e \in ends : e[1] # f \/ e[3] # p}
       /\ buf' = IF \E e \in ends' : e[1] = f THEN buf ELSE [buf EXCEPT ![f] = <<>>]
    /\ advance(p)
    /\ UNCHANGED <<opening, fault, serving, registry, asking>>

\* Read until the writers are gone.
Drain(p) ==
    /\ doing(p, "drain")
    /\ holders(now(p).fifo, "w") = {}
    /\ buf' = [buf EXCEPT ![now(p).fifo] = <<>>]
    /\ advance(p)
    /\ UNCHANGED <<opening, ends, fault, serving, registry, asking>>

line(word, d, yes) == [word |-> word, dialog |-> d, yes |-> yes]

\* A write that nobody can read any more kills the writer.
put(f, lines) ==
    /\ buf' = [buf EXCEPT ![f] = @ \o lines]
    /\ fault' = IF holders(f, "r") = {} THEN "SIGPIPE" ELSE "none"

\* A read waits for a line or for the last writer to close; it then finds
\* nothing.
readable(f) == buf[f] # <<>> \/ holders(f, "w") = {}
Nothing == line("end", 1, FALSE)
first(f) == IF buf[f] = <<>> THEN Nothing ELSE Head(buf[f])
rest(f) == IF buf[f] = <<>> THEN <<>> ELSE Tail(buf[f])
take(f) == buf' = [buf EXCEPT ![f] = rest(f)]

-----------------------------------------------------------------------------
\* The server's commands.

\* How many lines follow OK.
ReplyLines(c) == IF c \in {"OPEN", "IS_CHANGED"} \cup OnPartitions THEN {1}
                 ELSE IF c = "PARTITIONS" THEN {1, 2} ELSE {0}

\* Commands during which libparted may raise exceptions or show its progress.
Talkative == {"OPEN", "COMMIT", "NEW_LABEL", "NEW_PARTITION", "RESIZE_PARTITION"}
Timered == {"RESIZE_PARTITION"}

\* On a machine with its firmware on the disk, COMMIT looks at the path of the
\* table's device before it asks whether there is a table.
no_table(c) == c = "COMMIT" /\ disk = NoTable

\* scan_device_name and the checks a command makes; all but CLOSE, whose
\* assertion comes later, make them before they open outfifo.
ReadCommand ==
    /\ doing("server", "read")
    /\ readable("infifo")
    /\ LET c == first("infifo") IN
       /\ take("infifo")
       /\ command' = c
       /\ fault' \in IF \/ c.word \notin Commands
                        \/ ~dev /\ c.word # "OPEN"
                        \/ c.word \in OnPartitions /\ disk = NoTable
                     THEN {"critical_error"}
                     ELSE {"none"} \cup (IF no_table(c.word) THEN {"no_table"} ELSE {})
    /\ stage' = "work" /\ work' = 0
    /\ advance("server")
    /\ UNCHANGED <<opening, ends, timer_started, left, registry, asking>>

serves == doing("server", "run")
says(words) == put("outfifo", [i \in DOMAIN words |-> line(words[i], command.dialog, FALSE)])

start_timer ==
    /\ serves /\ stage = "work" /\ ~timer_started
    /\ command.word \in Timered
    /\ says(<<"Timer">>)
    /\ timer_started' = TRUE
    /\ UNCHANGED <<at, opening, ends, command, stage, work, left, registry, asking>>

timer_handler ==
    /\ serves /\ stage = "work" /\ timer_started /\ work < MaxWork
    /\ says(<<"progress">>)
    /\ work' = work + 1
    /\ UNCHANGED <<at, opening, ends, command, stage, timer_started, left,
                   registry, asking>>

\* The progress bar is put away for the question and brought back before the
\* answer is read.
pseudo_exception ==
    /\ serves /\ stage = "work" /\ work < MaxWork
    /\ command.word \in Talkative
    /\ says(IF timer_started THEN <<"ready", "exception", "Timer">> ELSE <<"exception">>)
    /\ stage' = "asked"
    /\ work' = work + 1
    /\ UNCHANGED <<at, opening, ends, command, timer_started, left, registry, asking>>

\* A mutated exception handler: after an answer the work begins afresh.
ReadAnswer_afresh ==
    /\ serves /\ stage = "asked"
    /\ readable("infifo")
    /\ take("infifo")
    /\ fault' = IF first("infifo").word = "answer" THEN "none" ELSE "critical_error"
    /\ stage' = "work" /\ work' = 0
    /\ UNCHANGED <<at, opening, ends, command, timer_started, left, registry, asking>>

ReadAnswer ==
    /\ serves /\ stage = "asked"
    /\ readable("infifo")
    /\ take("infifo")
    /\ fault' = IF first("infifo").word = "answer" THEN "none" ELSE "critical_error"
    /\ stage' = "work"
    /\ UNCHANGED <<at, opening, ends, command, timer_started, work, left, registry, asking>>

\* What a command does to the registry and the device.  ped_disk_new returns
\* the table on the device or nothing; ped_disk_commit writes or fails.
ped_disk_new == {media} \cup (IF fails THEN {NoTable} ELSE {})
committed(table) == {table} \cup (IF fails THEN {media} ELSE {})

\* The geometries stand for the partitions of the table as it was when the server
\* last took it to be the device's.
remember_geometries_named == geometries' = disk'
unchange_named == changed' = FALSE /\ remember_geometries_named

\* Some partition of the table in memory, or none of them, is on the device.
some_partition_is_virtual == geometries # disk
every_partition_is_virtual == geometries = NoTable

command_open ==
    /\ dev' \in IF dev THEN {TRUE} ELSE BOOLEAN
    /\ IF dev' THEN disk' \in ped_disk_new /\ unchange_named
       ELSE UNCHANGED <<disk, changed, geometries>>
    /\ UNCHANGED media

\* A mutated command_close: it keeps the device.
command_close_disk_only ==
    /\ disk' = NoTable
    /\ UNCHANGED <<dev, changed, geometries, media>>

command_close ==
    /\ dev' = FALSE /\ disk' = NoTable
    /\ UNCHANGED <<changed, geometries, media>>

command_commit ==
    /\ media' \in IF disk # NoTable /\ changed THEN committed(disk) ELSE {media}
    /\ UNCHANGED <<dev, disk>>
    /\ unchange_named

command_undo ==
    /\ disk' \in ped_disk_new
    /\ unchange_named
    /\ UNCHANGED <<dev, media>>

\* A mutated command_new_label: it does not note the change.
command_new_label_unnoted ==
    /\ disk' \in Disks \ Crowded
    /\ UNCHANGED <<dev, changed, geometries, media>>

\* The fresh label stays in memory; there is none if it cannot be created.
command_new_label ==
    /\ changed' = TRUE
    /\ disk' \in Disks \ Crowded
    /\ UNCHANGED <<dev, geometries, media>>

\* It writes nothing.
command_disk_unchanged ==
    /\ UNCHANGED <<dev, disk, media>>
    /\ unchange_named

\* Listing the partitions makes the extended one minimal, if that can be done,
\* and does not count as a change.
command_partitions ==
    /\ disk' \in {disk} \cup {Minimal[t] : t \in Tables \cap {disk}}
    /\ UNCHANGED <<dev, changed, geometries, media>>

\* Neither does asking how far a logical partition can grow, for which the
\* extended one is made as large, then as small, as it can be.
command_get_resize_range ==
    /\ disk' \in alike(disk)
    /\ UNCHANGED <<dev, changed, geometries, media>>

\* The partition is added in memory, or cannot be.
command_new_partition ==
    /\ changed' = TRUE
    /\ disk' \in Tables
    /\ UNCHANGED <<dev, geometries, media>>

\* The tables with as many partitions, as far as that matters.
as_many(table) == {t \in Tables : t \in Crowded <=> table \in Crowded}

\* A partition that is on the device is resized there, and the whole table
\* written at once; any other one is resized in memory only.
command_resize_partition ==
    /\ \/ /\ ~every_partition_is_virtual
          /\ disk' \in as_many(disk)
          /\ media' \in committed(disk')
          /\ unchange_named
       \/ /\ disk' \in alike(disk) /\ changed' = TRUE   \* the resize failed
          /\ UNCHANGED <<geometries, media>>
       \/ /\ some_partition_is_virtual
          /\ disk' \in as_many(disk) /\ changed' = TRUE
          /\ UNCHANGED <<geometries, media>>
    /\ UNCHANGED dev

\* A change that DISK_UNCHANGED took off the record stays off it until the table
\* is read again, written for another change or changed again.
StaysWaived ==
    CASE command.word = "DISK_UNCHANGED" -> waived \/ changed
      [] command.word = "COMMIT" -> waived /\ ~changed
      [] command.word = "OPEN" -> waived /\ ~dev'
      [] command.word \in {"IS_CHANGED", "PARTITIONS", "GET_RESIZE_RANGE"} -> waived
      [] OTHER -> FALSE

Effect ==
    /\ \/ command.word = "OPEN" /\ command_open
       \/ command.word = "CLOSE" /\ command_close
       \/ command.word = "IS_CHANGED" /\ UNCHANGED <<dev, disk, changed, geometries, media>>
       \/ command.word = "DISK_UNCHANGED" /\ command_disk_unchanged
       \/ command.word = "PARTITIONS" /\ command_partitions
       \/ command.word = "COMMIT" /\ command_commit
       \/ command.word = "UNDO" /\ command_undo
       \/ command.word = "NEW_LABEL" /\ command_new_label
       \/ command.word = "NEW_PARTITION" /\ command_new_partition
       \/ command.word = "RESIZE_PARTITION" /\ command_resize_partition
       \/ command.word = "GET_RESIZE_RANGE" /\ command_get_resize_range
    /\ waived' = StaysWaived

\* The server can remember the geometries of forty-nine partitions.
too_many == geometries' \in Crowded

\* The end of the work: OK.  Opening an open device is worth a warning.
Finish ==
    /\ serves /\ stage = "work"
    /\ command.word = "OPEN" /\ dev => work > 0
    /\ says(IF timer_started THEN <<"ready", "OK">> ELSE <<"OK">>)
    /\ timer_started' = FALSE
    /\ Effect /\ ~too_many
    /\ left' \in ReplyLines(command.word)
    /\ stage' = "reply"
    /\ UNCHANGED <<at, opening, ends, command, work, fails, asking>>

\* Or there are more, and the server exits in the middle of the command.
TooManyPartitions ==
    /\ serves /\ stage = "work"
    /\ command.word = "OPEN" /\ dev => work > 0
    /\ Effect /\ too_many
    /\ fault' = "crowded"
    /\ UNCHANGED <<at, opening, ends, buf, serving, fails, asking>>

\* NEW_LABEL closes the device and opens it again; without it the server exits.
CannotReopen ==
    /\ serves /\ stage = "work" /\ command.word = "NEW_LABEL"
    /\ fails
    /\ fault' = "reopen"
    /\ dev' = FALSE /\ disk' = NoTable /\ changed' = TRUE
    /\ waived' = FALSE
    /\ UNCHANGED <<at, opening, ends, buf, serving, geometries, media, fails, asking>>

\* The lines after OK; a list ends with an empty line.
Reply ==
    /\ serves /\ stage = "reply" /\ left > 0
    /\ put("outfifo", <<line(
          IF command.word = "PARTITIONS" /\ left = 1 THEN "end" ELSE "value",
          command.dialog,
          CASE command.word = "OPEN" -> dev
            [] command.word = "IS_CHANGED" -> changed
            [] OTHER -> disk # NoTable)>>)
    /\ left' = left - 1
    /\ UNCHANGED <<at, opening, ends, command, stage, timer_started, work,
                   registry, asking>>

EndCommand ==
    /\ serves /\ stage = "reply" /\ left = 0
    /\ advance("server")
    /\ UNCHANGED <<opening, ends, buf, fault, serving, registry, asking>>

-----------------------------------------------------------------------------
\* The client.  It obeys the documentation: a command on a device only while it
\* is open, and on a partition only when the server has listed it.

Allowed(c) ==
    /\ c # "OPEN" => opened
    /\ c \in OnPartitions => listed

StartDialog ==
    /\ doing("client", "idle")
    /\ \E c \in Commands : Allowed(c) /\ request' = c
    /\ dialog' = (dialog % Dialogs) + 1
    /\ hearing' = "handler"
    /\ advance("client")
    /\ UNCHANGED <<opening, ends, buf, fault, serving, registry, opened, listed>>

WriteCommand ==
    /\ doing("client", "write")
    /\ put("infifo", <<line(request, dialog, FALSE)>>)
    /\ advance("client")
    /\ UNCHANGED <<opening, ends, serving, registry, asking>>

said == first("outfifo")
hears(who) == doing("client", "talk") /\ hearing = who /\ readable("outfifo")

\* The client has no use for a line that is none of these.
Expect(words) == fault' = IF said.word \in words /\ buf["outfifo"] # <<>>
                          THEN "none" ELSE "client"

\* What the client knows once the dialog is over.
Learn(yes) ==
    /\ opened' = IF request = "OPEN" THEN yes ELSE opened /\ request # "CLOSE"
    /\ listed' = IF request = "PARTITIONS" THEN yes
                 ELSE /\ listed
                      /\ request \in {"IS_CHANGED", "DISK_UNCHANGED", "COMMIT"} \cup OnPartitions

\* error_handler reads OK: the dialog is over unless a result is to be read.
HearOK ==
    /\ hears("handler") /\ said.word = "OK"
    /\ take("outfifo")
    /\ IF 0 \in ReplyLines(request)
       THEN advance("client") /\ Learn(FALSE) /\ UNCHANGED hearing
       ELSE hearing' = "results" /\ UNCHANGED <<at, opened, listed>>
    /\ UNCHANGED <<opening, ends, fault, serving, registry, dialog, request>>

HearTimer ==
    /\ hears("handler") /\ said.word = "Timer"
    /\ take("outfifo")
    /\ hearing' = "timer"
    /\ UNCHANGED <<at, opening, ends, fault, serving, registry, dialog, request, opened, listed>>

\* Any other line begins an exception.  It is always answered, if only by
\* "unhandled".
HearException ==
    /\ hears("handler") /\ said.word \notin {"OK", "Timer"}
    /\ buf' = [buf EXCEPT !["outfifo"] = rest("outfifo"),
                          !["infifo"] = Append(@, line("answer", dialog, FALSE))]
    /\ Expect(IF holders("infifo", "r") = {} THEN {} ELSE {"exception"})
    /\ UNCHANGED <<at, opening, ends, serving, registry, asking>>

HearProgress ==
    /\ hears("timer")
    /\ take("outfifo")
    /\ hearing' = IF said.word = "ready" THEN "handler" ELSE "timer"
    /\ Expect({"progress", "ready"})
    /\ UNCHANGED <<at, opening, ends, serving, registry, dialog, request, opened, listed>>

\* read_line, or the last line for read_paragraph.
HearResult ==
    /\ hears("results")
    /\ request = "PARTITIONS" => said.word = "end"
    /\ take("outfifo")
    /\ advance("client")
    /\ Learn(said.yes)
    /\ Expect({IF request = "PARTITIONS" THEN "end" ELSE "value"})
    /\ UNCHANGED <<opening, ends, serving, registry, dialog, request, hearing>>

HearItem ==
    /\ hears("results") /\ request = "PARTITIONS" /\ said.word # "end"
    /\ take("outfifo")
    /\ Expect({"value"})
    /\ UNCHANGED <<at, opening, ends, serving, registry, asking>>

-----------------------------------------------------------------------------
Init ==
    /\ at = [p \in Procs |-> 1]
    /\ opening = [p \in Procs |-> "no"]
    /\ ends = {}
    /\ buf = [f \in Fifos |-> <<>>]
    /\ fault = "none"
    /\ command = line("OK", 1, FALSE)
    /\ stage = "work" /\ timer_started = FALSE /\ work = 0 /\ left = 0
    /\ dev = FALSE /\ disk = NoTable /\ changed = FALSE /\ geometries = NoTable
    /\ waived = FALSE
    /\ media \in Disks /\ fails \in IOErrors
    /\ dialog = 1 /\ request = "OPEN" /\ hearing = "handler"
    /\ opened = FALSE /\ listed = FALSE

Move(p) == Open(p) \/ Opened(p) \/ Close(p) \/ Drain(p)

ServerNext ==
    \/ Move("server")
    \/ ReadCommand \/ start_timer \/ timer_handler \/ pseudo_exception \/ ReadAnswer
    \/ Finish \/ TooManyPartitions \/ CannotReopen \/ Reply \/ EndCommand

ClientNext ==
    \/ Move("client")
    \/ StartDialog \/ WriteCommand
    \/ HearOK \/ HearTimer \/ HearProgress \/ HearException \/ HearResult \/ HearItem

\* The server has exited.
Exited == fault # "none" /\ UNCHANGED vars

Next == ServerNext \/ ClientNext \/ Exited

Spec == Init /\ [][Next]_vars

\* Both are processes the kernel schedules; the client goes on with its script.
FairSpec == Spec /\ WF_vars(ServerNext) /\ WF_vars(ClientNext)

-----------------------------------------------------------------------------
(***************************************************************************)
(* Properties.                                                             *)
(***************************************************************************)

\* The three ways in which a client that obeys the documentation may still make
\* the server exit: the device cannot be opened again (NEW_LABEL), its table is one
\* the server takes up and has fifty partitions or more, or COMMIT is said of a
\* device without a table on a machine with its firmware on the disk.
ServerExits ==
    \/ fault = "reopen" /\ command.word = "NEW_LABEL"
    \/ fault = "crowded" /\ disk \in Crowded /\ ~changed
    \/ fault = "no_table" /\ command.word = "COMMIT" /\ disk = NoTable

\* Except in these, the server never exits, and neither program ever reads past
\* the end of a FIFO, reads a line the other did not mean there, or writes to a
\* FIFO nobody reads.  Nor does a command end with its timer running:
\* start_timer asserts that.
NoFault == (fault = "none" \/ ServerExits) /\ (stage = "reply" => ~timer_started)

\* A client that reads a reply reads the reply to its own command: the opens
\* and closes between two dialogs keep them apart, and leave nothing behind.
OwnDialog ==
    /\ doing("client", "talk") => command = line(request, dialog, FALSE)
    /\ \A f \in Fifos : \A i \in DOMAIN buf[f] : buf[f][i].dialog = dialog
    /\ doing("client", "idle") => \A f \in Fifos : buf[f] = <<>>

\* Between two dialogs the client's idea of the device is the server's.
ClientKnows ==
    doing("client", "idle") => /\ opened = dev
                               /\ listed => disk # NoTable

\* "True iff the partition table has been changed": a table in memory that is
\* not marked changed is the one on the device, up to the extent of its extended
\* partition, which PARTITIONS and GET_RESIZE_RANGE alter without a mark, as long
\* as the device works and no client has taken the mark off by DISK_UNCHANGED.
ChangedTells ==
    ~fails /\ dev /\ ~changed /\ ~waived /\ disk # NoTable => disk \in alike(media)

\* The same of every device.
ChangedAlwaysTells ==
    dev /\ ~changed /\ ~waived /\ disk # NoTable => disk \in alike(media)

\* Every dialog ends, so the next one can begin, unless the server exits in it for
\* one of those three reasons.
EveryDialogEnds ==
    ~doing("client", "idle") ~> doing("client", "idle") \/ ServerExits
=============================================================================
