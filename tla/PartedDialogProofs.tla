-------------------------- MODULE PartedDialogProofs --------------------------
(***************************************************************************)
(* The dialogs of partman's clients with parted_server are right for any   *)
(* tables, any number of exceptions and progress reports, and any number   *)
(* of dialogs.  The two programs pass their opens in pairs, so each is in  *)
(* the same phase of the dialog as the other; within a phase it is known   *)
(* which ends of the FIFOs are open and what is in them.                   *)
(***************************************************************************)
EXTENDS PartedDialog, TLAPS

-----------------------------------------------------------------------------
\* The server's idea of what has changed, which does not depend on the dialog.

\* A table that is not marked changed, and whose mark nobody took off, is the one on
\* a device that works up to its extended partition, be the device open or not.
Noted == /\ fails \in BOOLEAN /\ dev \in BOOLEAN /\ changed \in BOOLEAN
         /\ waived \in BOOLEAN /\ disk \in Disks /\ media \in Disks
         /\ ~fails /\ ~changed /\ ~waived /\ disk # NoTable => disk \in alike(media)

\* A table is alike to itself; one with its extended partition made minimal, or
\* one that is alike, is alike to what the table is alike to.
LEMMA Alike ==
    /\ \A t \in Tables : t \in alike(t) /\ Minimal[t] \in Tables
    /\ \A t, u : t \in alike(u) => /\ t \in Tables /\ u \in Tables
                                   /\ Minimal[t] \in alike(u)
                                   /\ \A v : v \in alike(t) => v \in alike(u)
  BY ConstantsAssumption DEF alike

\* Every command keeps the mark right.
LEMMA EffectNoted ==
    ASSUME Noted, Effect, fails' = fails
    PROVE  Noted'
<1>1. /\ waived' = StaysWaived /\ fails' = fails
      /\ \A t \in Disks : t # NoTable => t \in Tables
      /\ \A t \in Tables : t \in Disks /\ t # NoTable
  BY ConstantsAssumption DEF Effect, Disks
<1>2. CASE command.word = "OPEN" /\ command_open
  <2>1. waived' = (waived /\ ~dev')
    BY <1>1, <1>2 DEF StaysWaived
  <2>2. dev' \in BOOLEAN
    BY <1>2, Zenon DEF command_open, Noted
  <2>3. CASE dev'
    BY <1>1, <1>2, <2>1, <2>3, Alike DEF Noted, command_open, unchange_named, ped_disk_new, Disks
  <2>4. CASE ~dev'
    BY <1>1, <1>2, <2>1, <2>2, <2>4 DEF Noted, command_open, alike
  <2>5. QED
    BY <2>2, <2>3, <2>4
<1>3. CASE command.word = "CLOSE" /\ command_close
  BY <1>1, <1>3 DEF Noted, command_close, StaysWaived, Disks
<1>4. CASE /\ command.word = "IS_CHANGED"
           /\ UNCHANGED <<dev, disk, changed, geometries, media>>
  BY <1>1, <1>4 DEF Noted, StaysWaived, alike
<1>5. CASE command.word = "DISK_UNCHANGED" /\ command_disk_unchanged
  <2>1. waived' = (waived \/ changed)
    BY <1>1, <1>5 DEF StaysWaived
  <2>2. waived' \in BOOLEAN
    BY <2>1, Zenon DEF Noted
  <2>3. /\ UNCHANGED <<dev, disk, media>> /\ changed' = FALSE /\ (waived' <=> waived \/ changed)
        /\ alike(media') = alike(media)
    BY <1>5, <2>1 DEF command_disk_unchanged, unchange_named
  <2>4. ~fails' /\ ~waived' /\ disk' # NoTable => disk' \in alike(media')
    BY <1>1, <2>3 DEF Noted
  <2>5. fails' \in BOOLEAN /\ dev' \in BOOLEAN /\ disk' \in Disks /\ media' \in Disks
    BY <1>1, <2>3 DEF Noted
  <2>6. QED
    BY <2>2, <2>3, <2>4, <2>5, Zenon DEF Noted
<1>6. CASE command.word = "PARTITIONS" /\ command_partitions
  <2>1. waived' = waived /\ UNCHANGED <<dev, changed, media>>
    BY <1>1, <1>6 DEF StaysWaived, command_partitions
  <2>2. disk' = disk \/ (disk \in Tables /\ disk' = Minimal[disk])
    BY <1>6 DEF command_partitions
  <2>3. disk' \in Disks /\ alike(media') = alike(media)
    BY <1>1, <2>1, <2>2, Alike DEF Noted
  <2>4. ~fails /\ ~changed /\ ~waived /\ disk' # NoTable => disk' \in alike(media)
    BY <1>1, <2>2, Alike DEF Noted
  <2>5. QED
    BY <1>1, <2>1, <2>3, <2>4 DEF Noted
<1>7. CASE command.word = "COMMIT" /\ command_commit
  <2>1. waived' = (waived /\ ~changed) /\ UNCHANGED <<dev, disk>> /\ changed' = FALSE
    BY <1>1, <1>7 DEF StaysWaived, command_commit, unchange_named
  <2>2. media' \in Disks
    BY <1>7 DEF Noted, command_commit, committed
  <2>3. ~fails /\ ~waived' /\ disk # NoTable => disk \in alike(media')
    BY <1>1, <1>7, <2>1, Alike DEF Noted, command_commit, committed
  <2>4. waived' \in BOOLEAN
    BY <2>1, Zenon DEF Noted
  <2>5. /\ fails' \in BOOLEAN /\ dev' \in BOOLEAN /\ disk' \in Disks
        /\ fails' = fails /\ disk' = disk /\ changed' = FALSE
    BY <1>1, <2>1 DEF Noted
  <2>6. ~fails' /\ ~waived' /\ disk' # NoTable => disk' \in alike(media')
    BY <2>3, <2>5
  <2>7. changed' \in BOOLEAN
    BY <2>5
  <2>8. QED
    BY <2>2, <2>4, <2>5, <2>6, <2>7 DEF Noted, alike
<1>8. CASE command.word = "UNDO" /\ command_undo
  BY <1>1, <1>8, Alike DEF Noted, command_undo, unchange_named, ped_disk_new, StaysWaived, Disks
<1>9. CASE command.word = "NEW_LABEL" /\ command_new_label
  BY <1>1, <1>9 DEF Noted, command_new_label, StaysWaived, Disks
<1>10. CASE command.word = "NEW_PARTITION" /\ command_new_partition
  BY <1>1, <1>10 DEF Noted, command_new_partition, StaysWaived, Disks
<1>11. CASE command.word = "GET_RESIZE_RANGE" /\ command_get_resize_range
  <2>1. waived' = waived /\ UNCHANGED <<dev, changed, media>> /\ disk' \in alike(disk)
    BY <1>1, <1>11 DEF StaysWaived, command_get_resize_range
  <2>2. disk' \in Disks /\ disk # NoTable /\ alike(media') = alike(media)
    BY <1>1, <2>1, Alike
  <2>3. ~fails /\ ~changed /\ ~waived => disk' \in alike(media)
    BY <2>1, <2>2, Alike DEF Noted
  <2>4. QED
    BY <1>1, <2>1, <2>2, <2>3 DEF Noted
<1>12. CASE command.word = "RESIZE_PARTITION" /\ command_resize_partition
  <2>1. waived' = FALSE /\ dev' = dev
    BY <1>1, <1>12 DEF StaysWaived, command_resize_partition
  <2>2. disk' \in Tables
    BY <1>12, Alike DEF command_resize_partition, as_many
  <2>3. media' \in Disks /\ changed' \in BOOLEAN /\ (~fails /\ ~changed' => media' = disk')
    BY <1>1, <1>12, <2>2 DEF Noted, command_resize_partition, unchange_named, committed
  <2>4. ~fails /\ ~changed' => disk' \in alike(media')
    BY <2>2, <2>3, Alike
  <2>5. /\ fails' \in BOOLEAN /\ dev' \in BOOLEAN /\ disk' \in Disks
        /\ fails' = fails /\ waived' \in BOOLEAN
    BY <1>1, <2>1, <2>2 DEF Noted
  <2>6. QED
    BY <2>3, <2>4, <2>5 DEF Noted, alike
<1>13. QED
  BY <1>2, <1>3, <1>4, <1>5, <1>6, <1>7, <1>8, <1>9, <1>10, <1>11, <1>12 DEF Effect

\* No step of the two programs makes the mark wrong.
LEMMA NextNoted == Noted /\ [Next]_vars => Noted'
<1>1. SUFFICES ASSUME Noted, [Next]_vars
               PROVE  Noted'
  OBVIOUS
<1>2. CASE Finish \/ TooManyPartitions
  BY <1>1, <1>2, EffectNoted DEF Finish, TooManyPartitions
<1>3. CASE CannotReopen
  BY <1>1, <1>3 DEF CannotReopen, Noted, Disks
<1>4. CASE UNCHANGED registry
  BY <1>1, <1>4 DEF Noted, registry, alike
<1>5. ASSUME NEW p \in Procs, Move(p)
      PROVE  UNCHANGED registry
  BY <1>5 DEF Move, Open, Opened, Close, Drain, registry
<1>6. CASE ServerNext
  BY <1>2, <1>3, <1>4, <1>5, <1>6 DEF ServerNext, Procs, registry, ReadCommand, start_timer,
     timer_handler, pseudo_exception, ReadAnswer, Reply, EndCommand
<1>7. CASE ClientNext
  BY <1>4, <1>5, <1>7 DEF ClientNext, Procs, registry, StartDialog, WriteCommand, HearOK,
     HearTimer, HearProgress, HearException, HearResult, HearItem
<1>8. CASE UNCHANGED vars
  BY <1>4, <1>8 DEF vars, registry
<1>9. QED
  BY <1>1, <1>6, <1>7, <1>8 DEF Next, Exited

\* parted_server.c's "True iff the partition table has been changed": on a device
\* that can be read and written, a table IS_CHANGED calls unchanged differs from the
\* device's at most in its extended partition, unless DISK_UNCHANGED took the mark off.
THEOREM MarkIsTrue == Spec => []ChangedTells
<1>1. Init => Noted
  BY ConstantsAssumption DEF Init, Noted, Disks
<1>2. Noted => ChangedTells
  BY DEF Noted, ChangedTells
<1>3. QED
  BY <1>1, <1>2, NextNoted, PTL DEF Spec

\* As long as the server runs it remembers fewer than fifty partitions.
Room == fault = "none" => geometries \notin Crowded

\* A command leaves the geometries, or takes up those of a table it calls unchanged.
LEMMA EffectRemembers ==
    ASSUME Effect
    PROVE  geometries' = geometries \/ (geometries' = disk' /\ changed' = FALSE)
  BY DEF Effect, command_open, command_close, command_disk_unchanged, command_partitions,
     command_commit, command_undo, command_new_label, command_new_partition,
     command_get_resize_range, command_resize_partition, unchange_named,
     remember_geometries_named

\* No step makes it run out of room and run on.
LEMMA NextRoom == Room /\ [Next]_vars => Room'
<1>1. SUFFICES ASSUME Room, [Next]_vars
               PROVE  Room'
  OBVIOUS
<1>2. CASE Finish
  BY <1>2 DEF Finish, too_many, Room
<1>3. CASE TooManyPartitions \/ CannotReopen
  BY <1>3 DEF TooManyPartitions, CannotReopen, Room
<1>4. CASE UNCHANGED geometries /\ (fault' = "none" => fault = "none")
  BY <1>1, <1>4 DEF Room
<1>5. ASSUME NEW p \in Procs, Move(p)
      PROVE  UNCHANGED geometries /\ fault' = fault
  BY <1>5 DEF Move, Open, Opened, Close, Drain, registry
<1>6. CASE ServerNext
  BY <1>2, <1>3, <1>4, <1>5, <1>6 DEF ServerNext, Procs, registry, ReadCommand, start_timer,
     timer_handler, pseudo_exception, ReadAnswer, Reply, EndCommand, serves, doing
<1>7. CASE ClientNext
  BY <1>4, <1>5, <1>7 DEF ClientNext, Procs, registry, StartDialog, WriteCommand, HearOK,
     HearTimer, HearProgress, HearException, HearResult, HearItem, hears, doing
<1>8. CASE UNCHANGED vars
  BY <1>4, <1>8 DEF vars, registry, ipc
<1>9. QED
  BY <1>1, <1>6, <1>7, <1>8 DEF Next, Exited

-----------------------------------------------------------------------------
\* The two programs, step by step.

\* main_loop with close_fifos_and_synchronise: seventeen steps.
LEMMA ServerProgram ==
    /\ Program["server"] = main_loop /\ Len(main_loop) = 17
    /\ main_loop[1] = open("infifo", "r") /\ main_loop[2] = step("read")
    /\ main_loop[3] = open("outfifo", "w") /\ main_loop[4] = step("run")
    /\ main_loop[5] = close("infifo") /\ main_loop[6] = close("outfifo")
    /\ main_loop[7] = open("stopfifo", "r") /\ main_loop[8] = close("stopfifo")
    /\ main_loop[9] = open("outfifo", "r") /\ main_loop[10] = drain("outfifo")
    /\ main_loop[11] = close("outfifo")
    /\ main_loop[12] = open("stopfifo", "r") /\ main_loop[13] = close("stopfifo")
    /\ main_loop[14] = open("infifo", "w") /\ main_loop[15] = close("infifo")
    /\ main_loop[16] = open("stopfifo", "r") /\ main_loop[17] = close("stopfifo")
  BY DEF Program, Procs, main_loop, close_fifos_and_synchronise, synchronise, step, open,
     close, drain

\* A dialog of the scripts, from open_dialog to close_dialog.
script == open_dialog \o close_dialog

\* It has eighteen steps.
LEMMA ClientProgram ==
    /\ Program["client"] = script /\ Len(script) = 18
    /\ script[1] = step("idle") /\ script[2] = open("infifo", "w")
    /\ script[3] = step("write") /\ script[4] = open("outfifo", "r")
    /\ script[5] = step("talk")
    /\ script[6] = close("outfifo") /\ script[7] = close("infifo")
    /\ script[8] = open("stopfifo", "w") /\ script[9] = close("stopfifo")
    /\ script[10] = open("outfifo", "w") /\ script[11] = close("outfifo")
    /\ script[12] = open("stopfifo", "w") /\ script[13] = close("stopfifo")
    /\ script[14] = open("infifo", "r") /\ script[15] = drain("infifo")
    /\ script[16] = close("infifo")
    /\ script[17] = open("stopfifo", "w") /\ script[18] = close("stopfifo")
  BY DEF script, Program, Procs, open_dialog, close_dialog, synchronise, step, open, close, drain

-----------------------------------------------------------------------------
\* The phases of a dialog.

S == at["server"]
C == at["client"]

\* How many opens a program has behind it at a position.
Passed(p, i) ==
    IF p = "server"
    THEN IF i = 1 \/ i = 17 THEN 0 ELSE IF i < 4 THEN 1 ELSE IF i < 8 THEN 2
         ELSE IF i < 10 THEN 3 ELSE IF i < 13 THEN 4 ELSE IF i < 15 THEN 5 ELSE 6
    ELSE IF i < 3 \/ i = 18 THEN 0 ELSE IF i < 5 THEN 1 ELSE IF i < 9 THEN 2
         ELSE IF i < 11 THEN 3 ELSE IF i < 13 THEN 4 ELSE IF i < 15 THEN 5 ELSE 6

\* The phase of the dialog a program is in; an open that has met counts.
Phase(p, i, o) == IF o = "met" THEN IF Passed(p, i) = 6 THEN 0 ELSE Passed(p, i) + 1
                  ELSE Passed(p, i)

Opens(p) == IF p = "server" THEN {1, 3, 7, 9, 12, 14, 16} ELSE {2, 4, 8, 10, 12, 14, 17}

\* An end is held from its open, waiting included, to its close.
Between(i, o, from, to) == (i = from /\ o # "no") \/ (from < i /\ i <= to)
ServerHolds(f, m, i, o) ==
    \/ f = "infifo" /\ m = "r" /\ Between(i, o, 1, 5)
    \/ f = "outfifo" /\ m = "w" /\ Between(i, o, 3, 6)
    \/ f = "outfifo" /\ m = "r" /\ Between(i, o, 9, 11)
    \/ f = "infifo" /\ m = "w" /\ Between(i, o, 14, 15)
    \/ f = "stopfifo" /\ m = "r"
       /\ (Between(i, o, 7, 8) \/ Between(i, o, 12, 13) \/ Between(i, o, 16, 17))
ClientHolds(f, m, i, o) ==
    \/ f = "infifo" /\ m = "w" /\ Between(i, o, 2, 7)
    \/ f = "outfifo" /\ m = "r" /\ Between(i, o, 4, 6)
    \/ f = "outfifo" /\ m = "w" /\ Between(i, o, 10, 11)
    \/ f = "infifo" /\ m = "r" /\ Between(i, o, 14, 16)
    \/ f = "stopfifo" /\ m = "w"
       /\ (Between(i, o, 8, 9) \/ Between(i, o, 12, 13) \/ Between(i, o, 17, 18))

\* Server and client are in the same phase, and do not wait for each other.
Together(i, o, j, q) ==
    /\ i \in 1..17 /\ j \in 1..18
    /\ o # "no" => i \in Opens("server")
    /\ q # "no" => j \in Opens("client")
    /\ Phase("server", i, o) = Phase("client", j, q)
    /\ ~(o = "waits" /\ q = "waits")

Placed ==
    /\ at \in [Procs -> Nat] /\ opening \in [Procs -> {"no", "waits", "met"}]
    /\ Together(S, opening["server"], C, opening["client"])

\* The open ends are those their programs should hold.
Held ==
    \A f \in Fifos, m \in {"r", "w"} :
        /\ <<f, m, "server">> \in ends <=> ServerHolds(f, m, S, opening["server"])
        /\ <<f, m, "client">> \in ends <=> ClientHolds(f, m, C, opening["client"])

InStep == Placed /\ Held

\* What the server does at each position.
LEMMA ServerNow ==
    ASSUME S \in 1..17
    PROVE  /\ now("server") = main_loop[S] /\ Len(Program["server"]) = 17
           /\ now("server").op = "open" <=> S \in Opens("server")
           /\ now("server").op = "close" <=> S \in {5, 6, 8, 11, 13, 15, 17}
           /\ now("server").op = "drain" <=> S = 10
           /\ now("server").op = "read" <=> S = 2
           /\ now("server").op = "run" <=> S = 4
           /\ now("server").fifo = IF S \in {1, 5, 14, 15} THEN "infifo"
                                   ELSE IF S \in {3, 6, 9, 10, 11} THEN "outfifo"
                                   ELSE IF S \in {2, 4} THEN "none" ELSE "stopfifo"
           /\ S \in Opens("server") =>
                 now("server").mode = IF S \in {3, 14} THEN "w" ELSE "r"
  BY ServerProgram DEF S, now, Opens, open, close, drain, step

\* What the client does at each position.
LEMMA ClientNow ==
    ASSUME C \in 1..18
    PROVE  /\ Len(Program["client"]) = 18
           /\ now("client").op = "open" <=> C \in Opens("client")
           /\ now("client").op = "close" <=> C \in {6, 7, 9, 11, 13, 16, 18}
           /\ now("client").op = "drain" <=> C = 15
           /\ now("client").op = "idle" <=> C = 1
           /\ now("client").op = "write" <=> C = 3
           /\ now("client").op = "talk" <=> C = 5
           /\ now("client").fifo = IF C \in {2, 7, 14, 15, 16} THEN "infifo"
                                   ELSE IF C \in {4, 6, 10, 11} THEN "outfifo"
                                   ELSE IF C \in {1, 3, 5} THEN "none" ELSE "stopfifo"
           /\ C \in Opens("client") =>
                 now("client").mode = IF C \in {4, 14} THEN "r" ELSE "w"
  BY ClientProgram DEF C, now, Opens, open, close, drain, step

\* An open of the server meets the client exactly when the client waits, and then
\* they open the same FIFO.
LEMMA ServerMeets ==
    ASSUME InStep, S \in Opens("server"), opening["server"] = "no"
    PROVE  LET f == now("server").fifo
               mode == now("server").mode
           IN /\ f \in Fifos /\ mode \in {"r", "w"}
              /\ holders(f, Other(mode)) # {} <=> opening["client"] = "waits"
              /\ opening["client"] = "waits" => met(f, Other(mode)) = {"client"}
<1> DEFINE f == now("server").fifo
           mode == now("server").mode
<1>1. S \in 1..17 /\ C \in 1..18 /\ opening["client"] \in {"no", "waits", "met"}
  BY DEF InStep, Placed, Together, Procs
<1>2. /\ f = IF S \in {1, 14} THEN "infifo" ELSE IF S \in {3, 9} THEN "outfifo" ELSE "stopfifo"
      /\ mode = IF S \in {3, 14} THEN "w" ELSE "r"
  BY <1>1, ServerNow DEF Opens
<1>3. C \in Opens("client") =>
        /\ now("client").fifo = IF C \in {2, 14} THEN "infifo"
                                ELSE IF C \in {4, 10} THEN "outfifo" ELSE "stopfifo"
        /\ now("client").mode = IF C \in {4, 14} THEN "r" ELSE "w"
  BY <1>1, ClientNow DEF Opens
<1> HIDE DEF f, mode
<1>4. f \in Fifos /\ mode \in {"r", "w"} /\ Other(mode) \in {"r", "w"}
  BY <1>2 DEF Fifos, Other
<1>5. Together(S, "no", C, opening["client"])
  BY DEF InStep, Placed
<1>6. ~ServerHolds(f, Other(mode), S, "no")
  BY <1>1, <1>2 DEF ServerHolds, Between, Other, Opens
<1>7. opening["client"] = "waits" =>
         /\ now("client").fifo = f /\ now("client").mode = Other(mode)
         /\ ClientHolds(f, Other(mode), C, opening["client"])
  BY <1>1, <1>2, <1>3, <1>5 DEF Together, Phase, Passed, Opens, ClientHolds, Between, Other
<1>8. ClientHolds(f, Other(mode), C, opening["client"]) => opening["client"] = "waits"
  BY <1>1, <1>2, <1>5 DEF Together, Phase, Passed, Opens, ClientHolds, Between, Other
<1>9. holders(f, Other(mode)) # {} <=> opening["client"] = "waits"
  <2>1. "server" \notin holders(f, Other(mode))
    BY <1>4, <1>6 DEF InStep, Held, holders
  <2>2. "client" \in holders(f, Other(mode)) <=> opening["client"] = "waits"
    BY <1>4, <1>7, <1>8 DEF InStep, Held, holders, Procs
  <2>3. QED
    BY <2>1, <2>2 DEF holders, Procs
<1>10. opening["client"] = "waits" => met(f, Other(mode)) = {"client"}
  BY <1>7 DEF met, Procs
<1>11. QED
  BY <1>4, <1>9, <1>10 DEF f, mode

\* Likewise of an open of the client.
LEMMA ClientMeets ==
    ASSUME InStep, C \in Opens("client"), opening["client"] = "no"
    PROVE  LET f == now("client").fifo
               mode == now("client").mode
           IN /\ f \in Fifos /\ mode \in {"r", "w"}
              /\ holders(f, Other(mode)) # {} <=> opening["server"] = "waits"
              /\ opening["server"] = "waits" => met(f, Other(mode)) = {"server"}
<1> DEFINE f == now("client").fifo
           mode == now("client").mode
<1>1. S \in 1..17 /\ C \in 1..18 /\ opening["server"] \in {"no", "waits", "met"}
  BY DEF InStep, Placed, Together, Procs
<1>2. S \in Opens("server") =>
        /\ now("server").fifo = IF S \in {1, 14} THEN "infifo"
                                ELSE IF S \in {3, 9} THEN "outfifo" ELSE "stopfifo"
        /\ now("server").mode = IF S \in {3, 14} THEN "w" ELSE "r"
  BY <1>1, ServerNow DEF Opens
<1>3. /\ f = IF C \in {2, 14} THEN "infifo" ELSE IF C \in {4, 10} THEN "outfifo" ELSE "stopfifo"
      /\ mode = IF C \in {4, 14} THEN "r" ELSE "w"
  BY <1>1, ClientNow DEF Opens
<1> HIDE DEF f, mode
<1>4. f \in Fifos /\ mode \in {"r", "w"} /\ Other(mode) \in {"r", "w"}
  BY <1>3 DEF Fifos, Other
<1>5. Together(S, opening["server"], C, "no")
  BY DEF InStep, Placed
<1>6. ~ClientHolds(f, Other(mode), C, "no")
  BY <1>1, <1>3 DEF ClientHolds, Between, Other, Opens
<1>7. opening["server"] = "waits" =>
         /\ now("server").fifo = f /\ now("server").mode = Other(mode)
         /\ ServerHolds(f, Other(mode), S, opening["server"])
  BY <1>1, <1>2, <1>3, <1>5 DEF Together, Phase, Passed, Opens, ServerHolds, Between, Other
<1>8. ServerHolds(f, Other(mode), S, opening["server"]) => opening["server"] = "waits"
  BY <1>1, <1>3, <1>5 DEF Together, Phase, Passed, Opens, ServerHolds, Between, Other
<1>9. holders(f, Other(mode)) # {} <=> opening["server"] = "waits"
  <2>1. "client" \notin holders(f, Other(mode))
    BY <1>4, <1>6 DEF InStep, Held, holders
  <2>2. "server" \in holders(f, Other(mode)) <=> opening["server"] = "waits"
    BY <1>4, <1>7, <1>8 DEF InStep, Held, holders, Procs
  <2>3. QED
    BY <2>1, <2>2 DEF holders, Procs
<1>10. opening["server"] = "waits" => met(f, Other(mode)) = {"server"}
  BY <1>7 DEF met, Procs
<1>11. QED
  BY <1>4, <1>9, <1>10 DEF f, mode

-----------------------------------------------------------------------------
\* What the moves of the two programs do to their positions.

\* The server begins again after its last step.
LEMMA ServerSucc == succ("server") = IF S = 17 THEN 1 ELSE S + 1
<1>1. Len(Program["server"]) = 17
  BY ServerProgram
<1>2. QED
  BY <1>1 DEF succ, S

\* So does the client.
LEMMA ClientSucc == succ("client") = IF C = 18 THEN 1 ELSE C + 1
<1>1. Len(Program["client"]) = 18
  BY ClientProgram
<1>2. QED
  BY <1>1 DEF succ, C

\* The open of the server is over at once if the client waits for it.
LEMMA ServerOpen ==
    ASSUME InStep, Open("server")
    PROVE  /\ S \in Opens("server") /\ opening["server"] = "no" /\ C' = C
           /\ IF opening["client"] = "waits"
              THEN S' = S + 1 /\ opening' = [p \in Procs |-> IF p = "client" THEN "met" ELSE "no"]
              ELSE S' = S /\ opening' = [opening EXCEPT !["server"] = "waits"]
           /\ at' \in [Procs -> Nat] /\ opening' \in [Procs -> {"no", "waits", "met"}]
           /\ ends' = ends \cup {<<now("server").fifo, now("server").mode, "server">>}
<1>1. S \in 1..17 /\ at \in [Procs -> Nat] /\ opening \in [Procs -> {"no", "waits", "met"}]
  BY DEF InStep, Placed, Together
<1>2. S \in Opens("server") /\ opening["server"] = "no"
  BY <1>1, ServerNow DEF Open, doing
<1>3. succ("server") = S + 1 /\ S < 17
  BY <1>1, <1>2, ServerSucc DEF Opens
<1>4. CASE opening["client"] = "waits"
  <2>1. /\ holders(now("server").fifo, Other(now("server").mode)) # {}
        /\ met(now("server").fifo, Other(now("server").mode)) = {"client"}
    BY <1>2, <1>4, ServerMeets
  <2>2. /\ advance("server")
        /\ opening' = [q \in Procs |-> IF q \in {"client"} THEN "met" ELSE opening[q]]
    BY <2>1 DEF Open
  <2>3. opening' = [p \in Procs |-> IF p = "client" THEN "met" ELSE "no"]
    BY <1>2, <2>2 DEF Procs
  <2>4. S' = S + 1 /\ C' = C /\ at' \in [Procs -> Nat]
    BY <1>1, <1>3, <2>2 DEF advance, S, C, Procs
  <2>5. ends' = ends \cup {<<now("server").fifo, now("server").mode, "server">>}
    BY DEF Open
  <2>6. QED
    BY <1>2, <1>4, <2>3, <2>4, <2>5 DEF Procs
<1>5. CASE opening["client"] # "waits"
  <2>1. holders(now("server").fifo, Other(now("server").mode)) = {}
    BY <1>2, <1>5, ServerMeets
  <2>2. opening' = [opening EXCEPT !["server"] = "waits"] /\ UNCHANGED at
    BY <2>1 DEF Open
  <2>3. S' = S /\ C' = C
    BY <2>2 DEF S, C
  <2>4. ends' = ends \cup {<<now("server").fifo, now("server").mode, "server">>}
    BY DEF Open
  <2>5. QED
    BY <1>1, <1>2, <1>5, <2>2, <2>3, <2>4 DEF Procs
<1>6. QED
  BY <1>4, <1>5

\* Likewise of the client.
LEMMA ClientOpen ==
    ASSUME InStep, Open("client")
    PROVE  /\ C \in Opens("client") /\ opening["client"] = "no" /\ S' = S
           /\ IF opening["server"] = "waits"
              THEN C' = C + 1 /\ opening' = [p \in Procs |-> IF p = "server" THEN "met" ELSE "no"]
              ELSE C' = C /\ opening' = [opening EXCEPT !["client"] = "waits"]
           /\ at' \in [Procs -> Nat] /\ opening' \in [Procs -> {"no", "waits", "met"}]
           /\ ends' = ends \cup {<<now("client").fifo, now("client").mode, "client">>}
<1>1. C \in 1..18 /\ at \in [Procs -> Nat] /\ opening \in [Procs -> {"no", "waits", "met"}]
  BY DEF InStep, Placed, Together
<1>2. C \in Opens("client") /\ opening["client"] = "no"
  BY <1>1, ClientNow DEF Open, doing
<1>3. succ("client") = C + 1 /\ C < 18
  BY <1>1, <1>2, ClientSucc DEF Opens
<1>4. CASE opening["server"] = "waits"
  <2>1. /\ holders(now("client").fifo, Other(now("client").mode)) # {}
        /\ met(now("client").fifo, Other(now("client").mode)) = {"server"}
    BY <1>2, <1>4, ClientMeets
  <2>2. /\ advance("client")
        /\ opening' = [q \in Procs |-> IF q \in {"server"} THEN "met" ELSE opening[q]]
    BY <2>1 DEF Open
  <2>3. opening' = [p \in Procs |-> IF p = "server" THEN "met" ELSE "no"]
    BY <1>2, <2>2 DEF Procs
  <2>4. C' = C + 1 /\ S' = S /\ at' \in [Procs -> Nat]
    BY <1>1, <1>3, <2>2 DEF advance, S, C, Procs
  <2>5. ends' = ends \cup {<<now("client").fifo, now("client").mode, "client">>}
    BY DEF Open
  <2>6. QED
    BY <1>2, <1>4, <2>3, <2>4, <2>5 DEF Procs
<1>5. CASE opening["server"] # "waits"
  <2>1. holders(now("client").fifo, Other(now("client").mode)) = {}
    BY <1>2, <1>5, ClientMeets
  <2>2. opening' = [opening EXCEPT !["client"] = "waits"] /\ UNCHANGED at
    BY <2>1 DEF Open
  <2>3. S' = S /\ C' = C
    BY <2>2 DEF S, C
  <2>4. ends' = ends \cup {<<now("client").fifo, now("client").mode, "client">>}
    BY DEF Open
  <2>5. QED
    BY <1>1, <1>2, <1>5, <2>2, <2>3, <2>4 DEF Procs
<1>6. QED
  BY <1>4, <1>5

\* Opens keep the programs in step.
LEMMA OpenInStep ==
    ASSUME InStep, NEW p \in Procs, Open(p)
    PROVE  InStep'
<1> DEFINE so == opening["server"]
           co == opening["client"]
<1>1. /\ S \in 1..17 /\ C \in 1..18 /\ so \in {"no", "waits", "met"}
      /\ co \in {"no", "waits", "met"} /\ Together(S, so, C, co)
  BY DEF InStep, Placed, Together, Procs
<1>2. \A f \in Fifos, m \in {"r", "w"} :
        /\ <<f, m, "server">> \in ends <=> ServerHolds(f, m, S, so)
        /\ <<f, m, "client">> \in ends <=> ClientHolds(f, m, C, co)
  BY DEF InStep, Held
<1>3. CASE p = "server"
  <2>1. Open("server")
    BY <1>3
  <2>2. /\ S \in Opens("server") /\ so = "no" /\ C' = C
        /\ IF co = "waits" THEN S' = S + 1 /\ so' = "no" /\ co' = "met"
           ELSE S' = S /\ so' = "waits" /\ co' = co
        /\ at' \in [Procs -> Nat] /\ opening' \in [Procs -> {"no", "waits", "met"}]
        /\ ends' = ends \cup {<<now("server").fifo, now("server").mode, "server">>}
    BY <2>1, ServerOpen DEF InStep, Placed, Procs
  <2>3. /\ now("server").fifo = IF S \in {1, 14} THEN "infifo"
                                ELSE IF S \in {3, 9} THEN "outfifo" ELSE "stopfifo"
        /\ now("server").mode = IF S \in {3, 14} THEN "w" ELSE "r"
    BY <1>1, <2>2, ServerNow DEF Opens
  <2> HIDE DEF so, co
  <2>4. Together(S', so', C', co')
    BY <1>1, <2>2 DEF Together, Phase, Passed, Opens
  <2>5. ASSUME NEW f \in Fifos, NEW m \in {"r", "w"}
        PROVE  <<f, m, "server">> \in ends' <=> ServerHolds(f, m, S', so')
    <3>1. <<f, m, "server">> \in ends' <=>
             \/ <<f, m, "server">> \in ends
             \/ f = now("server").fifo /\ m = now("server").mode
      BY <2>2
    <3>2. ServerHolds(f, m, S', so') <=>
             \/ ServerHolds(f, m, S, so)
             \/ f = now("server").fifo /\ m = now("server").mode
      BY <1>1, <2>2, <2>3 DEF ServerHolds, Between, Opens, Fifos
    <3>3. QED
      BY <1>2, <3>1, <3>2
  <2>6. ASSUME NEW f \in Fifos, NEW m \in {"r", "w"}
        PROVE  <<f, m, "client">> \in ends' <=> ClientHolds(f, m, C', co')
    <3>1. <<f, m, "client">> \in ends' <=> <<f, m, "client">> \in ends
      BY <2>2
    <3>2. ClientHolds(f, m, C', co') <=> ClientHolds(f, m, C, co)
      BY <1>1, <2>2 DEF ClientHolds, Between
    <3>3. QED
      BY <1>2, <3>1, <3>2
  <2>7. QED
    BY <2>2, <2>4, <2>5, <2>6 DEF InStep, Placed, Held, so, co
<1>4. CASE p = "client"
  <2>1. Open("client")
    BY <1>4
  <2>2. /\ C \in Opens("client") /\ co = "no" /\ S' = S
        /\ IF so = "waits" THEN C' = C + 1 /\ co' = "no" /\ so' = "met"
           ELSE C' = C /\ co' = "waits" /\ so' = so
        /\ at' \in [Procs -> Nat] /\ opening' \in [Procs -> {"no", "waits", "met"}]
        /\ ends' = ends \cup {<<now("client").fifo, now("client").mode, "client">>}
    BY <2>1, ClientOpen DEF InStep, Placed, Procs
  <2>3. /\ now("client").fifo = IF C \in {2, 14} THEN "infifo"
                                ELSE IF C \in {4, 10} THEN "outfifo" ELSE "stopfifo"
        /\ now("client").mode = IF C \in {4, 14} THEN "r" ELSE "w"
    BY <1>1, <2>2, ClientNow DEF Opens
  <2> HIDE DEF so, co
  <2>4. Together(S', so', C', co')
    BY <1>1, <2>2 DEF Together, Phase, Passed, Opens
  <2>5. ASSUME NEW f \in Fifos, NEW m \in {"r", "w"}
        PROVE  <<f, m, "client">> \in ends' <=> ClientHolds(f, m, C', co')
    <3>1. <<f, m, "client">> \in ends' <=>
             \/ <<f, m, "client">> \in ends
             \/ f = now("client").fifo /\ m = now("client").mode
      BY <2>2
    <3>2. ClientHolds(f, m, C', co') <=>
             \/ ClientHolds(f, m, C, co)
             \/ f = now("client").fifo /\ m = now("client").mode
      BY <1>1, <2>2, <2>3 DEF ClientHolds, Between, Opens, Fifos
    <3>3. QED
      BY <1>2, <3>1, <3>2
  <2>6. ASSUME NEW f \in Fifos, NEW m \in {"r", "w"}
        PROVE  <<f, m, "server">> \in ends' <=> ServerHolds(f, m, S', so')
    <3>1. <<f, m, "server">> \in ends' <=> <<f, m, "server">> \in ends
      BY <2>2
    <3>2. ServerHolds(f, m, S', so') <=> ServerHolds(f, m, S, so)
      BY <1>1, <2>2 DEF ServerHolds, Between
    <3>3. QED
      BY <1>2, <3>1, <3>2
  <2>7. QED
    BY <2>2, <2>4, <2>5, <2>6 DEF InStep, Placed, Held, so, co
<1>5. QED
  BY <1>3, <1>4 DEF Procs

\* The server goes on when its open has met.
LEMMA ServerOpened ==
    ASSUME InStep, Opened("server")
    PROVE  /\ S \in Opens("server") /\ opening["server"] = "met" /\ S' = S + 1 /\ C' = C
           /\ opening' = [opening EXCEPT !["server"] = "no"]
           /\ at' \in [Procs -> Nat] /\ ends' = ends
<1>1. S \in 1..17 /\ at \in [Procs -> Nat]
  BY DEF InStep, Placed, Together
<1>2. S \in Opens("server") /\ opening["server"] = "met"
  BY <1>1, ServerNow DEF Opened, doing
<1>3. succ("server") = S + 1
  BY <1>1, <1>2, ServerSucc DEF Opens
<1>4. S' = S + 1 /\ C' = C /\ at' \in [Procs -> Nat]
  BY <1>1, <1>3 DEF Opened, advance, S, C, Procs
<1>5. QED
  BY <1>2, <1>4 DEF Opened

\* And it goes on with a step that is no open.
LEMMA ServerStep ==
    ASSUME InStep, S \notin Opens("server"), advance("server"), opening' = opening
    PROVE  /\ opening["server"] = "no" /\ C' = C /\ at' \in [Procs -> Nat]
           /\ S' = IF S = 17 THEN 1 ELSE S + 1
<1>1. S \in 1..17 /\ at \in [Procs -> Nat] /\ opening["server"] = "no"
  BY DEF InStep, Placed, Together
<1>2. S' = succ("server") /\ C' = C
  BY <1>1 DEF advance, S, C, Procs
<1>3. succ("server") \in Nat /\ succ("server") = IF S = 17 THEN 1 ELSE S + 1
  BY <1>1, ServerSucc
<1>4. at' \in [Procs -> Nat]
  BY <1>1, <1>3 DEF advance
<1>5. QED
  BY <1>1, <1>2, <1>3, <1>4

\* An open that has met keeps the server in step.
LEMMA ServerOpenedInStep ==
    ASSUME InStep, Opened("server")
    PROVE  InStep'
<1> DEFINE so == opening["server"]
           co == opening["client"]
<1>1. /\ S \in 1..17 /\ C \in 1..18 /\ so \in {"no", "waits", "met"}
      /\ co \in {"no", "waits", "met"} /\ Together(S, so, C, co)
      /\ opening \in [Procs -> {"no", "waits", "met"}]
  BY DEF InStep, Placed, Together, Procs
<1>2. \A f \in Fifos, m \in {"r", "w"} :
        /\ <<f, m, "server">> \in ends <=> ServerHolds(f, m, S, so)
        /\ <<f, m, "client">> \in ends <=> ClientHolds(f, m, C, co)
  BY DEF InStep, Held
<1>3. /\ S \in Opens("server") /\ so = "met" /\ S' = S + 1 /\ C' = C
      /\ so' = "no" /\ co' = co /\ ends' = ends
      /\ at' \in [Procs -> Nat] /\ opening' \in [Procs -> {"no", "waits", "met"}]
  BY <1>1, ServerOpened DEF Procs
<1> HIDE DEF so, co
<1>4. Together(S', so', C', co')
  BY <1>1, <1>3 DEF Together, Phase, Passed, Opens
<1>5. ASSUME NEW f \in Fifos, NEW m \in {"r", "w"}
      PROVE  /\ ServerHolds(f, m, S', so') <=> ServerHolds(f, m, S, so)
             /\ ClientHolds(f, m, C', co') <=> ClientHolds(f, m, C, co)
  BY <1>1, <1>3 DEF ServerHolds, ClientHolds, Between, Opens, Fifos
<1>6. Held'
  BY <1>2, <1>3, <1>5 DEF Held, so, co
<1>7. QED
  BY <1>3, <1>4, <1>6 DEF InStep, Placed, so, co

\* So does a step at one of these positions that leaves the FIFOs open.
LEMMA ServerStepInStep ==
    ASSUME InStep, S \in {2, 4, 10}, advance("server"), opening' = opening, ends' = ends
    PROVE  InStep'
<1> DEFINE so == opening["server"]
           co == opening["client"]
<1>1. /\ S \in 1..17 /\ C \in 1..18 /\ so \in {"no", "waits", "met"}
      /\ co \in {"no", "waits", "met"} /\ Together(S, so, C, co)
      /\ opening \in [Procs -> {"no", "waits", "met"}]
  BY DEF InStep, Placed, Together, Procs
<1>2. \A f \in Fifos, m \in {"r", "w"} :
        /\ <<f, m, "server">> \in ends <=> ServerHolds(f, m, S, so)
        /\ <<f, m, "client">> \in ends <=> ClientHolds(f, m, C, co)
  BY DEF InStep, Held
<1>3. /\ so = "no" /\ S' = S + 1 /\ C' = C /\ at' \in [Procs -> Nat]
      /\ so' = so /\ co' = co
  BY <1>1, ServerStep DEF Opens
<1> HIDE DEF so, co
<1>4. Together(S', so', C', co')
  BY <1>1, <1>3 DEF Together, Phase, Passed, Opens
<1>5. ASSUME NEW f \in Fifos, NEW m \in {"r", "w"}
      PROVE  /\ ServerHolds(f, m, S', so') <=> ServerHolds(f, m, S, so)
             /\ ClientHolds(f, m, C', co') <=> ClientHolds(f, m, C, co)
  BY <1>1, <1>3 DEF ServerHolds, ClientHolds, Between, Opens, Fifos
<1>6. Held'
  BY <1>2, <1>3, <1>5 DEF Held, so, co
<1>7. QED
  BY <1>1, <1>3, <1>4, <1>6 DEF InStep, Placed, so, co

\* And a close.
LEMMA ServerCloseInStep ==
    ASSUME InStep, Close("server")
    PROVE  InStep'
<1> DEFINE so == opening["server"]
           co == opening["client"]
           g == now("server").fifo
<1>1. /\ S \in 1..17 /\ C \in 1..18 /\ so \in {"no", "waits", "met"}
      /\ co \in {"no", "waits", "met"} /\ Together(S, so, C, co)
      /\ opening \in [Procs -> {"no", "waits", "met"}]
  BY DEF InStep, Placed, Together, Procs
<1>2. \A f \in Fifos, m \in {"r", "w"} :
        /\ <<f, m, "server">> \in ends <=> ServerHolds(f, m, S, so)
        /\ <<f, m, "client">> \in ends <=> ClientHolds(f, m, C, co)
  BY DEF InStep, Held
<1>3. /\ S \in {5, 6, 8, 11, 13, 15, 17}
      /\ g = IF S \in {5, 15} THEN "infifo" ELSE IF S \in {6, 11} THEN "outfifo" ELSE "stopfifo"
  BY <1>1, ServerNow DEF Close, doing
<1>4. /\ so = "no" /\ S' = (IF S = 17 THEN 1 ELSE S + 1) /\ C' = C /\ at' \in [Procs -> Nat]
      /\ so' = so /\ co' = co
  BY <1>1, <1>3, ServerStep DEF Opens, Close
<1>5. ends' = {e \in ends : e[1] # g \/ e[3] # "server"}
  BY DEF Close
<1> HIDE DEF so, co, g
<1>6. Together(S', so', C', co')
  BY <1>1, <1>3, <1>4 DEF Together, Phase, Passed, Opens
<1>7. ASSUME NEW f \in Fifos, NEW m \in {"r", "w"}
      PROVE  /\ ServerHolds(f, m, S', so') <=> ServerHolds(f, m, S, so) /\ f # g
             /\ ClientHolds(f, m, C', co') <=> ClientHolds(f, m, C, co)
  BY <1>1, <1>3, <1>4 DEF ServerHolds, ClientHolds, Between, Fifos
<1>8. ASSUME NEW f \in Fifos, NEW m \in {"r", "w"}
      PROVE  /\ <<f, m, "server">> \in ends' <=> <<f, m, "server">> \in ends /\ f # g
             /\ <<f, m, "client">> \in ends' <=> <<f, m, "client">> \in ends
  BY <1>5
<1>9. Held'
  BY <1>2, <1>7, <1>8 DEF Held, so, co
<1>10. QED
  BY <1>1, <1>4, <1>6, <1>9 DEF InStep, Placed, Close, so, co

\* The client goes on when its open has met.
LEMMA ClientOpened ==
    ASSUME InStep, Opened("client")
    PROVE  /\ C \in Opens("client") /\ opening["client"] = "met" /\ C' = C + 1 /\ S' = S
           /\ opening' = [opening EXCEPT !["client"] = "no"]
           /\ at' \in [Procs -> Nat] /\ ends' = ends
<1>1. C \in 1..18 /\ at \in [Procs -> Nat]
  BY DEF InStep, Placed, Together
<1>2. C \in Opens("client") /\ opening["client"] = "met"
  BY <1>1, ClientNow DEF Opened, doing
<1>3. succ("client") = C + 1
  BY <1>1, <1>2, ClientSucc DEF Opens
<1>4. C' = C + 1 /\ S' = S /\ at' \in [Procs -> Nat]
  BY <1>1, <1>3 DEF Opened, advance, S, C, Procs
<1>5. QED
  BY <1>2, <1>4 DEF Opened

\* And it goes on with a step that is no open.
LEMMA ClientStep ==
    ASSUME InStep, C \notin Opens("client"), advance("client"), opening' = opening
    PROVE  /\ opening["client"] = "no" /\ S' = S /\ at' \in [Procs -> Nat]
           /\ C' = IF C = 18 THEN 1 ELSE C + 1
<1>1. C \in 1..18 /\ at \in [Procs -> Nat] /\ opening["client"] = "no"
  BY DEF InStep, Placed, Together
<1>2. C' = succ("client") /\ S' = S
  BY <1>1 DEF advance, S, C, Procs
<1>3. succ("client") \in Nat /\ succ("client") = IF C = 18 THEN 1 ELSE C + 1
  BY <1>1, ClientSucc
<1>4. at' \in [Procs -> Nat]
  BY <1>1, <1>3 DEF advance
<1>5. QED
  BY <1>1, <1>2, <1>3, <1>4

\* An open that has met keeps the client in step.
LEMMA ClientOpenedInStep ==
    ASSUME InStep, Opened("client")
    PROVE  InStep'
<1> DEFINE so == opening["server"]
           co == opening["client"]
<1>1. /\ S \in 1..17 /\ C \in 1..18 /\ so \in {"no", "waits", "met"}
      /\ co \in {"no", "waits", "met"} /\ Together(S, so, C, co)
      /\ opening \in [Procs -> {"no", "waits", "met"}]
  BY DEF InStep, Placed, Together, Procs
<1>2. \A f \in Fifos, m \in {"r", "w"} :
        /\ <<f, m, "server">> \in ends <=> ServerHolds(f, m, S, so)
        /\ <<f, m, "client">> \in ends <=> ClientHolds(f, m, C, co)
  BY DEF InStep, Held
<1>3. /\ C \in Opens("client") /\ co = "met" /\ C' = C + 1 /\ S' = S
      /\ co' = "no" /\ so' = so /\ ends' = ends
      /\ at' \in [Procs -> Nat] /\ opening' \in [Procs -> {"no", "waits", "met"}]
  BY <1>1, ClientOpened DEF Procs
<1> HIDE DEF so, co
<1>4. Together(S', so', C', co')
  BY <1>1, <1>3 DEF Together, Phase, Passed, Opens
<1>5. ASSUME NEW f \in Fifos, NEW m \in {"r", "w"}
      PROVE  /\ ServerHolds(f, m, S', so') <=> ServerHolds(f, m, S, so)
             /\ ClientHolds(f, m, C', co') <=> ClientHolds(f, m, C, co)
  BY <1>1, <1>3 DEF ServerHolds, ClientHolds, Between, Opens, Fifos
<1>6. Held'
  BY <1>2, <1>3, <1>5 DEF Held, so, co
<1>7. QED
  BY <1>3, <1>4, <1>6 DEF InStep, Placed, so, co

\* So does a step at one of these positions that leaves the FIFOs open.
LEMMA ClientStepInStep ==
    ASSUME InStep, C \in {1, 3, 5, 15}, advance("client"), opening' = opening, ends' = ends
    PROVE  InStep'
<1> DEFINE so == opening["server"]
           co == opening["client"]
<1>1. /\ S \in 1..17 /\ C \in 1..18 /\ so \in {"no", "waits", "met"}
      /\ co \in {"no", "waits", "met"} /\ Together(S, so, C, co)
      /\ opening \in [Procs -> {"no", "waits", "met"}]
  BY DEF InStep, Placed, Together, Procs
<1>2. \A f \in Fifos, m \in {"r", "w"} :
        /\ <<f, m, "server">> \in ends <=> ServerHolds(f, m, S, so)
        /\ <<f, m, "client">> \in ends <=> ClientHolds(f, m, C, co)
  BY DEF InStep, Held
<1>3. /\ co = "no" /\ C' = C + 1 /\ S' = S /\ at' \in [Procs -> Nat]
      /\ so' = so /\ co' = co
  BY <1>1, ClientStep DEF Opens
<1> HIDE DEF so, co
<1>4. Together(S', so', C', co')
  BY <1>1, <1>3 DEF Together, Phase, Passed, Opens
<1>5. ASSUME NEW f \in Fifos, NEW m \in {"r", "w"}
      PROVE  /\ ServerHolds(f, m, S', so') <=> ServerHolds(f, m, S, so)
             /\ ClientHolds(f, m, C', co') <=> ClientHolds(f, m, C, co)
  BY <1>1, <1>3 DEF ServerHolds, ClientHolds, Between, Opens, Fifos
<1>6. Held'
  BY <1>2, <1>3, <1>5 DEF Held, so, co
<1>7. QED
  BY <1>1, <1>3, <1>4, <1>6 DEF InStep, Placed, so, co

\* And a close.
LEMMA ClientCloseInStep ==
    ASSUME InStep, Close("client")
    PROVE  InStep'
<1> DEFINE so == opening["server"]
           co == opening["client"]
           g == now("client").fifo
<1>1. /\ S \in 1..17 /\ C \in 1..18 /\ so \in {"no", "waits", "met"}
      /\ co \in {"no", "waits", "met"} /\ Together(S, so, C, co)
      /\ opening \in [Procs -> {"no", "waits", "met"}]
  BY DEF InStep, Placed, Together, Procs
<1>2. \A f \in Fifos, m \in {"r", "w"} :
        /\ <<f, m, "server">> \in ends <=> ServerHolds(f, m, S, so)
        /\ <<f, m, "client">> \in ends <=> ClientHolds(f, m, C, co)
  BY DEF InStep, Held
<1>3. /\ C \in {6, 7, 9, 11, 13, 16, 18}
      /\ g = IF C \in {7, 16} THEN "infifo" ELSE IF C \in {6, 11} THEN "outfifo" ELSE "stopfifo"
  BY <1>1, ClientNow DEF Close, doing
<1>4. /\ co = "no" /\ C' = (IF C = 18 THEN 1 ELSE C + 1) /\ S' = S /\ at' \in [Procs -> Nat]
      /\ so' = so /\ co' = co
  BY <1>1, <1>3, ClientStep DEF Opens, Close
<1>5. ends' = {e \in ends : e[1] # g \/ e[3] # "client"}
  BY DEF Close
<1> HIDE DEF so, co, g
<1>6. Together(S', so', C', co')
  BY <1>1, <1>3, <1>4 DEF Together, Phase, Passed, Opens
<1>7. ASSUME NEW f \in Fifos, NEW m \in {"r", "w"}
      PROVE  /\ ClientHolds(f, m, C', co') <=> ClientHolds(f, m, C, co) /\ f # g
             /\ ServerHolds(f, m, S', so') <=> ServerHolds(f, m, S, so)
  BY <1>1, <1>3, <1>4 DEF ServerHolds, ClientHolds, Between, Fifos
<1>8. ASSUME NEW f \in Fifos, NEW m \in {"r", "w"}
      PROVE  /\ <<f, m, "client">> \in ends' <=> <<f, m, "client">> \in ends /\ f # g
             /\ <<f, m, "server">> \in ends' <=> <<f, m, "server">> \in ends
  BY <1>5
<1>9. Held'
  BY <1>2, <1>7, <1>8 DEF Held, so, co
<1>10. QED
  BY <1>1, <1>4, <1>6, <1>9 DEF InStep, Placed, Close, so, co

-----------------------------------------------------------------------------
\* What is on its way from the server to the client.

Hearings == {"handler", "timer", "results", "done"}

\* What a client that asked r hears next, and what it then expects.
Hears(a, word, b, r) ==
    \/ a = "handler" /\ word = "OK" /\ b = IF 0 \in ReplyLines(r) THEN "done" ELSE "results"
    \/ a = "handler" /\ word = "Timer" /\ b = "timer"
    \/ a = "handler" /\ word = "exception" /\ b = "handler"
    \/ a = "timer" /\ word = "progress" /\ b = "timer"
    \/ a = "timer" /\ word = "ready" /\ b = "handler"
    \/ a = "results" /\ word = "value" /\ b = IF r = "PARTITIONS" THEN "results" ELSE "done"
    \/ a = "results" /\ word = "end" /\ b = "done" /\ r = "PARTITIONS"

\* Hearing these lines of dialog d leads from a to b.
Leads(lines, a, b, r, d) ==
    \E h \in [1..(Len(lines) + 1) -> Hearings] :
        /\ h[1] = a /\ h[Len(lines) + 1] = b
        /\ \A i \in 1..Len(lines) : /\ Hears(h[i], lines[i].word, h[i + 1], r)
                                    /\ lines[i].dialog = d

\* A sequence and its appended element.
LEMMA Appended ==
    ASSUME NEW T, NEW s \in Seq(T), NEW x \in T
    PROVE  /\ Append(s, x) \in Seq(T) /\ Len(s) \in Nat /\ Len(Append(s, x)) = Len(s) + 1
           /\ \A i \in 1..Len(s) : Append(s, x)[i] = s[i]
           /\ Append(s, x)[Len(s) + 1] = x
  OBVIOUS

\* A sequence without its head.
LEMMA Tailed ==
    ASSUME NEW T, NEW s \in Seq(T), s # <<>>
    PROVE  /\ Tail(s) \in Seq(T) /\ Len(s) \in Nat \ {0} /\ Len(Tail(s)) = Len(s) - 1
           /\ \A i \in 1..(Len(s) - 1) : Tail(s)[i] = s[i + 1]
           /\ Head(s) = s[1] /\ Head(s) \in T
  OBVIOUS

\* Nothing leads nowhere.
LEMMA LeadsNothing ==
    ASSUME NEW a \in Hearings, NEW r, NEW d
    PROVE  /\ Leads(<<>>, a, a, r, d)
           /\ \A b \in Hearings : Leads(<<>>, a, b, r, d) => a = b
<1>1. Len(<<>>) = 0
  OBVIOUS
<1>2. Leads(<<>>, a, a, r, d)
  <2> DEFINE h == [i \in 1..(Len(<<>>) + 1) |-> a]
  <2>1. h \in [1..(Len(<<>>) + 1) -> Hearings]
    OBVIOUS
  <2>2. h[1] = a /\ h[Len(<<>>) + 1] = a
    BY <1>1
  <2>3. 1..Len(<<>>) = {}
    BY <1>1
  <2> HIDE DEF h
  <2>4. QED
    BY <2>1, <2>2, <2>3 DEF Leads
<1>3. QED
  BY <1>1, <1>2 DEF Leads

\* The server says one more line.
LEMMA LeadsOn ==
    ASSUME NEW s \in Seq(Lines), NEW a, NEW b, NEW r, NEW d, Leads(s, a, b, r, d),
           NEW l \in Lines, NEW c \in Hearings, Hears(b, l.word, c, r), l.dialog = d
    PROVE  Leads(Append(s, l), a, c, r, d)
<1> DEFINE t == Append(s, l)
           n == Len(s)
<1>1. /\ n \in Nat /\ Len(t) = n + 1 /\ t[n + 1] = l
      /\ \A i \in 1..n : t[i] = s[i]
  BY Appended
<1>2. PICK h \in [1..(n + 1) -> Hearings] :
         /\ h[1] = a /\ h[n + 1] = b
         /\ \A i \in 1..n : /\ Hears(h[i], s[i].word, h[i + 1], r)
                            /\ s[i].dialog = d
  BY DEF Leads
<1> HIDE DEF t, n
<1> DEFINE k == [i \in 1..(Len(t) + 1) |-> IF i <= n + 1 THEN h[i] ELSE c]
<1>3. k \in [1..(Len(t) + 1) -> Hearings]
  BY <1>1, <1>2
<1>4. k[1] = a /\ k[Len(t) + 1] = c
  BY <1>1, <1>2
<1>5. ASSUME NEW i \in 1..Len(t)
      PROVE  Hears(k[i], t[i].word, k[i + 1], r) /\ t[i].dialog = d
  <2>1. CASE i <= n
    <3>1. i \in 1..n /\ k[i] = h[i] /\ k[i + 1] = h[i + 1]
      BY <1>1, <2>1
    <3>2. QED
      BY <1>1, <1>2, <3>1
  <2>2. CASE i = n + 1
    <3>1. k[i] = h[n + 1] /\ k[i + 1] = c
      BY <1>1, <2>2
    <3>2. QED
      BY <1>1, <1>2, <2>2, <3>1
  <2>3. QED
    BY <1>1, <2>1, <2>2
<1> HIDE DEF k
<1>6. Leads(t, a, c, r, d)
  BY <1>3, <1>4, <1>5 DEF Leads
<1>7. QED
  BY <1>6 DEF t

\* The client hears the first line.
LEMMA LeadsOff ==
    ASSUME NEW s \in Seq(Lines), s # <<>>, NEW a, NEW b, NEW r, NEW d, Leads(s, a, b, r, d)
    PROVE  /\ Head(s) \in Lines /\ Head(s).dialog = d
           /\ \E c \in Hearings : Hears(a, Head(s).word, c, r) /\ Leads(Tail(s), c, b, r, d)
<1> DEFINE t == Tail(s)
           n == Len(s)
<1>1. /\ n \in Nat \ {0} /\ Len(t) = n - 1 /\ Head(s) = s[1] /\ Head(s) \in Lines
      /\ \A i \in 1..(n - 1) : t[i] = s[i + 1]
  BY Tailed
<1>2. PICK h \in [1..(n + 1) -> Hearings] :
         /\ h[1] = a /\ h[n + 1] = b
         /\ \A i \in 1..n : /\ Hears(h[i], s[i].word, h[i + 1], r)
                            /\ s[i].dialog = d
  BY DEF Leads
<1> HIDE DEF t, n
<1> DEFINE k == [i \in 1..(Len(t) + 1) |-> h[i + 1]]
<1>3. k \in [1..(Len(t) + 1) -> Hearings]
  BY <1>1, <1>2
<1>4. k[1] = h[2] /\ k[Len(t) + 1] = b /\ h[2] \in Hearings
  BY <1>1, <1>2
<1>5. ASSUME NEW i \in 1..Len(t)
      PROVE  Hears(k[i], t[i].word, k[i + 1], r) /\ t[i].dialog = d
  <2>1. i \in 1..(n - 1) /\ i + 1 \in 1..n /\ k[i] = h[i + 1] /\ k[i + 1] = h[(i + 1) + 1]
    BY <1>1
  <2>2. QED
    BY <1>1, <1>2, <2>1
<1> HIDE DEF k
<1>6. Leads(t, h[2], b, r, d)
  BY <1>3, <1>4, <1>5 DEF Leads
<1>7. 1 \in 1..n /\ 1 + 1 = 2
  BY <1>1
<1>8. Hears(a, Head(s).word, h[2], r) /\ Head(s).dialog = d
  BY <1>1, <1>2, <1>7
<1>9. QED
  BY <1>1, <1>4, <1>6, <1>8 DEF t

\* A client that is done has heard everything.
LEMMA DoneIsAll ==
    ASSUME NEW s \in Seq(Lines), NEW b \in Hearings, NEW r, NEW d, Leads(s, "done", b, r, d)
    PROVE  s = <<>> /\ b = "done"
<1>1. s = <<>>
  <2>1. SUFFICES ASSUME s # <<>>
                 PROVE  FALSE
    OBVIOUS
  <2>2. PICK c \in Hearings : Hears("done", Head(s).word, c, r)
    BY <2>1, LeadsOff
  <2>3. QED
    BY <2>2 DEF Hears
<1>2. QED
  BY <1>1, LeadsNothing DEF Hearings

\* All the lines are of the dialog.
LEMMA LeadsDialog ==
    ASSUME NEW s, NEW a, NEW b, NEW r, NEW d, Leads(s, a, b, r, d)
    PROVE  \A i \in 1..Len(s) : s[i].dialog = d
  BY DEF Leads

-----------------------------------------------------------------------------
\* The server says one, two or three lines at once.

\* A line the server says, but for a result.
Say(word, d) == line(word, d, FALSE)

\* A function with the values of a tuple is that tuple.
LEMMA TupleOne ==
    ASSUME NEW e, NEW u, DOMAIN e = 1..1, e = [i \in 1..1 |-> e[i]], e[1] = u
    PROVE  e = <<u>>
  OBVIOUS

\* A pair.
LEMMA TupleTwo ==
    ASSUME NEW e, NEW u, NEW v, DOMAIN e = 1..2, e = [i \in 1..2 |-> e[i]], e[1] = u, e[2] = v
    PROVE  e = <<u, v>>
  OBVIOUS

\* A triple.
LEMMA TupleThree ==
    ASSUME NEW e, NEW u, NEW v, NEW w, DOMAIN e = 1..3, e = [i \in 1..3 |-> e[i]],
           e[1] = u, e[2] = v, e[3] = w
    PROVE  e = <<u, v, w>>
  OBVIOUS

\* Concatenation with a tuple appends its elements.
LEMMA ConcatOne ==
    ASSUME NEW T, NEW s \in Seq(T), NEW x \in T
    PROVE  s \o <<x>> = Append(s, x)
  OBVIOUS

\* A pair.
LEMMA ConcatTwo ==
    ASSUME NEW T, NEW s \in Seq(T), NEW x \in T, NEW y \in T
    PROVE  s \o <<x, y>> = Append(Append(s, x), y)
  OBVIOUS

\* A triple.
LEMMA ConcatThree ==
    ASSUME NEW T, NEW s \in Seq(T), NEW x \in T, NEW y \in T, NEW z \in T
    PROVE  s \o <<x, y, z>> = Append(Append(Append(s, x), y), z)
  OBVIOUS

\* Saying one line.
LEMMA SayOne ==
    ASSUME NEW s \in Seq(Lines), NEW d \in 1..Dialogs, NEW u \in Words
    PROVE  /\ s \o <<Say(u, d)>> = Append(s, Say(u, d))
           /\ Append(s, Say(u, d)) \in Seq(Lines)
<1>1. Say(u, d) \in Lines
  BY DEF Say, line, Lines
<1>2. \A x \in Lines : s \o <<x>> = Append(s, x) /\ Append(s, x) \in Seq(Lines)
  BY ConcatOne
<1>3. QED
  BY <1>1, <1>2, Zenon

\* Saying two lines.
LEMMA SayTwo ==
    ASSUME NEW s \in Seq(Lines), NEW d \in 1..Dialogs, NEW u \in Words, NEW v \in Words
    PROVE  /\ s \o <<Say(u, d), Say(v, d)>> = Append(Append(s, Say(u, d)), Say(v, d))
           /\ Append(Append(s, Say(u, d)), Say(v, d)) \in Seq(Lines)
<1>1. Say(u, d) \in Lines /\ Say(v, d) \in Lines
  BY DEF Say, line, Lines
<1>2. \A x, y \in Lines : s \o <<x, y>> = Append(Append(s, x), y) /\ Append(Append(s, x), y) \in Seq(Lines)
  BY ConcatTwo
<1>3. QED
  BY <1>1, <1>2, Zenon

\* Saying three lines.
LEMMA SayThree ==
    ASSUME NEW s \in Seq(Lines), NEW d \in 1..Dialogs, NEW u \in Words, NEW v \in Words, NEW w \in Words
    PROVE  /\ s \o <<Say(u, d), Say(v, d), Say(w, d)>> = Append(Append(Append(s, Say(u, d)), Say(v, d)), Say(w, d))
           /\ Append(Append(Append(s, Say(u, d)), Say(v, d)), Say(w, d)) \in Seq(Lines)
<1>1. Say(u, d) \in Lines /\ Say(v, d) \in Lines /\ Say(w, d) \in Lines
  BY DEF Say, line, Lines
<1>2. \A x, y, z \in Lines : s \o <<x, y, z>> = Append(Append(Append(s, x), y), z) /\ Append(Append(Append(s, x), y), z) \in Seq(Lines)
  BY ConcatThree
<1>3. QED
  BY <1>1, <1>2, Zenon

-----------------------------------------------------------------------------
\* What the lines on their way say.

\* No exception among them; just one.
Quiet(s) == \A i \in 1..Len(s) : s[i].word # "exception"
OneException(s) == \E i \in 1..Len(s) : \A j \in 1..Len(s) : s[j].word = "exception" <=> j = i

\* No result among them; results that say how things are.
Plain(s) == \A i \in 1..Len(s) : s[i].word \notin {"value", "end"}
Tells(s, r, isopen, table) ==
    \A i \in 1..Len(s) :
        s[i].word \in {"value", "end"} =>
            /\ r = "OPEN" => s[i].yes = isopen
            /\ r = "PARTITIONS" => s[i].yes = (table # NoTable)

\* Of no lines.
LEMMA SayNothing ==
    ASSUME NEW r, NEW isopen, NEW table
    PROVE  Quiet(<<>>) /\ Plain(<<>>) /\ Tells(<<>>, r, isopen, table)
<1>1. 1..Len(<<>>) = {}
  OBVIOUS
<1>2. QED
  BY <1>1 DEF Quiet, Plain, Tells

\* Of one line more.
LEMMA SayMore ==
    ASSUME NEW s \in Seq(Lines), NEW l \in Lines, NEW r, NEW isopen, NEW table
    PROVE  /\ Quiet(s) /\ l.word # "exception" => Quiet(Append(s, l))
           /\ Quiet(s) /\ l.word = "exception" => OneException(Append(s, l))
           /\ OneException(s) /\ l.word # "exception" => OneException(Append(s, l))
           /\ Plain(s) /\ l.word \notin {"value", "end"} => Plain(Append(s, l))
           /\ /\ Tells(s, r, isopen, table)
              /\ l.word \in {"value", "end"} =>
                    /\ r = "OPEN" => l.yes = isopen
                    /\ r = "PARTITIONS" => l.yes = (table # NoTable)
              => Tells(Append(s, l), r, isopen, table)
<1> DEFINE t == Append(s, l)
           n == Len(s)
<1>1. /\ n \in Nat /\ Len(t) = n + 1 /\ t[n + 1] = l
      /\ \A i \in 1..n : t[i] = s[i]
  BY Appended
<1> HIDE DEF t, n
<1>2. \A i \in 1..Len(t) : (i \in 1..n /\ t[i] = s[i] /\ i # n + 1) \/ (i = n + 1 /\ t[i] = l)
  BY <1>1
<1>3. n + 1 \in 1..Len(t) /\ \A i \in 1..n : i \in 1..Len(t)
  BY <1>1
<1>4. Quiet(s) /\ l.word # "exception" => Quiet(t)
  BY <1>2 DEF Quiet, n
<1>5. Quiet(s) /\ l.word = "exception" => OneException(t)
  BY <1>2, <1>3 DEF Quiet, OneException, n
<1>6. OneException(s) /\ l.word # "exception" => OneException(t)
  <2>1. SUFFICES ASSUME OneException(s), l.word # "exception"
                 PROVE  OneException(t)
    OBVIOUS
  <2>2. PICK i \in 1..n : \A j \in 1..n : s[j].word = "exception" <=> j = i
    BY <2>1 DEF OneException, n
  <2>3. i \in 1..Len(t) /\ i # n + 1
    BY <1>1, <1>3
  <2>4. \A j \in 1..Len(t) : t[j].word = "exception" <=> j = i
    BY <1>2, <2>1, <2>2, <2>3
  <2>5. QED
    BY <2>3, <2>4 DEF OneException
<1>7. Plain(s) /\ l.word \notin {"value", "end"} => Plain(t)
  BY <1>2 DEF Plain, n
<1>8. /\ Tells(s, r, isopen, table)
      /\ l.word \in {"value", "end"} =>
            /\ r = "OPEN" => l.yes = isopen
            /\ r = "PARTITIONS" => l.yes = (table # NoTable)
      => Tells(t, r, isopen, table)
  BY <1>2, Zenon DEF Tells, n
<1>9. QED
  BY <1>4, <1>5, <1>6, <1>7, <1>8 DEF t

\* Of one line less.
LEMMA SayLess ==
    ASSUME NEW s \in Seq(Lines), s # <<>>, NEW r, NEW isopen, NEW table
    PROVE  /\ Quiet(s) => Quiet(Tail(s)) /\ Head(s).word # "exception"
           /\ OneException(s) /\ Head(s).word = "exception" => Quiet(Tail(s))
           /\ OneException(s) /\ Head(s).word # "exception" => OneException(Tail(s))
           /\ Plain(s) => Plain(Tail(s)) /\ Head(s).word \notin {"value", "end"}
           /\ Tells(s, r, isopen, table) =>
                 /\ Tells(Tail(s), r, isopen, table)
                 /\ Head(s).word \in {"value", "end"} =>
                       /\ r = "OPEN" => Head(s).yes = isopen
                       /\ r = "PARTITIONS" => Head(s).yes = (table # NoTable)
<1> DEFINE t == Tail(s)
           n == Len(s)
<1>1. /\ n \in Nat \ {0} /\ Len(t) = n - 1 /\ Head(s) = s[1]
      /\ \A i \in 1..(n - 1) : t[i] = s[i + 1]
  BY Tailed
<1> HIDE DEF t, n
<1>2. 1 \in 1..n /\ \A i \in 1..Len(t) : i + 1 \in 1..n /\ i + 1 # 1 /\ t[i] = s[i + 1]
  BY <1>1
<1>3. Quiet(s) => Quiet(t) /\ Head(s).word # "exception"
  BY <1>1, <1>2 DEF Quiet, n
<1>4. OneException(s) /\ Head(s).word = "exception" => Quiet(t)
  <2>1. SUFFICES ASSUME OneException(s), Head(s).word = "exception"
                 PROVE  Quiet(t)
    OBVIOUS
  <2>2. PICK i \in 1..n : \A j \in 1..n : s[j].word = "exception" <=> j = i
    BY <2>1 DEF OneException, n
  <2>3. i = 1
    BY <1>1, <1>2, <2>1, <2>2
  <2>4. QED
    BY <1>2, <2>2, <2>3 DEF Quiet
<1>5. OneException(s) /\ Head(s).word # "exception" => OneException(t)
  <2>1. SUFFICES ASSUME OneException(s), Head(s).word # "exception"
                 PROVE  OneException(t)
    OBVIOUS
  <2>2. PICK i \in 1..n : \A j \in 1..n : s[j].word = "exception" <=> j = i
    BY <2>1 DEF OneException, n
  <2>3. i # 1
    BY <1>1, <1>2, <2>1, <2>2
  <2>4. i - 1 \in 1..Len(t) /\ \A j \in 1..Len(t) : j + 1 = i <=> j = i - 1
    BY <1>1, <2>3
  <2>5. \A j \in 1..Len(t) : t[j].word = "exception" <=> j = i - 1
    BY <1>2, <2>2, <2>4
  <2>6. QED
    BY <2>4, <2>5 DEF OneException
<1>6. Plain(s) => Plain(t) /\ Head(s).word \notin {"value", "end"}
  BY <1>1, <1>2 DEF Plain, n
<1>7. Tells(s, r, isopen, table) =>
        /\ Tells(t, r, isopen, table)
        /\ Head(s).word \in {"value", "end"} =>
              /\ r = "OPEN" => Head(s).yes = isopen
              /\ r = "PARTITIONS" => Head(s).yes = (table # NoTable)
  BY <1>1, <1>2, Zenon DEF Tells, n
<1>8. QED
  BY <1>3, <1>4, <1>5, <1>6, <1>7 DEF t

-----------------------------------------------------------------------------
\* The invariant.

phase == Phase("server", S, opening["server"])

\* Where the client is in what the server has said, and how far the server is.
Heard == IF C > 5 THEN "done" ELSE hearing
Said == IF stage = "reply" THEN IF left = 0 THEN "done" ELSE "results"
        ELSE IF timer_started THEN "timer" ELSE "handler"

Known == opened = dev /\ (listed => disk # NoTable)
Entitled == (request # "OPEN" => dev) /\ (request \in OnPartitions => disk # NoTable)

\* The commands after which a client still knows of the partitions it was told of.
Keeping == {"IS_CHANGED", "DISK_UNCHANGED", "COMMIT"} \cup OnPartitions

\* What the client will know when it has heard the reply.
ToLearn ==
    /\ request # "OPEN" => dev = (opened /\ request # "CLOSE")
    /\ request \in Keeping /\ listed => disk # NoTable
    /\ Tells(buf["outfifo"], request, dev, disk)

Answer == line("answer", dialog, FALSE)
Command == line(request, dialog, FALSE)

\* No dialog: nothing is in a FIFO, and the client knows what there is to know.
Silent ==
    /\ buf["infifo"] = <<>> /\ buf["outfifo"] = <<>>
    /\ Known /\ ~timer_started
    /\ C = 2 => Entitled /\ hearing = "handler"

\* The command is on its way.
Commanding ==
    /\ buf["outfifo"] = <<>>
    /\ IF S = 3 THEN /\ C = 4 /\ buf["infifo"] = <<>>
                     /\ command = Command /\ stage = "work"
       ELSE buf["infifo"] = IF C = 4 THEN <<Command>> ELSE <<>>
    /\ Known /\ Entitled /\ ~timer_started /\ hearing = "handler"

\* An exception is on its way, or its answer, or neither.
Asking ==
    IF stage = "asked"
    THEN \/ Quiet(buf["outfifo"]) /\ buf["infifo"] = <<Answer>>
         \/ OneException(buf["outfifo"]) /\ buf["infifo"] = <<>>
    ELSE Quiet(buf["outfifo"]) /\ buf["infifo"] = <<>>

\* How many results are still to come.
Replying == stage = "reply" => /\ ~timer_started
                               /\ left > 0 => 0 \notin ReplyLines(request)
                               /\ left > 1 => request = "PARTITIONS"

\* What the client knows or will know.
Knowing == IF stage = "reply" THEN IF C > 5 THEN Known ELSE ToLearn
           ELSE Known /\ Entitled /\ Plain(buf["outfifo"])

\* The server works and replies.
Conversing ==
    /\ command = Command
    /\ S = 3 => stage = "work"
    /\ S > 4 => stage = "reply" /\ left = 0
    /\ Leads(buf["outfifo"], Heard, Said, request, dialog)
    /\ Asking /\ Replying /\ Knowing

Talking ==
    IF phase = 1 THEN Commanding ELSE IF phase = 2 THEN Conversing ELSE Silent

Types ==
    /\ command \in Lines /\ stage \in {"work", "asked", "reply"}
    /\ timer_started \in BOOLEAN /\ work \in Nat /\ left \in Nat
    /\ dev \in BOOLEAN /\ changed \in BOOLEAN /\ disk \in Disks /\ media \in Disks
    /\ dialog \in 1..Dialogs /\ request \in Commands
    /\ hearing \in {"handler", "timer", "results"}
    /\ opened \in BOOLEAN /\ listed \in BOOLEAN
    /\ buf \in [Fifos -> Seq(Lines)]

\* Nothing is written to stopfifo, and lines are of this dialog.
Ours == /\ buf["stopfifo"] = <<>>
        /\ \A f \in Fifos : \A i \in 1..Len(buf[f]) : buf[f][i].dialog = dialog

IInv == /\ fault = "none" \/ ServerExits
        /\ Types /\ Ours /\ Room
        /\ stage = "reply" => ~timer_started
        /\ fault = "none" => InStep /\ Talking

-----------------------------------------------------------------------------
\* Opens and closes keep what is on its way.

\* Positions and opens, without the functions that hold them.
LEMMA Positions ==
    ASSUME InStep
    PROVE  /\ S \in 1..17 /\ C \in 1..18
           /\ opening["server"] \in {"no", "waits", "met"}
           /\ opening["client"] \in {"no", "waits", "met"}
           /\ Together(S, opening["server"], C, opening["client"])
           /\ phase = Phase("client", C, opening["client"])
  BY DEF InStep, Placed, Together, Procs, phase

\* The positions an open leads from and to, for one program or for both.
LEMMA OpenPhases ==
    ASSUME InStep, NEW p \in Procs, Open(p) \/ Opened(p)
    PROVE  \/ /\ phase' = phase
              /\ phase \notin {1, 2} => (C' = 2 => C = 2)
              /\ phase = 1 => (S' = 3 <=> S = 3) /\ (C' = 4 <=> C = 4)
              /\ phase = 2 => (S' = 3 => S = 3) /\ (S' > 4 <=> S > 4) /\ (C' > 5 <=> C > 5)
           \/ phase = 0 /\ phase' = 1 /\ C = 2 /\ S' # 3 /\ C' # 4
           \/ phase = 1 /\ phase' = 2 /\ S = 3 /\ C = 4 /\ S' <= 4 /\ C' <= 5
           \/ phase = 2 /\ phase' = 3 /\ S > 4 /\ C > 5 /\ C' # 2
           \/ phase \notin {1, 2} /\ phase' \notin {1, 2} /\ C' # 2
<1> DEFINE so == opening["server"]
           co == opening["client"]
<1>1. /\ S \in 1..17 /\ C \in 1..18 /\ so \in {"no", "waits", "met"}
      /\ co \in {"no", "waits", "met"} /\ Together(S, so, C, co)
      /\ opening \in [Procs -> {"no", "waits", "met"}]
  BY DEF InStep, Placed, Together, Procs
<1>2. phase = Phase("server", S, so) /\ phase' = Phase("server", S', so')
  BY DEF phase
<1>3. CASE Open("server")
  <2>1. /\ S \in Opens("server") /\ so = "no" /\ C' = C
        /\ IF co = "waits" THEN S' = S + 1 /\ so' = "no" /\ co' = "met"
           ELSE S' = S /\ so' = "waits" /\ co' = co
    BY <1>1, <1>3, ServerOpen DEF Procs
  <2> HIDE DEF so, co
  <2>2. QED
    BY <1>1, <1>2, <2>1 DEF Together, Phase, Passed, Opens
<1>4. CASE Open("client")
  <2>1. /\ C \in Opens("client") /\ co = "no" /\ S' = S
        /\ IF so = "waits" THEN C' = C + 1 /\ co' = "no" /\ so' = "met"
           ELSE C' = C /\ co' = "waits" /\ so' = so
    BY <1>1, <1>4, ClientOpen DEF Procs
  <2> HIDE DEF so, co
  <2>2. QED
    BY <1>1, <1>2, <2>1 DEF Together, Phase, Passed, Opens
<1>5. CASE Opened("server")
  <2>1. /\ S \in Opens("server") /\ so = "met" /\ S' = S + 1 /\ C' = C
        /\ so' = "no" /\ co' = co
    BY <1>1, <1>5, ServerOpened DEF Procs
  <2> HIDE DEF so, co
  <2>2. QED
    BY <1>1, <1>2, <2>1 DEF Together, Phase, Passed, Opens
<1>6. CASE Opened("client")
  <2>1. /\ C \in Opens("client") /\ co = "met" /\ C' = C + 1 /\ S' = S
        /\ co' = "no" /\ so' = so
    BY <1>1, <1>6, ClientOpened DEF Procs
  <2> HIDE DEF so, co
  <2>2. QED
    BY <1>1, <1>2, <2>1 DEF Together, Phase, Passed, Opens
<1>7. QED
  BY <1>3, <1>4, <1>5, <1>6 DEF Procs

\* A client that has heard everything leaves the FIFOs empty.
LEMMA AllHeard ==
    ASSUME Types, Conversing, C > 5
    PROVE  /\ buf["outfifo"] = <<>> /\ buf["infifo"] = <<>>
           /\ stage = "reply" /\ left = 0 /\ ~timer_started /\ Known
<1>1. buf["outfifo"] \in Seq(Lines) /\ Said \in Hearings
  BY DEF Types, Fifos, Said, Hearings
<1>2. Leads(buf["outfifo"], "done", Said, request, dialog)
  BY DEF Conversing, Heard
<1>3. buf["outfifo"] = <<>> /\ Said = "done"
  BY <1>1, <1>2, DoneIsAll
<1>4. stage = "reply" /\ left = 0
  BY <1>3 DEF Said
<1>5. QED
  BY <1>3, <1>4 DEF Conversing, Asking, Replying, Knowing

\* Opens.
LEMMA OpenTalking ==
    ASSUME Types, InStep, Talking, NEW p \in Procs, Open(p) \/ Opened(p)
    PROVE  Talking'
<1>1. buf' = buf /\ UNCHANGED <<command, stage, timer_started, work, left, dev, disk, changed,
                geometries, media, fails, dialog, request, hearing, opened, listed>>
  BY DEF Open, Opened, serving, registry, asking
<1>2. Known' = Known /\ Entitled' = Entitled /\ Said' = Said /\ Asking' = Asking
      /\ Replying' = Replying /\ ToLearn' = ToLearn /\ Command' = Command
  BY <1>1 DEF Known, Entitled, Said, Asking, Replying, ToLearn, Command, Answer
<1>3. CASE /\ phase' = phase
           /\ phase \notin {1, 2} => (C' = 2 => C = 2)
           /\ phase = 1 => (S' = 3 <=> S = 3) /\ (C' = 4 <=> C = 4)
           /\ phase = 2 => (S' = 3 => S = 3) /\ (S' > 4 <=> S > 4) /\ (C' > 5 <=> C > 5)
  <2>1. CASE phase = 1
    BY <1>1, <1>2, <1>3, <2>1 DEF Talking, Commanding
  <2>2. CASE phase = 2
    <3>1. Heard' = Heard /\ Knowing' = Knowing
      BY <1>1, <1>2, <1>3, <2>2 DEF Heard, Knowing
    <3>2. QED
      BY <1>1, <1>2, <1>3, <2>2, <3>1 DEF Talking, Conversing
  <2>3. CASE phase \notin {1, 2}
    BY <1>1, <1>2, <1>3, <2>3 DEF Talking, Silent
  <2>4. QED
    BY <2>1, <2>2, <2>3
<1>4. CASE phase = 0 /\ phase' = 1 /\ C = 2 /\ S' # 3 /\ C' # 4
  BY <1>1, <1>2, <1>4 DEF Talking, Silent, Commanding
<1>5. CASE phase = 1 /\ phase' = 2 /\ S = 3 /\ C = 4 /\ S' <= 4 /\ C' <= 5
  <2>1. Commanding
    BY <1>5 DEF Talking
  <2>2. S' \in Nat /\ C' \in Nat
    <3>1. InStep'
      BY OpenInStep, ServerOpenedInStep, ClientOpenedInStep DEF Procs
    <3>2. QED
      BY <3>1 DEF InStep, Placed, Together
  <2>3. ~(S' > 4) /\ ~(C' > 5)
    BY <1>5, <2>2
  <2>4. /\ buf'["outfifo"] = <<>> /\ buf'["infifo"] = <<>>
        /\ Heard' = "handler" /\ Said' = "handler" /\ stage' = "work"
    BY <1>1, <1>2, <1>5, <2>1, <2>3 DEF Commanding, Heard, Said
  <2>5. Leads(<<>>, "handler", "handler", request', dialog')
    BY LeadsNothing DEF Hearings
  <2>6. Quiet(<<>>) /\ Plain(<<>>)
    BY SayNothing
  <2>7. Asking' /\ Knowing' /\ Replying'
    BY <1>1, <1>2, <2>1, <2>4, <2>6 DEF Asking, Knowing, Replying, Commanding
  <2>8. command' = Command'
    BY <1>1, <1>2, <1>5, <2>1 DEF Commanding
  <2>9. Conversing'
    BY <2>3, <2>4, <2>5, <2>7, <2>8 DEF Conversing
  <2>10. QED
    BY <1>5, <2>9 DEF Talking
<1>6. CASE phase = 2 /\ phase' = 3 /\ S > 4 /\ C > 5 /\ C' # 2
  <2>1. Conversing
    BY <1>6 DEF Talking
  <2>2. QED
    BY <1>1, <1>2, <1>6, <2>1, AllHeard DEF Talking, Silent
<1>7. CASE phase \notin {1, 2} /\ phase' \notin {1, 2} /\ C' # 2
  BY <1>1, <1>2, <1>7 DEF Talking, Silent
<1>8. QED
  BY <1>3, <1>4, <1>5, <1>6, <1>7, OpenPhases


\* The positions of a close.
LEMMA ClosePhases ==
    ASSUME InStep, NEW p \in Procs, Close(p)
    PROVE  /\ phase' = phase /\ phase # 1
           /\ phase # 2 => (C' = 2 => C = 2)
           /\ phase = 2 => (S' = 3 => S = 3) /\ (S' > 4 <=> S > 4) /\ (C' > 5 <=> C > 5)
           /\ phase = 2 => \/ S > 4 /\ now(p).fifo = "infifo"
                           \/ C > 5
                           \/ now(p).fifo = "outfifo" /\ p = "server"
<1> DEFINE so == opening["server"]
           co == opening["client"]
<1>1. /\ S \in 1..17 /\ C \in 1..18 /\ so \in {"no", "waits", "met"}
      /\ co \in {"no", "waits", "met"} /\ Together(S, so, C, co)
      /\ opening \in [Procs -> {"no", "waits", "met"}]
  BY DEF InStep, Placed, Together, Procs
<1>2. phase = Phase("server", S, so) /\ phase' = Phase("server", S', so')
  BY DEF phase
<1>3. CASE p = "server"
  <2>1. /\ S \in {5, 6, 8, 11, 13, 15, 17}
        /\ now("server").fifo = IF S \in {5, 15} THEN "infifo"
                                ELSE IF S \in {6, 11} THEN "outfifo" ELSE "stopfifo"
    BY <1>1, <1>3, ServerNow DEF Close, doing
  <2>2. /\ so = "no" /\ S' = (IF S = 17 THEN 1 ELSE S + 1) /\ C' = C
        /\ so' = so /\ co' = co
    BY <1>1, <1>3, <2>1, ServerStep DEF Opens, Close
  <2> HIDE DEF so, co
  <2>3. QED
    BY <1>1, <1>2, <1>3, <2>1, <2>2 DEF Together, Phase, Passed, Opens
<1>4. CASE p = "client"
  <2>1. C \in {6, 7, 9, 11, 13, 16, 18}
    BY <1>1, <1>4, ClientNow DEF Close, doing
  <2>2. /\ co = "no" /\ C' = (IF C = 18 THEN 1 ELSE C + 1) /\ S' = S
        /\ so' = so /\ co' = co
    BY <1>1, <1>4, <2>1, ClientStep DEF Opens, Close
  <2> HIDE DEF so, co
  <2>3. QED
    BY <1>1, <1>2, <2>1, <2>2 DEF Together, Phase, Passed, Opens
<1>5. QED
  BY <1>3, <1>4 DEF Procs

\* As long as the client listens, it holds its end of outfifo and of infifo.
LEMMA ClientListens ==
    ASSUME InStep, phase = 2, C <= 5
    PROVE  <<"outfifo", "r", "client">> \in ends /\ <<"infifo", "w", "client">> \in ends
<1>1. C \in 4..5 /\ (C = 4 => opening["client"] # "no")
  <2>1. C \in 1..18 /\ Phase("client", C, opening["client"]) = 2
    BY Positions
  <2>2. C \in 1..18 /\ (opening["client"] # "no" => C \in Opens("client"))
    BY Positions DEF Together
  <2>3. QED
    BY <2>1, <2>2 DEF Phase, Passed, Opens
<1>2. /\ ClientHolds("outfifo", "r", C, opening["client"])
      /\ ClientHolds("infifo", "w", C, opening["client"])
  BY <1>1 DEF ClientHolds, Between
<1>3. QED
  BY <1>2 DEF InStep, Held, Fifos

\* Closes: a FIFO that loses its last end has been read.
LEMMA CloseTalking ==
    ASSUME Types, InStep, Talking, NEW p \in Procs, Close(p)
    PROVE  Talking'
<1> DEFINE g == now(p).fifo
<1>1. UNCHANGED <<command, stage, timer_started, work, left, dev, disk, changed,
                geometries, media, fails, dialog, request, hearing, opened, listed>>
  BY DEF Close, serving, registry, asking
<1>2. /\ Known' = Known /\ Entitled' = Entitled /\ Said' = Said
      /\ Replying' = Replying /\ Command' = Command
  BY <1>1 DEF Known, Entitled, Said, Replying, Command
<1>3. /\ phase' = phase /\ phase # 1
      /\ phase # 2 => (C' = 2 => C = 2)
      /\ phase = 2 => (S' = 3 => S = 3) /\ (S' > 4 <=> S > 4) /\ (C' > 5 <=> C > 5)
      /\ phase = 2 => \/ S > 4 /\ g = "infifo"
                      \/ C > 5
                      \/ g = "outfifo" /\ p = "server"
  BY ClosePhases
<1>4. buf \in [Fifos -> Seq(Lines)] /\ C \in 1..18
  BY Positions DEF Types
<1>5. buf' = IF \E e \in ends' : e[1] = g THEN buf ELSE [buf EXCEPT ![g] = <<>>]
  BY DEF Close
<1>6. ends' = {e \in ends : e[1] # g \/ e[3] # p}
  BY DEF Close
<1> HIDE DEF g
<1>7. CASE phase # 2
  <2>1. Silent
    BY <1>3, <1>7 DEF Talking
  <2>2. buf'["infifo"] = <<>> /\ buf'["outfifo"] = <<>>
    BY <1>4, <1>5, <2>1 DEF Silent, Fifos
  <2>3. QED
    BY <1>1, <1>2, <1>3, <1>7, <2>1, <2>2 DEF Talking, Silent
<1>8. CASE phase = 2
  <2>1. Conversing
    BY <1>8 DEF Talking
  <2>2. buf'["infifo"] = buf["infifo"] /\ buf'["outfifo"] = buf["outfifo"]
    <3>1. CASE S > 4 /\ g = "infifo"
      <4>1. buf["infifo"] = <<>>
        BY <2>1, <3>1 DEF Conversing, Asking
      <4>2. QED
        BY <1>4, <1>5, <3>1, <4>1 DEF Fifos
    <3>2. CASE C > 5
      BY <1>4, <1>5, <2>1, <3>2, AllHeard DEF Fifos
    <3>3. CASE g = "outfifo" /\ p = "server" /\ C <= 5
      <4>1. <<"outfifo", "r", "client">> \in ends
        BY <1>8, <3>3, ClientListens
      <4>2. <<"outfifo", "r", "client">> \in ends'
        BY <1>6, <3>3, <4>1
      <4>3. \E e \in ends' : e[1] = g
        BY <3>3, <4>2
      <4>4. QED
        BY <1>5, <4>3
    <3>4. QED
      BY <1>3, <1>4, <1>8, <3>1, <3>2, <3>3
  <2>3. Heard' = Heard /\ Asking' = Asking /\ Knowing' = Knowing
    BY <1>1, <1>2, <1>3, <1>8, <2>2 DEF Heard, Asking, Answer, Knowing, ToLearn
  <2>4. Conversing'
    BY <1>1, <1>2, <1>3, <1>8, <2>1, <2>2, <2>3 DEF Conversing
  <2>5. QED
    BY <1>3, <1>8, <2>4 DEF Talking
<1>9. QED
  BY <1>7, <1>8

\* Both read a FIFO to its end when it is empty anyway.
LEMMA DrainTalking ==
    ASSUME Types, InStep, Talking, NEW p \in Procs, Drain(p)
    PROVE  InStep' /\ Talking'
<1>1. UNCHANGED <<command, stage, timer_started, work, left, dev, disk, changed,
                geometries, media, fails, dialog, request, hearing, opened, listed>>
  BY DEF Drain, serving, registry, asking
<1>2. Known' = Known /\ Entitled' = Entitled
  BY <1>1 DEF Known, Entitled
<1>3. InStep' /\ phase \notin {1, 2} /\ phase' \notin {1, 2} /\ (C' = 2 => C = 2)
  <2>1. CASE p = "server"
    <3>1. S = 10
      BY <2>1, Positions, ServerNow DEF Drain, doing
    <3>2. advance("server") /\ opening' = opening /\ ends' = ends
      BY <2>1 DEF Drain
    <3>3. S' = 11 /\ C' = C /\ opening["server"] = "no"
      BY <3>1, <3>2, ServerStep DEF Opens
    <3>4. InStep'
      BY <3>1, <3>2, ServerStepInStep
    <3>5. QED
      BY <3>1, <3>2, <3>3, <3>4 DEF phase, Phase, Passed
  <2>2. CASE p = "client"
    <3>1. C = 15
      BY <2>2, Positions, ClientNow DEF Drain, doing
    <3>2. advance("client") /\ opening' = opening /\ ends' = ends
      BY <2>2 DEF Drain
    <3>3. C' = 16 /\ S' = S /\ opening["client"] = "no"
      BY <3>1, <3>2, ClientStep DEF Opens
    <3>4. InStep'
      BY <3>1, <3>2, ClientStepInStep
    <3>5. phase = 6
      BY <3>1, <3>3, Positions DEF Phase, Passed
    <3>6. phase' = phase
      BY <3>2, <3>3 DEF phase
    <3>7. QED
      BY <3>3, <3>4, <3>5, <3>6
  <2>3. QED
    BY <2>1, <2>2 DEF Procs
<1>4. Silent
  BY <1>3 DEF Talking
<1>5. buf' = [buf EXCEPT ![now(p).fifo] = <<>>] /\ buf \in [Fifos -> Seq(Lines)]
  BY DEF Drain, Types
<1>6. buf'["infifo"] = <<>> /\ buf'["outfifo"] = <<>>
  BY <1>4, <1>5 DEF Silent, Fifos
<1>7. QED
  BY <1>1, <1>2, <1>3, <1>4, <1>6 DEF Talking, Silent

-----------------------------------------------------------------------------
\* The server's steps.

Good == fault = "none" /\ InStep /\ Talking /\ (stage = "reply" => ~timer_started)

\* Steps that leave the FIFOs open and the programs where they are.
LEMMA Same ==
    ASSUME InStep, UNCHANGED <<at, opening, ends>>
    PROVE  InStep' /\ S' = S /\ C' = C /\ phase' = phase
  BY DEF InStep, Placed, Held, S, C, phase

\* The server reads the command the client has written, and it is one it may read,
\* if only to look for the device of a table that is not there.
LEMMA ReadCommandGood ==
    ASSUME Types, Good, ReadCommand
    PROVE  \/ Good'
           \/ /\ fault' = "no_table" /\ command'.word = "COMMIT" /\ disk' = NoTable
              /\ stage' = "work" /\ dialog' = dialog
              /\ buf["infifo"] = <<Command>> /\ buf'["infifo"] = <<>>
              /\ buf'["outfifo"] = buf["outfifo"]
<1>1. S = 2 /\ phase = 1 /\ opening["server"] = "no"
  <2>1. S = 2
    BY Positions, ServerNow DEF Good, ReadCommand, doing
  <2>2. opening["server"] = "no"
    BY <2>1, Positions DEF Good, Together, Opens
  <2>3. QED
    BY <2>1, <2>2 DEF phase, Phase, Passed
<1>2. Commanding
  BY <1>1 DEF Good, Talking
<1>3. "client" \in holders("infifo", "w")
  <2>1. /\ C \in 1..18 /\ opening["client"] \in {"no", "waits", "met"}
        /\ (opening["client"] # "no" => C \in Opens("client"))
        /\ Phase("client", C, opening["client"]) = 1
    BY <1>1, Positions DEF Good, Together
  <2>2. ClientHolds("infifo", "w", C, opening["client"])
    BY <2>1 DEF ClientHolds, Between, Phase, Passed, Opens
  <2>3. QED
    BY <2>2 DEF Good, InStep, Held, Fifos, holders, Procs
<1>4. buf["infifo"] # <<>>
  BY <1>3 DEF ReadCommand, readable
<1>5. C = 4 /\ buf["infifo"] = <<Command>>
  BY <1>1, <1>2, <1>4 DEF Commanding
<1>6. first("infifo") = Command /\ rest("infifo") = <<>>
  BY <1>4, <1>5 DEF first, rest
<1>7. /\ command' = Command /\ stage' = "work" /\ buf' = [buf EXCEPT !["infifo"] = <<>>]
  BY <1>6 DEF ReadCommand, take
<1>8. fault' = "none" \/ (fault' = "no_table" /\ request = "COMMIT" /\ disk = NoTable)
  <2>1. Command.word = request
    BY DEF Command, line
  <2>2. request \in Commands /\ Entitled
    BY <1>2 DEF Types, Commanding
  <2>3. QED
    BY <1>6, <2>1, <2>2 DEF ReadCommand, Entitled, no_table
<1>9. /\ S' = 3 /\ C' = C /\ opening' = opening
  <2>1. advance("server") /\ opening' = opening
    BY DEF ReadCommand
  <2>2. QED
    BY <1>1, <2>1, ServerStep DEF Opens, Good
<1>10. InStep'
  <2>1. advance("server") /\ opening' = opening /\ ends' = ends
    BY DEF ReadCommand
  <2>2. QED
    BY <1>1, <2>1, ServerStepInStep DEF Good
<1>11. phase' = 1
  BY <1>1, <1>9 DEF phase, Phase, Passed
<1>12. UNCHANGED <<timer_started, dev, disk, request, dialog, hearing, opened, listed>>
  BY DEF ReadCommand, registry, asking
<1>13. buf'["infifo"] = <<>> /\ buf'["outfifo"] = <<>>
  BY <1>2, <1>7 DEF Types, Fifos, Commanding
<1>14. Commanding'
  BY <1>2, <1>5, <1>7, <1>9, <1>12, <1>13 DEF Commanding, Known, Entitled, Command
<1>15. CASE fault' = "none"
  BY <1>7, <1>10, <1>11, <1>14, <1>15 DEF Good, Talking
<1>16. CASE fault' = "no_table" /\ request = "COMMIT" /\ disk = NoTable
  <2>1. Command.word = request
    BY DEF Command, line
  <2>2. buf'["outfifo"] = buf["outfifo"]
    BY <1>2, <1>13 DEF Commanding
  <2>3. QED
    BY <1>5, <1>7, <1>12, <1>13, <1>16, <2>1, <2>2
<1>17. QED
  BY <1>8, <1>15, <1>16

\* A server that runs a command is in the phase of the conversation.
LEMMA Running ==
    ASSUME Good, serves
    PROVE  S = 4 /\ phase = 2 /\ Conversing
<1>1. S = 4
  BY Positions, ServerNow DEF Good, serves, doing
<1>2. opening["server"] = "no"
  BY <1>1, Positions DEF Good, Together, Opens
<1>3. phase = 2
  BY <1>1, <1>2 DEF phase, Phase, Passed
<1>4. QED
  BY <1>1, <1>3 DEF Good, Talking

\* Until the server has said everything the client listens.
LEMMA Listening ==
    ASSUME Types, Good, serves, Said # "done"
    PROVE  /\ C <= 5 /\ Heard = hearing
           /\ holders("outfifo", "r") # {} /\ holders("infifo", "w") # {}
<1>1. Conversing /\ phase = 2
  BY Running
<1>2. C \in 1..18
  BY Positions DEF Good
<1>3. C <= 5
  <2>1. ~(C > 5)
    BY <1>1, AllHeard DEF Said
  <2>2. QED
    BY <1>2, <2>1
<1>4. <<"outfifo", "r", "client">> \in ends /\ <<"infifo", "w", "client">> \in ends
  BY <1>1, <1>3, ClientListens DEF Good
<1>5. QED
  BY <1>2, <1>3, <1>4 DEF holders, Procs, Heard

\* A line of the server takes the client one step further: a result,
LEMMA SpeaksResult ==
    ASSUME Types, NEW s \in Seq(Lines), NEW a, NEW b, Leads(s, a, b, request, dialog),
           command = Command, NEW u \in Words, NEW y \in BOOLEAN, NEW c \in Hearings,
           Hears(b, u, c, request), NEW l, l = line(u, command.dialog, y)
    PROVE  /\ l \in Lines /\ l.word = u /\ l.yes = y
           /\ Leads(Append(s, l), a, c, request, dialog)
<1>1. command.dialog = dialog /\ dialog \in 1..Dialogs
  BY DEF Command, line, Types
<1>2. l \in Lines /\ l.word = u /\ l.yes = y /\ l.dialog = dialog
  BY <1>1 DEF line, Lines
<1>3. Leads(Append(s, l), a, c, request, dialog)
  BY <1>2, LeadsOn
<1>4. QED
  BY <1>2, <1>3

\* or any other line.
LEMMA Speaks ==
    ASSUME Types, NEW s \in Seq(Lines), NEW a, NEW b, Leads(s, a, b, request, dialog),
           command = Command, NEW u \in Words, NEW c \in Hearings,
           Hears(b, u, c, request)
    PROVE  /\ Say(u, command.dialog) \in Lines /\ Say(u, command.dialog).word = u
           /\ Leads(Append(s, Say(u, command.dialog)), a, c, request, dialog)
<1>1. command.dialog = dialog /\ dialog \in 1..Dialogs
  BY DEF Command, line, Types
<1> DEFINE l == Say(u, command.dialog)
<1>2. l \in Lines /\ l.word = u /\ l.dialog = dialog
  BY <1>1 DEF line, Lines, Say
<1> HIDE DEF l
<1>3. Leads(Append(s, l), a, c, request, dialog)
  BY <1>2, LeadsOn
<1>4. QED
  BY <1>2, <1>3 DEF l

\* Saying words changes outfifo only.
LEMMA SaysInto ==
    ASSUME Types, NEW lines, put("outfifo", lines), buf["outfifo"] \o lines \in Seq(Lines)
    PROVE  /\ buf'["outfifo"] = buf["outfifo"] \o lines
           /\ buf'["infifo"] = buf["infifo"] /\ buf'["stopfifo"] = buf["stopfifo"]
           /\ buf' \in [Fifos -> Seq(Lines)]
  BY DEF Types, put, Fifos

\* Saying one word.
LEMMA SaysOne ==
    ASSUME Types, NEW u \in Words, says(<<u>>)
    PROVE  LET d == command.dialog IN
           /\ buf'["outfifo"] = Append(buf["outfifo"], Say(u, d))
           /\ buf'["infifo"] = buf["infifo"] /\ buf'["stopfifo"] = buf["stopfifo"]
           /\ buf' \in [Fifos -> Seq(Lines)]
<1> DEFINE d == command.dialog
           s == buf["outfifo"]
           words == <<u>>
           lines == [i \in DOMAIN words |-> line(words[i], d, FALSE)]
<1>1. d \in 1..Dialogs /\ s \in Seq(Lines)
  BY DEF Types, Lines, Fifos
<1>2. words = <<u>>
  OBVIOUS
<1>3. put("outfifo", lines)
  BY DEF says
<1>4. DOMAIN words = 1..1 /\ words[1] = u
  OBVIOUS
<1>5. DOMAIN lines = 1..1 /\ lines = [i \in 1..1 |-> lines[i]]
  BY <1>4
<1>6. \A i \in DOMAIN words : lines[i] = line(words[i], d, FALSE)
  OBVIOUS
<1> HIDE DEF d, s, words, lines
<1>7. 1 \in DOMAIN words
  BY <1>4
<1>8. lines[1] = line(words[1], d, FALSE)
  BY <1>6, <1>7
<1>9. lines[1] = Say(u, d)
  BY <1>4, <1>8, Zenon DEF Say
<1>10. lines = <<Say(u, d)>>
  BY <1>5, <1>9, TupleOne, Zenon
<1>11. s \o <<Say(u, d)>> = Append(s, Say(u, d)) /\ s \o <<Say(u, d)>> \in Seq(Lines)
  BY <1>1, SayOne
<1>12. buf["outfifo"] \o lines \in Seq(Lines) /\ buf["outfifo"] \o lines = Append(s, Say(u, d))
  BY <1>10, <1>11 DEF s
<1>13. QED
  BY <1>3, <1>12, SaysInto DEF d, s

\* Saying two words.
LEMMA SaysTwo ==
    ASSUME Types, NEW u \in Words, NEW v \in Words, says(<<u, v>>)
    PROVE  LET d == command.dialog IN
           /\ buf'["outfifo"] = Append(Append(buf["outfifo"], Say(u, d)), Say(v, d))
           /\ buf'["infifo"] = buf["infifo"] /\ buf'["stopfifo"] = buf["stopfifo"]
           /\ buf' \in [Fifos -> Seq(Lines)]
<1> DEFINE d == command.dialog
           s == buf["outfifo"]
           words == <<u, v>>
           lines == [i \in DOMAIN words |-> line(words[i], d, FALSE)]
<1>1. d \in 1..Dialogs /\ s \in Seq(Lines)
  BY DEF Types, Lines, Fifos
<1>2. words = <<u, v>>
  OBVIOUS
<1>3. put("outfifo", lines)
  BY DEF says
<1>4. DOMAIN words = 1..2 /\ words[1] = u /\ words[2] = v
  OBVIOUS
<1>5. DOMAIN lines = 1..2 /\ lines = [i \in 1..2 |-> lines[i]]
  BY <1>4
<1>6. \A i \in DOMAIN words : lines[i] = line(words[i], d, FALSE)
  OBVIOUS
<1> HIDE DEF d, s, words, lines
<1>7. 1 \in DOMAIN words /\ 2 \in DOMAIN words
  BY <1>4
<1>8. lines[1] = line(words[1], d, FALSE) /\ lines[2] = line(words[2], d, FALSE)
  BY <1>6, <1>7
<1>9. lines[1] = Say(u, d) /\ lines[2] = Say(v, d)
  BY <1>4, <1>8, Zenon DEF Say
<1>10. lines = <<Say(u, d), Say(v, d)>>
  BY <1>5, <1>9, TupleTwo, Zenon
<1>11. s \o <<Say(u, d), Say(v, d)>> = Append(Append(s, Say(u, d)), Say(v, d)) /\ s \o <<Say(u, d), Say(v, d)>> \in Seq(Lines)
  BY <1>1, SayTwo
<1>12. buf["outfifo"] \o lines \in Seq(Lines) /\ buf["outfifo"] \o lines = Append(Append(s, Say(u, d)), Say(v, d))
  BY <1>10, <1>11 DEF s
<1>13. QED
  BY <1>3, <1>12, SaysInto DEF d, s

\* Saying three words.
LEMMA SaysThree ==
    ASSUME Types, NEW u \in Words, NEW v \in Words, NEW w \in Words, says(<<u, v, w>>)
    PROVE  LET d == command.dialog IN
           /\ buf'["outfifo"] = Append(Append(Append(buf["outfifo"], Say(u, d)), Say(v, d)), Say(w, d))
           /\ buf'["infifo"] = buf["infifo"] /\ buf'["stopfifo"] = buf["stopfifo"]
           /\ buf' \in [Fifos -> Seq(Lines)]
<1> DEFINE d == command.dialog
           s == buf["outfifo"]
           words == <<u, v, w>>
           lines == [i \in DOMAIN words |-> line(words[i], d, FALSE)]
<1>1. d \in 1..Dialogs /\ s \in Seq(Lines)
  BY DEF Types, Lines, Fifos
<1>2. words = <<u, v, w>>
  OBVIOUS
<1>3. put("outfifo", lines)
  BY DEF says
<1>4. DOMAIN words = 1..3 /\ words[1] = u /\ words[2] = v /\ words[3] = w
  OBVIOUS
<1>5. DOMAIN lines = 1..3 /\ lines = [i \in 1..3 |-> lines[i]]
  BY <1>4
<1>6. \A i \in DOMAIN words : lines[i] = line(words[i], d, FALSE)
  OBVIOUS
<1> HIDE DEF d, s, words, lines
<1>7. 1 \in DOMAIN words /\ 2 \in DOMAIN words /\ 3 \in DOMAIN words
  BY <1>4
<1>8. lines[1] = line(words[1], d, FALSE) /\ lines[2] = line(words[2], d, FALSE) /\ lines[3] = line(words[3], d, FALSE)
  BY <1>6, <1>7
<1>9. lines[1] = Say(u, d) /\ lines[2] = Say(v, d) /\ lines[3] = Say(w, d)
  BY <1>4, <1>8, Zenon DEF Say
<1>10. lines = <<Say(u, d), Say(v, d), Say(w, d)>>
  BY <1>5, <1>9, TupleThree, Zenon
<1>11. s \o <<Say(u, d), Say(v, d), Say(w, d)>> = Append(Append(Append(s, Say(u, d)), Say(v, d)), Say(w, d)) /\ s \o <<Say(u, d), Say(v, d), Say(w, d)>> \in Seq(Lines)
  BY <1>1, SayThree
<1>12. buf["outfifo"] \o lines \in Seq(Lines) /\ buf["outfifo"] \o lines = Append(Append(Append(s, Say(u, d)), Say(v, d)), Say(w, d))
  BY <1>10, <1>11 DEF s
<1>13. QED
  BY <1>3, <1>12, SaysInto DEF d, s

\* The conversation goes on when what is on its way leads where the server is.
LEMMA GoesOn ==
    ASSUME Good, serves, UNCHANGED <<at, opening, ends>>, UNCHANGED <<command, asking>>,
           fault' = "none", Leads(buf'["outfifo"], Heard, Said', request, dialog),
           Asking', Replying', Knowing'
    PROVE  Good'
<1>1. S = 4 /\ phase = 2 /\ Conversing
  BY Running
<1>2. InStep' /\ S' = S /\ C' = C /\ phase' = phase
  BY Same DEF Good
<1>3. Heard' = Heard /\ command' = Command' /\ request' = request /\ dialog' = dialog
  BY <1>1, <1>2 DEF Heard, Command, asking, Conversing
<1>4. Conversing'
  BY <1>1, <1>2, <1>3 DEF Conversing
<1>5. QED
  BY <1>1, <1>2, <1>4 DEF Good, Talking, Replying

\* At work: no question is open.
LEMMA Working ==
    ASSUME Types, Good, serves, stage = "work"
    PROVE  /\ C <= 5 /\ holders("outfifo", "r") # {} /\ buf["outfifo"] \in Seq(Lines)
           /\ Said = (IF timer_started THEN "timer" ELSE "handler")
           /\ command = Command /\ Leads(buf["outfifo"], Heard, Said, request, dialog)
           /\ Quiet(buf["outfifo"]) /\ Plain(buf["outfifo"]) /\ buf["infifo"] = <<>>
           /\ Known /\ Entitled
<1>1. Conversing
  BY Running
<1>2. Said = (IF timer_started THEN "timer" ELSE "handler")
  BY DEF Said
<1>3. C <= 5 /\ holders("outfifo", "r") # {}
  BY <1>2, Listening
<1>4. QED
  BY <1>1, <1>2, <1>3 DEF Conversing, Asking, Knowing, Types, Fifos

\* The timer starts.
LEMMA StartTimerGood ==
    ASSUME Types, Good, start_timer
    PROVE  Good' /\ buf' \in [Fifos -> Seq(Lines)] /\ buf'["stopfifo"] = buf["stopfifo"]
<1>1. serves /\ stage = "work" /\ ~timer_started /\ says(<<"Timer">>)
  BY DEF start_timer
<1> DEFINE s == buf["outfifo"]
           l == Say("Timer", command.dialog)
<1>2. /\ s \in Seq(Lines) /\ command = Command /\ Leads(s, Heard, "handler", request, dialog)
      /\ Quiet(s) /\ Plain(s) /\ buf["infifo"] = <<>> /\ Known /\ Entitled
      /\ holders("outfifo", "r") # {}
  BY <1>1, Working
<1>3. fault' = "none" /\ Said' = "timer" /\ stage' = "work"
  BY <1>1, <1>2 DEF says, put, Said, start_timer
<1>4. "Timer" \in Words /\ "timer" \in Hearings /\ Hears("handler", "Timer", "timer", request)
  BY DEF Words, Hearings, Hears
<1>5. /\ buf'["outfifo"] = Append(s, l) /\ buf'["infifo"] = buf["infifo"]
      /\ buf' \in [Fifos -> Seq(Lines)] /\ buf'["stopfifo"] = buf["stopfifo"]
  BY <1>1, <1>4, SaysOne
<1>6. l \in Lines /\ l.word = "Timer" /\ Leads(Append(s, l), Heard, "timer", request, dialog)
  BY <1>2, <1>4, Speaks
<1> HIDE DEF l
<1>7. Quiet(Append(s, l)) /\ Plain(Append(s, l))
  BY <1>2, <1>6, SayMore
<1> HIDE DEF s
<1>8. Asking' /\ Replying' /\ Knowing'
  BY <1>2, <1>3, <1>5, <1>7
     DEF Asking, Replying, Knowing, Known, Entitled, start_timer, registry, asking
<1>9. UNCHANGED <<at, opening, ends>> /\ UNCHANGED <<command, asking>>
  BY DEF start_timer
<1>10. Good'
  BY <1>1, <1>3, <1>5, <1>6, <1>8, <1>9, GoesOn
<1>11. QED
  BY <1>5, <1>10

\* The timer reports progress.
LEMMA TimerHandlerGood ==
    ASSUME Types, Good, timer_handler
    PROVE  Good' /\ buf' \in [Fifos -> Seq(Lines)] /\ buf'["stopfifo"] = buf["stopfifo"]
<1>1. serves /\ stage = "work" /\ timer_started /\ says(<<"progress">>)
  BY DEF timer_handler
<1> DEFINE s == buf["outfifo"]
           l == Say("progress", command.dialog)
<1>2. /\ s \in Seq(Lines) /\ command = Command /\ Leads(s, Heard, "timer", request, dialog)
      /\ Quiet(s) /\ Plain(s) /\ buf["infifo"] = <<>> /\ Known /\ Entitled
      /\ holders("outfifo", "r") # {}
  BY <1>1, Working
<1>3. fault' = "none" /\ Said' = "timer" /\ stage' = "work"
  BY <1>1, <1>2 DEF says, put, Said, timer_handler
<1>4. "progress" \in Words /\ "timer" \in Hearings /\ Hears("timer", "progress", "timer", request)
  BY DEF Words, Hearings, Hears
<1>5. /\ buf'["outfifo"] = Append(s, l) /\ buf'["infifo"] = buf["infifo"]
      /\ buf' \in [Fifos -> Seq(Lines)] /\ buf'["stopfifo"] = buf["stopfifo"]
  BY <1>1, <1>4, SaysOne
<1>6. l \in Lines /\ l.word = "progress" /\ Leads(Append(s, l), Heard, "timer", request, dialog)
  BY <1>2, <1>4, Speaks
<1> HIDE DEF l
<1>7. Quiet(Append(s, l)) /\ Plain(Append(s, l))
  BY <1>2, <1>6, SayMore
<1> HIDE DEF s
<1>8. Asking' /\ Replying' /\ Knowing'
  BY <1>2, <1>3, <1>5, <1>7
     DEF Asking, Replying, Knowing, Known, Entitled, timer_handler, registry, asking
<1>9. UNCHANGED <<at, opening, ends>> /\ UNCHANGED <<command, asking>>
  BY DEF timer_handler
<1>10. Good'
  BY <1>1, <1>3, <1>5, <1>6, <1>8, <1>9, GoesOn
<1>11. QED
  BY <1>5, <1>10

\* The server asks, with the progress bar put away meanwhile.
LEMMA PseudoExceptionGood ==
    ASSUME Types, Good, pseudo_exception
    PROVE  Good' /\ buf' \in [Fifos -> Seq(Lines)] /\ buf'["stopfifo"] = buf["stopfifo"]
<1>1. serves /\ stage = "work" /\ stage' = "asked" /\ timer_started' = timer_started
  BY DEF pseudo_exception
<1> DEFINE s == buf["outfifo"]
           x == Say("exception", command.dialog)
           y == Say("ready", command.dialog)
           z == Say("Timer", command.dialog)
<1>2. /\ s \in Seq(Lines) /\ command = Command /\ Leads(s, Heard, Said, request, dialog)
      /\ Quiet(s) /\ Plain(s) /\ buf["infifo"] = <<>> /\ Known /\ Entitled
      /\ holders("outfifo", "r") # {}
      /\ Said = (IF timer_started THEN "timer" ELSE "handler")
  BY <1>1, Working
<1>3. fault' = "none" /\ Said' = Said
  BY <1>1, <1>2 DEF says, put, Said, pseudo_exception
<1>4. /\ {"exception", "ready", "Timer"} \subseteq Words /\ {"timer", "handler"} \subseteq Hearings
      /\ Hears("handler", "exception", "handler", request)
      /\ Hears("timer", "ready", "handler", request)
      /\ Hears("handler", "Timer", "timer", request)
  BY DEF Words, Hearings, Hears
<1>5. UNCHANGED <<at, opening, ends>> /\ UNCHANGED <<command, asking>>
  BY DEF pseudo_exception
<1>6. ASSUME NEW t, buf'["outfifo"] = t, buf'["infifo"] = buf["infifo"],
             Leads(t, Heard, Said, request, dialog), OneException(t), Plain(t)
      PROVE  Good'
  <2>1. Asking' /\ Replying' /\ Knowing'
    BY <1>1, <1>2, <1>6
       DEF Asking, Replying, Knowing, Known, Entitled, pseudo_exception, registry, asking
  <2>2. QED
    BY <1>1, <1>3, <1>5, <1>6, <2>1, GoesOn
<1>7. CASE ~timer_started
  <2>1. says(<<"exception">>)
    BY <1>7 DEF pseudo_exception
  <2>2. /\ buf'["outfifo"] = Append(s, x) /\ buf'["infifo"] = buf["infifo"]
        /\ buf' \in [Fifos -> Seq(Lines)] /\ buf'["stopfifo"] = buf["stopfifo"]
    BY <1>4, <2>1, SaysOne
  <2>3. x \in Lines /\ x.word = "exception" /\ Leads(Append(s, x), Heard, Said, request, dialog)
    BY <1>2, <1>4, <1>7, Speaks
  <2> HIDE DEF x
  <2>4. OneException(Append(s, x)) /\ Plain(Append(s, x))
    BY <1>2, <2>3, SayMore
  <2> HIDE DEF s
  <2>5. QED
    BY <1>6, <2>2, <2>3, <2>4
<1>8. CASE timer_started
  <2> DEFINE s1 == Append(s, y)
             s2 == Append(s1, x)
             s3 == Append(s2, z)
  <2>1. says(<<"ready", "exception", "Timer">>)
    BY <1>8 DEF pseudo_exception
  <2>2. /\ buf'["outfifo"] = s3 /\ buf'["infifo"] = buf["infifo"]
        /\ buf' \in [Fifos -> Seq(Lines)] /\ buf'["stopfifo"] = buf["stopfifo"]
    BY <1>4, <2>1, SaysThree
  <2>3. y \in Lines /\ y.word = "ready" /\ Leads(s1, Heard, "handler", request, dialog)
    BY <1>2, <1>4, <1>8, Speaks
  <2> HIDE DEF y
  <2>4. s1 \in Seq(Lines) /\ Quiet(s1) /\ Plain(s1)
    BY <1>2, <2>3, SayMore, Appended
  <2> HIDE DEF s1
  <2>5. x \in Lines /\ x.word = "exception" /\ Leads(s2, Heard, "handler", request, dialog)
    BY <1>2, <1>4, <2>3, <2>4, Speaks
  <2> HIDE DEF x
  <2>6. s2 \in Seq(Lines) /\ OneException(s2) /\ Plain(s2)
    BY <2>4, <2>5, SayMore, Appended
  <2> HIDE DEF s2
  <2>7. z \in Lines /\ z.word = "Timer" /\ Leads(s3, Heard, "timer", request, dialog)
    BY <1>2, <1>4, <2>5, <2>6, Speaks
  <2> HIDE DEF z
  <2>8. OneException(s3) /\ Plain(s3)
    BY <2>6, <2>7, SayMore
  <2> HIDE DEF s3
  <2>9. Leads(s3, Heard, Said, request, dialog)
    BY <1>2, <1>8, <2>7
  <2>10. QED
    BY <1>6, <2>2, <2>8, <2>9
<1>9. QED
  BY <1>7, <1>8

\* The server reads the answer, which the client has written.
LEMMA ReadAnswerGood ==
    ASSUME Types, Good, ReadAnswer
    PROVE  Good'
<1>1. serves /\ stage = "asked" /\ stage' = "work" /\ timer_started' = timer_started
  BY DEF ReadAnswer
<1>2. Conversing
  BY <1>1, Running
<1>3. Said # "done" /\ Said' = Said
  BY <1>1 DEF Said
<1>4. holders("infifo", "w") # {}
  BY <1>1, <1>3, Listening
<1>5. buf["infifo"] # <<>>
  BY <1>4 DEF ReadAnswer, readable
<1>6. buf["infifo"] = <<Answer>> /\ Quiet(buf["outfifo"])
  BY <1>1, <1>2, <1>5 DEF Conversing, Asking
<1>7. first("infifo") = Answer /\ rest("infifo") = <<>>
  BY <1>5, <1>6 DEF first, rest
<1>8. fault' = "none" /\ buf' = [buf EXCEPT !["infifo"] = <<>>]
  <2>1. Answer.word = "answer"
    BY DEF Answer, line
  <2>2. QED
    BY <1>7, <2>1 DEF ReadAnswer, take
<1>9. buf'["infifo"] = <<>> /\ buf'["outfifo"] = buf["outfifo"]
  BY <1>8 DEF Types, Fifos
<1>10. Asking' /\ Replying' /\ Knowing'
  BY <1>1, <1>2, <1>6, <1>9
     DEF Conversing, Asking, Replying, Knowing, Known, Entitled, ReadAnswer, registry, asking
<1>11. UNCHANGED <<at, opening, ends>> /\ UNCHANGED <<command, asking>>
  BY DEF ReadAnswer
<1>12. Leads(buf'["outfifo"], Heard, Said', request, dialog)
  BY <1>2, <1>3, <1>9 DEF Conversing
<1>13. QED
  BY <1>1, <1>8, <1>10, <1>11, <1>12, GoesOn

\* What a command does to the registry keeps its types, and the device open or not
\* as its client will think.
LEMMA EffectLearned ==
    ASSUME Types, Known, Entitled, Effect, command.word = request
    PROVE  /\ dev' \in BOOLEAN /\ disk' \in Disks /\ media' \in Disks /\ changed' \in BOOLEAN
           /\ request # "OPEN" => dev' = (opened /\ request # "CLOSE")
           /\ request \in Keeping /\ listed => disk' # NoTable
<1>1. /\ dev \in BOOLEAN /\ disk \in Disks /\ media \in Disks /\ opened \in BOOLEAN
      /\ changed \in BOOLEAN
      /\ opened = dev /\ (listed => disk # NoTable)
  BY DEF Types, Known
<1>2. request # "OPEN" => dev = TRUE /\ opened = TRUE
  BY <1>1 DEF Entitled
<1>3. /\ \A t \in Tables : t \in Disks /\ t # NoTable
      /\ request \in Keeping <=> \/ request \in {"IS_CHANGED", "DISK_UNCHANGED", "COMMIT"}
                                 \/ request = "NEW_PARTITION" \/ request = "GET_RESIZE_RANGE"
                                 \/ request = "RESIZE_PARTITION"
  BY ConstantsAssumption DEF Disks, Keeping, OnPartitions
<1>4. CASE request = "OPEN" /\ command_open
  BY <1>1, <1>3, <1>4 DEF command_open, ped_disk_new, unchange_named, Disks
<1>5. CASE request = "CLOSE" /\ command_close
  BY <1>1, <1>2, <1>3, <1>5 DEF command_close, Disks
<1>6. CASE request = "IS_CHANGED" /\ UNCHANGED <<dev, disk, changed, geometries, media>>
  BY <1>1, <1>2, <1>6
<1>7. CASE request = "DISK_UNCHANGED" /\ command_disk_unchanged
  BY <1>1, <1>2, <1>7 DEF command_disk_unchanged, unchange_named
<1>8. CASE request = "PARTITIONS" /\ command_partitions
  BY <1>1, <1>2, <1>3, <1>8, Alike DEF command_partitions
<1>9. CASE request = "COMMIT" /\ command_commit
  BY <1>1, <1>2, <1>9 DEF command_commit, unchange_named, committed
<1>10. CASE request = "UNDO" /\ command_undo
  BY <1>1, <1>2, <1>3, <1>10 DEF command_undo, unchange_named, ped_disk_new, Disks
<1>11. CASE request = "NEW_LABEL" /\ command_new_label
  BY <1>1, <1>2, <1>3, <1>11 DEF command_new_label, Disks
<1>12. CASE request = "NEW_PARTITION" /\ command_new_partition
  BY <1>1, <1>2, <1>3, <1>12 DEF command_new_partition
<1>13. CASE request = "GET_RESIZE_RANGE" /\ command_get_resize_range
  BY <1>1, <1>2, <1>3, <1>13, Alike DEF command_get_resize_range
<1>14. CASE request = "RESIZE_PARTITION" /\ command_resize_partition
  <2>1. disk' \in Tables /\ dev' = dev
    BY <1>14, Alike DEF command_resize_partition, as_many
  <2>2. disk' \in Disks /\ disk' # NoTable /\ media' \in Disks /\ changed' \in BOOLEAN
    BY <1>1, <1>3, <1>14, <2>1 DEF command_resize_partition, unchange_named, committed
  <2>3. QED
    BY <1>1, <1>2, <1>14, <2>1, <2>2
<1>15. QED
  BY <1>4, <1>5, <1>6, <1>7, <1>8, <1>9, <1>10, <1>11, <1>12, <1>13, <1>14 DEF Effect

\* OK.
LEMMA FinishGood ==
    ASSUME Types, Good, Finish
    PROVE  Good' /\ buf' \in [Fifos -> Seq(Lines)] /\ buf'["stopfifo"] = buf["stopfifo"]
<1>1. /\ serves /\ stage = "work" /\ stage' = "reply" /\ timer_started' = FALSE
      /\ Effect /\ left' \in ReplyLines(command.word)
  BY DEF Finish
<1> DEFINE s == buf["outfifo"]
           y == Say("ready", command.dialog)
           x == Say("OK", command.dialog)
<1>2. /\ s \in Seq(Lines) /\ command = Command /\ Leads(s, Heard, Said, request, dialog)
      /\ Quiet(s) /\ Plain(s) /\ buf["infifo"] = <<>> /\ Known /\ Entitled
      /\ holders("outfifo", "r") # {} /\ C <= 5
      /\ Said = (IF timer_started THEN "timer" ELSE "handler")
  BY <1>1, Working
<1>3. command.word = request
  BY <1>2 DEF Command, line
<1>4. fault' = "none"
  BY <1>2 DEF Finish, says, put
<1>5. UNCHANGED <<at, opening, ends>> /\ UNCHANGED <<command, asking>>
  BY DEF Finish
<1>6. /\ left' \in {0, 1, 2} /\ (left' = 0 <=> 0 \in ReplyLines(request))
      /\ (left' > 1 => request = "PARTITIONS")
  BY <1>1, <1>3 DEF ReplyLines
<1>7. /\ {"ready", "OK"} \subseteq Words /\ "handler" \in Hearings /\ Said' \in Hearings
      /\ Hears("timer", "ready", "handler", request) /\ Hears("handler", "OK", Said', request)
  BY <1>1, <1>6 DEF Words, Hearings, Hears, Said
<1>8. ASSUME NEW t, buf'["outfifo"] = t, buf'["infifo"] = buf["infifo"],
             Leads(t, Heard, Said', request, dialog), Quiet(t), Plain(t)
      PROVE  Good'
  <2>1. Asking'
    BY <1>1, <1>2, <1>8 DEF Asking
  <2>2. Replying'
    BY <1>1, <1>5, <1>6 DEF Replying, asking
  <2>3. Tells(buf'["outfifo"], request', dev', disk')
    BY <1>8 DEF Tells, Plain
  <2>4. /\ request' = request /\ opened' = opened /\ listed' = listed
    BY <1>5 DEF asking
  <2>5. ToLearn'
    BY <1>1, <1>2, <1>3, <2>3, <2>4, EffectLearned DEF ToLearn
  <2>6. C' = C /\ C \in 1..18
    BY <1>5, Positions DEF C, Good
  <2>7. Knowing'
    BY <1>1, <1>2, <2>5, <2>6 DEF Knowing
  <2>8. QED
    BY <1>1, <1>4, <1>5, <1>8, <2>1, <2>2, <2>7, GoesOn
<1>9. CASE ~timer_started
  <2>1. says(<<"OK">>)
    BY <1>9 DEF Finish
  <2>2. /\ buf'["outfifo"] = Append(s, x) /\ buf'["infifo"] = buf["infifo"]
        /\ buf' \in [Fifos -> Seq(Lines)] /\ buf'["stopfifo"] = buf["stopfifo"]
    BY <1>7, <2>1, SaysOne
  <2>3. x \in Lines /\ x.word = "OK" /\ Leads(Append(s, x), Heard, Said', request, dialog)
    BY <1>2, <1>7, <1>9, Speaks
  <2> HIDE DEF x
  <2>4. Quiet(Append(s, x)) /\ Plain(Append(s, x))
    BY <1>2, <2>3, SayMore
  <2> HIDE DEF s
  <2>5. QED
    BY <1>8, <2>2, <2>3, <2>4
<1>10. CASE timer_started
  <2> DEFINE s1 == Append(s, y)
             s2 == Append(s1, x)
  <2>1. says(<<"ready", "OK">>)
    BY <1>10 DEF Finish
  <2>2. /\ buf'["outfifo"] = s2 /\ buf'["infifo"] = buf["infifo"]
        /\ buf' \in [Fifos -> Seq(Lines)] /\ buf'["stopfifo"] = buf["stopfifo"]
    BY <1>7, <2>1, SaysTwo
  <2>3. y \in Lines /\ y.word = "ready" /\ Leads(s1, Heard, "handler", request, dialog)
    BY <1>2, <1>7, <1>10, Speaks
  <2> HIDE DEF y
  <2>4. s1 \in Seq(Lines) /\ Quiet(s1) /\ Plain(s1)
    BY <1>2, <2>3, SayMore, Appended
  <2> HIDE DEF s1
  <2>5. x \in Lines /\ x.word = "OK" /\ Leads(s2, Heard, Said', request, dialog)
    BY <1>2, <1>7, <2>3, <2>4, Speaks
  <2> HIDE DEF x
  <2>6. Quiet(s2) /\ Plain(s2)
    BY <2>4, <2>5, SayMore
  <2> HIDE DEF s2
  <2>7. QED
    BY <1>8, <2>2, <2>5, <2>6
<1>11. QED
  BY <1>9, <1>10

\* The lines after OK.
LEMMA ReplyGood ==
    ASSUME Types, Good, Reply
    PROVE  Good' /\ buf' \in [Fifos -> Seq(Lines)] /\ buf'["stopfifo"] = buf["stopfifo"]
<1> DEFINE s == buf["outfifo"]
           w == IF command.word = "PARTITIONS" /\ left = 1 THEN "end" ELSE "value"
           yes == CASE command.word = "OPEN" -> dev
                    [] command.word = "IS_CHANGED" -> changed
                    [] OTHER -> disk # NoTable
           l == line(w, command.dialog, yes)
<1>1. /\ serves /\ stage = "reply" /\ stage' = "reply" /\ timer_started' = timer_started
      /\ left > 0 /\ left' = left - 1 /\ put("outfifo", <<l>>)
  BY DEF Reply
<1>2. Conversing /\ S = 4 /\ phase = 2
  BY <1>1, Running
<1>3. Said = "results"
  BY <1>1 DEF Said
<1>4. C <= 5 /\ holders("outfifo", "r") # {}
  BY <1>1, <1>3, Listening
<1>5. fault' = "none"
  BY <1>1, <1>4 DEF put
<1>6. UNCHANGED <<at, opening, ends>> /\ UNCHANGED <<command, asking>>
  BY DEF Reply
<1>7. command = Command /\ command.word = request
  BY <1>2 DEF Conversing, Command, line
<1>8. left \in Nat /\ left' \in Nat /\ Said' = (IF left = 1 THEN "done" ELSE "results")
  BY <1>1 DEF Types, Said
<1>9. w \in Words /\ Said' \in Hearings /\ Hears("results", w, Said', request)
  <2>1. left > 1 => request = "PARTITIONS"
    BY <1>1, <1>2 DEF Conversing, Replying
  <2>2. QED
    BY <1>1, <1>7, <1>8, <2>1 DEF Words, Hearings, Hears
<1>10. PICK v \in BOOLEAN : /\ l = line(w, command.dialog, v)
                            /\ request = "OPEN" => v = dev
                            /\ request = "PARTITIONS" => v = (disk # NoTable)
  <2>1. CASE request = "OPEN"
    BY <1>7, <2>1, Zenon DEF Types
  <2>2. CASE request = "IS_CHANGED"
    <3>1. changed \in BOOLEAN
      BY DEF Types
    <3>2. QED
      BY <1>7, <2>2, <3>1, Zenon
  <2>3. CASE request \notin {"OPEN", "IS_CHANGED"}
    BY <1>7, <2>3, Zenon
  <2>4. QED
    BY <2>1, <2>2, <2>3
<1>11. s \in Seq(Lines) /\ Leads(s, Heard, "results", request, dialog)
  BY <1>2, <1>3 DEF Conversing, Types, Fifos
<1> HIDE DEF w, l, yes
<1>12. l \in Lines /\ l.word = w /\ l.yes = v /\ Leads(Append(s, l), Heard, Said', request, dialog)
  BY <1>7, <1>9, <1>10, <1>11, SpeaksResult
<1>13. s \o <<l>> = Append(s, l) /\ Append(s, l) \in Seq(Lines)
  BY <1>11, <1>12, ConcatOne, Appended
<1>14. /\ buf'["outfifo"] = Append(s, l) /\ buf'["infifo"] = buf["infifo"]
       /\ buf' \in [Fifos -> Seq(Lines)] /\ buf'["stopfifo"] = buf["stopfifo"]
  BY <1>1, <1>13, SaysInto
<1>15. Quiet(s) /\ buf["infifo"] = <<>> /\ ToLearn /\ Replying
  <2>1. C \in 1..18
    BY Positions DEF Good
  <2>2. QED
    BY <1>1, <1>2, <1>4, <2>1 DEF Conversing, Asking, Knowing
<1>16. Quiet(Append(s, l)) /\ Tells(Append(s, l), request, dev, disk)
  <2>1. l.word # "exception"
    BY <1>12 DEF w
  <2>2. Tells(s, request, dev, disk)
    BY <1>15 DEF ToLearn
  <2>3. /\ request = "OPEN" => l.yes = dev
        /\ request = "PARTITIONS" => l.yes = (disk # NoTable)
    BY <1>10, <1>12, Zenon
  <2>4. QED
    BY <1>11, <1>12, <1>15, <2>1, <2>2, <2>3, SayMore
<1>17. UNCHANGED <<dev, disk, request, opened, listed>>
  BY DEF Reply, registry, asking
<1> HIDE DEF s
<1>18. Asking' /\ Replying'
  BY <1>1, <1>8, <1>14, <1>15, <1>16, <1>17 DEF Asking, Replying
<1>19. ToLearn'
  BY <1>14, <1>15, <1>16, <1>17 DEF ToLearn
<1>20. Knowing'
  <2>1. C' = C /\ C \in 1..18
    BY <1>6, Positions DEF C, Good
  <2>2. QED
    BY <1>1, <1>4, <1>19, <2>1 DEF Knowing
<1>21. Good'
  BY <1>1, <1>5, <1>6, <1>12, <1>14, <1>18, <1>20, GoesOn
<1>22. QED
  BY <1>14, <1>21

\* The server closes the FIFOs when it has replied.
LEMMA EndCommandGood ==
    ASSUME Types, Good, EndCommand
    PROVE  Good'
<1>1. /\ serves /\ stage = "reply" /\ left = 0 /\ advance("server")
      /\ UNCHANGED <<opening, ends, buf, fault, serving, registry, asking>>
  BY DEF EndCommand
<1>2. S = 4 /\ phase = 2 /\ Conversing
  BY <1>1, Running
<1>3. S' = 5 /\ C' = C /\ InStep' /\ opening["server"] = "no"
  BY <1>1, <1>2, ServerStep, ServerStepInStep DEF Good, Opens
<1>4. phase' = 2
  BY <1>1, <1>3 DEF phase, Phase, Passed
<1>5. UNCHANGED <<command, stage, timer_started, left, dev, disk, request, dialog, hearing,
                  opened, listed>>
  BY <1>1 DEF serving, registry, asking
<1>6. /\ Heard' = Heard /\ Said' = Said /\ Asking' = Asking /\ Replying' = Replying
      /\ Knowing' = Knowing /\ Command' = Command
  BY <1>1, <1>3, <1>5 DEF Heard, Said, Asking, Replying, Knowing, Known, Entitled, ToLearn,
     Command, Answer
<1>7. Conversing'
  BY <1>1, <1>2, <1>3, <1>5, <1>6 DEF Conversing
<1>8. QED
  BY <1>1, <1>3, <1>4, <1>5, <1>7 DEF Good, Talking

-----------------------------------------------------------------------------
\* The client's steps.

\* A dialog starts with a command the device allows.
LEMMA StartDialogGood ==
    ASSUME Types, Good, StartDialog
    PROVE  Good'
<1>1. C = 1 /\ opening["client"] = "no"
  <2>1. C = 1
    BY Positions, ClientNow DEF Good, StartDialog, doing
  <2>2. QED
    BY <2>1, Positions DEF Good, Together, Opens
<1>2. phase = 0
  BY <1>1, Positions DEF Good, Phase, Passed
<1>3. Silent
  BY <1>2 DEF Good, Talking
<1>4. advance("client") /\ opening' = opening /\ ends' = ends
  BY DEF StartDialog
<1>5. C' = 2 /\ S' = S /\ InStep'
  BY <1>1, <1>4, ClientStep, ClientStepInStep DEF Good, Opens
<1>6. phase' = 0
  BY <1>2, <1>4, <1>5 DEF phase
<1>7. UNCHANGED <<buf, fault, stage, timer_started, dev, disk, opened, listed>> /\ hearing' = "handler"
  BY DEF StartDialog, serving, registry
<1>8. Known' /\ Entitled'
  BY <1>3, <1>7 DEF Silent, Known, Entitled, StartDialog, Allowed
<1>9. QED
  BY <1>3, <1>5, <1>6, <1>7, <1>8 DEF Good, Talking, Silent

\* The client writes its command while the server reads.
LEMMA WriteCommandGood ==
    ASSUME Types, Good, WriteCommand
    PROVE  Good' /\ buf' \in [Fifos -> Seq(Lines)] /\ buf'["stopfifo"] = buf["stopfifo"]
<1>1. C = 3 /\ opening["client"] = "no"
  <2>1. C = 3
    BY Positions, ClientNow DEF Good, WriteCommand, doing
  <2>2. QED
    BY <2>1, Positions DEF Good, Together, Opens
<1>2. phase = 1
  BY <1>1, Positions DEF Good, Phase, Passed
<1>3. Commanding
  BY <1>2 DEF Good, Talking
<1>4. S # 3 /\ buf["infifo"] = <<>> /\ buf["outfifo"] = <<>>
  BY <1>1, <1>3 DEF Commanding
<1>5. "server" \in holders("infifo", "r")
  <2>1. /\ S \in 1..17 /\ opening["server"] \in {"no", "waits", "met"}
        /\ (opening["server"] # "no" => S \in Opens("server"))
        /\ Phase("server", S, opening["server"]) = 1
    BY <1>2, Positions DEF Good, Together, phase
  <2>2. ServerHolds("infifo", "r", S, opening["server"])
    BY <2>1 DEF ServerHolds, Between, Phase, Passed, Opens
  <2>3. QED
    BY <2>2 DEF Good, InStep, Held, Fifos, holders, Procs
<1>6. fault' = "none"
  BY <1>5 DEF WriteCommand, put
<1>7. advance("client") /\ opening' = opening /\ ends' = ends
  BY DEF WriteCommand
<1>8. C' = 4 /\ S' = S /\ InStep'
  BY <1>1, <1>7, ClientStep, ClientStepInStep DEF Good, Opens
<1>9. phase' = 1
  BY <1>2, <1>7, <1>8 DEF phase
<1>10. Command \in Lines
  BY DEF Command, line, Lines, Words, Types
<1>11. buf' = [buf EXCEPT !["infifo"] = @ \o <<Command>>]
  BY DEF WriteCommand, put, Command
<1>12. <<>> \o <<Command>> = <<Command>> /\ <<Command>> \in Seq(Lines)
  BY <1>10
<1>13. /\ buf'["infifo"] = <<Command>> /\ buf'["outfifo"] = <<>>
       /\ buf' \in [Fifos -> Seq(Lines)] /\ buf'["stopfifo"] = buf["stopfifo"]
  BY <1>4, <1>11, <1>12 DEF Types, Fifos
<1>14. UNCHANGED <<stage, timer_started, dev, disk, request, dialog, hearing, opened, listed>>
  BY DEF WriteCommand, serving, registry, asking
<1>15. Commanding'
  BY <1>3, <1>4, <1>8, <1>13, <1>14 DEF Commanding, Known, Entitled, Command
<1>16. QED
  BY <1>6, <1>8, <1>9, <1>13, <1>14, <1>15 DEF Good, Talking

\* What a client that reads finds: always a line, and one it can use.
LEMMA Reading ==
    ASSUME Types, Good, doing("client", "talk"), readable("outfifo")
    PROVE  /\ C = 5 /\ phase = 2 /\ Conversing /\ Heard = hearing
           /\ buf["outfifo"] # <<>> /\ buf["outfifo"] \in Seq(Lines)
           /\ said = Head(buf["outfifo"]) /\ rest("outfifo") = Tail(buf["outfifo"])
           /\ \E c \in Hearings : /\ Hears(hearing, said.word, c, request)
                                  /\ Leads(Tail(buf["outfifo"]), c, Said, request, dialog)
<1>1. C = 5 /\ opening["client"] = "no"
  <2>1. C = 5
    BY Positions, ClientNow DEF Good, doing
  <2>2. QED
    BY <2>1, Positions DEF Good, Together, Opens
<1>2. phase = 2
  BY <1>1, Positions DEF Good, Phase, Passed
<1>3. Conversing /\ Heard = hearing /\ buf["outfifo"] \in Seq(Lines)
  BY <1>1, <1>2 DEF Good, Talking, Heard, Types, Fifos
<1>4. Leads(buf["outfifo"], hearing, Said, request, dialog)
  BY <1>3 DEF Conversing
<1>5. buf["outfifo"] # <<>>
  <2>1. SUFFICES ASSUME buf["outfifo"] = <<>>
                 PROVE  FALSE
    OBVIOUS
  <2>2. "server" \notin holders("outfifo", "w")
    BY <2>1 DEF readable
  <2>3. ~ServerHolds("outfifo", "w", S, opening["server"])
    BY <2>2 DEF Good, InStep, Held, Fifos, holders, Procs
  <2>4. /\ S \in 1..17 /\ opening["server"] \in {"no", "waits", "met"}
        /\ (opening["server"] # "no" => S \in Opens("server"))
        /\ Phase("server", S, opening["server"]) = 2
    BY <1>2, Positions DEF Good, phase, Together
  <2>5. S > 4
    BY <2>3, <2>4 DEF ServerHolds, Between, Phase, Passed, Opens
  <2>6. Said = "done"
    BY <1>3, <2>5 DEF Conversing, Said
  <2>7. Leads(<<>>, hearing, "done", request, dialog)
    BY <1>4, <2>1, <2>6
  <2>8. hearing \in Hearings /\ "done" \in Hearings /\ hearing # "done"
    BY DEF Types, Hearings
  <2>9. QED
    BY <2>7, <2>8, LeadsNothing
<1>6. said = Head(buf["outfifo"]) /\ rest("outfifo") = Tail(buf["outfifo"])
  BY <1>5 DEF said, first, rest
<1>7. QED
  BY <1>1, <1>2, <1>3, <1>4, <1>5, <1>6, LeadsOff

\* The client reads a line and goes on reading.
LEMMA ReadsOn ==
    ASSUME Good, C = 5, Conversing, phase = 2, UNCHANGED <<at, opening, ends, serving, registry>>,
           UNCHANGED <<dialog, request, opened, listed>>, fault' = "none",
           Leads(buf'["outfifo"], hearing', Said, request, dialog),
           Asking', Tells(buf["outfifo"], request, dev, disk)
              => Tells(buf'["outfifo"], request, dev, disk),
           Plain(buf["outfifo"]) => Plain(buf'["outfifo"])
    PROVE  Good'
<1>1. InStep' /\ S' = S /\ C' = C /\ phase' = phase
  BY Same DEF Good
<1>2. UNCHANGED <<command, stage, timer_started, left, dev, disk>>
  BY DEF serving, registry
<1>3. Heard' = hearing' /\ Said' = Said /\ Command' = Command
  BY <1>1, <1>2 DEF Heard, Said, Command
<1>4. Replying' /\ Knowing'
  BY <1>1, <1>2 DEF Conversing, Replying, Knowing, Known, Entitled, ToLearn
<1>5. Conversing'
  BY <1>1, <1>2, <1>3, <1>4 DEF Conversing
<1>6. QED
  BY <1>1, <1>2, <1>5 DEF Good, Talking

\* The client reads the last line.
LEMMA ReadsLast ==
    ASSUME Types, Good, doing("client", "talk"), readable("outfifo"), take("outfifo"),
           advance("client"), UNCHANGED <<opening, ends, serving, registry, dialog, request>>,
           fault' = "none", Leads(Tail(buf["outfifo"]), "done", Said, request, dialog),
           stage = "reply" /\ ToLearn => Known'
    PROVE  Good'
<1>1. /\ C = 5 /\ phase = 2 /\ Conversing
      /\ buf["outfifo"] # <<>> /\ buf["outfifo"] \in Seq(Lines)
      /\ rest("outfifo") = Tail(buf["outfifo"])
  BY Reading
<1>2. Tail(buf["outfifo"]) \in Seq(Lines) /\ Said \in Hearings
  BY <1>1, Tailed DEF Said, Hearings
<1>3. Tail(buf["outfifo"]) = <<>> /\ Said = "done"
  BY <1>2, DoneIsAll
<1>4. stage = "reply" /\ left = 0 /\ ~timer_started
  BY <1>1, <1>3 DEF Said, Conversing, Replying
<1>5. buf'["outfifo"] = <<>> /\ buf'["infifo"] = buf["infifo"] /\ buf["infifo"] = <<>>
  BY <1>1, <1>3, <1>4 DEF take, Types, Fifos, Conversing, Asking
<1>6. C' = 6 /\ S' = S /\ InStep'
  BY <1>1, ClientStep, ClientStepInStep DEF Good, Opens
<1>7. phase' = 2
  BY <1>1, <1>6 DEF phase
<1>8. UNCHANGED <<command, stage, timer_started, left>>
  BY DEF serving
<1>9. Heard' = "done" /\ Said' = "done" /\ command' = Command'
  BY <1>1, <1>4, <1>6, <1>8 DEF Heard, Said, Conversing, Command
<1>10. Leads(buf'["outfifo"], Heard', Said', request', dialog')
  BY <1>3, <1>5, <1>9
<1>11. Known'
  BY <1>1, <1>4 DEF Conversing, Knowing
<1>12. Quiet(<<>>)
  BY SayNothing
<1>13. Asking' /\ Replying' /\ Knowing'
  BY <1>4, <1>5, <1>6, <1>8, <1>11, <1>12 DEF Asking, Replying, Knowing
<1>14. Conversing'
  BY <1>1, <1>4, <1>6, <1>8, <1>9, <1>10, <1>13 DEF Conversing
<1>15. QED
  BY <1>4, <1>6, <1>7, <1>8, <1>14 DEF Good, Talking

\* Reading a line that is no exception leaves the others as they were.
LEMMA Takes ==
    ASSUME Types, Conversing, buf["outfifo"] # <<>>, Head(buf["outfifo"]).word # "exception",
           rest("outfifo") = Tail(buf["outfifo"]), take("outfifo"), stage' = stage, dialog' = dialog
    PROVE  /\ buf'["outfifo"] = Tail(buf["outfifo"]) /\ Asking'
           /\ Tells(buf["outfifo"], request, dev, disk) => Tells(buf'["outfifo"], request, dev, disk)
           /\ Plain(buf["outfifo"]) => Plain(buf'["outfifo"])
<1> DEFINE s == buf["outfifo"]
<1>1. s \in Seq(Lines)
  BY DEF Types, Fifos
<1>2. buf'["outfifo"] = Tail(s) /\ buf'["infifo"] = buf["infifo"]
  BY DEF take, Types, Fifos
<1>3. /\ Quiet(s) => Quiet(Tail(s))
      /\ OneException(s) => OneException(Tail(s))
      /\ Plain(s) => Plain(Tail(s))
      /\ Tells(s, request, dev, disk) => Tells(Tail(s), request, dev, disk)
  BY <1>1, SayLess
<1> HIDE DEF s
<1>4. Asking'
  BY <1>2, <1>3 DEF Conversing, Asking, Answer, s
<1>5. QED
  BY <1>2, <1>3, <1>4 DEF s

\* error_handler reads OK.
LEMMA HearOKGood ==
    ASSUME Types, Good, HearOK
    PROVE  Good'
<1>1. /\ doing("client", "talk") /\ readable("outfifo") /\ hearing = "handler"
      /\ said.word = "OK" /\ take("outfifo") /\ fault' = "none"
      /\ UNCHANGED <<opening, ends, serving, registry, dialog, request>>
  BY DEF HearOK, hears, Good
<1>2. /\ C = 5 /\ phase = 2 /\ Conversing /\ Heard = hearing
      /\ buf["outfifo"] # <<>> /\ buf["outfifo"] \in Seq(Lines)
      /\ said = Head(buf["outfifo"]) /\ rest("outfifo") = Tail(buf["outfifo"])
      /\ \E c \in Hearings : /\ Hears(hearing, said.word, c, request)
                             /\ Leads(Tail(buf["outfifo"]), c, Said, request, dialog)
  BY <1>1, Reading
<1>3. Leads(Tail(buf["outfifo"]), IF 0 \in ReplyLines(request) THEN "done" ELSE "results", Said,
            request, dialog)
  BY <1>1, <1>2 DEF Hears
<1>4. CASE 0 \in ReplyLines(request)
  <2>1. advance("client") /\ Learn(FALSE)
    BY <1>4 DEF HearOK
  <2>2. ASSUME ToLearn
        PROVE  Known'
    <3>1. request \notin {"OPEN", "IS_CHANGED", "PARTITIONS"} \cup OnPartitions
      BY <1>4 DEF ReplyLines
    <3>2. /\ opened' = (opened /\ request # "CLOSE")
          /\ listed' = (listed /\ request \in Keeping)
      BY <2>1, <3>1 DEF Learn, Keeping
    <3>3. dev' = dev /\ disk' = disk
      BY <1>1 DEF registry
    <3>4. QED
      BY <2>2, <3>1, <3>2, <3>3 DEF ToLearn, Known
  <2>3. QED
    BY <1>1, <1>3, <1>4, <2>1, <2>2, ReadsLast
<1>5. CASE 0 \notin ReplyLines(request)
  <2>1. hearing' = "results" /\ UNCHANGED <<at, opened, listed>>
    BY <1>5 DEF HearOK
  <2>2. stage' = stage
    BY <1>1 DEF serving
  <2>3. /\ buf'["outfifo"] = Tail(buf["outfifo"]) /\ Asking'
        /\ Tells(buf["outfifo"], request, dev, disk) => Tells(buf'["outfifo"], request, dev, disk)
        /\ Plain(buf["outfifo"]) => Plain(buf'["outfifo"])
    BY <1>1, <1>2, <2>2, Takes
  <2>4. QED
    BY <1>1, <1>2, <1>3, <1>5, <2>1, <2>3, ReadsOn
<1>6. QED
  BY <1>4, <1>5

\* It reads Timer.
LEMMA HearTimerGood ==
    ASSUME Types, Good, HearTimer
    PROVE  Good'
<1>1. /\ doing("client", "talk") /\ readable("outfifo") /\ hearing = "handler"
      /\ said.word = "Timer" /\ take("outfifo") /\ fault' = "none" /\ hearing' = "timer"
      /\ UNCHANGED <<at, opening, ends, serving, registry, dialog, request, opened, listed>>
  BY DEF HearTimer, hears, Good
<1>2. /\ C = 5 /\ phase = 2 /\ Conversing /\ Heard = hearing
      /\ buf["outfifo"] # <<>> /\ buf["outfifo"] \in Seq(Lines)
      /\ said = Head(buf["outfifo"]) /\ rest("outfifo") = Tail(buf["outfifo"])
      /\ \E c \in Hearings : /\ Hears(hearing, said.word, c, request)
                             /\ Leads(Tail(buf["outfifo"]), c, Said, request, dialog)
  BY <1>1, Reading
<1>3. Leads(Tail(buf["outfifo"]), "timer", Said, request, dialog)
  BY <1>1, <1>2 DEF Hears
<1>4. stage' = stage
  BY <1>1 DEF serving
<1>5. /\ buf'["outfifo"] = Tail(buf["outfifo"]) /\ Asking'
      /\ Tells(buf["outfifo"], request, dev, disk) => Tells(buf'["outfifo"], request, dev, disk)
      /\ Plain(buf["outfifo"]) => Plain(buf'["outfifo"])
  BY <1>1, <1>2, <1>4, Takes
<1>6. QED
  BY <1>1, <1>2, <1>3, <1>5, ReadsOn

\* The progress bar.
LEMMA HearProgressGood ==
    ASSUME Types, Good, HearProgress
    PROVE  Good'
<1>1. /\ doing("client", "talk") /\ readable("outfifo") /\ hearing = "timer" /\ take("outfifo")
      /\ hearing' = (IF said.word = "ready" THEN "handler" ELSE "timer")
      /\ Expect({"progress", "ready"})
      /\ UNCHANGED <<at, opening, ends, serving, registry, dialog, request, opened, listed>>
  BY DEF HearProgress, hears
<1>2. /\ C = 5 /\ phase = 2 /\ Conversing /\ Heard = hearing
      /\ buf["outfifo"] # <<>> /\ buf["outfifo"] \in Seq(Lines)
      /\ said = Head(buf["outfifo"]) /\ rest("outfifo") = Tail(buf["outfifo"])
      /\ \E c \in Hearings : /\ Hears(hearing, said.word, c, request)
                             /\ Leads(Tail(buf["outfifo"]), c, Said, request, dialog)
  BY <1>1, Reading
<1>3. /\ said.word \in {"progress", "ready"}
      /\ Leads(Tail(buf["outfifo"]), hearing', Said, request, dialog)
  BY <1>1, <1>2 DEF Hears
<1>4. fault' = "none" /\ stage' = stage
  BY <1>1, <1>2, <1>3 DEF serving, Expect
<1>5. /\ buf'["outfifo"] = Tail(buf["outfifo"]) /\ Asking'
      /\ Tells(buf["outfifo"], request, dev, disk) => Tells(buf'["outfifo"], request, dev, disk)
      /\ Plain(buf["outfifo"]) => Plain(buf'["outfifo"])
  BY <1>1, <1>2, <1>3, <1>4, Takes
<1>6. QED
  BY <1>1, <1>2, <1>3, <1>4, <1>5, ReadsOn

\* A partition of the list.
LEMMA HearItemGood ==
    ASSUME Types, Good, HearItem
    PROVE  Good'
<1>1. /\ doing("client", "talk") /\ readable("outfifo") /\ hearing = "results" /\ take("outfifo")
      /\ request = "PARTITIONS" /\ said.word # "end" /\ Expect({"value"})
      /\ UNCHANGED <<at, opening, ends, serving, registry, asking>>
  BY DEF HearItem, hears
<1>2. /\ C = 5 /\ phase = 2 /\ Conversing /\ Heard = hearing
      /\ buf["outfifo"] # <<>> /\ buf["outfifo"] \in Seq(Lines)
      /\ said = Head(buf["outfifo"]) /\ rest("outfifo") = Tail(buf["outfifo"])
      /\ \E c \in Hearings : /\ Hears(hearing, said.word, c, request)
                             /\ Leads(Tail(buf["outfifo"]), c, Said, request, dialog)
  BY <1>1, Reading
<1>3. said.word = "value" /\ Leads(Tail(buf["outfifo"]), "results", Said, request, dialog)
  BY <1>1, <1>2 DEF Hears
<1>4. fault' = "none" /\ stage' = stage /\ UNCHANGED <<dialog, request, hearing, opened, listed>>
  BY <1>1, <1>2, <1>3 DEF serving, Expect, asking
<1>5. /\ buf'["outfifo"] = Tail(buf["outfifo"]) /\ Asking'
      /\ Tells(buf["outfifo"], request, dev, disk) => Tells(buf'["outfifo"], request, dev, disk)
      /\ Plain(buf["outfifo"]) => Plain(buf'["outfifo"])
  BY <1>1, <1>2, <1>3, <1>4, Takes
<1>6. QED
  BY <1>1, <1>2, <1>3, <1>4, <1>5, ReadsOn

\* The result, or the end of the list.
LEMMA HearResultGood ==
    ASSUME Types, Good, HearResult
    PROVE  Good'
<1>1. /\ doing("client", "talk") /\ readable("outfifo") /\ hearing = "results" /\ take("outfifo")
      /\ request = "PARTITIONS" => said.word = "end"
      /\ Expect({IF request = "PARTITIONS" THEN "end" ELSE "value"}) /\ Learn(said.yes)
      /\ advance("client")
      /\ UNCHANGED <<opening, ends, serving, registry, dialog, request>>
  BY DEF HearResult, hears
<1>2. /\ C = 5 /\ phase = 2 /\ Conversing /\ Heard = hearing
      /\ buf["outfifo"] # <<>> /\ buf["outfifo"] \in Seq(Lines)
      /\ said = Head(buf["outfifo"]) /\ rest("outfifo") = Tail(buf["outfifo"])
      /\ \E c \in Hearings : /\ Hears(hearing, said.word, c, request)
                             /\ Leads(Tail(buf["outfifo"]), c, Said, request, dialog)
  BY <1>1, Reading
<1>3. /\ said.word = IF request = "PARTITIONS" THEN "end" ELSE "value"
      /\ Leads(Tail(buf["outfifo"]), "done", Said, request, dialog)
  BY <1>1, <1>2 DEF Hears
<1>4. fault' = "none"
  BY <1>1, <1>2, <1>3 DEF Expect
<1>5. ASSUME ToLearn
      PROVE  Known'
  <2>1. /\ request = "OPEN" => said.yes = dev
        /\ request = "PARTITIONS" => said.yes = (disk # NoTable)
    <3>1. Tells(buf["outfifo"], request, dev, disk)
      BY <1>5 DEF ToLearn
    <3>2. Head(buf["outfifo"]).word \in {"value", "end"}
      BY <1>2, <1>3
    <3>3. /\ request = "OPEN" => Head(buf["outfifo"]).yes = dev
          /\ request = "PARTITIONS" => Head(buf["outfifo"]).yes = (disk # NoTable)
      BY <1>2, <3>1, <3>2, SayLess
    <3>4. QED
      BY <1>2, <3>3, Zenon
  <2>2. dev' = dev /\ disk' = disk
    BY <1>1 DEF registry
  <2>3. opened' = dev
    <3>1. CASE request = "OPEN"
      BY <1>1, <2>1, <3>1 DEF Learn
    <3>2. CASE request # "OPEN"
      BY <1>1, <1>5, <3>2 DEF Learn, ToLearn
    <3>3. QED
      BY <3>1, <3>2
  <2>4. listed' => disk # NoTable
    <3>1. CASE request = "PARTITIONS"
      BY <1>1, <2>1, <3>1 DEF Learn
    <3>2. CASE request # "PARTITIONS"
      BY <1>1, <1>5, <3>2 DEF Learn, ToLearn, Keeping
    <3>3. QED
      BY <3>1, <3>2
  <2>5. QED
    BY <2>2, <2>3, <2>4 DEF Known
<1>6. QED
  BY <1>1, <1>3, <1>4, <1>5, ReadsLast

\* An exception: the client answers while the server waits for the answer.
LEMMA HearExceptionGood ==
    ASSUME Types, Good, HearException
    PROVE  Good' /\ buf' \in [Fifos -> Seq(Lines)] /\ buf'["stopfifo"] = buf["stopfifo"]
<1> DEFINE s == buf["outfifo"]
<1>1. /\ doing("client", "talk") /\ readable("outfifo") /\ hearing = "handler"
      /\ said.word \notin {"OK", "Timer"}
      /\ buf' = [buf EXCEPT !["outfifo"] = rest("outfifo"), !["infifo"] = Append(@, Answer)]
      /\ Expect(IF holders("infifo", "r") = {} THEN {} ELSE {"exception"})
      /\ UNCHANGED <<at, opening, ends, serving, registry, asking>>
  BY DEF HearException, hears, Answer
<1>2. /\ C = 5 /\ phase = 2 /\ Conversing /\ Heard = hearing
      /\ s # <<>> /\ s \in Seq(Lines)
      /\ said = Head(s) /\ rest("outfifo") = Tail(s)
      /\ \E c \in Hearings : /\ Hears(hearing, said.word, c, request)
                             /\ Leads(Tail(s), c, Said, request, dialog)
  BY <1>1, Reading
<1>3. said.word = "exception" /\ Leads(Tail(s), "handler", Said, request, dialog)
  BY <1>1, <1>2 DEF Hears
<1>4. stage = "asked" /\ OneException(s) /\ buf["infifo"] = <<>>
  BY <1>2, <1>3, SayLess DEF Conversing, Asking
<1>5. "server" \in holders("infifo", "r")
  <2>1. S \in 1..17 /\ S # 3 /\ ~(S > 4)
    BY <1>2, <1>4, Positions DEF Conversing, Good
  <2>2. /\ opening["server"] \in {"no", "waits", "met"}
        /\ (opening["server"] # "no" => S \in Opens("server"))
        /\ Phase("server", S, opening["server"]) = 2
    BY <1>2, Positions DEF Good, Together, phase
  <2>3. ServerHolds("infifo", "r", S, opening["server"])
    BY <2>1, <2>2 DEF ServerHolds, Between, Phase, Passed, Opens
  <2>4. QED
    BY <2>3 DEF Good, InStep, Held, Fifos, holders, Procs
<1>6. fault' = "none"
  BY <1>1, <1>2, <1>3, <1>5 DEF Expect
<1>7. Answer \in Lines /\ Tail(s) \in Seq(Lines)
  <2>1. Answer \in Lines
    BY DEF Answer, line, Lines, Words, Types
  <2>2. QED
    BY <1>2, <2>1, Tailed
<1>8. Append(<<>>, Answer) = <<Answer>> /\ Append(<<>>, Answer) \in Seq(Lines)
  BY <1>7
<1>9. /\ buf'["outfifo"] = Tail(s) /\ buf'["infifo"] = <<Answer>>
      /\ buf' \in [Fifos -> Seq(Lines)] /\ buf'["stopfifo"] = buf["stopfifo"]
  BY <1>1, <1>2, <1>4, <1>7, <1>8 DEF Types, Fifos
<1>10. /\ Quiet(Tail(s)) /\ (Plain(s) => Plain(Tail(s)))
       /\ Tells(s, request, dev, disk) => Tells(Tail(s), request, dev, disk)
  BY <1>2, <1>3, <1>4, SayLess
<1>11. stage' = "asked" /\ UNCHANGED <<dialog, request, hearing, opened, listed>>
  BY <1>1, <1>4 DEF serving, asking
<1> HIDE DEF s
<1>12. Asking'
  BY <1>9, <1>10, <1>11 DEF Asking, Answer
<1>13. Good'
  BY <1>1, <1>2, <1>3, <1>6, <1>9, <1>10, <1>11, <1>12, ReadsOn DEF s
<1>14. QED
  BY <1>9, <1>13

-----------------------------------------------------------------------------
\* Types.

\* Reading a line of infifo or outfifo.
LEMMA TakeTypes ==
    ASSUME Types, NEW f \in {"infifo", "outfifo"}
    PROVE  /\ first(f) \in Lines
           /\ take(f) => buf' \in [Fifos -> Seq(Lines)] /\ buf'["stopfifo"] = buf["stopfifo"]
<1>1. buf \in [Fifos -> Seq(Lines)] /\ f \in Fifos /\ f # "stopfifo"
  BY DEF Types, Fifos
<1>2. Nothing \in Lines
  BY ConstantsAssumption DEF Nothing, line, Lines, Words
<1>3. buf[f] # <<>> => Head(buf[f]) \in Lines /\ Tail(buf[f]) \in Seq(Lines)
  BY <1>1, Tailed
<1>4. <<>> \in Seq(Lines)
  OBVIOUS
<1>5. first(f) \in Lines /\ rest(f) \in Seq(Lines)
  BY <1>2, <1>3, <1>4 DEF first, rest
<1>6. QED
  BY <1>1, <1>5 DEF take, Fifos

\* The moves.
LEMMA MoveTypes ==
    ASSUME Types, buf["stopfifo"] = <<>>, NEW p \in Procs, Move(p)
    PROVE  Types' /\ buf'["stopfifo"] = <<>>
<1>1. buf \in [Fifos -> Seq(Lines)] /\ <<>> \in Seq(Lines)
  BY DEF Types
<1>2. /\ UNCHANGED <<command, stage, timer_started, work, left, dev, disk, changed, media>>
      /\ UNCHANGED <<dialog, request, hearing, opened, listed>>
  BY DEF Move, Open, Opened, Close, Drain, serving, registry, asking
<1>3. \/ buf' = buf
      \/ \E g : buf' = [buf EXCEPT ![g] = <<>>]
  BY DEF Move, Open, Opened, Close, Drain
<1>4. buf' \in [Fifos -> Seq(Lines)] /\ buf'["stopfifo"] = <<>>
  BY <1>1, <1>3 DEF Fifos
<1>5. QED
  BY <1>2, <1>4 DEF Types

\* The server's other steps.
LEMMA ServerTypes ==
    ASSUME Types, Good,
           \/ ReadCommand \/ start_timer \/ timer_handler \/ pseudo_exception \/ ReadAnswer
           \/ Finish \/ Reply \/ EndCommand
    PROVE  Types' /\ buf'["stopfifo"] = buf["stopfifo"]
<1>1. CASE ReadCommand
  BY <1>1, TakeTypes DEF ReadCommand, Types, registry, asking
<1>2. CASE start_timer
  BY <1>2, StartTimerGood DEF start_timer, Types, registry, asking
<1>3. CASE timer_handler
  BY <1>3, TimerHandlerGood DEF timer_handler, Types, registry, asking
<1>4. CASE pseudo_exception
  BY <1>4, PseudoExceptionGood DEF pseudo_exception, Types, registry, asking
<1>5. CASE ReadAnswer
  BY <1>5, TakeTypes DEF ReadAnswer, Types, registry, asking
<1>6. CASE Finish
  <2>1. serves /\ stage = "work" /\ Effect
    BY <1>6 DEF Finish
  <2>2. Known /\ Entitled /\ command = Command
    BY <2>1, Working
  <2>3. command.word = request
    BY <2>2 DEF Command, line
  <2>4. dev' \in BOOLEAN /\ disk' \in Disks /\ media' \in Disks /\ changed' \in BOOLEAN
    BY <2>1, <2>2, <2>3, EffectLearned
  <2>5. left' \in Nat
    BY <1>6 DEF Finish, ReplyLines
  <2>6. QED
    BY <1>6, <2>4, <2>5, FinishGood DEF Finish, Types, asking
<1>7. CASE Reply
  <2>1. left' \in Nat
    BY <1>7 DEF Reply, Types
  <2>2. QED
    BY <1>7, <2>1, ReplyGood DEF Reply, Types, registry, asking
<1>8. CASE EndCommand
  BY <1>8 DEF EndCommand, Types, serving, registry, asking
<1>9. QED
  BY <1>1, <1>2, <1>3, <1>4, <1>5, <1>6, <1>7, <1>8

\* The client's other steps.
LEMMA ClientTypes ==
    ASSUME Types, Good,
           \/ StartDialog \/ WriteCommand
           \/ HearOK \/ HearTimer \/ HearProgress \/ HearException \/ HearResult \/ HearItem
    PROVE  Types' /\ buf'["stopfifo"] = buf["stopfifo"]
<1>1. CASE StartDialog
  <2>1. dialog' \in 1..Dialogs
    BY <1>1, ConstantsAssumption DEF StartDialog, Types
  <2>2. QED
    BY <1>1, <2>1 DEF StartDialog, Types, serving, registry
<1>2. CASE WriteCommand
  BY <1>2, WriteCommandGood DEF WriteCommand, Types, serving, registry, asking
<1>3. CASE HearOK
  BY <1>3, TakeTypes DEF HearOK, Learn, Types, serving, registry
<1>4. CASE HearTimer
  BY <1>4, TakeTypes DEF HearTimer, Types, serving, registry
<1>5. CASE HearProgress
  BY <1>5, TakeTypes DEF HearProgress, Types, serving, registry
<1>6. CASE HearException
  BY <1>6, HearExceptionGood DEF HearException, Types, serving, registry, asking
<1>7. CASE HearResult
  <2>1. said.yes \in BOOLEAN
    BY TakeTypes DEF said, Lines
  <2>2. opened' \in BOOLEAN /\ listed' \in BOOLEAN
    BY <1>7, <2>1 DEF HearResult, Learn, Types
  <2>3. QED
    BY <1>7, <2>2, TakeTypes DEF HearResult, Types, serving, registry
<1>8. CASE HearItem
  BY <1>8, TakeTypes DEF HearItem, Types, serving, registry, asking
<1>9. QED
  BY <1>1, <1>2, <1>3, <1>4, <1>5, <1>6, <1>7, <1>8

-----------------------------------------------------------------------------
\* The invariant holds.

\* Nothing is ever written to stopfifo: it is only opened and closed.
Unwritten == buf["stopfifo"] = <<>>

\* Lines are of the dialog they are part of.
LEMMA GoodIsOurs == Types /\ Good /\ Unwritten => Ours
<1>1. SUFFICES ASSUME Types, Good, buf["stopfifo"] = <<>>
               PROVE  Ours
  BY DEF Unwritten
<1>2. Command.dialog = dialog /\ Answer.dialog = dialog
  BY DEF Command, Answer, line
<1>3. ASSUME NEW s, s = <<>> \/ s = <<Command>> \/ s = <<Answer>>
      PROVE  \A i \in 1..Len(s) : s[i].dialog = dialog
  BY <1>2, <1>3
<1>4. \A i \in 1..Len(buf["infifo"]) : buf["infifo"][i].dialog = dialog
  <2>1. \/ buf["infifo"] = <<>> \/ buf["infifo"] = <<Command>> \/ buf["infifo"] = <<Answer>>
    BY <1>1 DEF Good, Talking, Commanding, Conversing, Silent, Asking
  <2>2. QED
    BY <1>3, <2>1
<1>5. \A i \in 1..Len(buf["outfifo"]) : buf["outfifo"][i].dialog = dialog
  <2>1. CASE phase = 2
    BY <1>1, <2>1, LeadsDialog DEF Good, Talking, Conversing
  <2>2. CASE phase # 2
    <3>1. buf["outfifo"] = <<>>
      BY <1>1, <2>2 DEF Good, Talking, Commanding, Silent
    <3>2. QED
      BY <1>3, <3>1
  <2>3. QED
    BY <2>1, <2>2
<1>6. \A i \in 1..Len(buf["stopfifo"]) : buf["stopfifo"][i].dialog = dialog
  BY <1>1, <1>3
<1>7. QED
  BY <1>1, <1>4, <1>5, <1>6 DEF Ours, Fifos

\* It holds at the start.
LEMMA InitInv == Init => IInv
<1>1. SUFFICES ASSUME Init
               PROVE  IInv
  OBVIOUS
<1>2. Types
  <2>1. line("OK", 1, FALSE) \in Lines
    BY ConstantsAssumption DEF line, Lines, Words
  <2>2. 1 \in 1..Dialogs
    BY ConstantsAssumption
  <2>3. <<>> \in Seq(Lines)
    OBVIOUS
  <2>4. QED
    BY <1>1, <2>1, <2>2, <2>3 DEF Init, Types, Disks, Commands
<1>3. S = 1 /\ C = 1 /\ opening["server"] = "no" /\ opening["client"] = "no"
  BY <1>1 DEF Init, S, C, Procs
<1>4. Placed
  BY <1>1, <1>3 DEF Init, Placed, Together, Phase, Passed, Opens
<1>5. Held
  BY <1>1, <1>3 DEF Init, Held, ServerHolds, ClientHolds, Between
<1>6. phase = 0
  BY <1>3 DEF phase, Phase, Passed
<1>7. Talking
  <2>1. buf["infifo"] = <<>> /\ buf["outfifo"] = <<>> /\ ~timer_started
    BY <1>1 DEF Init, Fifos
  <2>2. Known
    BY <1>1 DEF Init, Known
  <2>3. QED
    BY <1>3, <1>6, <2>1, <2>2 DEF Talking, Silent
<1>8. buf["stopfifo"] = <<>> /\ fault = "none" /\ stage = "work"
  BY <1>1 DEF Init, Fifos
<1>9. Ours
  BY <1>2, <1>4, <1>5, <1>7, <1>8, GoodIsOurs DEF Good, InStep, Unwritten
<1>10. Room
  BY <1>1, ConstantsAssumption DEF Init, Room
<1>11. QED
  BY <1>2, <1>4, <1>5, <1>7, <1>8, <1>9, <1>10 DEF IInv, InStep

\* The server exits, or has, with the lines of this dialog in the FIFOs.
Stopped == /\ fault' # "none" /\ ServerExits' /\ Ours'
           /\ stage' = "reply" => ~timer_started'

\* Every step keeps the programs together, unless the server exits.
LEMMA NextGood ==
    ASSUME IInv, Next
    PROVE  /\ Types' /\ (buf'["stopfifo"] = <<>>)
           /\ Good' \/ Stopped
<1>1. Types /\ Ours /\ buf["stopfifo"] = <<>> /\ (fault = "none" => Good)
  BY DEF IInv, Ours, Good
<1>2. ASSUME NEW p \in Procs, Move(p)
      PROVE  Types' /\ buf'["stopfifo"] = <<>> /\ Good'
  <2>1. fault = "none" /\ fault' = "none" /\ stage' = stage /\ timer_started' = timer_started
    BY <1>2 DEF Move, Open, Opened, Close, Drain, doing, serving
  <2>2. Types' /\ buf'["stopfifo"] = <<>>
    BY <1>1, <1>2, MoveTypes
  <2>3. InStep /\ Talking
    BY <1>1, <2>1 DEF Good
  <2>4. InStep' /\ Talking'
    <3>1. CASE Open(p)
      BY <1>1, <2>3, <3>1, OpenInStep, OpenTalking
    <3>2. CASE Opened(p)
      BY <1>1, <2>3, <3>2, ServerOpenedInStep, ClientOpenedInStep, OpenTalking DEF Procs
    <3>3. CASE Close(p)
      BY <1>1, <2>3, <3>3, ServerCloseInStep, ClientCloseInStep, CloseTalking DEF Procs
    <3>4. CASE Drain(p)
      BY <1>1, <2>3, <3>4, DrainTalking
    <3>5. QED
      BY <1>2, <3>1, <3>2, <3>3, <3>4 DEF Move
  <2>5. QED
    BY <1>1, <2>1, <2>2, <2>4 DEF Good
<1>3. CASE \/ start_timer \/ timer_handler \/ pseudo_exception \/ ReadAnswer
           \/ Finish \/ Reply \/ EndCommand
  <2>1. Good
    BY <1>1, <1>3 DEF start_timer, timer_handler, pseudo_exception, ReadAnswer,
       Finish, Reply, EndCommand, serves, doing
  <2>2. Types' /\ buf'["stopfifo"] = <<>>
    BY <1>1, <1>3, <2>1, ServerTypes
  <2>3. Good'
    BY <1>1, <1>3, <2>1, StartTimerGood, TimerHandlerGood, PseudoExceptionGood,
       ReadAnswerGood, FinishGood, ReplyGood, EndCommandGood
  <2>4. QED
    BY <2>2, <2>3
<1>4. CASE CannotReopen
  <2>1. Types' /\ buf'["stopfifo"] = <<>>
    BY <1>1, <1>4 DEF CannotReopen, Types, serving, asking, Disks
  <2>2. /\ fault' = "reopen" /\ buf' = buf /\ dialog' = dialog /\ command'.word = "NEW_LABEL"
        /\ stage' = stage /\ timer_started' = timer_started
    BY <1>4 DEF CannotReopen, serving, asking
  <2>3. Stopped
    BY <1>1, <2>2 DEF IInv, Stopped, ServerExits, Ours
  <2>4. QED
    BY <2>1, <2>3
<1>5. CASE TooManyPartitions
  <2>1. Good /\ serves /\ stage = "work" /\ Effect
    BY <1>1, <1>5 DEF TooManyPartitions, serves, doing
  <2>2. Known /\ Entitled /\ command = Command
    BY <1>1, <2>1, Working
  <2>3. command.word = request
    BY <2>2 DEF Command, line
  <2>4. dev' \in BOOLEAN /\ disk' \in Disks /\ media' \in Disks /\ changed' \in BOOLEAN
    BY <1>1, <2>1, <2>2, <2>3, EffectLearned
  <2>5. /\ fault' = "crowded" /\ buf' = buf /\ dialog' = dialog
        /\ stage' = stage /\ timer_started' = timer_started
    BY <1>5 DEF TooManyPartitions, serving, asking
  <2>6. Types' /\ buf'["stopfifo"] = <<>>
    BY <1>1, <1>5, <2>4, <2>5 DEF TooManyPartitions, Types, serving, asking
  <2>7. disk' \in Crowded /\ changed' = FALSE
    <3>1. geometries \notin Crowded /\ geometries' \in Crowded
      BY <1>5, <2>1 DEF IInv, Room, Good, TooManyPartitions, too_many
    <3>2. QED
      BY <2>1, <3>1, EffectRemembers
  <2>8. Stopped
    BY <1>1, <2>5, <2>7 DEF IInv, Stopped, ServerExits, Ours
  <2>9. QED
    BY <2>6, <2>8
<1>6. CASE ReadCommand
  <2>1. Good
    BY <1>1, <1>6 DEF ReadCommand, doing
  <2>2. Types' /\ buf'["stopfifo"] = <<>>
    BY <1>1, <1>6, <2>1, ServerTypes
  <2>3. CASE Good'
    BY <2>2, <2>3
  <2>4. CASE /\ fault' = "no_table" /\ command'.word = "COMMIT" /\ disk' = NoTable
             /\ stage' = "work" /\ dialog' = dialog
             /\ buf["infifo"] = <<Command>> /\ buf'["infifo"] = <<>>
             /\ buf'["outfifo"] = buf["outfifo"]
    <3>1. \A i \in 1..Len(buf'["outfifo"]) : buf'["outfifo"][i].dialog = dialog'
      BY <1>1, <2>4 DEF Ours, Fifos
    <3>2. \A f \in {"infifo", "stopfifo"} : Len(buf'[f]) = 0
      BY <2>2, <2>4
    <3>3. Ours'
      BY <2>2, <3>1, <3>2 DEF Ours, Fifos
    <3>4. QED
      BY <2>2, <2>4, <3>3 DEF Stopped, ServerExits
  <2>5. QED
    BY <1>1, <1>6, <2>1, <2>3, <2>4, ReadCommandGood
<1>7. CASE \/ StartDialog \/ WriteCommand
           \/ HearOK \/ HearTimer \/ HearProgress \/ HearException \/ HearResult \/ HearItem
  <2>1. Good
    BY <1>1, <1>7 DEF StartDialog, WriteCommand, HearOK, HearTimer, HearProgress, HearException,
       HearResult, HearItem, hears, doing
  <2>2. Types' /\ buf'["stopfifo"] = <<>>
    BY <1>1, <1>7, <2>1, ClientTypes
  <2>3. Good'
    BY <1>1, <1>7, <2>1, StartDialogGood, WriteCommandGood, HearOKGood, HearTimerGood,
       HearProgressGood, HearExceptionGood, HearResultGood, HearItemGood
  <2>4. QED
    BY <2>2, <2>3
<1>8. CASE Exited
  <2>1. UNCHANGED vars /\ fault # "none" /\ ServerExits
    BY <1>8 DEF Exited, IInv
  <2>2. Types' /\ buf'["stopfifo"] = <<>>
    BY <1>1, <2>1 DEF vars, Types, ipc, serving, registry, asking
  <2>3. Stopped
    BY <1>1, <2>1 DEF vars, ipc, serving, registry, asking, IInv, Stopped, ServerExits, Ours
  <2>4. QED
    BY <2>2, <2>3
<1>9. CASE ServerNext
  BY <1>2, <1>3, <1>4, <1>5, <1>6, <1>9 DEF ServerNext, Procs
<1>10. CASE ClientNext
  BY <1>2, <1>7, <1>10 DEF ClientNext, Procs
<1>11. QED
  BY <1>8, <1>9, <1>10 DEF Next

\* A step of either program keeps the invariant.
LEMMA NextInv == IInv /\ [Next]_vars => IInv'
<1>1. ASSUME IInv, Next
      PROVE  IInv'
  <2>1. Types' /\ (buf'["stopfifo"] = <<>>) /\ (Good' \/ Stopped)
    BY <1>1, NextGood
  <2>2. Room'
    BY <1>1, NextRoom DEF IInv
  <2>3. CASE Good'
    <3>1. Types' /\ Unwritten'
      BY <2>1 DEF Unwritten
    <3>2. Ours'
      BY <2>3, <3>1, GoodIsOurs, PTL
    <3>3. QED
      BY <2>1, <2>2, <2>3, <3>2 DEF IInv, Good
  <2>4. CASE Stopped
    BY <2>1, <2>2, <2>4 DEF IInv, Stopped
  <2>5. QED
    BY <2>1, <2>3, <2>4
<1>2. ASSUME IInv, UNCHANGED vars
      PROVE  IInv'
  <2>1. Types' /\ Ours' /\ Room'
    BY <1>2, NextRoom DEF IInv, Types, Ours, vars, ipc, serving, registry, asking
  <2>2. InStep => InStep'
    BY <1>2, Same DEF vars, ipc
  <2>3. phase' = phase /\ S' = S /\ C' = C
    BY <1>2 DEF phase, S, C, vars, ipc
  <2>4. Talking => Talking'
    <3>1. /\ Known' = Known /\ Entitled' = Entitled /\ Said' = Said /\ Asking' = Asking
          /\ Replying' = Replying /\ ToLearn' = ToLearn /\ Command' = Command
      BY <1>2 DEF Known, Entitled, Said, Asking, Replying, ToLearn, Command, Answer,
         vars, ipc, serving, registry, asking
    <3>2. Heard' = Heard /\ Knowing' = Knowing
      BY <1>2, <2>3, <3>1 DEF Heard, Knowing, vars, ipc, serving, asking
    <3>3. QED
      BY <1>2, <2>3, <3>1, <3>2 DEF Talking, Commanding, Conversing, Silent,
         vars, ipc, serving, registry, asking
  <2>5. QED
    BY <1>2, <2>1, <2>2, <2>4 DEF IInv, ServerExits, vars, ipc, serving, registry
<1>3. QED
  BY <1>1, <1>2

\* A client that is about to start a dialog is in no dialog.
LEMMA IdleIsSilent ==
    ASSUME IInv, doing("client", "idle")
    PROVE  Silent
<1>1. Good
  BY DEF IInv, Good, doing
<1>2. C = 1 /\ opening["client"] = "no"
  <2>1. C = 1
    BY <1>1, Positions, ClientNow DEF Good, doing
  <2>2. QED
    BY <1>1, <2>1, Positions DEF Good, Together, Opens
<1>3. phase = 0
  BY <1>1, <1>2, Positions DEF Good, Phase, Passed
<1>4. QED
  BY <1>1, <1>3 DEF Good, Talking

\* Server and client are always in the same phase of the dialog, and what is in the
\* FIFOs takes each from where it is to where the other is.
THEOREM Invariance == Spec => []IInv
  BY InitInv, NextInv, PTL DEF Spec

\* No client that obeys the documentation makes parted_server exit, but for a device
\* that cannot be opened again, a table of fifty partitions or more, and a COMMIT
\* without a table on a machine with its firmware on the disk; nobody reads past the end of a FIFO, reads a line that was meant
\* otherwise, or writes to a FIFO nobody reads.
THEOREM NobodyFails == Spec => []NoFault
<1>1. IInv => NoFault
  BY DEF IInv, NoFault
<1>2. QED
  BY <1>1, Invariance, PTL

\* A client only reads the reply to its own command, and a dialog leaves nothing in
\* the FIFOs for the next one.
THEOREM RepliesToItsOwn == Spec => []OwnDialog
<1>1. IInv => OwnDialog
  <2>1. SUFFICES ASSUME IInv
                 PROVE  OwnDialog
    OBVIOUS
  <2>2. ASSUME doing("client", "talk")
        PROVE  command = line(request, dialog, FALSE)
    <3>1. Good
      BY <2>1, <2>2 DEF IInv, Good, doing
    <3>2. C = 5 /\ opening["client"] = "no"
      <4>1. C = 5
        BY <2>2, <3>1, Positions, ClientNow DEF Good, doing
      <4>2. QED
        BY <3>1, <4>1, Positions DEF Good, Together, Opens
    <3>3. phase = 2
      BY <3>1, <3>2, Positions DEF Good, Phase, Passed
    <3>4. QED
      BY <3>1, <3>3 DEF Good, Talking, Conversing, Command
  <2>3. ASSUME NEW f \in Fifos, NEW i \in DOMAIN buf[f]
        PROVE  buf[f][i].dialog = dialog
    <3>1. DOMAIN buf[f] = 1..Len(buf[f])
      <4>1. buf[f] \in Seq(Lines)
        BY <2>1 DEF IInv, Types
      <4>2. QED
        BY <4>1
    <3>2. QED
      BY <2>1, <3>1 DEF IInv, Ours
  <2>4. ASSUME doing("client", "idle")
        PROVE  \A f \in Fifos : buf[f] = <<>>
    <3>1. Silent
      BY <2>1, <2>4, IdleIsSilent
    <3>2. QED
      BY <2>1, <3>1 DEF Silent, IInv, Ours, Fifos
  <2>5. QED
    BY <2>2, <2>3, <2>4 DEF OwnDialog
<1>2. QED
  BY <1>1, Invariance, PTL

\* Between two dialogs the client knows from the replies whether the device is open,
\* and a table it was told of is there.
THEOREM ClientIsRight == Spec => []ClientKnows
<1>1. IInv => ClientKnows
  <2>1. SUFFICES ASSUME IInv, doing("client", "idle")
                 PROVE  opened = dev /\ (listed => disk # NoTable)
    BY DEF ClientKnows
  <2>2. Silent
    BY <2>1, IdleIsSilent
  <2>3. QED
    BY <2>2 DEF Silent, Known
<1>2. QED
  BY <1>1, Invariance, PTL
=============================================================================
