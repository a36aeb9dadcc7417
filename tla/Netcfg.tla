-------------------------------- MODULE Netcfg --------------------------------
(***************************************************************************)
(* packages/netcfg: the questions of main, netcfg_activate_dhcp and        *)
(* netcfg_get_static, and the processes behind them.  netcfg forks a DHCP  *)
(* client, a DHCPv6 client and rdnssd, learns of their ends from SIGCHLD,  *)
(* polls them with a timeout the user can cut short, and kills them by     *)
(* name.  A process that got a lease leaves a daemon behind.               *)
(***************************************************************************)
EXTENDS Integers

CONSTANTS
    MaxTries,   \* autoconfigurations in one behaviour
    Timeout,    \* netcfg/dhcp_timeout
    Timeout6,   \* netcfg/dhcpv6_timeout
    Networks,   \* the DHCPv6 client on the image, and what routers may advertise
    Machines,   \* how many interfaces the machine may have
    HasWpa      \* wpa_supplicant is on the image

ASSUME ConstantsAssumption ==
    /\ MaxTries \in Nat /\ Timeout \in Nat /\ Timeout6 \in Nat
    /\ Networks \subseteq {"absent", "dhclient", "dhcp6c"}
                       \X {"none", "slaac", "stateless", "stateful"}
    /\ Machines \subseteq Nat
    /\ HasWpa \in BOOLEAN

VARIABLES
    at,         \* where netcfg is
    after,      \* where it goes once kill-all-dhcp has returned, else "QUIT"
    num,        \* num_interfaces
    iface,      \* the dhcp, slaac and dhcpv6 members of the interface
    family,     \* its address_family: "none", or "known", AF_INET or AF_INET6
    written,    \* its stanzas in /etc/network/interfaces
    try,        \* autoconfigurations so far
    ra,         \* v6_stateful_config and v6_stateless_config
    slept,      \* seconds_slept of the current poll, 0 outside
    alive,      \* DHCP processes
    victims,    \* what pidof told kill-all-dhcp
    v4,         \* how the client of each try ended, "none" if nobody waits for it
    early,      \* the client of this try ended before netcfg knew its pid
    dhcp_pid,   \* the try whose client it waits for, 0 for none
    dhcp_exit,  \* dhcp_exit_status
    handler,    \* SIGCHLD has a handler
    chld,       \* SIGCHLD is pending
    rdnssd,     \* rdnssd runs
    client6,    \* dhcpv6_client
    v6,         \* the DHCPv6 client of this try: its forked child, the line
                \* "end" in the pipe, DHCP6C_FINISHED, and dhcp6c's pid file
                \* (-1 none, 0 empty, else the try whose client wrote it)
    dhcpv6_pid, \* 1 while it waits for that child
    dhcpv6_exit \* dhcpv6_exit_status

procs == <<alive, victims, v4, early>>
four == <<dhcp_pid, dhcp_exit>>
six == <<client6, v6, dhcpv6_pid, dhcpv6_exit>>
sig == <<handler, chld, rdnssd>>
conf == <<num, iface, family, written>>
vars == <<at, after, conf, try, ra, slept, procs, four, six, sig>>

Tries == 1..MaxTries
Processes == {"child4", "copy4", "daemon4", "child6", "daemon6"} \X Tries
Ended == {"QUIT", "BACKUP", "NO_CLIENT"}
Killing == {"KILL", "KILLING", "KILL6", "KILLING6"}

-----------------------------------------------------------------------------
\* Questions that only lead on: to each, the places its answers lead to.

WifiQuestions ==
    [ WCONFIG |-> {"WCONFIG_ESSID"},
      WCONFIG_ESSID |->
        {"BACKUP", IF HasWpa THEN "WCONFIG_SECURITY_TYPE" ELSE "WCONFIG_WEP"},
      WCONFIG_SECURITY_TYPE |-> {"WCONFIG_ESSID", "WCONFIG_WPA", "WCONFIG_WEP"},
      WCONFIG_WEP |->
        {"GET_METHOD", IF HasWpa THEN "WCONFIG_SECURITY_TYPE" ELSE "WCONFIG_ESSID"},
      WCONFIG_WPA |-> {"WCONFIG_SECURITY_TYPE", "START_WPA"},
      START_WPA |-> {"WCONFIG_ESSID", "GET_METHOD"} ]

StaticQuestions ==
    [ GET_POINTOPOINT |-> {"GET_IPADDRESS", "GET_NAMESERVERS"},
      GET_NETMASK |-> {"GET_IPADDRESS", "GET_GATEWAY"},
      GET_GATEWAY |-> {"GET_NETMASK", "GATEWAY_UNREACHABLE", "GET_NAMESERVERS"},
      GATEWAY_UNREACHABLE |-> {"GET_GATEWAY"},
      GET_NAMESERVERS |-> {"GET_GATEWAY", "CONFIRM"},
      CONFIRM |-> {"GET_IPADDRESS", "GET_HOSTNAME"},
      GET_HOSTNAME |-> {"GET_NAMESERVERS", "GET_DOMAIN"},
      GET_DOMAIN |-> {"GET_HOSTNAME", "STATIC_QUIT"} ]

DhcpQuestions ==
    [ DEFAULT_GATEWAY |-> {"ASK_OPTIONS", "NAMESERVERS"},
      NAMESERVERS |-> {"ASK_OPTIONS", "HOSTNAME"},
      HOSTNAME |-> {"ASK_OPTIONS", "DOMAIN"},
      GET_HOSTNAME_ONLY |-> {"BACKUP", "QUIT"} ]

\* Where netcfg can be.
Places ==
    DOMAIN WifiQuestions \cup DOMAIN StaticQuestions \cup DOMAIN DhcpQuestions
    \cup Ended
    \cup {"GET_INTERFACE", "GET_METHOD", "GET_IPADDRESS", "STATIC_QUIT",
          "AUTOCONFIG", "FLAGS", "SLAAC", "DHCP6", "FORK6", "POLL6", "READ6",
          "DHCP", "FORK", "PROGRESS", "POLL", "RESULT", "ASK_OPTIONS",
          "DHCP_HOSTNAME", "DOMAIN", "HOSTNAME_SANS_NETWORK"} \cup Killing

Init ==
    /\ at = "GET_INTERFACE" /\ after = "QUIT"
    /\ num \in Machines
    /\ iface = [dhcp |-> -1, slaac |-> -1, dhcpv6 |-> -1]
    /\ family = "none" /\ written = {}
    /\ try = 0 /\ ra = "none" /\ slept = 0
    /\ alive = {} /\ victims = {} /\ early = FALSE
    /\ v4 = [t \in Tries |-> "none"]
    /\ dhcp_pid = 0 /\ dhcp_exit = 1
    /\ handler = FALSE /\ chld = FALSE /\ rdnssd = FALSE
    /\ client6 \in {n[1] : n \in Networks}
    /\ v6 = [kid |-> "none", pidfile |-> -1, said |-> FALSE, finished |-> FALSE]
    /\ dhcpv6_pid = 0 /\ dhcpv6_exit = 1

goto(where) == at' = where /\ UNCHANGED after

\* kill_dhcp_client runs kill-all-dhcp with system(), then netcfg goes on.
kill_dhcp_client(where) == at' = "KILL" /\ after' = where

\* A child of netcfg ends; without a handler SIGCHLD is discarded.
raise == chld' = (chld \/ handler)

-----------------------------------------------------------------------------
\* main and netcfg_get_static.

get_interface ==
    /\ at = "GET_INTERFACE"
    /\ \/ goto("BACKUP")
       \/ num = 0 /\ goto("GET_HOSTNAME_ONLY")
       \/ num > 0 /\ (goto("WCONFIG") \/ goto("GET_METHOD"))
    /\ UNCHANGED <<conf, try, ra, slept, procs, four, six, sig>>

\* netcfg_activate_dhcp first kills what an earlier netcfg may have left.
get_method ==
    /\ at = "GET_METHOD"
    /\ \/ goto(IF num = 1 THEN "BACKUP" ELSE "GET_INTERFACE")
       \/ try < MaxTries /\ kill_dhcp_client("AUTOCONFIG")
       \/ goto("GET_IPADDRESS")
    /\ UNCHANGED <<conf, try, ra, slept, procs, four, six, sig>>

Ask(questions) ==
    /\ at \in DOMAIN questions
    /\ \E where \in questions[at] : goto(where)
    /\ UNCHANGED <<conf, try, ra, slept, procs, four, six, sig>>

\* Backing up from the first static question leads to the interfaces again.
get_ipaddress ==
    /\ at = "GET_IPADDRESS"
    /\ \/ goto("GET_INTERFACE") /\ UNCHANGED family
       \/ /\ \E where \in {"GET_POINTOPOINT", "GET_NETMASK", "GET_GATEWAY"} : goto(where)
          /\ family' = "known"
    /\ UNCHANGED <<num, iface, written, try, ra, slept, procs, four, six, sig>>

write_interface ==
    IF iface.dhcp = 1 \/ iface.slaac = 1
    THEN {s \in {"dhcp", "slaac"} : iface[s] = 1}
    ELSE IF family = "none" THEN {} ELSE {"static"}

static_quit ==
    /\ at = "STATIC_QUIT"
    /\ written' = write_interface
    /\ goto("QUIT")
    /\ UNCHANGED <<num, iface, family, try, ra, slept, procs, four, six, sig>>

-----------------------------------------------------------------------------
\* netcfg_autoconfig: rdnssd, the router advertisement, SLAAC.

autoconfig ==
    /\ at = "AUTOCONFIG"
    /\ try' = try + 1
    /\ iface' = [dhcp |-> 0, slaac |-> 0, dhcpv6 |-> 0]
    /\ rdnssd' = TRUE
    /\ victims' = {}
    /\ goto("FLAGS")
    /\ UNCHANGED <<num, family, written, ra, slept, alive, v4, early, four, six, handler, chld>>

\* rdisc6 runs through popen; rdnssd is then told to stop and does when it does.
get_config_flags ==
    /\ at = "FLAGS"
    /\ ra' \in {n[2] : n \in {m \in Networks : m[1] = client6}}
    /\ goto(IF ra' = "none" THEN "DHCP" ELSE IF ra' = "stateful" THEN "DHCP6" ELSE "SLAAC")
    /\ raise
    /\ UNCHANGED <<conf, try, slept, procs, four, six, handler, rdnssd>>

slaac ==
    /\ at = "SLAAC"
    /\ \E rv \in {0, 1} : iface' = [iface EXCEPT !.slaac = rv]
    /\ goto(IF ra = "stateless" THEN "DHCP6" ELSE "DHCP")
    /\ UNCHANGED <<num, family, written, try, ra, slept, procs, four, six, sig>>

RdnssdExit ==
    /\ rdnssd
    /\ rdnssd' = FALSE
    /\ raise
    /\ UNCHANGED <<at, after, conf, try, ra, slept, procs, four, six, handler>>

-----------------------------------------------------------------------------
\* The DHCPv6 client.

stateful == ra = "stateful"
child6 == <<"child6", try>>
daemon6 == <<"daemon6", try>>

\* Whether some process still holds the writing end of the pipe.
Writer6 == child6 \in alive \/ (client6 = "dhcp6c" /\ daemon6 \in alive)

\* Without a client, or a pipe, it returns at once (a fork that fails is taken
\* for a pipe that fails: the files it has touched are not looked at again).
start_dhcpv6_client ==
    /\ at = "DHCP6"
    /\ \/ /\ goto("DHCP")
          /\ UNCHANGED <<alive, v6, dhcpv6_pid>>
       \/ /\ client6 # "absent"
          /\ v6' = [kid |-> "run", said |-> FALSE,
                    finished |-> v6.finished /\ client6 = "dhclient",
                    pidfile |-> IF client6 = "dhcp6c" /\ stateful
                                THEN 0 ELSE v6.pidfile]
          /\ alive' = alive \cup {child6}
          /\ dhcpv6_pid' = 0
          /\ goto("FORK6")
    /\ UNCHANGED <<conf, try, ra, slept, victims, v4, early, four, client6, dhcpv6_exit, sig>>

\* The parent notes the pid and only then installs the handler.  The user may
\* already cancel at the first progress message.
install_handler6 ==
    /\ at = "FORK6"
    /\ dhcpv6_pid' = 1
    /\ handler' = TRUE
    /\ goto("POLL6")
    /\ UNCHANGED <<conf, try, ra, slept, procs, four, client6, v6, dhcpv6_exit, chld, rdnssd>>

\* got_lease of one turn of the loop: 1, 0, or -1 for not known yet.
got_lease ==
    IF client6 = "dhclient"
    THEN IF dhcpv6_pid = 1 THEN -1 ELSE IF dhcpv6_exit = 0 THEN 1 ELSE 0
    ELSE IF dhcpv6_pid = 0 /\ dhcpv6_exit # 0 THEN 0
    ELSE IF stateful /\ dhcpv6_pid = 0 /\ v6.pidfile = -1 THEN 0
    ELSE IF v6.finished THEN 1 ELSE -1

poll6_turn ==
    /\ at = "POLL6"
    /\ got_lease = -1 /\ slept < Timeout6
    /\ slept' = slept + 1
    /\ UNCHANGED <<at, after, conf, try, ra, procs, four, six, sig>>

\* The poll ends, with a result, for lack of time, or (cancelled) at once; a
\* dhcp6c without lease, or whose child is not known to have ended, is then
\* terminated through its pid file, if it has written that.
poll6_end ==
    /\ at = "POLL6"
    /\ \E cancelled \in BOOLEAN :
          LET lease == IF cancelled THEN -1 ELSE got_lease
              term == /\ client6 = "dhcp6c"
                      /\ lease # 1 \/ dhcpv6_pid = 1
                      /\ v6.pidfile > 0 IN
          /\ lease # -1 \/ cancelled \/ slept >= Timeout6
          /\ alive' = IF term THEN alive \ ({"child6", "daemon6"} \X {v6.pidfile}) ELSE alive
          /\ v6' = [v6 EXCEPT !.finished = @ /\ client6 = "dhclient",
                              !.pidfile = IF term THEN -1 ELSE @,
                              !.kid = IF @ = "run" /\ child6 \notin alive' THEN "bad" ELSE @]
          /\ iface' = [iface EXCEPT !.dhcpv6 = IF lease = 1 /\ stateful THEN 1 ELSE 0]
          /\ IF v6'.kid # v6.kid THEN raise ELSE UNCHANGED chld
    /\ slept' = 0
    /\ goto("READ6")
    /\ UNCHANGED <<num, family, written, try, ra, victims, v4, early, four, client6, dhcpv6_pid, dhcpv6_exit, handler, rdnssd>>

\* fgets until "end" or until nobody can write to the pipe; then a dhcp6c that
\* only gave information is killed.
read_dhcpv6 ==
    /\ at = "READ6"
    /\ v6.said \/ ~Writer6
    /\ IF client6 = "dhcp6c" /\ ~stateful /\ dhcpv6_pid = 1 /\ child6 \in alive
       THEN /\ alive' = alive \ {child6}
            /\ v6' = [v6 EXCEPT !.kid = "bad", !.pidfile = -1]
            /\ raise
       ELSE UNCHANGED <<alive, v6, chld>>
    /\ goto("DHCP")
    /\ UNCHANGED <<conf, try, ra, slept, victims, v4, early, four, client6, dhcpv6_pid, dhcpv6_exit, handler, rdnssd>>

\* A stateful dhcp6c is put into the background before it runs.
Daemonise6 ==
    /\ client6 = "dhcp6c" /\ stateful
    /\ child6 \in alive
    /\ alive' = (alive \ {child6}) \cup {daemon6}
    /\ v6' = [v6 EXCEPT !.kid = "ok"]
    /\ raise
    /\ UNCHANGED <<at, after, conf, try, ra, slept, victims, v4, early, four, client6, dhcpv6_pid, dhcpv6_exit, handler, rdnssd>>

\* dhcp6c writes its pid file; dhclient's is not looked at.
WritePid6 ==
    /\ client6 = "dhcp6c"
    /\ (IF stateful THEN daemon6 ELSE child6) \in alive
    /\ v6.pidfile # try
    /\ v6' = [v6 EXCEPT !.pidfile = try]
    /\ UNCHANGED <<at, after, conf, try, ra, slept, procs, four, client6, dhcpv6_pid, dhcpv6_exit, sig>>

\* An answer arrives: the script prints it; dhclient goes into the background.
Answer6 ==
    /\ ~v6.said
    /\ \/ /\ client6 = "dhclient" /\ child6 \in alive
          /\ alive' = (alive \ {child6}) \cup {daemon6}
          /\ v6' = [v6 EXCEPT !.said = TRUE, !.kid = "ok"]
          /\ raise
       \/ /\ client6 = "dhcp6c" /\ v6.pidfile = try
          /\ (IF stateful THEN daemon6 ELSE child6) \in alive
          /\ v6' = [v6 EXCEPT !.said = TRUE, !.finished = TRUE]
          /\ UNCHANGED <<alive, chld>>
    /\ UNCHANGED <<at, after, conf, try, ra, slept, victims, v4, early, four, client6, dhcpv6_pid, dhcpv6_exit, handler, rdnssd>>

\* The client gives up, and takes its pid file with it.
Fail6 ==
    /\ ~v6.said
    /\ \E p \in {child6, daemon6} \cap alive :
          /\ alive' = alive \ {p}
          /\ v6' = [v6 EXCEPT !.kid = IF p = child6 THEN "bad" ELSE @,
                              !.pidfile = IF client6 = "dhcp6c" THEN -1 ELSE @]
          /\ IF p = child6 THEN raise ELSE UNCHANGED chld
    /\ UNCHANGED <<at, after, conf, try, ra, slept, victims, v4, early, four, client6, dhcpv6_pid, dhcpv6_exit, handler, rdnssd>>

-----------------------------------------------------------------------------
\* The DHCP client.

\* An image without any DHCP client (dhclient would be one) makes netcfg exit at
\* its first try, after a message.  A child that cannot exec the client returns into
\* netcfg's code and goes on as a copy of netcfg, without debconf.
start_dhcp_client ==
    /\ at = "DHCP"
    /\ \/ /\ client6 # "dhclient" /\ try = 1
          /\ goto("NO_CLIENT")
          /\ UNCHANGED <<alive, v4, dhcp_pid>>
       \/ /\ goto("RESULT")                     \* fork failed
          /\ dhcp_pid' = 0
          /\ UNCHANGED <<alive, v4>>
       \/ /\ goto("FORK")
          /\ \E kind \in {"child4", "copy4"} : alive' = alive \cup {<<kind, try>>}
          /\ v4' = [v4 EXCEPT ![try] = "trying"]
          /\ UNCHANGED dhcp_pid
    /\ early' = FALSE
    /\ UNCHANGED <<conf, try, ra, slept, victims, dhcp_exit, six, sig>>

\* A mutated start_dhcp_client: it leaves the handler to somebody else.
install_handler_not ==
    /\ at = "FORK"
    /\ dhcp_pid' = try
    /\ v4' = [t \in Tries |-> IF t = try THEN v4[t] ELSE "none"]
    /\ goto("PROGRESS")
    /\ UNCHANGED <<conf, try, ra, slept, alive, victims, early, dhcp_exit, six, handler, chld, rdnssd>>

install_handler ==
    /\ at = "FORK"
    /\ dhcp_pid' = try
    /\ handler' = TRUE
    /\ v4' = [t \in Tries |-> IF t = try THEN v4[t] ELSE "none"]
    /\ goto("PROGRESS")
    /\ UNCHANGED <<conf, try, ra, slept, alive, victims, early, dhcp_exit, six, chld, rdnssd>>

\* A mutated poll_dhcp_client: cancelled at the first message it goes on to wait.
progress_info_waits ==
    /\ at = "PROGRESS"
    /\ goto("POLL") \/ kill_dhcp_client("POLL")
    /\ UNCHANGED <<conf, try, ra, slept, procs, four, six, sig>>

\* Cancelling the first message kills the client, cancelling a later one does not.
progress_info ==
    /\ at = "PROGRESS"
    /\ goto("POLL") \/ kill_dhcp_client("RESULT")
    /\ UNCHANGED <<conf, try, ra, slept, procs, four, six, sig>>

Waiting == (dhcp_pid > 0 \/ slept < 2) /\ slept < Timeout

\* A mutated poll_dhcp_client: it does not count the seconds.
poll_turn_uncounted ==
    /\ at = "POLL"
    /\ Waiting
    /\ UNCHANGED vars

\* A second passes.
poll_turn ==
    /\ at = "POLL"
    /\ Waiting
    /\ slept' = slept + 1
    /\ UNCHANGED <<at, after, conf, try, ra, procs, four, six, sig>>

\* The user cancels.
poll_cancel ==
    /\ at = "POLL"
    /\ Waiting
    /\ slept' = 0
    /\ goto("RESULT")
    /\ UNCHANGED <<conf, try, ra, procs, four, six, sig>>

poll_end ==
    /\ at = "POLL"
    /\ ~Waiting
    /\ iface' = [iface EXCEPT !.dhcp = IF dhcp_pid = 0 /\ dhcp_exit = 0 THEN 1 ELSE 0]
    /\ slept' = 0
    /\ goto("RESULT")
    /\ UNCHANGED <<num, family, written, try, ra, procs, four, six, sig>>

\* The client of try t ends: with a lease, leaving a daemon, or without one, as
\* does a copy of netcfg.
ClientExit(t) ==
    /\ \/ /\ <<"child4", t>> \in alive
          /\ alive' = (alive \ {<<"child4", t>>}) \cup {<<"daemon4", t>>}
          /\ v4' = [v4 EXCEPT ![t] = IF @ = "none" THEN @ ELSE "lease"]
       \/ /\ \E p \in {<<"child4", t>>, <<"copy4", t>>} \cap alive : alive' = alive \ {p}
          /\ v4' = [v4 EXCEPT ![t] = IF @ = "none" THEN @ ELSE "failed"]
    /\ early' = (early \/ (t = try /\ at = "FORK"))
    /\ raise
    /\ UNCHANGED <<at, after, conf, try, ra, slept, victims, four, six, handler, rdnssd>>

-----------------------------------------------------------------------------
\* SIGCHLD.  system() blocks it.

\* waitpid for the client; a client killed by a signal keeps its dhcp_pid.
cleanup_dhcp_client ==
    IF dhcp_pid > 0 /\ v4[dhcp_pid] \notin {"none", "trying"}
    THEN /\ dhcp_pid' = IF v4[dhcp_pid] = "signaled" THEN dhcp_pid ELSE 0
         /\ dhcp_exit' = IF v4[dhcp_pid] \in {"lease", "quit"} THEN 0 ELSE 1
    ELSE UNCHANGED four

cleanup_dhcpv6_client ==
    IF dhcpv6_pid = 1 /\ v6.kid # "run"
    THEN /\ dhcpv6_pid' = 0
         /\ dhcpv6_exit' = IF v6.kid = "ok" THEN 0 ELSE 1
    ELSE UNCHANGED <<dhcpv6_pid, dhcpv6_exit>>

\* A signal that is pending and not blocked interrupts netcfg before its next step.
Interrupted == chld /\ at \notin Ended \cup Killing

sigchld_handler ==
    /\ Interrupted
    /\ chld' = FALSE
    /\ cleanup_dhcp_client
    /\ cleanup_dhcpv6_client
    /\ UNCHANGED <<at, after, conf, try, ra, slept, procs, client6, v6, handler, rdnssd>>

-----------------------------------------------------------------------------
\* kill-all-dhcp, for one name of a client after the other: pidof, then TERM (and
\* KILL) for what pidof printed.

\* The name pidof finds a process by.  Of dhclient, udhcpc and pump an image has one,
\* here dhclient; a DHCPv6 client is dhclient too, or dhcp6c.
called(p) ==
    CASE p[1] = "copy4" -> "netcfg"
      [] client6 = "dhcp6c" /\ p[1] \in {"child6", "daemon6"} -> "dhcp6c"
      [] OTHER -> "dhclient"

pidof ==
    /\ \/ /\ at = "KILL" /\ goto("KILLING")
          /\ victims' = {p \in alive : called(p) = "dhclient"}
       \/ /\ at = "KILL6" /\ goto("KILLING6")
          /\ victims' = victims \cup {p \in alive : called(p) = "dhcp6c"}
    /\ UNCHANGED <<conf, try, ra, slept, alive, v4, early, four, six, sig>>

\* Before TERM, and a second later before KILL, comes "kill -0" of all the processes
\* of that name; it fails, and nothing is sent, if one of them is gone.  So they all
\* end, or some end that let others go on.
spares(seen, hit) == hit # seen \cap alive => seen \ (alive \ hit) # {}

\* On TERM a client exits with 0 or dies of the signal.
kill_all ==
    /\ at \in {"KILLING", "KILLING6"}
    /\ \E hit \in SUBSET (alive \cap victims), how \in {"quit", "signaled"} :
          LET client == IF at = "KILLING" THEN "dhclient" ELSE "dhcp6c"
              seen == {p \in victims : called(p) = client} IN
          /\ hit \subseteq seen /\ spares(seen, hit)
          /\ alive' = alive \ hit
          /\ v4' = [t \in Tries |-> IF v4[t] # "none" /\ <<"child4", t>> \in hit
                                    THEN how ELSE v4[t]]
    /\ v6' = [v6 EXCEPT !.kid = IF @ = "run" /\ child6 \notin alive' THEN "bad" ELSE @,
                        !.pidfile = IF @ > 0 /\ {<<"child6", @>>, <<"daemon6", @>>} \cap alive' = {}
                                    THEN -1 ELSE @]
    /\ IF at = "KILLING" THEN at' = "KILL6" /\ UNCHANGED after ELSE at' = after /\ after' = "QUIT"
    /\ raise
    /\ UNCHANGED <<conf, try, ra, slept, victims, early, four, client6, dhcpv6_pid, dhcpv6_exit, handler, rdnssd>>

-----------------------------------------------------------------------------
\* The rest of netcfg_activate_dhcp.

result ==
    /\ at = "RESULT"
    /\ goto(IF 1 \in {iface.dhcp, iface.slaac, iface.dhcpv6}
            THEN "DEFAULT_GATEWAY" ELSE "ASK_OPTIONS")
    /\ UNCHANGED <<conf, try, ra, slept, procs, four, six, sig>>

\* A mutated netcfg_activate_dhcp: backing up leaves the client running.
ask_options_leaves ==
    /\ at = "ASK_OPTIONS"
    /\ goto(IF num = 1 THEN "BACKUP" ELSE "GET_INTERFACE")
    /\ iface' = [iface EXCEPT !.dhcp = 0]
    /\ UNCHANGED <<num, family, written, try, ra, slept, procs, four, six, sig>>

\* A mutated netcfg_activate_dhcp: turning to manual configuration keeps the lease.
ask_options_stale ==
    /\ at = "ASK_OPTIONS"
    /\ kill_dhcp_client("GET_IPADDRESS")
    /\ UNCHANGED <<conf, try, ra, slept, procs, four, six, sig>>

\* Retrying leaves the client of the last try alone; what else the user chooses
\* kills it.  A reconfigured wireless network leads to a new try as well.
ask_options ==
    /\ at = "ASK_OPTIONS"
    /\ \/ /\ kill_dhcp_client(IF num = 1 THEN "BACKUP" ELSE "GET_INTERFACE")
          /\ iface' = [iface EXCEPT !.dhcp = 0]
       \/ /\ kill_dhcp_client("GET_IPADDRESS")
          /\ iface' = [iface EXCEPT !.dhcp = 0]
       \/ /\ kill_dhcp_client("HOSTNAME_SANS_NETWORK")
          /\ UNCHANGED iface
       \/ /\ try < MaxTries
          /\ goto("AUTOCONFIG") \/ goto("DHCP_HOSTNAME")
          /\ UNCHANGED iface
    /\ UNCHANGED <<num, family, written, try, ra, slept, procs, four, six, sig>>

dhcp_hostname ==
    /\ at = "DHCP_HOSTNAME"
    /\ goto("ASK_OPTIONS") \/ kill_dhcp_client("AUTOCONFIG")
    /\ UNCHANGED <<conf, try, ra, slept, procs, four, six, sig>>

get_domain ==
    /\ at = "DOMAIN"
    /\ \/ goto("HOSTNAME") /\ UNCHANGED written
       \/ kill_dhcp_client("QUIT") /\ written' = write_interface
    /\ UNCHANGED <<num, iface, family, try, ra, slept, procs, four, six, sig>>

hostname_sans_network ==
    /\ at = "HOSTNAME_SANS_NETWORK"
    /\ \/ goto("ASK_OPTIONS") /\ UNCHANGED iface
       \/ goto("QUIT") /\ iface' = [iface EXCEPT !.dhcp = 0]
    /\ UNCHANGED <<num, family, written, try, ra, slept, procs, four, six, sig>>

-----------------------------------------------------------------------------
\* What netcfg does without an answer of the user.
Working ==
    /\ ~Interrupted
    /\ \/ autoconfig \/ get_config_flags \/ slaac
       \/ start_dhcpv6_client \/ install_handler6
       \/ poll6_turn \/ poll6_end \/ read_dhcpv6
       \/ start_dhcp_client \/ install_handler \/ progress_info
       \/ poll_turn \/ poll_end \/ result
       \/ pidof \/ kill_all

Asking ==
    /\ ~Interrupted
    /\ \/ get_interface \/ get_method \/ get_ipaddress \/ static_quit
       \/ Ask(WifiQuestions) \/ Ask(StaticQuestions) \/ Ask(DhcpQuestions)
       \/ poll_cancel \/ ask_options \/ dhcp_hostname \/ get_domain \/ hostname_sans_network

Others ==
    \/ RdnssdExit \/ Daemonise6 \/ WritePid6 \/ Answer6 \/ Fail6
    \/ \E t \in Tries : ClientExit(t)

Exited == at \in Ended /\ UNCHANGED vars

Next == Working \/ Asking \/ sigchld_handler \/ Others \/ Exited

Spec == Init /\ [][Next]_vars

\* netcfg runs when it can, and signals are delivered.
FairSpec == Spec /\ WF_vars(Working) /\ WF_vars(sigchld_handler)
-----------------------------------------------------------------------------
\* Properties.

\* poll_dhcp_client reports success only when the client this try started got
\* a lease: no exit of another child, of an older client or of a client netcfg
\* itself killed (some exit with 0 on TERM) is taken for one.
LeaseIsOurs == iface.dhcp = 1 => v4[try] = "lease"

\* While netcfg polls, a client that has ended is known to have, or SIGCHLD is
\* on its way: the exit is lost only if it came before install_handler.
ExitNoticed ==
    at = "POLL" /\ dhcp_pid = try /\ v4[try] \in {"lease", "failed"} =>
        chld \/ early

\* Whichever way the user leaves netcfg, its DHCP clients are gone, those that
\* retries left behind too, but for three kinds: one that got its lease, and forked,
\* between the pidof and the kill of the last kill-all-dhcp goes on as a daemon; one of
\* several of a name goes on if another of that name ended in between; and a copy of
\* netcfg that could not execute the client has none of its names.
NoClientLeft ==
    at \in {"QUIT", "BACKUP"} =>
        \A p \in alive :
            \/ p[1] = "copy4"
            \/ /\ p[1] \in {"daemon4", "daemon6"}
               /\ <<IF p[1] = "daemon4" THEN "child4" ELSE "child6", p[2]>> \in victims
            \/ p \in victims /\ \E q \in victims \ alive : called(q) = called(p)

\* Every autoconfiguration comes to a result the user sees, whatever the
\* clients do, unless netcfg waits for ever for the output of a DHCPv6 client
\* that still runs.  Without any DHCP client the result is a message and the end.
AutoconfigEnds ==
    at = "AUTOCONFIG" ~>
        \/ at \in {"DEFAULT_GATEWAY", "ASK_OPTIONS", "NO_CLIENT"}
        \/ [](at = "READ6" /\ Writer6 /\ ~v6.said)

\* What autoconfig.c says of dhcp6c: "In stateful mode, dhcp6c needs to stay
\* running."  When netcfg has a stateful lease, the client that holds it runs.
StatefulStaysRunning ==
    at = "DHCP" /\ iface.dhcpv6 = 1 => daemon6 \in alive

\* A network configured by hand is written as configured by hand: no lease of an
\* autoconfiguration the user turned away from is left in the interface, on any
\* way through the questions and back.  The exception is its slaac member, which only
\* the next try resets, and which netcfg_write_interface puts before the address.
ManualIsWritten ==
    [][at = "STATIC_QUIT" /\ at' = "QUIT" => written' = {"static"} \/ iface.slaac = 1]_vars
=============================================================================
