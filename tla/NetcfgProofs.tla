----------------------------- MODULE NetcfgProofs -----------------------------
(***************************************************************************)
(* netcfg's handling of its DHCP clients is right for any number of tries, *)
(* any timeouts, networks and machines: whose lease it reports, that it    *)
(* notices a client's end, that it leaves no client behind, and what it    *)
(* writes for a network configured by hand.                                *)
(***************************************************************************)
EXTENDS Netcfg, TLAPS

Outcomes == {"none", "trying", "lease", "failed", "quit", "signaled"}

\* Where netcfg is, or will be when kill-all-dhcp has returned.
Where == IF at \in Killing THEN after ELSE at

\* Places by what netcfg is about: the questions before and beside a try, those
\* about a static address, the parts of a try, and all that follows one.
Static ==
    {"GET_POINTOPOINT", "GET_NETMASK", "GET_GATEWAY", "GATEWAY_UNREACHABLE",
     "GET_NAMESERVERS", "CONFIRM", "GET_HOSTNAME", "GET_DOMAIN", "STATIC_QUIT"}
Main ==
    {"WCONFIG", "WCONFIG_ESSID", "WCONFIG_SECURITY_TYPE", "WCONFIG_WEP", "WCONFIG_WPA",
     "START_WPA", "GET_INTERFACE", "GET_METHOD", "GET_IPADDRESS", "GET_HOSTNAME_ONLY",
     "BACKUP"} \cup Static
Forked == {"FORK", "PROGRESS", "POLL"}
Trying == {"FLAGS", "SLAAC", "DHCP6", "FORK6", "POLL6", "READ6", "DHCP"} \cup Forked
Tried ==
    Trying \cup {"RESULT", "ASK_OPTIONS", "DHCP_HOSTNAME", "DEFAULT_GATEWAY",
                 "NAMESERVERS", "HOSTNAME", "DOMAIN", "HOSTNAME_SANS_NETWORK"}
Quiet == Main \cup {"QUIT", "HOSTNAME_SANS_NETWORK"}

\* A daemon that its client became after kill-all-dhcp had looked.
Escaped(p) ==
    /\ p[1] \in {"daemon4", "daemon6"}
    /\ <<IF p[1] = "daemon4" THEN "child4" ELSE "child6", p[2]>> \in victims

\* A process kill-all-dhcp saw and let be, because another of that name had gone.
Spared(p) == p \in victims /\ \E q \in victims \ alive : called(q) = called(p)

\* What may be left when kill-all-dhcp has been over a name.
Left(p) == p[1] = "copy4" \/ Escaped(p) \/ Spared(p)

\* Processes netcfg forked itself, and those of the same try and protocol.
Kids == {"child4", "copy4", "child6"}
Six == {"child6", "daemon6"}
Kin(p, q) == p[2] = q[2] /\ (p[1] \in Six <=> q[1] \in Six)
Daemon(p) == <<IF p[1] = "child4" THEN "daemon4" ELSE "daemon6", p[2]>>

-----------------------------------------------------------------------------
Types ==
    /\ at \in Quiet \cup Tried \cup Killing \cup {"AUTOCONFIG", "NO_CLIENT"}
    /\ after \in {"AUTOCONFIG", "RESULT", "BACKUP", "GET_INTERFACE", "GET_IPADDRESS",
                  "HOSTNAME_SANS_NETWORK", "QUIT"}
    /\ try \in 0..MaxTries /\ dhcp_pid \in 0..MaxTries
    /\ v4 \in [Tries -> Outcomes]
    /\ chld \in BOOLEAN /\ handler \in BOOLEAN /\ early \in BOOLEAN
    /\ iface \in [dhcp : {-1, 0, 1}, slaac : {-1, 0, 1}, dhcpv6 : {-1, 0, 1}]

\* A try is numbered, and begins with nothing configured.
Numbered ==
    /\ Where \in {"AUTOCONFIG", "DHCP_HOSTNAME"} => try < MaxTries
    /\ Where \in Tried \/ iface.dhcp = 1 => try > 0
    /\ at \in Trying => iface.dhcp = 0

\* Outside of a try no lease is left in the interface, and the static questions
\* come after the address.
Manual ==
    /\ Where \in Main => iface.dhcp # 1
    /\ at \in Static => family # "none"

\* A try has no process before it has started one.
Fresh ==
    \A p \in alive \cup victims :
        /\ p \in Processes /\ p[2] <= try
        /\ at \in Trying \ Forked /\ p[1] \notin Six => p[2] < try
        /\ at \in {"FLAGS", "SLAAC", "DHCP6"} => p[2] < try

\* As long as a forked process runs, it is the only one of its try and protocol, and
\* the only one kill-all-dhcp can have seen.
Alone ==
    \A p \in alive, q \in alive \cup victims : p[1] \in Kids /\ Kin(p, q) => q = p

\* Outside of a try no client runs that kill-all-dhcp should have killed.
Gone ==
    /\ at \in Quiet => \A p \in alive : Left(p)
    /\ at = "KILLING" => \A p \in alive : called(p) = "dhclient" => p \in victims \/ Escaped(p)
    /\ at \in {"KILL6", "KILLING6"} => \A p \in alive : called(p) = "dhclient" => Left(p)
    /\ at = "KILLING6" => \A p \in alive : called(p) = "dhcp6c" => p \in victims \/ Escaped(p)

\* A client that has ended does not run.
Over ==
    \A t \in Tries : v4[t] \notin {"none", "trying"} =>
        <<"child4", t>> \notin alive /\ <<"copy4", t>> \notin alive

\* What netcfg knows of the client of this try while it waits.
Watched ==
    /\ at \in Forked => v4[try] \in {"trying", "lease", "failed"}
    /\ at = "FORK" /\ v4[try] # "trying" => early
    /\ at \in {"PROGRESS", "POLL"} =>
          /\ handler
          /\ dhcp_pid \in {0, try}
          /\ dhcp_pid = 0 /\ dhcp_exit = 0 => v4[try] = "lease"
          /\ dhcp_pid = try /\ v4[try] # "trying" => chld \/ early

IInv == /\ Types /\ Numbered /\ Manual /\ Fresh /\ Alone /\ Gone
        /\ Over /\ Watched /\ LeaseIsOurs

-----------------------------------------------------------------------------
\* The processes.

\* Steps after which there are fewer processes, or kill-all-dhcp has looked again.
LEMMA Fewer ==
    ASSUME Fresh, Alone, alive' \subseteq alive, victims' \subseteq alive \cup victims, try' = try,
           at' \in Trying \ Forked => at \in Trying \ Forked,
           at' \in {"FLAGS", "SLAAC", "DHCP6"} => at \in {"FLAGS", "SLAAC", "DHCP6"}
    PROVE  Fresh' /\ Alone'
<1>1. Fresh'
  BY DEF Fresh, Processes, Tries
<1>2. Alone'
  BY DEF Alone, Kin
<1> QED BY <1>1, <1>2

\* A client goes into the background.
LEMMA Grown ==
    ASSUME Fresh, Alone, NEW c \in alive, c[1] \in {"child4", "child6"},
           alive' = (alive \ {c}) \cup {Daemon(c)}, UNCHANGED <<victims, try, at>>
    PROVE  Fresh' /\ Alone'
<1> DEFINE d == Daemon(c)
<1>1. /\ c \in Processes /\ d \in Processes /\ d[2] = c[2] /\ d[1] \notin Kids
      /\ d[1] \in Six <=> c[1] \in Six
      /\ c[1] \in Kids
  BY DEF Fresh, Daemon, Processes, Kids, Six
<1>2. \A q : Kin(q, d) <=> Kin(q, c)
  BY <1>1 DEF Kin
<1> HIDE DEF d
<1>3. Fresh'
  BY <1>1 DEF Fresh, d, Processes, Tries
<1>4. ASSUME NEW p \in alive', NEW q \in alive' \cup victims', p[1] \in Kids, Kin(p, q)
      PROVE  q = p
  <2>1. p \in alive /\ p # c
    BY <1>1, <1>4 DEF d
  <2>2. CASE q = d
    BY <1>2, <1>4, <2>1, <2>2 DEF Alone
  <2>3. CASE q # d
    BY <1>4, <2>1, <2>3 DEF Alone, d
  <2> QED BY <2>2, <2>3
<1> QED BY <1>3, <1>4 DEF Alone, Kin

\* A process is forked, the first of this try and protocol.
LEMMA Born ==
    ASSUME Fresh, Alone, NEW kind \in Kids, try \in Tries, try' = try, victims' = victims,
           alive' = alive \cup {<<kind, try>>},
           \A q \in alive \cup victims : ~Kin(<<kind, try>>, q),
           at' \in Trying \ Forked => at \in Trying \ Forked /\ kind \in Six,
           at' \notin {"FLAGS", "SLAAC", "DHCP6"}
    PROVE  Fresh' /\ Alone'
<1> DEFINE n == <<kind, try>>
<1>1. n \in Processes /\ n[1] = kind /\ n[2] = try /\ try \in Int
  BY ConstantsAssumption DEF Processes, Kids, Tries
<1> HIDE DEF n
<1>2. Fresh'
  BY <1>1 DEF Fresh, n, Processes
<1>3. ASSUME NEW p \in alive', NEW q \in alive' \cup victims', p[1] \in Kids, Kin(p, q)
      PROVE  q = p
  <2>1. CASE p = n
    BY <1>1, <1>3, <2>1 DEF n
  <2>2. CASE p # n /\ q = n
    BY <1>1, <1>3, <2>2 DEF n, Kin
  <2>3. CASE p # n /\ q # n
    BY <1>3, <2>3 DEF Alone, n
  <2> QED BY <2>1, <2>2, <2>3
<1> QED BY <1>2, <1>3 DEF Alone, Kin

\* Whatever a process does by itself, what kill-all-dhcp was to kill is killed: a
\* process it saw can only end, or go on as a daemon that escapes.
LEMMA StillGone ==
    ASSUME Fresh, Alone, Gone, UNCHANGED <<at, victims, client6>>,
           \/ alive' \subseteq alive
           \/ \E c \in alive : /\ c[1] \in {"child4", "child6"}
                               /\ alive' = (alive \ {c}) \cup {Daemon(c)}
    PROVE  Gone'
<1>1. \A p : (called(p)' = called(p)) /\ (Escaped(p)' <=> Escaped(p))
  BY DEF called, Escaped
<1>2. CASE alive' \subseteq alive
  <2>1. \A p \in alive' : Left(p) => Left(p)'
    BY <1>1, <1>2 DEF Left, Spared
  <2> QED BY <1>1, <1>2, <2>1 DEF Gone
<1>3. ASSUME NEW c \in alive, c[1] \in {"child4", "child6"},
             alive' = (alive \ {c}) \cup {Daemon(c)}
      PROVE  Gone'
  <2> DEFINE d == Daemon(c)
  <2>1. /\ c \in Processes /\ c = <<c[1], c[2]>> /\ c[1] \in Kids /\ Kin(c, d) /\ d # c
        /\ ~Escaped(c) /\ (Escaped(d) <=> c \in victims) /\ c[1] # "copy4"
    BY <1>3 DEF Fresh, Processes, Kids, Kin, Six, Daemon, Escaped
  <2>2. called(d) = called(c)
    BY <1>3 DEF called, Daemon
  <2>3. d \notin victims
    BY <2>1 DEF Alone
  <2>4. Left(c) => Escaped(d)
    BY <2>1 DEF Left, Spared
  <2> HIDE DEF d
  <2>5. \A p \in alive' : p = d \/ p \in alive
    BY <1>3 DEF d
  <2>6. \A p \in alive : Left(p) => Left(p)'
    BY <1>1, <1>3, <2>3, <2>5 DEF Left, Spared
  <2>7. Escaped(d) => Left(d)'
    BY <1>1 DEF Left
  <2> QED BY <1>1, <2>1, <2>2, <2>4, <2>5, <2>6, <2>7 DEF Gone
<1> QED BY <1>2, <1>3

-----------------------------------------------------------------------------
\* Steps that only go from place to place.

Still == UNCHANGED <<try, procs, four, client6, sig>>

\* A step that leaves the processes alone, starts none and waits for none.
LEMMA Calm ==
    ASSUME IInv, Still,
           at' \in Quiet \cup (Tried \ Trying) \cup {"AUTOCONFIG", "KILL"},
           at' \in Quiet => at \in Quiet,
           after' = after \/ at' = "KILL",
           after' \in {"AUTOCONFIG", "RESULT", "BACKUP", "GET_INTERFACE", "GET_IPADDRESS",
                       "HOSTNAME_SANS_NETWORK", "QUIT"},
           iface' \in [dhcp : {-1, 0, 1}, slaac : {-1, 0, 1}, dhcpv6 : {-1, 0, 1}],
           iface'.dhcp = 1 => iface.dhcp = 1,
           Numbered', Manual'
    PROVE  IInv'
<1> USE DEF IInv, Still, procs, four, sig
<1>1. Types'
  BY DEF Types, Killing
<1>2. Fresh' /\ Alone'
  BY Fewer DEF Quiet, Main, Static, Tried, Trying, Forked
<1>a. at' \notin {"KILLING", "KILL6", "KILLING6"}
  BY DEF Quiet, Main, Static, Tried, Trying, Forked
<1>b. Gone'
  BY <1>a DEF Gone, Left, Escaped, Spared, called
<1>3. Over'
  BY DEF Over
<1>4. Watched'
  BY DEF Watched, Quiet, Main, Static, Tried, Trying, Forked
<1>5. LeaseIsOurs'
  BY DEF LeaseIsOurs
<1> QED BY <1>1, <1>2, <1>b, <1>3, <1>4, <1>5

\* The questions of main and netcfg_get_static are such steps.
LEMMA get_interface_step ==
    ASSUME IInv, get_interface PROVE IInv'
<1> USE DEF get_interface, goto, conf, IInv, Types
<1>1. Still
  BY DEF Still, six
<1>2. Numbered' /\ Manual'
  BY DEF Numbered, Manual, Where, Killing, Quiet, Main, Static, Tried, Trying, Forked
<1>3. at' \in Quiet /\ at \in Quiet /\ after' = after
  BY DEF Quiet, Main
<1> QED BY <1>1, <1>2, <1>3, Calm

\* So is the choice of a method, which may lead to a try.
LEMMA get_method_step ==
    ASSUME IInv, get_method PROVE IInv'
<1> USE DEF get_method, goto, kill_dhcp_client, conf, IInv, Types
<1>1. Still
  BY DEF Still, six
<1>2. Numbered' /\ Manual'
  BY DEF Numbered, Manual, Where, Killing, Quiet, Main, Static, Tried, Trying, Forked
<1>3. at' \in Quiet \cup {"KILL"} /\ at \in Quiet
  BY DEF Quiet, Main
<1> QED BY <1>1, <1>2, <1>3, Calm

\* The wireless questions.
LEMMA AskWifi ==
    ASSUME IInv, Ask(WifiQuestions) PROVE IInv'
<1> USE DEF Ask, goto, conf, IInv, Types
<1>1. Still /\ after' = after /\ iface' = iface /\ family' = family
  BY DEF Still, six
<1>2. at \in Main \ Static /\ at' \in Main \ Static
  BY DEF WifiQuestions, Main, Static
<1>3. Numbered' /\ Manual'
  BY <1>1, <1>2 DEF Still, Numbered, Manual, Where, Killing, Quiet, Main, Static, Tried, Trying, Forked
<1> QED BY <1>1, <1>2, <1>3, Calm DEF Quiet

\* The static questions.
LEMMA AskStatic ==
    ASSUME IInv, Ask(StaticQuestions) PROVE IInv'
<1> USE DEF Ask, goto, conf, IInv, Types
<1>1. Still /\ after' = after /\ iface' = iface /\ family' = family
  BY DEF Still, six
<1>2. at \in Static /\ at' \in Static \cup {"GET_IPADDRESS"}
  BY DEF StaticQuestions, Static
<1>3. Numbered' /\ Manual'
  BY <1>1, <1>2 DEF Still, Numbered, Manual, Where, Killing, Quiet, Main, Static, Tried, Trying, Forked
<1>4. at' \in Quiet /\ at \in Quiet
  BY <1>2 DEF Quiet, Main
<1> QED BY <1>1, <1>3, <1>4, Calm

\* The questions after a lease.
LEMMA AskDhcp ==
    ASSUME IInv, Ask(DhcpQuestions) PROVE IInv'
<1> USE DEF Ask, goto, conf, IInv, Types
<1>1. Still /\ after' = after /\ iface' = iface /\ family' = family
  BY DEF Still, six
<1>2. \/ /\ at \in {"DEFAULT_GATEWAY", "NAMESERVERS", "HOSTNAME"}
         /\ at' \in {"ASK_OPTIONS", "NAMESERVERS", "HOSTNAME", "DOMAIN"}
      \/ at = "GET_HOSTNAME_ONLY" /\ at' \in {"BACKUP", "QUIT"}
  BY DEF DhcpQuestions
<1>3. Numbered' /\ Manual'
  BY <1>1, <1>2 DEF Still, Numbered, Manual, Where, Killing, Quiet, Main, Static, Tried, Trying, Forked
<1>4. /\ at' \in Quiet \cup (Tried \ Trying)
      /\ at' \in Quiet => at \in Quiet
  BY <1>2 DEF Quiet, Main, Static, Tried, Trying, Forked
<1> QED BY <1>1, <1>3, <1>4, Calm

\* The address, which sets the family.
LEMMA get_ipaddress_step ==
    ASSUME IInv, get_ipaddress PROVE IInv'
<1> USE DEF get_ipaddress, goto, IInv, Types
<1>1. Still /\ after' = after /\ iface' = iface
  BY DEF Still, six
<1>2. Numbered' /\ Manual'
  BY <1>1 DEF Still, Numbered, Manual, Where, Killing, Quiet, Main, Static, Tried, Trying, Forked
<1>3. at' \in Quiet /\ at \in Quiet
  BY DEF Quiet, Main, Static
<1> QED BY <1>1, <1>2, <1>3, Calm

\* netcfg writes the file and is done.
LEMMA static_quit_step ==
    ASSUME IInv, static_quit PROVE IInv'
<1> USE DEF static_quit, goto, IInv, Types
<1>1. Still /\ after' = after /\ iface' = iface /\ family' = family
  BY DEF Still, six
<1>2. Numbered' /\ Manual'
  BY <1>1 DEF Still, Numbered, Manual, Where, Killing, Quiet, Main, Static, Tried, Trying, Forked
<1>3. at' \in Quiet /\ at \in Quiet
  BY DEF Quiet, Main, Static
<1> QED BY <1>1, <1>2, <1>3, Calm

\* The result of the try leads to further questions.
LEMMA result_step ==
    ASSUME IInv, result PROVE IInv'
<1> USE DEF result, goto, conf, IInv, Types
<1>1. Still /\ after' = after /\ iface' = iface
  BY DEF Still, six
<1>2. at' \in {"DEFAULT_GATEWAY", "ASK_OPTIONS"} /\ at = "RESULT"
  OBVIOUS
<1>3. Numbered' /\ Manual'
  BY <1>1, <1>2 DEF Still, Numbered, Manual, Where, Killing, Quiet, Main, Static, Tried, Trying, Forked
<1> QED BY <1>1, <1>2, <1>3, Calm DEF Quiet, Main, Static, Tried, Trying, Forked

\* Giving a try up takes the lease out of the interface, retrying needs a try.
LEMMA ask_options_step ==
    ASSUME IInv, ask_options PROVE IInv'
<1> USE DEF ask_options, goto, kill_dhcp_client, IInv, Types
<1>1. Still
  BY DEF Still, six
<1>2. at' \in {"KILL", "AUTOCONFIG", "DHCP_HOSTNAME"} /\ at = "ASK_OPTIONS"
  OBVIOUS
<1>3. iface' = iface \/ iface' = [iface EXCEPT !.dhcp = 0]
  OBVIOUS
<1>4. Numbered' /\ Manual'
  BY <1>1, <1>2 DEF Still, Numbered, Manual, Where, Killing, Quiet, Main, Static, Tried, Trying, Forked
<1>5. /\ after' = after \/ at' = "KILL"
      /\ after' \in {"AUTOCONFIG", "RESULT", "BACKUP", "GET_INTERFACE", "GET_IPADDRESS",
                      "HOSTNAME_SANS_NETWORK", "QUIT"}
  OBVIOUS
<1> QED BY <1>1, <1>2, <1>3, <1>4, <1>5, Calm DEF Quiet, Main, Static, Tried, Trying, Forked

\* So does retrying with another host name.
LEMMA dhcp_hostname_step ==
    ASSUME IInv, dhcp_hostname PROVE IInv'
<1> USE DEF dhcp_hostname, goto, kill_dhcp_client, conf, IInv, Types
<1>1. Still /\ iface' = iface
  BY DEF Still, six
<1>2. at' \in {"KILL", "ASK_OPTIONS"} /\ at = "DHCP_HOSTNAME"
  OBVIOUS
<1>3. Numbered' /\ Manual'
  BY <1>1, <1>2 DEF Still, Numbered, Manual, Where, Killing, Quiet, Main, Static, Tried, Trying, Forked
<1> QED BY <1>1, <1>2, <1>3, Calm DEF Quiet, Main, Static, Tried, Trying, Forked

\* The last question with a network.
LEMMA get_domain_step ==
    ASSUME IInv, get_domain PROVE IInv'
<1> USE DEF get_domain, goto, kill_dhcp_client, IInv, Types
<1>1. Still /\ iface' = iface
  BY DEF Still, six
<1>2. at' \in {"KILL", "HOSTNAME"} /\ at = "DOMAIN"
  OBVIOUS
<1>3. Numbered' /\ Manual'
  BY <1>1, <1>2 DEF Still, Numbered, Manual, Where, Killing, Quiet, Main, Static, Tried, Trying, Forked
<1> QED BY <1>1, <1>2, <1>3, Calm DEF Quiet, Main, Static, Tried, Trying, Forked

\* The last question without one.
LEMMA hostname_sans_network_step ==
    ASSUME IInv, hostname_sans_network PROVE IInv'
<1> USE DEF hostname_sans_network, goto, IInv, Types
<1>1. Still /\ after' = after
  BY DEF Still, six
<1>2. at' \in {"QUIT", "ASK_OPTIONS"} /\ at = "HOSTNAME_SANS_NETWORK"
  OBVIOUS
<1>3. iface' = iface \/ iface' = [iface EXCEPT !.dhcp = 0]
  OBVIOUS
<1>4. Numbered' /\ Manual'
  BY <1>1, <1>2 DEF Still, Numbered, Manual, Where, Killing, Quiet, Main, Static, Tried, Trying, Forked
<1> QED BY <1>1, <1>2, <1>3, <1>4, Calm DEF Quiet, Main, Static, Tried, Trying, Forked

\* The user cancels: the client goes on, the try is over.
LEMMA poll_cancel_step ==
    ASSUME IInv, poll_cancel PROVE IInv'
<1> USE DEF poll_cancel, goto, conf, IInv, Types
<1>1. Still /\ after' = after /\ iface' = iface
  BY DEF Still, six
<1>2. at' = "RESULT" /\ at = "POLL"
  OBVIOUS
<1>3. Numbered' /\ Manual'
  BY <1>1, <1>2 DEF Still, Numbered, Manual, Where, Killing, Quiet, Main, Static, Tried, Trying, Forked
<1> QED BY <1>1, <1>2, <1>3, Calm DEF Quiet, Main, Static, Tried, Trying, Forked

-----------------------------------------------------------------------------
\* The try up to the DHCP client.

\* A step of the IPv6 part of a try: it has no client of its own yet.
LEMMA Sixth ==
    ASSUME IInv, at \in Trying \ Forked, at' \in Trying \ Forked,
           UNCHANGED <<after, try, v4, early, dhcp_pid>>,
           chld' \in BOOLEAN, handler' \in BOOLEAN,
           iface' \in [dhcp : {-1, 0, 1}, slaac : {-1, 0, 1}, dhcpv6 : {-1, 0, 1}],
           iface'.dhcp = 0,
           \A t \in Tries, kind \in {"child4", "copy4"} :
               <<kind, t>> \in alive' => <<kind, t>> \in alive,
           Fresh', Alone'
    PROVE  IInv'
<1> USE DEF IInv
<1>1. Types'
  BY DEF Types, Quiet, Tried
<1>2. Numbered' /\ Manual' /\ Gone' /\ Watched'
  BY DEF Numbered, Manual, Gone, Watched, Where, Killing, Quiet, Main, Static, Tried, Trying, Forked
<1>3. Over'
  BY DEF Over
<1>4. LeaseIsOurs'
  BY DEF LeaseIsOurs
<1> QED BY <1>1, <1>2, <1>3, <1>4

\* A try begins.
LEMMA autoconfig_step ==
    ASSUME IInv, autoconfig PROVE IInv'
<1> USE DEF autoconfig, goto, IInv
<1>1. Types'
  BY ConstantsAssumption DEF Types, Quiet, Tried, Trying, Forked, Numbered, Where, Killing, four
<1>2. Numbered'
  BY DEF Types, Numbered, Where, Killing, Quiet, Main, Static, Tried, Trying, Forked
<1>3. Manual' /\ Gone' /\ Watched'
  BY DEF Manual, Gone, Watched, Where, Killing, Quiet, Main, Static, Tried, Trying, Forked
<1>4. Over' /\ LeaseIsOurs'
  BY DEF Over, LeaseIsOurs
<1>5. Fresh'
  <2>1. \A p \in alive' \cup victims' : p \in Processes /\ p[2] <= try /\ p[2] \in Int
    BY ConstantsAssumption DEF Fresh, Processes, Tries
  <2> QED BY <2>1 DEF Types, Fresh, Processes
<1>6. Alone'
  BY DEF Alone, Kin
<1> QED BY <1>1, <1>2, <1>3, <1>4, <1>5, <1>6

\* The router advertisement.
LEMMA get_config_flags_step ==
    ASSUME IInv, get_config_flags PROVE IInv'
<1> USE DEF get_config_flags, goto, conf, procs, four
<1>1. at \in Trying \ Forked /\ at' \in Trying \ Forked
  BY DEF Trying, Forked
<1>2. chld' \in BOOLEAN /\ iface'.dhcp = 0
  BY <1>1 DEF raise, IInv, Types, Numbered
<1>f. Fresh' /\ Alone'
  BY Fewer DEF IInv, Trying, Forked
<1> QED BY <1>1, <1>2, <1>f, Sixth DEF IInv, Types

\* Stateless autoconfiguration.
LEMMA slaac_step ==
    ASSUME IInv, slaac PROVE IInv'
<1> USE DEF slaac, goto, procs, four, sig
<1>1. at \in Trying \ Forked /\ at' \in Trying \ Forked
  BY DEF Trying, Forked
<1>2. iface.dhcp = 0
  BY <1>1 DEF IInv, Numbered
<1>3. /\ iface' \in [dhcp : {-1, 0, 1}, slaac : {-1, 0, 1}, dhcpv6 : {-1, 0, 1}]
      /\ iface'.dhcp = 0
  BY <1>2 DEF IInv, Types
<1>f. Fresh' /\ Alone'
  BY Fewer DEF IInv, Trying, Forked
<1> QED BY <1>1, <1>3, <1>f, Sixth DEF IInv, Types

\* The DHCPv6 client is started,
LEMMA start_dhcpv6_client_step ==
    ASSUME IInv, start_dhcpv6_client PROVE IInv'
<1> USE DEF start_dhcpv6_client, goto, conf, four, sig
<1>1. at \in Trying \ Forked /\ at' \in Trying \ Forked
  BY DEF Trying, Forked
<1>2. iface'.dhcp = 0
  BY <1>1 DEF IInv, Numbered
<1>3. \A t \in Tries, kind \in {"child4", "copy4"} :
          <<kind, t>> \in alive' => <<kind, t>> \in alive
  BY DEF child6
<1>4. try \in Tries /\ try' = try /\ victims' = victims
  BY <1>1, ConstantsAssumption DEF IInv, Types, Numbered, Where, Killing, Tries, Tried, Trying
<1>5. Fresh' /\ Alone'
  <2>1. CASE alive' = alive
    BY <1>1, <1>4, <2>1, Fewer DEF IInv
  <2>2. CASE at' = "FORK6" /\ alive' = alive \cup {child6}
    <3>1. \A q \in alive \cup victims : ~Kin(<<"child6", try>>, q)
      BY <1>4, ConstantsAssumption DEF IInv, Fresh, Kin, Tries, Processes
    <3> QED BY <1>1, <1>4, <2>2, <3>1, Born DEF IInv, child6, Kids, Six, Trying, Forked
  <2> QED BY <2>1, <2>2
<1> QED BY <1>1, <1>2, <1>3, <1>5, Sixth DEF IInv, Types

\* netcfg notes its pid,
LEMMA install_handler6_step ==
    ASSUME IInv, install_handler6 PROVE IInv'
<1> USE DEF install_handler6, goto, conf, four, procs
<1>1. at \in Trying \ Forked /\ at' \in Trying \ Forked
  BY DEF Trying, Forked
<1>2. iface'.dhcp = 0
  BY <1>1 DEF IInv, Numbered
<1>f. Fresh' /\ Alone'
  BY Fewer DEF IInv, Trying, Forked
<1> QED BY <1>1, <1>2, <1>f, Sixth DEF IInv, Types

\* waits,
LEMMA poll6_turn_step ==
    ASSUME IInv, poll6_turn PROVE IInv'
<1> USE DEF poll6_turn, conf, four, procs, sig
<1>1. at \in Trying \ Forked /\ at' \in Trying \ Forked
  BY DEF Trying, Forked
<1>2. iface'.dhcp = 0
  BY <1>1 DEF IInv, Numbered
<1>f. Fresh' /\ Alone'
  BY Fewer DEF IInv, Trying, Forked
<1> QED BY <1>1, <1>2, <1>f, Sixth DEF IInv, Types

\* has waited,
LEMMA poll6_end_step ==
    ASSUME IInv, poll6_end PROVE IInv'
<1> USE DEF poll6_end, goto, four
<1>1. at \in Trying \ Forked /\ at' \in Trying \ Forked
  BY DEF Trying, Forked
<1>2. iface.dhcp = 0
  BY <1>1 DEF IInv, Numbered
<1>3. PICK r \in {0, 1} : iface' = [iface EXCEPT !.dhcpv6 = r]
  OBVIOUS
<1>4. /\ iface' \in [dhcp : {-1, 0, 1}, slaac : {-1, 0, 1}, dhcpv6 : {-1, 0, 1}]
      /\ iface'.dhcp = 0
  BY <1>2, <1>3 DEF IInv, Types
<1>5. alive' \subseteq alive
  OBVIOUS
<1>6. chld' \in BOOLEAN
  BY DEF raise, IInv, Types
<1>f. Fresh' /\ Alone'
  BY Fewer DEF IInv, Trying, Forked
<1> QED BY <1>1, <1>4, <1>5, <1>6, <1>f, Sixth DEF IInv, Types

\* and reads the answer.
LEMMA read_dhcpv6_step ==
    ASSUME IInv, read_dhcpv6 PROVE IInv'
<1> USE DEF read_dhcpv6, goto, four, conf
<1>1. at \in Trying \ Forked /\ at' \in Trying \ Forked
  BY DEF Trying, Forked
<1>2. iface'.dhcp = 0
  BY <1>1 DEF IInv, Numbered
<1>3. alive' \subseteq alive
  OBVIOUS
<1>4. chld' \in BOOLEAN
  BY DEF raise, IInv, Types
<1>f. Fresh' /\ Alone'
  BY Fewer DEF IInv, Trying, Forked
<1> QED BY <1>1, <1>2, <1>3, <1>4, <1>f, Sixth DEF IInv, Types

-----------------------------------------------------------------------------
\* Children that run beside netcfg.

\* What happens to rdnssd and the DHCPv6 client: a child may become a daemon.
LEMMA Beside ==
    ASSUME IInv, UNCHANGED <<at, after, iface, family, try, v4, early, victims, four, handler>>,
           client6' = client6, chld' \in BOOLEAN, chld => chld',
           \/ alive' \subseteq alive
           \/ child6 \in alive /\ alive' = (alive \ {child6}) \cup {daemon6}
    PROVE  IInv'
<1> USE DEF IInv, four
<1>1. Types'
  BY DEF Types
<1>2. Numbered' /\ Manual' /\ LeaseIsOurs'
  BY DEF Numbered, Manual, Where, Killing, LeaseIsOurs
<1>3. Watched'
  BY DEF Watched
<1>4. Over'
  BY DEF Over, daemon6
<1>5. child6[1] = "child6" /\ Daemon(child6) = daemon6
  BY DEF child6, daemon6, Daemon
<1>6. Fresh' /\ Alone'
  <2>1. CASE alive' \subseteq alive
    BY <2>1, Fewer
  <2>2. CASE child6 \in alive /\ alive' = (alive \ {child6}) \cup {daemon6}
    BY <1>5, <2>2, Grown
  <2> QED BY <2>1, <2>2
<1>7. Gone'
  BY <1>5, StillGone
<1> QED BY <1>1, <1>2, <1>3, <1>4, <1>6, <1>7

\* All of their steps are of this kind.
LEMMA BesideSteps ==
    ASSUME IInv, RdnssdExit \/ Daemonise6 \/ WritePid6 \/ Answer6 \/ Fail6
    PROVE  IInv'
<1>0. chld \in BOOLEAN /\ handler \in BOOLEAN
  BY DEF IInv, Types
<1>1. /\ UNCHANGED <<at, after, iface, family, try, v4, early, victims, four, handler>>
      /\ client6' = client6
  BY DEF RdnssdExit, Daemonise6, WritePid6, Answer6, Fail6, conf, procs, sig, six
<1>2. chld' \in BOOLEAN /\ (chld => chld')
  BY <1>0 DEF RdnssdExit, Daemonise6, WritePid6, Answer6, Fail6, raise, sig
<1>3. \/ alive' \subseteq alive
      \/ child6 \in alive /\ alive' = (alive \ {child6}) \cup {daemon6}
  BY DEF RdnssdExit, Daemonise6, WritePid6, Answer6, Fail6, procs
<1> QED BY <1>1, <1>2, <1>3, Beside


-----------------------------------------------------------------------------
\* The DHCP client.

\* The client is forked, or cannot be, or there is none.
LEMMA start_dhcp_client_step ==
    ASSUME IInv, start_dhcp_client PROVE IInv'
<1> USE DEF start_dhcp_client, goto, conf, sig, IInv
<1>1. /\ at = "DHCP" /\ at' \in {"RESULT", "FORK", "NO_CLIENT"}
      /\ UNCHANGED <<after, try, iface, victims, handler, chld>>
  OBVIOUS
<1>2. try \in Tries /\ iface.dhcp = 0
  BY <1>1, ConstantsAssumption DEF Types, Numbered, Where, Killing, Tries, Tried, Trying
<1>a. v4' \in [Tries -> Outcomes]
  BY <1>2 DEF Types, Outcomes
<1>b. dhcp_pid' \in 0..MaxTries
  BY ConstantsAssumption DEF Types
<1>3. Types'
  BY <1>1, <1>a, <1>b DEF Types, Quiet, Tried, Trying, Forked
<1>4. Numbered' /\ Manual' /\ Gone'
  BY <1>1, <1>2 DEF Numbered, Manual, Gone, Where, Killing, Quiet, Main, Static, Tried, Trying, Forked
<1>5. CASE at' = "FORK"
  <2>1. PICK kind \in {"child4", "copy4"} : alive' = alive \cup {<<kind, try>>}
    BY <1>5
  <2>2. v4'[try] = "trying" /\ \A t \in Tries \ {try} : v4'[t] = v4[t]
    BY <1>2, <1>5 DEF Types
  <2>3. Over'
    BY <1>2, <2>1, <2>2 DEF Over
  <2>4. \A q \in alive \cup victims : ~Kin(<<kind, try>>, q)
    BY <1>1, <1>2 DEF Fresh, Kin, Six, Trying, Forked, Processes, Tries
  <2>5. Fresh' /\ Alone'
    BY <1>1, <1>2, <1>5, <2>1, <2>4, Born DEF Kids, Trying, Forked
  <2>6. Watched'
    BY <1>1, <1>2, <1>5, <2>2 DEF Watched, Types, Forked
  <2> QED BY <1>1, <1>2, <1>3, <1>4, <2>3, <2>5, <2>6 DEF LeaseIsOurs
<1>6. CASE at' # "FORK"
  <2>1. UNCHANGED <<alive, v4>>
    BY <1>6
  <2>2. Fresh' /\ Alone'
    BY <1>1, <1>6, <2>1, Fewer DEF Trying, Forked
  <2>3. Over' /\ Watched'
    BY <1>1, <1>6, <2>1 DEF Over, Watched, Forked
  <2> QED BY <1>1, <1>2, <1>3, <1>4, <2>2, <2>3 DEF LeaseIsOurs
<1> QED BY <1>5, <1>6

\* netcfg notes its pid, and forgets the client of an earlier try.
LEMMA install_handler_step ==
    ASSUME IInv, install_handler PROVE IInv'
<1> USE DEF install_handler, goto, conf, IInv
<1>1. at = "FORK" /\ at' = "PROGRESS" /\ UNCHANGED <<after, try, iface, alive, victims, early, chld>>
  OBVIOUS
<1>2. try \in Tries /\ iface.dhcp = 0
  BY <1>1, ConstantsAssumption DEF Types, Numbered, Where, Killing, Tries, Tried, Trying, Forked
<1>3. v4' \in [Tries -> Outcomes] /\ v4'[try] = v4[try]
  BY <1>2 DEF Types, Outcomes
<1>4. Types'
  BY <1>1, <1>2, <1>3 DEF Types, Quiet, Tried, Trying, Forked
<1>5. Numbered' /\ Manual' /\ Gone'
  BY <1>1, <1>2 DEF Numbered, Manual, Gone, Where, Killing, Quiet, Main, Static, Tried, Trying, Forked
<1>6. Over'
  BY <1>1 DEF Over, Types
<1>7. Watched'
  BY <1>1, <1>2, <1>3, ConstantsAssumption DEF Watched, Types, Forked, Tries
<1>8. LeaseIsOurs'
  BY <1>1, <1>2 DEF LeaseIsOurs
<1>9. Fresh' /\ Alone'
  BY <1>1, Fewer DEF Trying, Forked
<1> QED BY <1>4, <1>5, <1>6, <1>7, <1>8, <1>9

\* Cancelling the first message kills the client.
LEMMA progress_info_step ==
    ASSUME IInv, progress_info PROVE IInv'
<1> USE DEF progress_info, goto, kill_dhcp_client, conf, IInv
<1>1. Still /\ iface' = iface /\ at = "PROGRESS" /\ at' \in {"POLL", "KILL"}
  BY DEF Still, six
<1>2. Numbered' /\ Manual'
  BY <1>1 DEF Still, Numbered, Manual, Where, Killing, Quiet, Main, Static, Tried, Trying, Forked
<1>3. CASE at' = "KILL"
  BY <1>1, <1>2, <1>3, Calm DEF Types, Quiet, Main, Static, Tried, Trying, Forked
<1>4. CASE at' = "POLL"
  <2> USE <1>1, <1>4 DEF Still, procs, four, sig
  <2>1. Types' /\ Over' /\ LeaseIsOurs'
    BY DEF Types, Over, LeaseIsOurs, Quiet, Tried, Trying, Forked
  <2>2. Gone' /\ Watched'
    BY DEF Gone, Watched, Quiet, Main, Static, Forked
  <2>3. Fresh' /\ Alone'
    BY Fewer DEF Trying, Forked
  <2> QED BY <1>2, <2>1, <2>2, <2>3
<1> QED BY <1>1, <1>3, <1>4

\* A second passes.
LEMMA poll_turn_step ==
    ASSUME IInv, poll_turn PROVE IInv'
<1> USE DEF poll_turn, conf, procs, four, six, sig, IInv
<1>1. Types' /\ Numbered' /\ Manual' /\ Over' /\ Watched' /\ LeaseIsOurs'
  BY DEF Types, Numbered, Manual, Over, Watched, LeaseIsOurs, Where, Killing
<1>2. Fresh' /\ Alone' /\ Gone'
  BY Fewer, StillGone
<1> QED BY <1>1, <1>2

\* The wait is over: what netcfg reports is what it knows of the client.
LEMMA poll_end_step ==
    ASSUME IInv, poll_end PROVE IInv'
<1> USE DEF poll_end, goto, IInv
<1>1. /\ at = "POLL" /\ at' = "RESULT"
      /\ UNCHANGED <<after, try, v4, early, alive, victims, dhcp_pid, handler, chld>>
  BY DEF procs, four, sig
<1>2. try > 0
  BY <1>1 DEF Numbered, Where, Killing, Tried, Trying, Forked
<1>3. PICK r \in {0, 1} : /\ iface' = [iface EXCEPT !.dhcp = r]
                          /\ r = 1 => dhcp_pid = 0 /\ dhcp_exit = 0
  OBVIOUS
<1>4. Types'
  BY <1>1, <1>3 DEF Types, Quiet, Tried, Trying, Forked
<1>5. Numbered' /\ Manual' /\ Gone' /\ Watched'
  BY <1>1, <1>2 DEF Numbered, Manual, Gone, Watched, Where, Killing, Quiet, Main, Static, Tried, Trying, Forked
<1>6. Over'
  BY <1>1 DEF Over
<1>7. LeaseIsOurs'
  BY <1>1, <1>3 DEF LeaseIsOurs, Watched, Types
<1>8. Fresh' /\ Alone'
  BY <1>1, Fewer DEF Trying, Forked
<1> QED BY <1>4, <1>5, <1>6, <1>7, <1>8

\* A client ends, at any time.
LEMMA ClientExit_step ==
    ASSUME IInv, NEW t \in Tries, ClientExit(t) PROVE IInv'
<1> USE DEF ClientExit, IInv
<1>1. /\ UNCHANGED <<at, after, iface, family, try, victims, dhcp_pid, dhcp_exit, handler, client6>>
      /\ chld' = (chld \/ handler)
      /\ early' = (early \/ (t = try /\ at = "FORK"))
  BY DEF conf, four, six, raise
<1>2. PICK e \in {"lease", "failed"} : v4' = [v4 EXCEPT ![t] = IF @ = "none" THEN @ ELSE e]
  OBVIOUS
<1>p. PICK kind \in {"child4", "copy4"} :
          /\ <<kind, t>> \in alive
          /\ \/ alive' = alive \ {<<kind, t>>}
             \/ kind = "child4" /\ alive' = (alive \ {<<kind, t>>}) \cup {<<"daemon4", t>>}
  OBVIOUS
<1>3. v4[t] \in {"none", "trying"}
  BY <1>p DEF Over
<1>4. <<"child4", t>> \notin alive' /\ <<"copy4", t>> \notin alive'
  BY <1>p DEF Alone, Kids, Kin, Six
<1>5. Types'
  BY <1>1, <1>2 DEF Types, Outcomes
<1>6. Numbered' /\ Manual'
  BY <1>1 DEF Numbered, Manual, Where, Killing
<1>7. Over'
  BY <1>1, <1>2, <1>p, <1>4 DEF Over, Types
<1>8. LeaseIsOurs'
  BY <1>1, <1>2, <1>3, ConstantsAssumption DEF LeaseIsOurs, Numbered, Types, Tries
<1>9. Watched'
  <2>1. ASSUME at \in Forked PROVE try \in Tries
    BY <2>1, ConstantsAssumption DEF Numbered, Where, Killing, Types, Forked, Trying, Tried, Tries
  <2>2. CASE t = try
    <3>1. ASSUME at \in Forked
          PROVE  v4[try] = "trying" /\ v4'[try] \in {"lease", "failed"}
      BY <1>2, <1>3, <2>1, <2>2, <3>1 DEF Watched, Types
    <3>2. at \in {"PROGRESS", "POLL"} => chld' /\ ~(dhcp_pid = 0 /\ dhcp_exit = 0)
      BY <1>1, <3>1 DEF Watched, Forked
    <3>3. at = "FORK" => early'
      BY <1>1, <2>2
    <3> QED BY <1>1, <3>1, <3>2, <3>3 DEF Watched, Forked
  <2>3. CASE t # try
    BY <1>1, <1>2, <2>1, <2>3 DEF Watched, Types, Forked
  <2> QED BY <2>2, <2>3
<1>d. <<kind, t>>[1] = kind /\ (kind = "child4" => Daemon(<<kind, t>>) = <<"daemon4", t>>)
  BY DEF Daemon
<1>10. Gone'
  BY <1>1, <1>p, <1>d, StillGone
<1>11. Fresh' /\ Alone'
  BY <1>1, <1>p, <1>d, Fewer, Grown
<1> QED BY <1>5, <1>6, <1>7, <1>8, <1>9, <1>10, <1>11

-----------------------------------------------------------------------------
\* Signals.

\* SIGCHLD tells netcfg how the client ended, unless it was killed.
LEMMA sigchld_handler_step ==
    ASSUME IInv, sigchld_handler PROVE IInv'
<1> USE DEF sigchld_handler, IInv
<1>1. /\ UNCHANGED <<at, after, iface, family, try, alive, victims, v4, early, handler, client6>>
      /\ chld' = FALSE
  BY DEF conf, procs
<1>a. dhcp_pid' \in 0..MaxTries
  BY ConstantsAssumption DEF Types, cleanup_dhcp_client, four
<1>b. Types'
  BY <1>1, <1>a DEF Types
<1>2. Types' /\ Numbered' /\ Manual' /\ Over' /\ LeaseIsOurs'
  BY <1>1, <1>b DEF Numbered, Manual, Over, LeaseIsOurs, Where
<1>3. Fresh' /\ Alone' /\ Gone'
  BY <1>1, Fewer, StillGone
<1>4. Watched'
  <2>1. ASSUME at \in Forked PROVE try > 0 /\ try \in Int
    BY <2>1, ConstantsAssumption DEF Numbered, Where, Killing, Types, Forked, Trying, Tried, Tries
  <2> QED BY <1>1, <2>1 DEF Watched, Forked, cleanup_dhcp_client, four
<1> QED BY <1>2, <1>3, <1>4

\* kill-all-dhcp looks for processes of a name,
LEMMA pidof_step ==
    ASSUME IInv, pidof PROVE IInv'
<1> USE DEF pidof, goto, IInv
<1>1. /\ UNCHANGED <<after, iface, family, try, alive, v4, early, dhcp_pid, dhcp_exit, handler, chld, client6>>
      /\ \/ at = "KILL" /\ at' = "KILLING" /\ victims' = {p \in alive : called(p) = "dhclient"}
         \/ /\ at = "KILL6" /\ at' = "KILLING6"
            /\ victims' = victims \cup {p \in alive : called(p) = "dhcp6c"}
  BY DEF conf, four, six, sig
<1>2. Types' /\ Over' /\ LeaseIsOurs' /\ Watched'
  BY <1>1 DEF Types, Over, LeaseIsOurs, Watched, Killing, Forked
<1>3. Numbered' /\ Manual'
  BY <1>1 DEF Numbered, Manual, Where, Killing, Main, Static, Tried, Trying, Forked
<1>4. Fresh' /\ Alone'
  BY <1>1, Fewer DEF Trying, Forked
<1>5. \A p : called(p)' = called(p)
  BY <1>1 DEF called
<1>6. Gone'
  <2>1. CASE at = "KILL"
    BY <1>1, <1>5, <2>1 DEF Gone, Quiet, Main, Static
  <2>2. CASE at = "KILL6"
    <3>1. \A p \in alive : Left(p) => Left(p)'
      BY <1>1, <1>5, <2>2 DEF Left, Escaped, Spared
    <3> QED BY <1>1, <1>5, <2>2, <3>1 DEF Gone, Quiet, Main, Static
  <2> QED BY <1>1, <2>1, <2>2
<1> QED BY <1>2, <1>3, <1>4, <1>6

\* and kills what it has seen, or leaves some if one of that name has gone.
LEMMA kill_all_step ==
    ASSUME IInv, kill_all PROVE IInv'
<1> USE DEF kill_all, IInv
<1> DEFINE client == IF at = "KILLING" THEN "dhclient" ELSE "dhcp6c"
           seen == {p \in victims : called(p) = client}
<1>1. /\ UNCHANGED <<iface, family, try, victims, early, dhcp_pid, dhcp_exit, handler, client6>>
      /\ \/ at = "KILLING" /\ at' = "KILL6" /\ after' = after
         \/ at = "KILLING6" /\ at' = after /\ after' = "QUIT"
      /\ chld' = (chld \/ handler)
  BY DEF conf, four, raise
<1>2. PICK hit \in SUBSET (alive \cap victims), how \in {"quit", "signaled"} :
          /\ hit \subseteq seen /\ spares(seen, hit)
          /\ alive' = alive \ hit
          /\ v4' = [t \in Tries |-> IF v4[t] # "none" /\ <<"child4", t>> \in hit
                                    THEN how ELSE v4[t]]
  OBVIOUS
<1>3. Types'
  BY <1>1, <1>2 DEF Types, Outcomes, Killing, Quiet, Main, Static, Tried, Trying, Forked
<1>4. Numbered' /\ Manual'
  BY <1>1 DEF Types, Numbered, Manual, Where, Killing, Main, Static, Tried, Trying, Forked
<1>5. Over'
  <2> SUFFICES ASSUME NEW t \in Tries, v4'[t] \notin {"none", "trying"}
               PROVE  <<"child4", t>> \notin alive' /\ <<"copy4", t>> \notin alive'
    BY DEF Over
  <2>1. CASE v4[t] # "none" /\ <<"child4", t>> \in hit
    BY <1>2, <2>1 DEF Alone, Kids, Kin, Six
  <2>2. CASE ~(v4[t] # "none" /\ <<"child4", t>> \in hit)
    BY <1>2, <2>2 DEF Over
  <2> QED BY <2>1, <2>2
<1>6. LeaseIsOurs'
  <2>1. ASSUME iface.dhcp = 1 PROVE try \in Tries
    BY <2>1, ConstantsAssumption DEF Numbered, Types, Tries
  <2>2. \A t \in Tries : v4[t] = "lease" => v4'[t] = "lease"
    BY <1>2 DEF Over
  <2> QED BY <1>1, <2>1, <2>2 DEF LeaseIsOurs
<1>7. Fresh' /\ Alone'
  BY <1>1, <1>2, Fewer DEF Types, Trying, Forked
<1>8. \A p : called(p)' = called(p) /\ (Escaped(p)' <=> Escaped(p))
  BY <1>1 DEF called, Escaped
<1>9. \A p \in alive' : p \in alive /\ (Left(p) => Left(p)')
  BY <1>1, <1>2, <1>8 DEF Left, Spared
<1>10. \A p \in alive' : called(p) = client => Left(p)'
  <2> SUFFICES ASSUME NEW p \in alive', called(p) = client, ~Escaped(p) PROVE Left(p)'
    BY <1>8 DEF Left
  <2>1. p \in alive \cap seen /\ p \notin hit
    BY <1>1, <1>2 DEF Gone
  <2>2. PICK q \in seen : q \notin alive'
    BY <1>2, <2>1 DEF spares
  <2> QED BY <1>1, <1>8, <2>1, <2>2 DEF Left, Spared
<1>11. \A p : called(p) \in {"dhclient", "dhcp6c"} \/ p[1] = "copy4"
  BY DEF called
<1>12. Gone'
  <2>1. CASE at = "KILLING"
    BY <1>1, <1>8, <1>10, <2>1 DEF Gone, Quiet, Main, Static
  <2>2. CASE at = "KILLING6"
    <3>1. \A p \in alive' : Left(p)'
      BY <1>9, <1>10, <1>11, <2>2 DEF Gone, Left
    <3> QED BY <1>1, <2>2, <3>1 DEF Gone, Types
  <2> QED BY <1>1, <2>1, <2>2
<1>13. Watched'
  BY <1>1 DEF Types, Watched, Forked
<1> QED BY <1>3, <1>4, <1>5, <1>6, <1>7, <1>12, <1>13

-----------------------------------------------------------------------------
\* The invariant holds at the start,
LEMMA InitInv == Init => IInv
<1> SUFFICES ASSUME Init PROVE IInv
  OBVIOUS
<1>a. 0 \in 0..MaxTries
  BY ConstantsAssumption
<1>b. v4 \in [Tries -> Outcomes]
  BY DEF Init, Outcomes
<1>1. Types
  BY <1>a, <1>b DEF Init, Types, Quiet, Main
<1>2. Fresh /\ Alone /\ Gone /\ Over
  BY DEF Init, Fresh, Alone, Gone, Over
<1> QED BY <1>1, <1>2 DEF Init, IInv, Numbered, Manual, Watched, LeaseIsOurs, Where, Killing,
                   Quiet, Main, Static, Tried, Trying, Forked

\* and every step keeps it.
LEMMA StepInv == IInv /\ [Next]_vars => IInv'
<1> SUFFICES ASSUME IInv, [Next]_vars PROVE IInv'
  OBVIOUS
<1>1. CASE Working
  BY <1>1, autoconfig_step, get_config_flags_step, slaac_step, start_dhcpv6_client_step,
     install_handler6_step, poll6_turn_step, poll6_end_step, read_dhcpv6_step,
     start_dhcp_client_step, install_handler_step, progress_info_step, poll_turn_step,
     poll_end_step, result_step, pidof_step, kill_all_step DEF Working
<1>2. CASE Asking
  BY <1>2, get_interface_step, get_method_step, get_ipaddress_step, static_quit_step,
     AskWifi, AskStatic, AskDhcp, poll_cancel_step, ask_options_step, dhcp_hostname_step,
     get_domain_step, hostname_sans_network_step DEF Asking
<1>3. CASE sigchld_handler
  BY <1>3, sigchld_handler_step
<1>4. CASE Others
  BY <1>4, BesideSteps, ClientExit_step DEF Others
<1>5. CASE UNCHANGED vars
  <2> USE <1>5 DEF vars, conf, procs, four, six, sig, IInv
  <2>1. Types' /\ Numbered' /\ Manual' /\ Over' /\ Watched' /\ LeaseIsOurs'
    BY DEF Types, Numbered, Manual, Over, Watched, LeaseIsOurs, Where, Killing
  <2>2. Fresh' /\ Alone' /\ Gone'
    BY Fewer, StillGone
  <2> QED BY <2>1, <2>2
<1> QED BY <1>1, <1>2, <1>3, <1>4, <1>5 DEF Next, Exited

\* The invariant holds of every behaviour, fair or not.
THEOREM Invariance == Spec => []IInv
<1>1. QED BY InitInv, StepInv, PTL DEF Spec

\* netcfg reports a lease only when the client of this try got one: no exit of
\* another child, of an older client, or of one it killed, is taken for one.
THEOREM LeaseOfThisTry == Spec => []LeaseIsOurs
<1>1. IInv => LeaseIsOurs
  BY DEF IInv
<1> QED BY <1>1, Invariance, PTL

\* While poll_dhcp_client waits, no end of its client is missed, but one that
\* came before install_handler.
THEOREM EndIsNoticed == Spec => []ExitNoticed
<1>1. IInv => ExitNoticed
  BY DEF IInv, Watched, ExitNoticed
<1> QED BY <1>1, Invariance, PTL

\* netcfg is left without a DHCP client, but one that became a daemon between the
\* pidof and the kill of kill-all-dhcp, one of several of a name that it let be because
\* another had ended, and netcfg's own copy where the client could not be executed.
THEOREM ClientsGone == Spec => []NoClientLeft
<1>1. IInv => NoClientLeft
  BY DEF IInv, Gone, Left, Escaped, Spared, NoClientLeft, Quiet, Main
<1> QED BY <1>1, Invariance, PTL

\* A network configured by hand is written as such: no question and no way back
\* through them leaves a lease in the interface.
THEOREM WrittenByHand == Spec => ManualIsWritten
<1>1. IInv /\ [Next]_vars =>
          [at = "STATIC_QUIT" /\ at' = "QUIT" => written' = {"static"} \/ iface.slaac = 1]_vars
  <2> SUFFICES ASSUME IInv, Next, at = "STATIC_QUIT", at' = "QUIT", iface.slaac # 1
               PROVE  written' = {"static"}
    OBVIOUS
  <2>1. iface.dhcp # 1 /\ family # "none"
    BY DEF IInv, Manual, Where, Killing, Main, Static
  <2>2. CASE static_quit
    BY <2>1, <2>2 DEF static_quit, write_interface
  <2>3. CASE Working
    BY <2>3 DEF Working, autoconfig, get_config_flags, slaac, start_dhcpv6_client,
                install_handler6, poll6_turn, poll6_end, read_dhcpv6, start_dhcp_client,
                install_handler, progress_info, poll_turn, poll_end, result, pidof, kill_all
  <2>4. CASE Asking /\ ~static_quit
    BY <2>4 DEF Asking, get_interface, get_method, get_ipaddress, Ask, WifiQuestions,
                StaticQuestions, DhcpQuestions, poll_cancel, ask_options, dhcp_hostname,
                get_domain, hostname_sans_network
  <2>5. CASE sigchld_handler \/ Others \/ Exited
    BY <2>5 DEF sigchld_handler, Others, RdnssdExit, Daemonise6, WritePid6, Answer6, Fail6,
                ClientExit, Exited, Ended
  <2> QED BY <2>2, <2>3, <2>4, <2>5 DEF Next
<1> QED BY <1>1, Invariance, PTL DEF Spec, ManualIsWritten
=============================================================================
