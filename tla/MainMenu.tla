------------------------------ MODULE MainMenu ------------------------------
(***************************************************************************)
(* packages/main-menu: the loop that drives the installation.  It shows    *)
(* (or, below the menu's priority, silently answers) the main menu, has    *)
(* udpkg configure the chosen package after its dependencies, and adjusts  *)
(* the debconf priority to what happened.                                  *)
(***************************************************************************)
EXTENDS Integers, Sequences, FiniteSets

CONSTANTS
    Real, Virtual,  \* packages with a stanza, and names that are only provided
    Item,           \* Installer-Menu-Item of each real package, 0 for none
    Depends,        \* Depends of each real package, in order
    Providers,      \* real packages providing each virtual one, in order
    Rank,           \* Priority of each real package
    Order,          \* menu packages as the dependency resolver sorts them
    Conditional,    \* packages with an isinstallable script that may refuse
    Dull,           \* packages whose menutest says no
    Fetches,        \* packages each real package's postinst unpacks (anna)
    Changers,       \* packages whose postinst may set debconf/priority
    InitFile,       \* the status file main-menu starts with
    MaxDepth,       \* limit of di_config_package_depth (1000 in the code)
    None            \* no package

Packages == Real \cup Virtual
NEVERDEFAULT == 90000
ANNA_ONLY == 99999
EXIT_OK == 0
EXIT_BACKUP == 10
EXIT_INSTALLER == 11
FAILED == -1
MENU_PRIORITY == 1      \* "medium"; low is 0, high 2, critical 3
Priorities == 0..3

\* "undefined" is a status libdebian-installer does not know, "absent" a
\* package without a stanza.
Statuses == {"absent", "undefined", "unpacked", "half_configured", "installed"}

\* An activation of di_config_package (at "deps": p's i-th dependency is next)
\* or satisfy_virtual ("virtual" on entry, "ask" with the question set up, "one"
\* and "all" while the picked provider, or the i-th of all, is configured).
Frames ==
    [p : Real, at : {"deps"}, i : Nat \ {0}, pick : {None}]
    \cup [p : Virtual, at : {"virtual", "all"}, i : Nat \ {0}, pick : {None}]
    \cup [p : Virtual, at : {"ask", "one"}, i : Nat \ {0}, pick : Real]

ASSUME ConstantsAssumption ==
    /\ Real \cap Virtual = {} /\ None \notin Real \cup Virtual
    /\ Item \in [Real -> Nat]
    /\ Depends \in [Real -> Seq(Packages)]
    /\ Providers \in [Virtual -> Seq(Real)]
    /\ Rank \in [Real -> Nat]
    /\ Order \in Seq(Real)
    /\ Conditional \subseteq Real /\ Dull \subseteq Real /\ Changers \subseteq Real
    /\ Fetches \in [Real -> SUBSET Real]
    /\ InitFile \in [Real -> Statuses]
    /\ MaxDepth \in Nat

VARIABLES
    pc,         \* "menu", "run" an item, "done" with it, or the program ended
    prio,       \* debconf/priority
    local_priority, default_priority,
    display_menu,
    last_successful_item,
    seen_items,
    notinstallables,
    file,       \* status file
    mem,        \* statuses of the packages read from it
    item,       \* the selected package
    menudefault,
    shown,      \* the user saw the last menu
    refused,    \* packages isinstallable kept out of the last menu
    stack,      \* activations, the running one last
    ret,        \* what the activation that just ended returned
    depth,      \* di_config_package_depth
    declined    \* virtual packages whose providers the user refused to choose from

prios == <<prio, local_priority, default_priority>>
menus == <<display_menu, last_successful_item, seen_items, notinstallables,
           item, menudefault, shown, refused>>
calls == <<stack, ret, depth, declined>>
vars == <<pc, prios, menus, calls, file, mem>>

NoRet == 99

-----------------------------------------------------------------------------
\* Debconf: a question is put to the user when its priority is high enough.
visible(pri) == pri >= prio

\* What di_system_packages_status_read_file makes of the file.
ReadFile(f) == [p \in Packages |-> IF p \in Real THEN f[p] ELSE "undefined"]

present(p) == mem[p] # "absent"
installed(p) == mem[p] = "installed"

ProviderSet(v) == {Providers[v][i] : i \in DOMAIN Providers[v]}

\* di_package_type_non_existent: nothing is, or provides, the package.
non_existent(p) ==
    IF p \in Real THEN ~present(p) ELSE \A d \in ProviderSet(p) : ~present(d)

isdefault(p) == p \notin Dull \/ mem[p] \in {"unpacked", "half_configured"}

isinstallable(p, bad) == Item[p] # ANNA_ONLY /\ p \notin bad

provides_installed_virtual_packages(p) ==
    LET provided == {v \in Virtual : p \in ProviderSet(v)} IN
    /\ provided # {}
    /\ \A v \in provided : \E d \in ProviderSet(v) : installed(d)

\* The tests a menu item must pass to be the default.
CanBeDefault(p, bad) ==
    /\ present(p)
    /\ Item[p] # 0
    /\ ~installed(p)
    /\ isinstallable(p, bad)
    /\ Item[p] < NEVERDEFAULT
    /\ ~(Item[p] < last_successful_item /\ p \in seen_items)
    /\ isdefault(p)
    /\ ~provides_installed_virtual_packages(p)

\* Positions of Order up to which get_default_menu_item looks.
Looked(bad) ==
    {i \in DOMAIN Order : \A j \in 1..(i - 1) : ~CanBeDefault(Order[j], bad)}

get_default_menu_item(bad) ==
    {Order[i] : i \in {j \in Looked(bad) : CanBeDefault(Order[j], bad)}}

\* isinstallable notes a refusal; get_default_menu_item starts the table afresh.
NotInstallables(bad) ==
    {p \in bad : /\ \E i \in Looked(bad) : Order[i] = p
                 /\ present(p) /\ ~installed(p)
                 /\ Item[p] \notin {0, ANNA_ONLY}}

\* The packages whose entries make up the menu.
Menu(bad) ==
    {p \in Real : /\ \E i \in DOMAIN Order : Order[i] = p
                  /\ present(p) /\ Item[p] # 0 /\ isinstallable(p, bad)}

-----------------------------------------------------------------------------
\* The priority: modify_debconf_priority(LOWER), adjust_ and restore_.

\* A mutated modify_debconf_priority: it does not stop at low.
Clamped_above(pri, limit) == IF pri > limit THEN limit ELSE pri

Clamped(pri, limit) == IF pri < 0 THEN 0 ELSE IF pri > limit THEN limit ELSE pri

LowerTo == Clamped(prio - 1, default_priority)

\* A mutated adjust_default_priority: it takes no priority over.
adjust_default_priority_never == default_priority

\* A priority main-menu did not set itself becomes the default.
adjust_default_priority ==
    IF prio # local_priority THEN prio ELSE default_priority

Init ==
    /\ pc = "menu"
    /\ prio \in Priorities
    /\ local_priority = prio /\ default_priority = prio
    /\ display_menu = FALSE
    /\ last_successful_item = -1
    /\ seen_items = {} /\ notinstallables = {}
    /\ file = InitFile
    /\ mem = ReadFile(InitFile)
    /\ item = None /\ menudefault = None
    /\ shown = FALSE
    /\ refused = {}
    /\ stack = <<>> /\ ret = NoRet /\ depth = 0
    /\ declined = {}

Entry(p) == [p |-> p, at |-> IF p \in Real THEN "deps" ELSE "virtual",
             i |-> 1, pick |-> None]

\* A mutated menu_priority: without a default the menu stays hidden.
menu_priority_hidden(lower, local) == IF display_menu THEN local ELSE MENU_PRIORITY

\* The priority of the menu's question; lowering sets display_menu first.
menu_priority(lower, local) ==
    IF lower \/ display_menu THEN local ELSE MENU_PRIORITY

\* show_main_menu, and the beginning of main's loop body.  Without a default
\* the priority is lowered so that the menu shows; when it does not show, the
\* question's value is what was last put into it (also when a menu without
\* entries cannot be put to the user).
show_main_menu ==
    /\ pc = "menu"
    /\ \E bad \in SUBSET Conditional :
       LET default == get_default_menu_item(bad)
           lower == default = {}
           newprio == IF lower THEN LowerTo ELSE local_priority
           threshold == IF lower /\ local_priority # LowerTo THEN LowerTo ELSE prio
           seen == menu_priority(lower, newprio) >= threshold
           choices == IF seen /\ Menu(bad) # {} THEN Menu(bad)
                      ELSE IF lower THEN {item} \ {None} ELSE default
       IN
          /\ notinstallables' = NotInstallables(bad)
          /\ refused' = {p \in bad : /\ present(p) /\ ~installed(p)
                                     /\ Item[p] \notin {0, ANNA_ONLY}}
          /\ menudefault' = IF lower THEN None ELSE CHOOSE p \in default : TRUE
          /\ local_priority' = newprio
          /\ prio' = threshold
          /\ shown' = seen
          /\ \/ \E p \in choices :
                   /\ item' = p
                   /\ display_menu' =
                         ((lower \/ display_menu) /\ Item[p] >= NEVERDEFAULT)
                   /\ stack' = <<Entry(p)>>
                   /\ pc' = "run"
             \/ /\ choices = {}
                /\ pc' = "failed"
                /\ UNCHANGED <<item, stack>>
                /\ display_menu' = (lower \/ display_menu)
    /\ UNCHANGED <<default_priority, last_successful_item, seen_items,
                   ret, depth, declined, file, mem>>

-----------------------------------------------------------------------------
\* di_config_package and satisfy_virtual.

top == stack[Len(stack)]
below == SubSeq(stack, 1, Len(stack) - 1)
running(at) == pc = "run" /\ ret = NoRet /\ stack # <<>> /\ top.at = at
deps == Depends[top.p]

push(frame, p) == stack' = Append(Append(below, frame), Entry(p))

\* The activation returns r to its caller, or to main.
return(r) ==
    /\ stack' = below
    /\ ret' = r
    /\ pc' = IF Len(stack) = 1 THEN "done" ELSE "run"

quiet == <<prios, menus, file>>

\* A package that is neither real nor provided counts as configured.
NonExistent ==
    /\ running("deps") \/ running("virtual")
    /\ non_existent(top.p)
    /\ return(EXIT_OK)
    /\ UNCHANGED <<quiet, mem, depth, declined>>

SkipDependency ==
    /\ running("deps")
    /\ ~non_existent(top.p)
    /\ top.i <= Len(deps)
    /\ installed(deps[top.i])
    /\ stack' = Append(below, [top EXCEPT !.i = @ + 1])
    /\ UNCHANGED <<quiet, pc, mem, ret, depth, declined>>

\* A mutated di_config_package: it counts, but does not refuse.
ConfigureDependency_unlimited ==
    /\ running("deps")
    /\ ~non_existent(top.p)
    /\ top.i <= Len(deps)
    /\ ~installed(deps[top.i])
    /\ depth' = IF depth > MaxDepth THEN depth ELSE depth + 1
    /\ push(top, deps[top.i])
    /\ UNCHANGED <<quiet, pc, ret, mem, declined>>

\* The counter keeps the step of a refused recursion.  Above MaxDepth every
\* recursion is refused and none is on the stack, so the model stops counting.
ConfigureDependency ==
    /\ running("deps")
    /\ ~non_existent(top.p)
    /\ top.i <= Len(deps)
    /\ ~installed(deps[top.i])
    /\ depth' = IF depth > MaxDepth THEN depth ELSE depth + 1
    /\ IF depth + 1 > MaxDepth
       THEN return(FAILED)
       ELSE push(top, deps[top.i]) /\ UNCHANGED <<pc, ret>>
    /\ UNCHANGED <<quiet, mem, declined>>

\* A mutated di_config_package: it goes on after a dependency backed up.
DependencyDone_no_backup ==
    /\ pc = "run" /\ ret # NoRet /\ top.at = "deps"
    /\ depth' = depth - 1
    /\ IF ret = FAILED
       THEN return(ret)
       ELSE /\ stack' = Append(below, [top EXCEPT !.i = @ + 1])
            /\ ret' = NoRet
            /\ UNCHANGED pc
    /\ UNCHANGED <<quiet, mem, declined>>

DependencyDone ==
    /\ pc = "run" /\ ret # NoRet /\ top.at = "deps"
    /\ depth' = depth - 1
    /\ IF ret \in {FAILED, EXIT_BACKUP}
       THEN return(ret)
       ELSE /\ stack' = Append(below, [top EXCEPT !.i = @ + 1])
            /\ ret' = NoRet
            /\ UNCHANGED pc
    /\ UNCHANGED <<quiet, mem, declined>>

\* udpkg --configure --force-configure.  udpkg records installed only for exit
\* code 0; main-menu also takes EXIT_INSTALLER for success.  The package's
\* postinst may unpack further ones and set the priority.
ConfigurePackage ==
    /\ running("deps")
    /\ ~non_existent(top.p)
    /\ top.i > Len(deps)
    /\ \E r \in {EXIT_OK, EXIT_BACKUP, EXIT_INSTALLER, FAILED},
          got \in SUBSET Fetches[top.p] :
          /\ return(r)
          /\ mem' = [mem EXCEPT ![top.p] =
                        IF r \in {EXIT_OK, EXIT_INSTALLER}
                        THEN "installed" ELSE "half_configured"]
          /\ file' = [q \in Real |->
                        IF q = top.p
                        THEN IF r = EXIT_OK THEN "installed" ELSE "half_configured"
                        ELSE IF q \in got /\ file[q] = "absent"
                             THEN "unpacked" ELSE file[q]]
    /\ \E pri \in IF top.p \in Changers THEN Priorities ELSE {prio} : prio' = pri
    /\ UNCHANGED <<local_priority, default_priority, menus, depth, declined>>

\* The package itself is satisfied; it has nothing to configure.
Satisfied(v) == mem' = [mem EXCEPT ![v] = "installed"]

\* A provider is installed already.
VirtualProvided ==
    /\ running("virtual")
    /\ \E d \in ProviderSet(top.p) : installed(d)
    /\ Satisfied(top.p)
    /\ return(1)
    /\ UNCHANGED <<quiet, depth, declined>>

\* The default provider: the scan replaces it by a later one of higher
\* priority, or of the same priority and a smaller menu item number.
Better(d, e) == \/ Rank[d] > Rank[e]
                \/ Rank[d] = Rank[e] /\ Item[d] < Item[e]

DefaultProvider(v) ==
    LET s == Providers[v]
        here == {j \in DOMAIN s : present(s[j])}
    IN {s[i] : i \in {j \in here : \A k \in here : /\ ~Better(s[k], s[j])
                                                   /\ k < j => Better(s[j], s[k])}}

\* Let the user choose if one of the providers is a menu item, else configure
\* all of them.
VirtualNeeded ==
    /\ running("virtual")
    /\ ~non_existent(top.p)
    /\ \A d \in ProviderSet(top.p) : ~installed(d)
    /\ IF \E d \in ProviderSet(top.p) : present(d) /\ Item[d] # 0
       THEN \E d \in DefaultProvider(top.p) :
               stack' = Append(below, [top EXCEPT !.at = "ask", !.pick = d])
       ELSE stack' = Append(below, [top EXCEPT !.at = "all"])
    /\ UNCHANGED <<quiet, pc, mem, ret, depth, declined>>

ChooseProvider ==
    /\ running("ask")
    /\ \E d \in IF visible(1)
                THEN {d \in ProviderSet(top.p) : present(d)} ELSE {top.pick} :
          push([top EXCEPT !.at = "one", !.pick = d], d)
    /\ UNCHANGED <<quiet, pc, mem, ret, depth, declined>>

\* The user backs up from the question: satisfy_virtual returns 0.
DeclineProvider ==
    /\ running("ask")
    /\ visible(1)
    /\ declined' = declined \cup {top.p}
    /\ return(0)
    /\ UNCHANGED <<quiet, mem, depth>>

\* A mutated satisfy_virtual: a provider that backed up satisfies.
ChosenProviderDone_no_backup ==
    /\ pc = "run" /\ ret # NoRet /\ top.at = "one"
    /\ IF ret = FAILED
       THEN return(ret) /\ UNCHANGED mem
       ELSE return(1) /\ Satisfied(top.p)
    /\ UNCHANGED <<quiet, depth, declined>>

ChosenProviderDone ==
    /\ pc = "run" /\ ret # NoRet /\ top.at = "one"
    /\ IF ret \in {FAILED, EXIT_BACKUP}
       THEN return(ret) /\ UNCHANGED mem
       ELSE return(1) /\ Satisfied(top.p)
    /\ UNCHANGED <<quiet, depth, declined>>

\* All providers, one after the other (an absent one does not exist).
ConfigureProvider ==
    /\ running("all")
    /\ IF top.i <= Len(Providers[top.p])
       THEN push(top, Providers[top.p][top.i]) /\ UNCHANGED <<pc, mem, ret>>
       ELSE return(1) /\ Satisfied(top.p)
    /\ UNCHANGED <<quiet, depth, declined>>

ProviderDone ==
    /\ pc = "run" /\ ret # NoRet /\ top.at = "all"
    /\ IF ret \in {FAILED, EXIT_BACKUP}
       THEN return(ret)
       ELSE /\ stack' = Append(below, [top EXCEPT !.i = @ + 1])
            /\ ret' = NoRet
            /\ UNCHANGED pc
    /\ UNCHANGED <<quiet, mem, depth, declined>>

-----------------------------------------------------------------------------
\* The rest of main's loop body: the priority and the menu after the item, the
\* packages seen, and the status file read again.

AfterItem(then) ==
    /\ pc' = then
    /\ default_priority' = adjust_default_priority
    /\ seen_items' = seen_items \cup {p \in Real : present(p) /\ p \notin notinstallables}
    /\ mem' = ReadFile(file)
    /\ ret' = NoRet
    /\ declined' = {}
    /\ UNCHANGED <<notinstallables, item, menudefault, shown, refused, stack, depth, file>>

ItemSucceeded ==
    /\ pc = "done" /\ ret = EXIT_OK
    /\ IF Item[item] < NEVERDEFAULT
       THEN /\ last_successful_item' = Item[item]
            /\ prio' = adjust_default_priority \* restore_default_priority
            /\ local_priority' = adjust_default_priority
       ELSE /\ local_priority' = prio
            /\ UNCHANGED <<last_successful_item, prio>>
    /\ UNCHANGED display_menu
    /\ AfterItem("menu")

\* A mutated main: it does not take a changed priority over after a backup.
ItemBackedUp_unadjusted ==
    /\ pc = "done" /\ ret = EXIT_BACKUP
    /\ display_menu' = TRUE
    /\ UNCHANGED <<last_successful_item, prio, local_priority>>
    /\ AfterItem("menu")

\* A mutated main: a backup does not ask for the menu.
ItemBackedUp_hidden ==
    /\ pc = "done" /\ ret = EXIT_BACKUP
    /\ local_priority' = prio
    /\ UNCHANGED <<last_successful_item, prio, display_menu>>
    /\ AfterItem("menu")

ItemBackedUp ==
    /\ pc = "done" /\ ret = EXIT_BACKUP
    /\ local_priority' = prio
    /\ display_menu' = TRUE
    /\ UNCHANGED <<last_successful_item, prio>>
    /\ AfterItem("menu")

ItemExits ==
    /\ pc = "done" /\ ret = EXIT_INSTALLER
    /\ local_priority' = prio
    /\ UNCHANGED <<last_successful_item, prio, display_menu>>
    /\ AfterItem("exit")

ItemFailed ==
    /\ pc = "done" /\ ret = FAILED
    /\ prio' = Clamped(prio - 1, adjust_default_priority)
    /\ local_priority' = prio'
    /\ display_menu' = TRUE
    /\ UNCHANGED last_successful_item
    /\ AfterItem("menu")

Next ==
    \/ show_main_menu
    \/ NonExistent \/ SkipDependency \/ ConfigureDependency \/ DependencyDone
    \/ ConfigurePackage
    \/ VirtualProvided \/ VirtualNeeded \/ ChooseProvider \/ DeclineProvider
    \/ ChosenProviderDone \/ ConfigureProvider \/ ProviderDone
    \/ ItemSucceeded \/ ItemBackedUp \/ ItemExits \/ ItemFailed

Spec == Init /\ [][Next]_vars

\* main-menu is one process that is always scheduled again.
FairSpec == Spec /\ WF_vars(Next)

-----------------------------------------------------------------------------
(***************************************************************************)
(* Properties.                                                             *)
(***************************************************************************)

\* Every variable keeps its type, and the parts of the state that belong to a
\* phase of main's loop are set only in it.
TypeOK ==
    /\ pc \in {"menu", "run", "done", "exit", "failed"}
    /\ prio \in Priorities
    /\ local_priority \in Priorities /\ default_priority \in Priorities
    /\ display_menu \in BOOLEAN /\ shown \in BOOLEAN
    /\ last_successful_item \in {-1} \cup Nat
    /\ seen_items \subseteq Real /\ notinstallables \subseteq Real
    /\ refused \subseteq Real
    /\ file \in [Real -> Statuses]
    /\ mem \in [Packages -> Statuses]
    /\ item \in Real \cup {None} /\ menudefault \in Real \cup {None}
    /\ stack \in Seq(Frames)
    /\ ret \in {NoRet, EXIT_OK, 1, EXIT_BACKUP, EXIT_INSTALLER, FAILED}
    /\ depth \in Int /\ depth <= MaxDepth + 1
    /\ declined \subseteq Virtual
    /\ pc \in {"run", "done"} => item \in Real
    /\ pc = "run" => stack # <<>>

\* di_config_package reaches a package's own postinst only past all of its
\* dependencies: each one it passed is configured in memory, exists nowhere, or
\* is a virtual package whose providers the user refused to choose from.
DepsFirst ==
    (pc = "run" /\ ret \notin {FAILED, EXIT_BACKUP}) =>
        \A k \in DOMAIN stack : stack[k].at = "deps" =>
            \A j \in 1..(stack[k].i - 1) :
                LET d == Depends[stack[k].p][j]
                IN installed(d) \/ non_existent(d) \/ d \in declined

\* A menu item the user did not choose is the one main-menu computed as the
\* default: a hidden menu never reruns whatever was chosen last.
HiddenMeansDefault ==
    pc \in {"run", "done"} /\ ~shown => item = menudefault

\* Whenever something asked for the menu (a failure, a backup, no default), the
\* menu is put to the user, whatever priority a postinst has set meanwhile.
MenuWhenAsked ==
    [][pc = "menu" /\ pc' = "run" /\ display_menu => shown']_vars

\* main-menu's idea of the priority agrees with debconf's whenever it decides
\* about the menu, and is never above the default it will restore.
PriorityInStep ==
    /\ local_priority <= default_priority
    /\ pc = "menu" => prio = local_priority

\* A dependency loop, also one through virtual packages, whose activations are
\* not counted, stops at a recursion depth in proportion to the limit, and the
\* count never falls below the recursions in progress.
RecursionBounded ==
    /\ Len(stack) <= 2 * (MaxDepth + 1)
    /\ depth >= Cardinality({k \in 1..(Len(stack) - 1) : stack[k].at = "deps"})

\* A virtual package counts as configured only once a provider is.
VirtualHasProvider ==
    \A v \in Virtual :
        pc = "run" /\ mem[v] = "installed" /\ ret \notin {FAILED, EXIT_BACKUP} =>
            \E d \in ProviderSet(v) : installed(d)

\* main-menu does not run items behind the user's back for ever: from every
\* menu on, the user sees one, or the program ends.
NoSilentLoop ==
    pc = "menu" ~> \/ pc = "run" /\ shown
                   \/ pc \in {"exit", "failed"}
=============================================================================
