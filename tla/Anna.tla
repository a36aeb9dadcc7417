--------------------------------- MODULE Anna ---------------------------------
(***************************************************************************)
(* packages/anna and anna-install: which udebs are wanted, how they are    *)
(* retrieved, checked, unpacked and configured, what is retried, and what  *)
(* a run leaves behind when it fails.  A maintainer script that anna's     *)
(* udpkg runs may call anna-install again.  The status database is that of *)
(* Udpkg, with the version of each package.                                *)
(***************************************************************************)
EXTENDS Naturals, Sequences

CONSTANTS
    List,       \* the packages, in the order of the Packages files
    Depends,    \* the packages each package depends on
    MenuItems,  \* packages with a menu item, left for main-menu to configure
    Standard,   \* packages of priority standard or above
    Inside,     \* the package names that occur in each package name
    Requests,   \* packages that scripts ask anna-install for
    Since,      \* the archive in which each package appeared
    Nameless,   \* <<archive, package>> whose stanza has no Filename
    Unsummed,   \* <<archive, package>> whose stanza has no SHA256
    Boots,      \* lowmem levels, values of anna/standard_modules, udeb_include
                \* and udeb_exclude files, packages unpacked in the initrd
    MaxGen,     \* generations of the archive, which may change at any time
    MaxRuns     \* runs of anna

Pkgs == {List[i] : i \in DOMAIN List}
Gens == 1..MaxGen
Levels == {1, 2}    \* 2: run by a script of level 1's udpkg --configure

ASSUME ConstantsAssumption ==
    /\ List \in Seq(Pkgs)
    /\ \A i, j \in DOMAIN List : List[i] = List[j] => i = j
    /\ Depends \in [Pkgs -> SUBSET Pkgs] /\ Inside \in [Pkgs -> SUBSET Pkgs]
    /\ \A p \in Pkgs : p \in Inside[p]
    /\ MenuItems \subseteq Pkgs /\ Standard \subseteq Pkgs /\ Requests \subseteq Pkgs
    /\ Since \in [Pkgs -> Gens]
    /\ Nameless \subseteq Gens \X Pkgs /\ Unsummed \subseteq Gens \X Pkgs
    /\ Boots \subseteq [lowmem : {0, 1, 2}, standard_modules : BOOLEAN,
                       include : SUBSET Pkgs, exclude : SUBSET Pkgs, initrd : SUBSET Pkgs]
    /\ MaxGen \in Nat /\ MaxRuns \in Nat

VARIABLES
    boot,       \* one of Boots, for good
    \* files and debconf
    retriever,  \* anna/retriever is set
    cached,     \* the archive Packages.default is of, 0 if there is none
    queue,      \* packages queued by anna-install
    chosen,     \* the value of anna/choose_modules
    status,     \* of each package: version and word
    \* the program
    run,        \* of each level
    runs,       \* runs so far
    \* what has gone wrong so far
    left,       \* packages the initrd or a failed run left unpacked or worse
    unlisted    \* a run gave up on the package list of a new default retriever

files == <<retriever, cached, queue, chosen>>
history == <<left, unlisted>>
vars == <<boot, files, status, run, runs, history>>

\* "unpacked" stands for half-configured as well, "broken" for half-installed and
\* for a status that cannot be parsed: anna does not tell them apart.
Words == {"absent", "broken", "unpacked", "installed"}
Absent == [v |-> 0, word |-> "absent"]

Idle ==
    [pc |-> "idle", kind |-> "none", args |-> {}, list |-> 0, asked |-> {},
     todo |-> {}, at |-> 0, file |-> "none", tree |-> <<>>, code |-> 0]

Init ==
    /\ boot \in Boots
    /\ retriever = FALSE /\ cached = 0 /\ queue = {} /\ chosen = {}
    /\ \E g \in Gens :
          status = [p \in Pkgs |-> IF p \in boot.initrd THEN [v |-> g, word |-> "unpacked"]
                                                       ELSE Absent]
    /\ run = [a \in Levels |-> Idle] /\ runs = 0
    /\ left = boot.initrd /\ unlisted = FALSE

-----------------------------------------------------------------------------
\* Starting.

\* The status file is read here, and nobody changes it before install_modules.
start(a, how, pkgs) ==
    /\ runs' = runs + 1
    /\ run' = [run EXCEPT ![a] = [Idle EXCEPT !.pc = "packages", !.kind = how, !.args = pkgs]]

\* A menu item runs anna with its retriever, as the default or not.
anna(how) ==
    /\ run[1].pc = "idle" /\ runs < MaxRuns
    /\ start(1, how, {})
    /\ retriever' = (retriever \/ how = "default")
    /\ UNCHANGED <<boot, cached, queue, chosen, status, history>>

\* Any other script, or one that anna's udpkg runs, wants a package.
anna_install(a, p) ==
    /\ run[a].pc = "idle" /\ runs < MaxRuns
    /\ a = 2 => run[1].pc = "postinst"
    /\ IF retriever
       THEN start(a, "install", {p}) /\ UNCHANGED queue
       ELSE queue' = queue \cup {p} /\ UNCHANGED <<run, runs>>
    /\ UNCHANGED <<boot, retriever, cached, chosen, status, history>>

\* What a run that fails leaves: packages in the database that are not configured.
remains(a) == {p \in run[a].todo : status'[p].word \notin {"absent", "installed"}}

exit(a, code) ==
    /\ run' = [run EXCEPT ![a] = [Idle EXCEPT !.pc = "exit", !.code = code,
                                              !.asked = run[a].asked, !.list = run[a].list]]
    /\ left' = IF code = 0 THEN left ELSE left \cup remains(a)

Return(a) ==
    /\ run[a].pc = "exit"
    /\ run' = [run EXCEPT ![a] = Idle]
    /\ UNCHANGED <<boot, files, status, runs, history>>

-----------------------------------------------------------------------------
\* The package list.

usecached(a) == run[a].kind = "install" /\ boot.lowmem = 0

\* A mutated set_retriever: nothing is cached for a new default.
newdefault_never(a) == FALSE

newdefault(a) == run[a].kind = "default" /\ boot.lowmem = 0

\* The list is retrieved, which may fail, and cached for a new default retriever;
\* anna install reads the cached one.
retriever_packages(a) ==
    /\ run[a].pc = "packages"
    /\ \E l \in IF usecached(a) THEN {cached} ELSE 0..MaxGen :
          /\ run' = [run EXCEPT ![a].list = l,
                                ![a].pc = IF l = 0 THEN "packages_error" ELSE "select"]
          /\ cached' = IF newdefault(a) /\ l # 0 THEN l ELSE cached
    /\ UNCHANGED <<boot, retriever, queue, chosen, status, runs, history>>

\* A mutated install_modules: it goes on with the bad file.
retry_bad(a) ==
    run' = [run EXCEPT ![a].pc = CASE @ = "packages_error" -> "packages"
                                   [] @ = "retrieve_error" -> "retrieve"
                                   [] OTHER -> "unpack"]

\* What the loop of install_modules goes on with once the retriever has handled
\* a file that is missing or bad: the retrieval.
retry(a) == run' = [run EXCEPT ![a].pc = IF @ = "packages_error" THEN "packages" ELSE "retrieve"]

\* The retriever asks the user to try again, perhaps with another mirror, or to
\* give up.
retriever_error(a) ==
    /\ run[a].pc \in {"packages_error", "retrieve_error", "sum_error"}
    /\ UNCHANGED status
    /\ \/ retry(a) /\ UNCHANGED history
       \/ /\ exit(a, CASE run[a].pc = "packages_error" -> 10
                       [] run[a].pc = "retrieve_error" -> 6
                       [] OTHER -> 7)
          /\ unlisted' = (unlisted \/ (run[a].pc = "packages_error" /\ newdefault(a)))
    /\ UNCHANGED <<boot, files, runs>>

-----------------------------------------------------------------------------
\* What to install.

present(a) == {p \in Pkgs : Since[p] <= run[a].list}

\* A mutated is_installed: any other version is to be installed.
is_installed_same(a, p) == run[a].list = status[p].v

\* Any stanza with the version of the list or a later one, whatever its status.
is_installed(a, p) == run[a].list <= status[p].v

\* check_real_anna: anna <retriever> looks at the status of dependencies.
settled(a) ==
    IF run[a].kind = "install" THEN {}
    ELSE {p \in Pkgs : status[p].word \in {"unpacked", "installed"}}

\* The packages and what they depend on: the least set that is closed.
resolve_dependencies_mark_anna(a, S) ==
    LET here == present(a)
        required == [p \in here |-> (Depends[p] \cap here) \ settled(a)]
        closed == {T \in SUBSET here : S \subseteq T /\ \A p \in T : required[p] \subseteq T}
    IN  {p \in here : \A T \in closed : p \in T}

\* Both passes ignore a package whose stanza does not name a file.
nameless(a, p) == <<run[a].list, p>> \in Nameless

\* install_modules, up to the passes: nothing to do is success, and so is nothing
\* but packages to ignore.
install_modules(a, want, asked) ==
    LET marked == resolve_dependencies_mark_anna(a, want)
        todo == {p \in marked : ~is_installed(a, p) /\ ~nameless(a, p)}
    IN  /\ run' = [run EXCEPT ![a].pc = IF todo = {} THEN "exit" ELSE "retrieve",
                              ![a].asked = marked \cup asked,
                              ![a].todo = todo, ![a].code = 0]
        /\ UNCHANGED left

\* anna install: arguments with a stanza are skipped, unknown ones end it.
select_arguments(a) ==
    /\ run[a].pc = "select" /\ run[a].kind = "install"
    /\ LET new == {p \in run[a].args : status[p] = Absent} IN
       IF new \subseteq present(a) THEN install_modules(a, new, run[a].args)
       ELSE UNCHANGED status /\ exit(a, 1)
    /\ UNCHANGED <<boot, files, status, runs, unlisted>>

\* choose_modules, up to the question: the packages to install and to ask for.
fresh(a) == {p \in present(a) : ~is_installed(a, p)}

\* Without standard_modules a package of standard priority is asked for, even if
\* it was queued.
ByDefault == IF boot.standard_modules THEN Standard \cup queue ELSE queue \ Standard

Listed(a) == ((fresh(a) \cap ByDefault) \cup (boot.include \cap present(a))) \ boot.exclude

\* With little memory only menu items and what was queued is not asked for.
Kept == IF boot.lowmem = 2 THEN MenuItems \cup queue ELSE Pkgs

ToInstall(a) == resolve_dependencies_mark_anna(a, Listed(a) \cap Kept)

ToAsk(a) ==
    LET offered == {p \in fresh(a) \ (ByDefault \cup boot.include \cup boot.exclude) :
                      p \in Standard \/ (p \in MenuItems /\ status[p].word # "installed")}
    IN  (offered \cup (Listed(a) \ Kept)) \ ToInstall(a)

\* The user backs up, chooses, or is not asked, and the answer of a former run
\* stands; any package whose name occurs in the answer is chosen.
choose_modules(a) ==
    /\ run[a].pc = "select" /\ run[a].kind # "install"
    /\ \/ UNCHANGED <<chosen, status>> /\ exit(a, 10)
       \/ /\ chosen' \in {chosen} \cup SUBSET ToAsk(a)
          /\ UNCHANGED status
          /\ install_modules(a,
                ToInstall(a) \cup (present(a) \cap UNION {Inside[p] : p \in chosen'}),
                (queue \cap present(a)) \ boot.exclude)
    /\ UNCHANGED <<boot, retriever, cached, queue, runs, unlisted>>

-----------------------------------------------------------------------------
\* The passes over the packages, in the order of the list.

Menuless(a) == run[a].todo \ MenuItems

ahead(a, S) == {i \in DOMAIN List : i > run[a].at /\ List[i] \in S}
next(a, S) == CHOOSE i \in ahead(a, S) : \A j \in ahead(a, S) : i <= j

\* The next package of the first pass.
current(a) == List[next(a, run[a].todo)]

\* Any file will do for a stanza without a checksum.
sha256sum(a, f) == f = "good" \/ <<run[a].list, current(a)>> \in Unsummed

\* The file is retrieved and its checksum compared with that of the list.
retriever_retrieve(a) ==
    /\ run[a].pc = "retrieve"
    /\ \/ run' = [run EXCEPT ![a].pc = "retrieve_error"]
       \/ \E f \in {"good", "bad"} :
             run' = [run EXCEPT ![a].pc = IF sha256sum(a, f) THEN "unpack" ELSE "sum_error",
                                ![a].file = f]
    /\ UNCHANGED <<boot, files, status, runs, history>>

\* The version in the control file: a bad file may be of any.
Versions(a) == IF run[a].file = "good" THEN {run[a].list} ELSE Gens

\* What udpkg --unpack of version v makes of a stanza, and whether it succeeds (see
\* Udpkg): without the control file there is not even a version.
UnpackOutcomes(p, v) ==
    { <<status[p], FALSE>>,
      <<[v |-> 0, word |-> "broken"], FALSE>>,
      <<[v |-> v, word |-> "broken"], FALSE>>,
      <<[v |-> v, word |-> "unpacked"], FALSE>>,
      <<[v |-> v, word |-> "unpacked"], TRUE>> }

\* A mutated install_modules: the first pass does not end with the last package.
unpack_package_past(a) ==
    LET n == next(a, run[a].todo)
        p == current(a)
    IN  /\ run[a].pc = "unpack"
        /\ status' = [status EXCEPT ![p] = [v |-> run[a].list, word |-> "unpacked"]]
        /\ run' = [run EXCEPT ![a].file = "none", ![a].at = n, ![a].pc = "retrieve"]
        /\ UNCHANGED <<boot, files, runs, history>>

unpack_package(a) ==
    LET n == next(a, run[a].todo)
        p == current(a)
    IN  /\ run[a].pc = "unpack"
        /\ \E v \in Versions(a) : \E o \in UnpackOutcomes(p, v) :
              /\ status' = [status EXCEPT ![p] = o[1]]
              /\ IF ~o[2] THEN exit(a, 8)
                 ELSE /\ run' = [run EXCEPT
                            ![a].file = "none",
                            ![a].at = IF ahead(a, run[a].todo) = {n} THEN 0 ELSE n,
                            ![a].pc = IF ahead(a, run[a].todo) = {n} THEN "configure"
                                                                    ELSE "retrieve"]
                      /\ UNCHANGED left
        /\ UNCHANGED <<boot, files, runs, unlisted>>

\* udpkg --configure of an installed package fails without running its scripts.
configure_package(a) ==
    /\ run[a].pc = "configure"
    /\ UNCHANGED status
    /\ IF ahead(a, Menuless(a)) = {} THEN exit(a, 0)
       ELSE IF status[List[next(a, Menuless(a))]].word = "installed" THEN exit(a, 8)
       ELSE /\ run' = [run EXCEPT ![a].pc = "postinst", ![a].tree = status]
            /\ UNCHANGED left
    /\ UNCHANGED <<boot, files, runs, unlisted>>

\* A mutated install_modules: a package that cannot be configured is passed over.
ScriptEnd_passing(a) ==
    LET n == next(a, Menuless(a)) IN
    /\ run[a].pc = "postinst"
    /\ a = 1 => run[2].pc = "idle"
    /\ run' = [run EXCEPT ![a].pc = "configure", ![a].at = n, ![a].tree = <<>>]
    /\ \E w \in {"installed", "unpacked"} : status' = [status EXCEPT ![List[n]].word = w]
    /\ UNCHANGED <<boot, files, runs, history>>

\* The scripts have run, anna-install in them too.  udpkg then writes the words of
\* the stanzas it had read, and leaves newer ones alone (see Udpkg).
ScriptEnd(a) ==
    LET n == next(a, Menuless(a)) IN
    /\ run[a].pc = "postinst"
    /\ a = 1 => run[2].pc = "idle"
    /\ \E w \in {"installed", "unpacked"} :
          /\ status' = [q \in Pkgs |->
                [status[q] EXCEPT !.word = IF q = List[n] THEN w
                                           ELSE IF run[a].tree[q] # Absent THEN run[a].tree[q].word
                                           ELSE @]]
          /\ IF w = "installed"
             THEN /\ run' = [run EXCEPT ![a].pc = "configure", ![a].at = n, ![a].tree = <<>>]
                  /\ UNCHANGED left
             ELSE exit(a, 8)
    /\ UNCHANGED <<boot, files, runs, unlisted>>

\* main-menu configures its items, and first what they need (see MainMenu).
Needed == {p \in Pkgs : \A T \in SUBSET Pkgs :
              MenuItems \subseteq T /\ (\A q \in T : Depends[q] \subseteq T) => p \in T}

main_menu(p) ==
    /\ run[1].pc = "idle" /\ runs < MaxRuns
    /\ p \in Needed /\ status[p] # Absent
    /\ p \in MenuItems \/ status[p].word # "installed"
    /\ \E w \in {"installed", "unpacked"} : status' = [status EXCEPT ![p].word = w]
    /\ UNCHANGED <<boot, files, run, runs, history>>

step(a) ==
    \/ retriever_packages(a) \/ retriever_error(a) \/ select_arguments(a) \/ choose_modules(a)
    \/ retriever_retrieve(a) \/ unpack_package(a) \/ configure_package(a)
    \/ ScriptEnd(a) \/ Return(a)

Next ==
    \/ anna("default") \/ anna("other")
    \/ \E a \in Levels : step(a) \/ \E p \in Requests : anna_install(a, p)
    \/ \E p \in Pkgs : main_menu(p)

Spec == Init /\ [][Next]_vars
-----------------------------------------------------------------------------
\* Properties.

\* Every variable holds a value of its kind; packages are retrieved, checked and
\* unpacked only while there are some ahead.
TypeOK ==
    /\ boot \in Boots
    /\ retriever \in BOOLEAN /\ cached \in 0..MaxGen
    /\ queue \subseteq Pkgs /\ chosen \subseteq Pkgs
    /\ status \in [Pkgs -> [v : 0..MaxGen, word : Words]]
    /\ runs \in 0..MaxRuns /\ left \subseteq Pkgs /\ unlisted \in BOOLEAN
    /\ \A a \in Levels :
          /\ run[a].list \in 0..MaxGen /\ run[a].at \in 0..Len(List)
          /\ run[a].todo \subseteq Pkgs /\ run[a].asked \subseteq Pkgs
          /\ run[a].pc \in {"retrieve", "unpack", "retrieve_error", "sum_error"} =>
                ahead(a, run[a].todo) # {}

\* The file at hand has not been compared with anything: a stanza without SHA256.
Unchecked(p) == \E a \in Levels : run[a].pc = "unpack" /\ <<run[a].list, p>> \in Unsummed

\* A package gets another version only from a file whose checksum was that of the
\* package list, whatever was retried before: "checks their consistency".  The
\* exception is a stanza without a checksum, for which sha256sum passes any file.
OnlyChecked ==
    [][\A p \in Pkgs : status'[p].v # status[p].v =>
          Unchecked(p) \/ \E a \in Levels : run[a].pc = "unpack" /\ run[a].file = "good"]_vars

\* No sequence of runs with lists of different age replaces a package by an older
\* one; at worst an unpacking that failed loses the version, or a file that was
\* not checked holds another.
NoDowngrade ==
    [][\A p \in Pkgs : \/ status'[p].v >= status[p].v \/ status'[p].word = "broken"
                      \/ Unchecked(p)]_vars

\* When anna ends with 0, what was asked for, named or queued, and all it depends
\* on, is configured, or unpacked for main-menu to configure.  The exceptions are
\* packages that the initrd or a failed run left half done, which is_installed and
\* anna install take for installed; those the run around this one has yet to
\* configure; those that are ignored, for the list names no file; and queued
\* packages of standard priority when standard_modules is off.
DoneMeansInstalled ==
    \A a \in Levels : run[a].pc = "exit" /\ run[a].code = 0 =>
        \A p \in run[a].asked :
            \/ status[p].word = "installed"
            \/ p \in MenuItems /\ status[p].word = "unpacked"
            \/ p \in left
            \/ a = 2 /\ p \in run[1].todo
            \/ nameless(a, p) /\ status[p] = Absent
            \/ p \in Standard \cap queue /\ ~boot.standard_modules

\* A package list that cannot be had from the cache is never asked for again and
\* again: the cache is there whenever anna install is to use it, unless a run gave
\* up on the list of a retriever it had made the default already.
NoDeadRetry ==
    \A a \in Levels :
        run[a].pc \in {"packages", "packages_error"} /\ usecached(a) => cached # 0 \/ unlisted
=============================================================================
