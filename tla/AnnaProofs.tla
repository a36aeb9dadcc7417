------------------------------ MODULE AnnaProofs ------------------------------
(***************************************************************************)
(* Proofs about Anna, for any packages, dependencies, boot configurations, *)
(* generations of the archive and number of runs.                          *)
(***************************************************************************)
EXTENDS Anna, WellFoundedInduction, TLAPS

Listing == {"packages", "packages_error", "select"}
Fetching == {"retrieve", "retrieve_error", "sum_error", "unpack"}
Configuring == {"configure", "postinst"}
Places == Listing \cup Fetching \cup Configuring \cup {"idle", "exit"}

Stanzas == [v : 0..MaxGen, word : Words]
Trees == [Pkgs -> Stanzas]
Runs == [pc : Places, kind : {"none", "default", "other", "install"}, args : SUBSET Pkgs,
         list : 0..MaxGen, asked : SUBSET Pkgs, todo : SUBSET Pkgs, at : 0..Len(List),
         file : {"none", "good", "bad"}, tree : Trees \cup {<<>>}, code : Nat]

Types ==
    /\ boot \in Boots
    /\ retriever \in BOOLEAN /\ cached \in 0..MaxGen
    /\ queue \subseteq Pkgs /\ chosen \subseteq Pkgs
    /\ status \in Trees
    /\ run \in [Levels -> Runs]
    /\ runs \in 0..MaxRuns /\ left \subseteq Pkgs /\ unlisted \in BOOLEAN

\* A run of level 2 goes on within a script of level 1.
Nested == run[2].pc # "idle" => run[1].pc = "postinst"

\* The packages up to place k of the list.
Upto(k) == {List[i] : i \in {j \in DOMAIN List : j <= k}}

\* The passes: packages up to run[a].at are unpacked, later ones still older than
\* the list, and the file that is unpacked has been checked, if it can be.
Passing(a) ==
    /\ run[a].pc \in Listing => run[a].at = 0
    /\ run[a].pc = "select" => run[a].list # 0
    /\ run[a].pc \in Fetching =>
          /\ ~(run[a].todo \subseteq Upto(run[a].at))
          /\ \A p \in run[a].todo : IF p \in Upto(run[a].at) THEN status[p].word = "unpacked"
                                    ELSE status[p].v < run[a].list
    /\ run[a].pc = "unpack" => sha256sum(a, run[a].file)
    /\ run[a].pc = "postinst" => /\ ~(Menuless(a) \subseteq Upto(run[a].at))
                                 /\ run[a].tree \in Trees

\* The packages that run a has changed and not yet configured.
Pending(a) ==
    IF run[a].pc \in Fetching THEN run[a].todo \cap Upto(run[a].at)
    ELSE IF run[a].pc \in Configuring THEN Menuless(a) \ Upto(run[a].at)
    ELSE {}

Settled(p, word) ==
    \/ word = "installed"
    \/ word = "unpacked" /\ p \in MenuItems
    \/ p \in left

\* A package without a word has no stanza, and one with a word is settled or pending.
Sound(p, stanza, pending) ==
    /\ stanza.word = "absent" => stanza = Absent
    /\ stanza = Absent \/ Settled(p, stanza.word) \/ p \in pending

Accounted == \A p \in Pkgs : Sound(p, status[p], Pending(1) \cup Pending(2))

\* So it was when udpkg read the stanzas that it will write back.
TreeAccounted(a) ==
    run[a].pc = "postinst" =>
        \A p \in Pkgs : Sound(p, run[a].tree[p], Pending(1) \cup (IF a = 2 THEN Pending(2) ELSE {}))

\* What is asked for has a stanza or will get one, if the list names a file.
Asking(a) ==
    /\ run[a].pc \in Fetching \cup Configuring \/ (run[a].pc = "exit" /\ run[a].code = 0) =>
          \A p \in run[a].asked :
              \/ status[p] # Absent
              \/ p \in run[a].todo /\ run[a].pc \in Fetching
              \/ nameless(a, p)
              \/ p \in Standard \cap queue /\ ~boot.standard_modules
    /\ run[a].pc \in Configuring => \A p \in run[a].todo : status[p] # Absent

\* The cached list is there, or about to be, once there is a default retriever.
Cached ==
    retriever /\ boot.lowmem = 0 =>
        \/ cached # 0 \/ unlisted
        \/ run[1].kind = "default" /\ run[1].pc \in {"packages", "packages_error"}

LevelInv(a) == Passing(a) /\ TreeAccounted(a) /\ Asking(a)

IInv ==
    /\ Types /\ Nested /\ Accounted /\ Cached /\ NoDeadRetry
    /\ \A a \in Levels : LevelInv(a)

-----------------------------------------------------------------------------
\* A set of packages has been passed when none of it is ahead.
LEMMA AheadUpto ==
    ASSUME Types, NEW a \in Levels, NEW S, S \subseteq Pkgs
    PROVE  ahead(a, S) = {} <=> S \subseteq Upto(run[a].at)
<1>1. run[a].at \in Nat
    BY ConstantsAssumption DEF Types, Runs
<1>2. DOMAIN List \subseteq Nat
    BY ConstantsAssumption
<1>3. ASSUME ahead(a, S) = {}, NEW p \in S PROVE p \in Upto(run[a].at)
    <2>1. PICK i \in DOMAIN List : List[i] = p
        BY DEF Pkgs
    <2>2. i <= run[a].at
        BY <1>1, <1>2, <1>3, <2>1 DEF ahead
    <2> QED
        BY <2>1, <2>2 DEF Upto
<1>4. ASSUME S \subseteq Upto(run[a].at), NEW i \in ahead(a, S) PROVE FALSE
    <2>1. i \in DOMAIN List /\ i > run[a].at /\ List[i] \in Upto(run[a].at)
        BY <1>4 DEF ahead
    <2>2. PICK j \in DOMAIN List : j <= run[a].at /\ List[j] = List[i]
        BY <2>1 DEF Upto
    <2>3. i = j
        BY <2>1, <2>2, ConstantsAssumption
    <2> QED
        BY <1>1, <1>2, <2>1, <2>2, <2>3
<1> QED
    BY <1>3, <1>4

\* The next package of S is the one that S passes by when at moves on to it.
LEMMA NextAhead ==
    ASSUME Types, NEW a \in Levels, NEW S, S \subseteq Pkgs, ahead(a, S) # {}
    PROVE  /\ next(a, S) \in 1..Len(List)
           /\ List[next(a, S)] \in S \ Upto(run[a].at)
           /\ S \cap Upto(next(a, S)) = (S \cap Upto(run[a].at)) \cup {List[next(a, S)]}
           /\ ahead(a, S) = {next(a, S)} => S \subseteq Upto(next(a, S))
           /\ ahead(a, S) # {next(a, S)} => ~(S \subseteq Upto(next(a, S)))
<1> DEFINE k == run[a].at
           n == next(a, S)
<1>1. k \in Nat
    BY ConstantsAssumption DEF Types, Runs
<1>2. DOMAIN List = 1..Len(List) /\ Len(List) \in Nat
    BY ConstantsAssumption
<1>3. \E i \in ahead(a, S) : \A j \in ahead(a, S) : i <= j
    <2>1. ahead(a, S) \subseteq Nat
        BY <1>2 DEF ahead
    <2>2. PICK i \in ahead(a, S) : \A j \in ahead(a, S) : <<j, i>> \notin OpToRel(<, Nat)
        BY <2>1, NatLessThanWellFounded, WFMin
    <2>3. ASSUME NEW j \in ahead(a, S), j < i PROVE FALSE
        <3>1. <<j, i>> \in Nat \X Nat /\ <<j, i>>[1] < <<j, i>>[2]
            BY <2>1, <2>3
        <3>2. <<j, i>> \in OpToRel(<, Nat)
            BY <3>1, Zenon DEF OpToRel
        <3> QED
            BY <2>2, <3>2
    <2>4. \A j \in ahead(a, S) : i <= j
        BY <2>1, <2>3
    <2> QED
        BY <2>4
<1>4. n \in ahead(a, S) /\ \A j \in ahead(a, S) : n <= j
    BY <1>3 DEF next
<1>5. n \in 1..Len(List) /\ n > k /\ List[n] \in S
    BY <1>2, <1>4 DEF ahead
<1>6. \A i, j \in 1..Len(List) : List[i] = List[j] => i = j
    BY <1>2, ConstantsAssumption
<1>7. \A p : p \in Upto(n) <=> \E i \in 1..Len(List) : i <= n /\ List[i] = p
    BY <1>2 DEF Upto
<1>8. \A p : p \in Upto(k) <=> \E i \in 1..Len(List) : i <= k /\ List[i] = p
    BY <1>2 DEF Upto
<1>9. \A i \in 1..Len(List) : i > k /\ List[i] \in S <=> i \in ahead(a, S)
    BY <1>2 DEF ahead
<1>10. List[n] \notin Upto(k)
    BY <1>1, <1>5, <1>6, <1>8
<1>11. S \cap Upto(n) = (S \cap Upto(k)) \cup {List[n]}
    <2>1. ASSUME NEW p \in S \cap Upto(n) PROVE p \in Upto(k) \/ p = List[n]
        BY <1>1, <1>4, <1>5, <1>7, <1>8, <1>9, <2>1
    <2>2. ASSUME NEW p \in Upto(k) PROVE p \in Upto(n)
        BY <1>1, <1>5, <1>7, <1>8, <2>2
    <2>3. List[n] \in S \cap Upto(n)
        BY <1>5, <1>7
    <2> QED
        BY <2>1, <2>2, <2>3
<1>12. ASSUME ahead(a, S) = {n}, NEW p \in S PROVE p \in Upto(n)
    <2>1. PICK i \in 1..Len(List) : List[i] = p
        BY <1>2 DEF Pkgs
    <2> QED
        BY <1>1, <1>5, <1>7, <1>9, <1>12, <2>1
<1>13. ASSUME ahead(a, S) # {n} PROVE ~(S \subseteq Upto(n))
    <2>1. PICK i \in ahead(a, S) : i # n
        BY <1>4, <1>13
    <2>2. i \in 1..Len(List) /\ List[i] \in S /\ i > n
        BY <1>2, <1>4, <1>5, <2>1 DEF ahead
    <2>3. List[i] \notin Upto(n)
        BY <1>5, <1>6, <1>7, <2>2
    <2> QED
        BY <2>2, <2>3
<1> QED
    BY <1>5, <1>10, <1>11, <1>12, <1>13

\* The resolver marks what it was given, of the list, and nothing beyond the list.
LEMMA Marks ==
    ASSUME NEW a \in Levels, NEW S
    PROVE  /\ resolve_dependencies_mark_anna(a, S) \subseteq present(a)
           /\ S \cap present(a) \subseteq resolve_dependencies_mark_anna(a, S)
BY DEF resolve_dependencies_mark_anna

\* The places before the first package are none.
LEMMA UptoNone == Upto(0) = {}
<1>1. DOMAIN List = 1..Len(List) /\ Len(List) \in Nat
    BY ConstantsAssumption
<1> QED
    BY <1>1 DEF Upto
-----------------------------------------------------------------------------
\* The invariant holds at the start.
LEMMA InitIInv == Init => IInv
<1> SUFFICES ASSUME Init PROVE IInv
    OBVIOUS
<1> USE ConstantsAssumption DEF Init, Idle
<1>1. \A a \in Levels : run[a] = Idle
    OBVIOUS
<1>2. Types
    <2>1. retriever \in BOOLEAN /\ unlisted \in BOOLEAN
        OBVIOUS
    <2>2. run \in [Levels -> Runs]
        BY DEF Runs, Places
    <2>3. status \in Trees
        <3>1. PICK g \in Gens :
                  status = [p \in Pkgs |-> IF p \in boot.initrd THEN [v |-> g, word |-> "unpacked"]
                                                               ELSE Absent]
            OBVIOUS
        <3>2. [v |-> g, word |-> "unpacked"] \in Stanzas /\ Absent \in Stanzas
            BY DEF Gens, Stanzas, Words, Absent
        <3> QED
            BY <3>1, <3>2 DEF Trees
    <2>4. left \subseteq Pkgs
        OBVIOUS
    <2> QED
        BY <2>1, <2>2, <2>3, <2>4 DEF Types
<1>3. Nested /\ Cached
    BY <1>1 DEF Nested, Cached, Levels
<1>4. NoDeadRetry
    BY <1>1 DEF NoDeadRetry
<1>5. Accounted
    <2>1. \A p \in Pkgs : \/ status[p] = Absent
                          \/ p \in left /\ status[p].word = "unpacked"
        OBVIOUS
    <2> QED
        BY <2>1 DEF Accounted, Sound, Settled
<1>6. \A a \in Levels : LevelInv(a)
    BY <1>1 DEF LevelInv, Passing, TreeAccounted, Asking, nameless, Listing, Fetching, Configuring
<1> QED
    BY <1>2, <1>3, <1>4, <1>5, <1>6 DEF IInv

\* The level that does not act: it waits in a script, or there is none.
LEMMA OtherLevel ==
    ASSUME IInv, NEW a \in Levels, NEW b \in Levels, b # a, run'[b] = run[b],
           a = 1 => run[2].pc = "idle", a = 2 => run[1].pc = "postinst",
           \A p \in Pkgs : status[p] # Absent => status'[p] # Absent,
           left \subseteq left', queue \subseteq queue', boot' = boot
    PROVE  LevelInv(b)' /\ Pending(b)' = Pending(b)
<1>1. Pending(b)' = Pending(b)
    BY DEF Pending, Menuless
<1>2. CASE b = 2
    <2>1. run'[2].pc = "idle"
        BY <1>2 DEF Levels
    <2> QED
        BY <1>1, <1>2, <2>1 DEF LevelInv, Passing, TreeAccounted, Asking, nameless, Listing, Fetching, Configuring
<1>3. CASE b = 1
    <2>1. run[1].pc = "postinst" /\ run'[1] = run[1]
        BY <1>3 DEF Levels
    <2>2. Passing(1) /\ TreeAccounted(1) /\ Asking(1)
        BY DEF IInv, LevelInv, Levels
    <2>3. Passing(1)'
        BY <2>1, <2>2 DEF Passing, Menuless, Listing, Fetching
    <2>4. TreeAccounted(1)'
        BY <1>1, <1>3, <2>1, <2>2 DEF TreeAccounted, Sound, Settled
    <2>5. Asking(1)'
        <3>1. run[1].todo \subseteq Pkgs /\ run[1].asked \subseteq Pkgs
            BY DEF IInv, Types, Runs, Levels
        <3> QED
            BY <2>1, <2>2, <3>1 DEF Asking, nameless, Fetching, Configuring
    <2> QED
        BY <1>1, <1>3, <2>3, <2>4, <2>5 DEF LevelInv
<1> QED
    BY <1>2, <1>3 DEF Levels

\* Which level waits for which.
LEMMA Alone ==
    ASSUME IInv, NEW a \in Levels, run[a].pc # "idle",
           run[a].pc = "postinst" /\ a = 1 => run[2].pc = "idle"
    PROVE  (a = 1 => run[2].pc = "idle") /\ (a = 2 => run[1].pc = "postinst")
BY DEF IInv, Nested, Levels

\* The level other than a.
Other(a) == 3 - a

\* What is left to show of a step of level a.
LEMMA LevelStep ==
    ASSUME IInv, NEW a \in Levels, run' \in [Levels -> Runs], run'[Other(a)] = run[Other(a)],
           a = 1 => run[2].pc = "idle", a = 2 => run[1].pc = "postinst",
           retriever' \in BOOLEAN, cached' \in 0..MaxGen, queue' \subseteq Pkgs,
           chosen' \subseteq Pkgs, status' \in Trees, runs' \in 0..MaxRuns,
           left' \subseteq Pkgs, unlisted' \in BOOLEAN,
           \A p \in Pkgs : status[p] # Absent => status'[p] # Absent,
           left \subseteq left', queue \subseteq queue', boot' = boot,
           Pending(Other(a))' = Pending(Other(a)) => Accounted',
           Cached', NoDeadRetry',
           Pending(Other(a))' = Pending(Other(a)) => LevelInv(a)'
    PROVE  IInv'
<1>1. Other(a) \in Levels /\ Other(a) # a
    BY DEF Other, Levels
<1>2. LevelInv(Other(a))' /\ Pending(Other(a))' = Pending(Other(a))
    BY <1>1, OtherLevel
<1>3. Accounted' /\ LevelInv(a)'
    BY <1>2
<1>4. Nested'
    BY DEF Nested, Levels, Other
<1>5. Types'
    BY DEF IInv, Types
<1>6. \A c \in Levels : LevelInv(c)'
    BY <1>2, <1>3 DEF Levels, Other
<1> QED
    BY <1>3, <1>4, <1>5, <1>6 DEF IInv

\* A step that changes no stanza accounts for what it no longer holds pending.
LEMMA AccountedKept ==
    ASSUME IInv, NEW a \in Levels, status' = status, left \subseteq left',
           Pending(Other(a))' = Pending(Other(a)),
           \A p \in Pending(a) : \/ p \in Pending(a)' \/ p \in left'
                                 \/ status[p].word \in {"installed", "absent"}
    PROVE  Accounted'
<1>1. Pending(1) \cup Pending(2) = Pending(a) \cup Pending(Other(a))
    BY DEF Levels, Other
<1>2. Pending(1)' \cup Pending(2)' = Pending(a)' \cup Pending(Other(a))'
    BY DEF Levels, Other
<1>3. Accounted
    BY DEF IInv
<1> SUFFICES ASSUME NEW p \in Pkgs
             PROVE  Sound(p, status[p], Pending(a) \cup Pending(Other(a)))'
    BY <1>2 DEF Accounted
<1>4. Sound(p, status[p], Pending(a) \cup Pending(Other(a)))
    BY <1>1, <1>3 DEF Accounted
<1> QED
    BY <1>4 DEF Sound, Settled

Waiting == {"packages", "packages_error"}

\* A step that starts no run and ends no wait for a list keeps the cache.
LEMMA CacheKept ==
    ASSUME IInv, boot' = boot, retriever' = retriever, cached' = cached, unlisted => unlisted',
           \A c \in Levels : run'[c].pc \in Waiting =>
               run[c].pc \in Waiting /\ run'[c].kind = run[c].kind,
           run[1].pc \in Waiting =>
               \/ run'[1].pc \in Waiting /\ run'[1].kind = run[1].kind
               \/ unlisted' \/ run[1].kind # "default" \/ boot.lowmem # 0
    PROVE  Cached' /\ NoDeadRetry'
<1>1. Cached'
    BY DEF IInv, Cached, Waiting
<1>2. NoDeadRetry'
    BY DEF IInv, NoDeadRetry, usecached, Waiting
<1> QED
    BY <1>1, <1>2

\* retriever_packages
LEMMA PackagesStep ==
    ASSUME IInv, NEW a \in Levels, retriever_packages(a)
    PROVE  IInv'
<1> USE ConstantsAssumption DEF retriever_packages
<1>1. run[a].pc = "packages"
    OBVIOUS
<1>2. (a = 1 => run[2].pc = "idle") /\ (a = 2 => run[1].pc = "postinst")
    BY <1>1, Alone
<1>3. PICK l \in 0..MaxGen :
          /\ usecached(a) => l = cached
          /\ run' = [run EXCEPT ![a].list = l,
                                ![a].pc = IF l = 0 THEN "packages_error" ELSE "select"]
          /\ cached' = IF newdefault(a) /\ l # 0 THEN l ELSE cached
    BY DEF IInv, Types
<1>4. /\ run' \in [Levels -> Runs] /\ run'[Other(a)] = run[Other(a)]
      /\ run'[a].kind = run[a].kind /\ run'[a].list = l /\ run'[a].at = run[a].at
      /\ run'[a].pc = IF l = 0 THEN "packages_error" ELSE "select"
    BY <1>3 DEF IInv, Types, Runs, Levels, Other, Places, Listing
<1>5. Cached'
    BY <1>1, <1>2, <1>3, <1>4 DEF IInv, Cached, newdefault, Levels, Other, history
<1>6. NoDeadRetry'
    BY <1>1, <1>2, <1>3, <1>4 DEF IInv, NoDeadRetry, usecached, Levels, Other, history
<1>7. ASSUME Pending(Other(a))' = Pending(Other(a)) PROVE Accounted'
    <2>1. Pending(a) = {}
        BY <1>1 DEF Pending, Fetching, Configuring
    <2> QED
        BY <1>7, <2>1, AccountedKept DEF history
<1>8. LevelInv(a)'
    BY <1>1, <1>4 DEF IInv, LevelInv, Passing, TreeAccounted, Asking, nameless, Listing, Fetching, Configuring
<1>9. cached' \in 0..MaxGen
    BY <1>3 DEF IInv, Types
<1> QED
    BY <1>2, <1>4, <1>5, <1>6, <1>7, <1>8, <1>9, LevelStep DEF IInv, Types, history

\* The level that is not used.
LEMMA IdleRun == Idle \in Runs /\ Idle.kind = "none" /\ Idle.pc = "idle" /\ Idle.at = 0
BY ConstantsAssumption DEF Idle, Runs, Places

\* Where a run goes, if nothing else of it changes.
LEMMA PcUpdate ==
    ASSUME Types, NEW a \in Levels, NEW where \in Places, run' = [run EXCEPT ![a].pc = where]
    PROVE  /\ run' \in [Levels -> Runs] /\ run'[Other(a)] = run[Other(a)] /\ run'[a].pc = where
           /\ run'[a].kind = run[a].kind /\ run'[a].at = run[a].at /\ run'[a].list = run[a].list
           /\ run'[a].todo = run[a].todo /\ run'[a].asked = run[a].asked
<1>1. run \in [Levels -> Runs] /\ Other(a) \in Levels /\ Other(a) # a
    BY DEF Types, Other, Levels
<1>2. run[a] \in Runs /\ run' = [run EXCEPT ![a] = [run[a] EXCEPT !.pc = where]]
    BY <1>1
<1>3. [run[a] EXCEPT !.pc = where] \in Runs
    BY <1>2 DEF Runs
<1>4. run' \in [Levels -> Runs] /\ run'[Other(a)] = run[Other(a)]
    BY <1>1, <1>2, <1>3
<1>5. run'[a] = [run[a] EXCEPT !.pc = where]
    BY <1>1, <1>2
<1> QED
    BY <1>2, <1>4, <1>5 DEF Runs

\* A run that ends.
LEMMA ExitFacts ==
    ASSUME IInv, NEW a \in Levels, NEW code \in Nat, exit(a, code)
    PROVE  /\ run' \in [Levels -> Runs] /\ run'[Other(a)] = run[Other(a)]
           /\ run'[a].pc = "exit" /\ run'[a].code = code /\ run'[a].asked = run[a].asked
           /\ run'[a].kind = "none" /\ run'[a].list = run[a].list
           /\ left \subseteq left' /\ left' \subseteq Pkgs
           /\ Pending(a)' = {}
           /\ code # 0 => left' = left \cup remains(a) /\ LevelInv(a)'
<1> USE ConstantsAssumption
<1>1. /\ run' \in [Levels -> Runs] /\ run'[Other(a)] = run[Other(a)]
      /\ run'[a].pc = "exit" /\ run'[a].code = code /\ run'[a].asked = run[a].asked
      /\ run'[a].kind = "none" /\ run'[a].list = run[a].list
    <2> DEFINE r == [Idle EXCEPT !.pc = "exit", !.code = code, !.asked = run[a].asked,
                                 !.list = run[a].list]
    <2>1. run \in [Levels -> Runs] /\ run[a].asked \in SUBSET Pkgs /\ run[a].list \in 0..MaxGen
        BY DEF IInv, Types, Runs
    <2>2. r \in Runs
        BY <2>1, IdleRun DEF Runs, Places
    <2>3. r.pc = "exit" /\ r.code = code /\ r.asked = run[a].asked /\ r.kind = "none"
          /\ r.list = run[a].list
        BY IdleRun DEF Runs
    <2>4. run' = [run EXCEPT ![a] = r]
        BY DEF exit
    <2>5. Other(a) \in Levels /\ Other(a) # a
        BY DEF Other, Levels
    <2> HIDE DEF r
    <2> QED
        BY <2>1, <2>2, <2>3, <2>4, <2>5
<1>2. left \subseteq left' /\ left' \subseteq Pkgs
    BY DEF exit, remains, IInv, Types, Runs
<1>3. Pending(a)' = {}
    BY <1>1 DEF Pending, Fetching, Configuring
<1>4. ASSUME code # 0 PROVE left' = left \cup remains(a) /\ LevelInv(a)'
    BY <1>1, <1>4 DEF exit, LevelInv, Passing, TreeAccounted, Asking, nameless, Listing, Fetching, Configuring
<1> QED
    BY <1>1, <1>2, <1>3, <1>4

\* Pending packages are to be installed.
LEMMA PendingTodo ==
    ASSUME Types, NEW a \in Levels
    PROVE  Pending(a) \subseteq run[a].todo /\ run[a].todo \subseteq Pkgs
BY DEF Pending, Menuless, Types, Runs

\* A run that fails without changing a stanza.
LEMMA FailStep ==
    ASSUME IInv, NEW a \in Levels, NEW code \in Nat \ {0}, exit(a, code),
           run[a].pc # "idle", run[a].pc = "postinst" /\ a = 1 => run[2].pc = "idle",
           run[a].pc \in Waiting => unlisted' \/ run[a].kind # "default" \/ boot.lowmem # 0,
           status' = status, UNCHANGED <<boot, retriever, cached, queue, runs>>,
           chosen' \subseteq Pkgs,
           unlisted' \in BOOLEAN, unlisted => unlisted'
    PROVE  IInv'
<1> USE ConstantsAssumption
<1>1. (a = 1 => run[2].pc = "idle") /\ (a = 2 => run[1].pc = "postinst")
    BY Alone
<1>2. /\ run' \in [Levels -> Runs] /\ run'[Other(a)] = run[Other(a)]
      /\ run'[a].pc = "exit"
      /\ left \subseteq left' /\ left' \subseteq Pkgs
      /\ left' = left \cup remains(a) /\ LevelInv(a)'
    BY ExitFacts
<1>3. Cached' /\ NoDeadRetry'
    <2>1. \A c \in Levels : run'[c].pc \in Waiting =>
              run[c].pc \in Waiting /\ run'[c].kind = run[c].kind
        BY <1>2 DEF Levels, Other, Waiting
    <2>2. run[1].pc \in Waiting =>
               \/ run'[1].pc \in Waiting /\ run'[1].kind = run[1].kind
               \/ unlisted' \/ run[1].kind # "default" \/ boot.lowmem # 0
        BY <1>2 DEF Levels, Other
    <2> QED
        BY <2>1, <2>2, CacheKept
<1>4. ASSUME Pending(Other(a))' = Pending(Other(a)) PROVE Accounted'
    <2>1. ASSUME NEW p \in Pending(a)
          PROVE  p \in left' \/ status[p].word \in {"installed", "absent"}
        BY <1>2, PendingTodo DEF remains, IInv
    <2> QED
        BY <1>2, <1>4, <2>1, AccountedKept
<1> QED
    BY <1>1, <1>2, <1>3, <1>4, LevelStep DEF IInv, Types

\* retriever_error
LEMMA ErrorStep ==
    ASSUME IInv, NEW a \in Levels, retriever_error(a)
    PROVE  IInv'
<1> USE ConstantsAssumption
<1>1. /\ run[a].pc \in {"packages_error", "retrieve_error", "sum_error"}
      /\ UNCHANGED <<boot, files, runs, status>>
    BY DEF retriever_error
<1>2. (a = 1 => run[2].pc = "idle") /\ (a = 2 => run[1].pc = "postinst")
    BY <1>1, Alone
<1>3. CASE retry(a) /\ UNCHANGED history
    <2>1. /\ run' \in [Levels -> Runs] /\ run'[Other(a)] = run[Other(a)]
          /\ run'[a].pc = IF run[a].pc = "packages_error" THEN "packages" ELSE "retrieve"
          /\ run'[a].kind = run[a].kind /\ run'[a].at = run[a].at /\ run'[a].list = run[a].list
          /\ run'[a].todo = run[a].todo /\ run'[a].asked = run[a].asked
        <3> DEFINE where == IF run[a].pc = "packages_error" THEN "packages" ELSE "retrieve"
        <3>1. where \in Places
            BY DEF Places, Listing, Fetching
        <3>2. run' = [run EXCEPT ![a].pc = where]
            BY <1>3 DEF retry, IInv, Types
        <3> HIDE DEF where
        <3> QED
            BY <3>1, <3>2, PcUpdate DEF where, IInv
    <2>2. Cached' /\ NoDeadRetry'
        <3>1. \A c \in Levels : run'[c].pc \in Waiting =>
                  run[c].pc \in Waiting /\ run'[c].kind = run[c].kind
            BY <1>1, <2>1 DEF Levels, Other, Waiting
        <3>2. run[1].pc \in Waiting => run'[1].pc \in Waiting /\ run'[1].kind = run[1].kind
            BY <1>1, <2>1 DEF Levels, Other, Waiting
        <3> QED
            BY <1>1, <1>3, <3>1, <3>2, CacheKept DEF files, history
    <2>3. Pending(a)' = Pending(a)
        BY <1>1, <2>1 DEF Pending, Fetching, Configuring
    <2>4. ASSUME Pending(Other(a))' = Pending(Other(a)) PROVE Accounted'
        BY <1>1, <1>3, <2>3, <2>4, AccountedKept DEF history
    <2>5. LevelInv(a)'
        <3>1. LevelInv(a)
            BY DEF IInv
        <3> QED
            BY <1>1, <2>1, <3>1 DEF LevelInv, Passing, TreeAccounted, Asking, nameless, Listing, Fetching,
                                    Configuring, files
    <2> QED
        BY <1>1, <1>2, <1>3, <2>1, <2>2, <2>4, <2>5, LevelStep DEF IInv, Types, files, history
<1>4. CASE \E code \in {6, 7, 10} :
             /\ exit(a, code)
             /\ unlisted' = (unlisted \/ (run[a].pc = "packages_error" /\ newdefault(a)))
    <2>1. unlisted' \in BOOLEAN /\ (unlisted => unlisted')
        BY <1>4, Zenon
    <2>2. run[a].pc \in Waiting => unlisted' \/ run[a].kind # "default" \/ boot.lowmem # 0
        BY <1>1, <1>4 DEF Waiting, newdefault
    <2> QED
        BY <1>1, <1>4, <2>1, <2>2, FailStep DEF IInv, Types, files
<1> QED
    BY <1>3, <1>4, Zenon DEF retriever_error

\* A run starts to install what is wanted.
LEMMA InstallStep ==
    ASSUME IInv, NEW a \in Levels, run[a].pc = "select",
           NEW want, NEW asked \in SUBSET Pkgs, install_modules(a, want, asked),
           \A p \in asked : \/ status[p] # Absent
                            \/ p \in want \cap present(a)
                            \/ p \in Standard \cap queue /\ ~boot.standard_modules,
           UNCHANGED <<boot, retriever, cached, queue, status, runs, unlisted>>,
           chosen' \subseteq Pkgs
    PROVE  IInv'
<1> USE ConstantsAssumption
<1> DEFINE marked == resolve_dependencies_mark_anna(a, want)
           todo == {p \in marked : ~is_installed(a, p) /\ ~nameless(a, p)}
           where == IF todo = {} THEN "exit" ELSE "retrieve"
<1>1. (a = 1 => run[2].pc = "idle") /\ (a = 2 => run[1].pc = "postinst")
    BY Alone
<1>2. marked \subseteq Pkgs /\ want \cap present(a) \subseteq marked
    BY Marks DEF present
<1>3. run[a].at = 0 /\ run[a].list \in 1..MaxGen
    BY DEF IInv, LevelInv, Passing, Listing, Types, Runs
<1>4. /\ run' = [run EXCEPT ![a].pc = where, ![a].asked = marked \cup asked,
                            ![a].todo = todo, ![a].code = 0]
      /\ left' = left
    BY DEF install_modules
<1>5. todo \in SUBSET Pkgs /\ marked \cup asked \in SUBSET Pkgs /\ where \in Places
    BY <1>2 DEF Places, Fetching
<1>6. \A p \in marked : p \in todo \/ status[p] # Absent \/ nameless(a, p)
    BY <1>2, <1>3 DEF is_installed, Absent, IInv, Types, Trees, Stanzas
<1>7. \A p \in todo : status[p].v < run[a].list
    BY <1>2, <1>3 DEF is_installed, IInv, Types, Trees, Stanzas
<1>8. \A p \in marked \cup asked :
          \/ status[p] # Absent \/ p \in todo \/ nameless(a, p)
          \/ p \in Standard \cap queue /\ ~boot.standard_modules
    BY <1>2, <1>6
<1>9. where = IF todo = {} THEN "exit" ELSE "retrieve"
    OBVIOUS
<1> HIDE DEF marked, todo, where
<1>10. /\ run' \in [Levels -> Runs] /\ run'[Other(a)] = run[Other(a)]
       /\ run'[a].pc = where /\ run'[a].asked = marked \cup asked /\ run'[a].todo = todo
       /\ run'[a].at = 0 /\ run'[a].list = run[a].list
    <2>1. run \in [Levels -> Runs] /\ Other(a) \in Levels /\ Other(a) # a
        BY DEF IInv, Types, Other, Levels
    <2> DEFINE r == [run[a] EXCEPT !.pc = where, !.asked = marked \cup asked, !.todo = todo, !.code = 0]
    <2>2. run' = [run EXCEPT ![a] = r]
        BY <1>4, <2>1
    <2>3. run[a] \in Runs
        BY <2>1
    <2>4. r \in Runs /\ r.pc = where /\ r.asked = marked \cup asked /\ r.todo = todo
          /\ r.at = 0 /\ r.list = run[a].list
        BY <1>3, <1>5, <2>3 DEF Runs
    <2> HIDE DEF r
    <2> QED
        BY <2>1, <2>2, <2>4
<1>11. Cached' /\ NoDeadRetry'
    <2>1. \A c \in Levels : run'[c].pc \in Waiting =>
              run[c].pc \in Waiting /\ run'[c].kind = run[c].kind
        BY <1>9, <1>10 DEF Levels, Other, Waiting
    <2>2. run[1].pc \in Waiting => run'[1].pc \in Waiting /\ run'[1].kind = run[1].kind
        BY <1>10 DEF Levels, Other, Waiting
    <2> QED
        BY <2>1, <2>2, CacheKept
<1>12. ASSUME Pending(Other(a))' = Pending(Other(a)) PROVE Accounted'
    <2>1. Pending(a) = {}
        BY DEF Pending, Fetching, Configuring
    <2> QED
        BY <1>4, <1>12, <2>1, AccountedKept
<1>13. LevelInv(a)'
    <2>1. Passing(a)'
        BY <1>7, <1>9, <1>10, UptoNone DEF Passing, Listing, Fetching
    <2>2. TreeAccounted(a)'
        BY <1>9, <1>10 DEF TreeAccounted
    <2>3. Asking(a)'
        BY <1>8, <1>9, <1>10 DEF Asking, nameless, Fetching, Configuring
    <2> QED
        BY <2>1, <2>2, <2>3 DEF LevelInv
<1> QED
    BY <1>1, <1>4, <1>10, <1>11, <1>12, <1>13, LevelStep DEF IInv, Types

\* select_arguments
LEMMA SelectStep ==
    ASSUME IInv, NEW a \in Levels, select_arguments(a)
    PROVE  IInv'
<1> USE ConstantsAssumption
<1> DEFINE new == {p \in run[a].args : status[p] = Absent}
<1>1. /\ run[a].pc = "select" /\ UNCHANGED <<boot, files, status, runs, unlisted>>
      /\ run[a].args \in SUBSET Pkgs
    BY DEF select_arguments, IInv, Types, Runs
<1>2. CASE new \subseteq present(a)
    <2>1. install_modules(a, new, run[a].args)
        BY <1>2 DEF select_arguments
    <2>2. \A p \in run[a].args : status[p] # Absent \/ p \in new \cap present(a)
        BY <1>2
    <2> QED
        BY <1>1, <2>1, <2>2, InstallStep DEF files, IInv, Types
<1>3. CASE ~(new \subseteq present(a))
    <2>1. exit(a, 1)
        BY <1>3 DEF select_arguments
    <2> QED
        BY <1>1, <2>1, FailStep DEF files, IInv, Types, Waiting
<1> QED
    BY <1>2, <1>3

\* What was queued and is in the list is installed or wanted, or of a priority the
\* boot configuration turns off.
LEMMA QueuedWanted ==
    ASSUME IInv, NEW a \in Levels, run[a].pc = "select",
           NEW p \in (queue \cap present(a)) \ boot.exclude
    PROVE  \/ status[p] # Absent
           \/ p \in ToInstall(a)
           \/ p \in Standard \cap queue /\ ~boot.standard_modules
<1>1. run[a].list \in 1..MaxGen /\ p \in Pkgs
    BY ConstantsAssumption DEF IInv, LevelInv, Passing, Types, Runs, present
<1>2. CASE is_installed(a, p)
    BY <1>1, <1>2, ConstantsAssumption DEF is_installed, Absent, IInv, Types, Trees, Stanzas
<1>3. CASE ~is_installed(a, p) /\ p \in ByDefault
    <2>1. p \in Listed(a) \cap Kept /\ p \in present(a)
        BY <1>1, <1>3 DEF Listed, Kept, fresh
    <2> QED
        BY <2>1, Marks DEF ToInstall
<1>4. CASE p \notin ByDefault
    BY <1>4 DEF ByDefault
<1> QED
    BY <1>2, <1>3, <1>4

\* choose_modules
LEMMA ChooseStep ==
    ASSUME IInv, NEW a \in Levels, choose_modules(a)
    PROVE  IInv'
<1> USE ConstantsAssumption
<1>1. run[a].pc = "select" /\ UNCHANGED <<boot, retriever, cached, queue, status, runs, unlisted>>
    BY DEF choose_modules
<1>2. CASE exit(a, 10) /\ chosen' = chosen
    BY <1>1, <1>2, FailStep DEF IInv, Types, Waiting
<1>3. CASE /\ chosen' \in {chosen} \cup SUBSET ToAsk(a)
           /\ install_modules(a,
                 ToInstall(a) \cup (present(a) \cap UNION {Inside[p] : p \in chosen'}),
                 (queue \cap present(a)) \ boot.exclude)
    <2>1. ToAsk(a) \subseteq Pkgs
        BY DEF ToAsk, Listed, fresh, present
    <2>2. chosen' \subseteq Pkgs
        BY <1>3, <2>1 DEF IInv, Types
    <2>3. ToInstall(a) \subseteq present(a)
        BY Marks DEF ToInstall
    <2>4. (queue \cap present(a)) \ boot.exclude \in SUBSET Pkgs
        BY DEF present
    <2> DEFINE want == ToInstall(a) \cup (present(a) \cap UNION {Inside[p] : p \in chosen'})
    <2>5. \A p \in (queue \cap present(a)) \ boot.exclude :
              \/ status[p] # Absent \/ p \in want \cap present(a)
              \/ p \in Standard \cap queue /\ ~boot.standard_modules
        BY <1>1, <2>3, QueuedWanted
    <2>6. install_modules(a, want, (queue \cap present(a)) \ boot.exclude)
        BY <1>3
    <2> HIDE DEF want
    <2> QED
        BY <1>1, <2>2, <2>4, <2>5, <2>6, InstallStep
<1> QED
    BY <1>2, <1>3 DEF choose_modules

\* retriever_retrieve
LEMMA RetrieveStep ==
    ASSUME IInv, NEW a \in Levels, retriever_retrieve(a)
    PROVE  IInv'
<1> USE ConstantsAssumption
<1>1. run[a].pc = "retrieve" /\ UNCHANGED <<boot, files, status, runs, history>>
    BY DEF retriever_retrieve
<1>2. (a = 1 => run[2].pc = "idle") /\ (a = 2 => run[1].pc = "postinst")
    BY <1>1, Alone
<1>3. /\ run' \in [Levels -> Runs] /\ run'[Other(a)] = run[Other(a)]
      /\ run'[a].at = run[a].at /\ run'[a].list = run[a].list
      /\ run'[a].todo = run[a].todo /\ run'[a].asked = run[a].asked
      /\ run'[a].pc \in {"retrieve_error", "sum_error", "unpack"}
      /\ run'[a].pc = "unpack" => sha256sum(a, run'[a].file)
    <2>1. CASE run' = [run EXCEPT ![a].pc = "retrieve_error"]
        <3>1. Types /\ "retrieve_error" \in Places
            BY DEF IInv, Places, Fetching
        <3> QED
            BY <2>1, <3>1, PcUpdate
    <2>2. ASSUME NEW f \in {"good", "bad"},
                 run' = [run EXCEPT ![a].pc = IF sha256sum(a, f) THEN "unpack" ELSE "sum_error",
                                    ![a].file = f]
          PROVE  <1>3!:
        <3>1. run \in [Levels -> Runs] /\ Other(a) \in Levels /\ Other(a) # a
            BY DEF IInv, Types, Other, Levels
        <3> DEFINE r == [run[a] EXCEPT !.pc = IF sha256sum(a, f) THEN "unpack" ELSE "sum_error", !.file = f]
        <3>2. run' = [run EXCEPT ![a] = r]
            BY <2>2, <3>1
        <3>3. run[a] \in Runs
            BY <3>1
        <3>4. r \in Runs /\ r.pc = (IF sha256sum(a, f) THEN "unpack" ELSE "sum_error") /\ r.file = f
              /\ r.at = run[a].at /\ r.list = run[a].list /\ r.todo = run[a].todo
              /\ r.asked = run[a].asked
            BY <3>3 DEF Runs, Places, Fetching
        <3> HIDE DEF r
        <3> QED
            BY <3>1, <3>2, <3>4
    <2> QED
        BY <2>1, <2>2 DEF retriever_retrieve
<1>4. Cached' /\ NoDeadRetry'
    <2>1. \A c \in Levels : run'[c].pc \in Waiting =>
              run[c].pc \in Waiting /\ run'[c].kind = run[c].kind
        BY <1>3 DEF Levels, Other, Waiting
    <2>2. run[1].pc \in Waiting => run'[1].pc \in Waiting /\ run'[1].kind = run[1].kind
        BY <1>1, <1>3 DEF Levels, Other, Waiting
    <2> QED
        BY <1>1, <2>1, <2>2, CacheKept DEF files, history
<1>5. Pending(a)' = Pending(a)
    BY <1>1, <1>3 DEF Pending, Fetching
<1>6. ASSUME Pending(Other(a))' = Pending(Other(a)) PROVE Accounted'
    BY <1>1, <1>5, <1>6, AccountedKept DEF history
<1>7. LevelInv(a)'
    <2>1. LevelInv(a)
        BY DEF IInv
    <2>2. current(a)' = current(a)
        BY <1>3 DEF current, next, ahead
    <2>3. run'[a].pc = "unpack" => sha256sum(a, run[a].file)'
        BY <1>3, <2>2 DEF sha256sum
    <2> QED
        BY <1>1, <1>3, <2>1, <2>3 DEF LevelInv, Passing, TreeAccounted, Asking, nameless, Listing, Fetching,
                                Configuring, files
<1> QED
    BY <1>1, <1>2, <1>3, <1>4, <1>6, <1>7, LevelStep DEF IInv, Types, files, history

\* A run that fails with package p, whose stanza it may have changed.
LEMMA FailWith ==
    ASSUME IInv, NEW a \in Levels, exit(a, 8),
           run[a].pc \in Fetching \cup Configuring,
           run[a].pc = "postinst" /\ a = 1 => run[2].pc = "idle",
           UNCHANGED <<boot, files, runs, unlisted>>,
           status' \in Trees,
           \A q \in Pkgs : status[q] # Absent => status'[q] # Absent,
           \A q \in Pkgs : status'[q].word = "absent" => status'[q] = Absent,
           \A q \in Pkgs : \/ status'[q].word = status[q].word
                           \/ q \in run[a].todo
                           \/ Settled(q, status'[q].word)
                           \/ q \in Pending(Other(a))
    PROVE  IInv'
<1> USE ConstantsAssumption
<1>1. (a = 1 => run[2].pc = "idle") /\ (a = 2 => run[1].pc = "postinst")
    BY Alone DEF Fetching, Configuring
<1>2. /\ run' \in [Levels -> Runs] /\ run'[Other(a)] = run[Other(a)]
      /\ run'[a].pc = "exit" /\ Pending(a)' = {}
      /\ left \subseteq left' /\ left' \subseteq Pkgs
      /\ left' = left \cup remains(a) /\ LevelInv(a)'
    BY ExitFacts
<1>3. Cached' /\ NoDeadRetry'
    <2>1. \A c \in Levels : run'[c].pc \in Waiting =>
              run[c].pc \in Waiting /\ run'[c].kind = run[c].kind
        BY <1>2 DEF Levels, Other, Waiting
    <2>2. run[1].pc \in Waiting => run'[1].pc \in Waiting /\ run'[1].kind = run[1].kind
        BY <1>2 DEF Levels, Other, Waiting, Fetching, Configuring
    <2> QED
        BY <2>1, <2>2, CacheKept DEF files
<1>4. ASSUME Pending(Other(a))' = Pending(Other(a)) PROVE Accounted'
    <2> SUFFICES ASSUME NEW q \in Pkgs
                 PROVE  Sound(q, status[q], Pending(1) \cup Pending(2))'
        BY DEF Accounted
    <2>1. Pending(1) \cup Pending(2) = Pending(a) \cup Pending(Other(a))
        BY DEF Levels, Other
    <2>2. Pending(1)' \cup Pending(2)' = Pending(Other(a))
        BY <1>2, <1>4 DEF Levels, Other
    <2>3. Sound(q, status[q], Pending(a) \cup Pending(Other(a)))
        BY <2>1 DEF IInv, Accounted
    <2>4. q \in run[a].todo =>
             q \in left' \/ status'[q].word = "installed" \/ status'[q].word = "absent"
        BY <1>2 DEF remains
    <2>5. q \in Pending(a) => q \in run[a].todo
        BY PendingTodo DEF IInv
    <2>6. status[q] = Absent /\ status'[q].word = status[q].word => status'[q] = Absent
        BY DEF Absent
    <2> QED
        BY <1>2, <2>2, <2>3, <2>4, <2>5, <2>6 DEF Sound, Settled
<1> QED
    BY <1>1, <1>2, <1>3, <1>4, LevelStep DEF IInv, Types, files

\* The package that is about to be unpacked: it is older than the list.
LEMMA NextToUnpack ==
    ASSUME IInv, NEW a \in Levels, run[a].pc \in Fetching
    PROVE  /\ ahead(a, run[a].todo) # {}
           /\ next(a, run[a].todo) \in 1..Len(List)
           /\ List[next(a, run[a].todo)] \in run[a].todo \ Upto(run[a].at)
           /\ status[List[next(a, run[a].todo)]].v < run[a].list
<1>1. Types /\ Passing(a)
    BY DEF IInv, LevelInv
<1>2. run[a].todo \subseteq Pkgs
    BY <1>1 DEF Types, Runs
<1>3. ahead(a, run[a].todo) # {}
    BY <1>1, <1>2, AheadUpto DEF Passing
<1>4. /\ next(a, run[a].todo) \in 1..Len(List)
      /\ List[next(a, run[a].todo)] \in run[a].todo \ Upto(run[a].at)
    BY <1>1, <1>2, <1>3, NextAhead
<1> QED
    BY <1>1, <1>3, <1>4 DEF Passing

\* unpack_package
LEMMA UnpackStep ==
    ASSUME IInv, NEW a \in Levels, unpack_package(a)
    PROVE  IInv'
<1> USE ConstantsAssumption
<1> DEFINE n == next(a, run[a].todo)
           p == current(a)
           last == ahead(a, run[a].todo) = {n}
<1>1. run[a].pc = "unpack" /\ UNCHANGED <<boot, files, runs, unlisted>>
    BY DEF unpack_package
<1>2. Types /\ Passing(a) /\ Asking(a) /\ Accounted /\ run[a].todo \subseteq Pkgs
      /\ run[a].asked \subseteq Pkgs
    BY DEF IInv, LevelInv, Types, Runs
<1>3. n \in 1..Len(List) /\ p \in run[a].todo \ Upto(run[a].at) /\ p \in Pkgs
    BY <1>1, <1>2, NextToUnpack DEF Fetching, current
<1>4. /\ run[a].todo \cap Upto(n) = (run[a].todo \cap Upto(run[a].at)) \cup {p}
      /\ last => run[a].todo \subseteq Upto(n)
      /\ ~last => ~(run[a].todo \subseteq Upto(n))
    BY <1>1, <1>2, NextToUnpack, NextAhead DEF Fetching, current
<1>5. Versions(a) \subseteq 0..MaxGen /\ status \in Trees
    BY <1>2 DEF Types, Runs, Versions, Gens
<1>6. PICK v \in Versions(a) : \E o \in UnpackOutcomes(p, v) :
          /\ status' = [status EXCEPT ![p] = o[1]]
          /\ IF ~o[2] THEN exit(a, 8)
             ELSE /\ run' = [run EXCEPT ![a].file = "none",
                                        ![a].at = IF last THEN 0 ELSE n,
                                        ![a].pc = IF last THEN "configure" ELSE "retrieve"]
                  /\ UNCHANGED left
    BY DEF unpack_package
<1>6a. PICK o \in UnpackOutcomes(p, v) :
          /\ status' = [status EXCEPT ![p] = o[1]]
          /\ IF ~o[2] THEN exit(a, 8)
             ELSE /\ run' = [run EXCEPT ![a].file = "none",
                                        ![a].at = IF last THEN 0 ELSE n,
                                        ![a].pc = IF last THEN "configure" ELSE "retrieve"]
                  /\ UNCHANGED left
    BY <1>6
<1> HIDE DEF n, p, last
<1>7. CASE ~o[2]
    <2>1. exit(a, 8)
        BY <1>6a, <1>7
    <2>2. status'[p] = o[1] /\ \A q \in Pkgs \ {p} : status'[q] = status[q]
        BY <1>3, <1>5, <1>6a DEF Trees
    <2>3. o[1] \in Stanzas /\ (o[1] = status[p] \/ o[1].word \in {"broken", "unpacked"})
        <3>1. o[1] \in {status[p], [v |-> 0, word |-> "broken"],
                       [v |-> v, word |-> "broken"],
                       [v |-> v, word |-> "unpacked"]}
            <4>1. PICK x \in {status[p], [v |-> 0, word |-> "broken"],
                              [v |-> v, word |-> "broken"],
                              [v |-> v, word |-> "unpacked"]} :
                      o = <<x, FALSE>> \/ o = <<x, TRUE>>
                BY Zenon DEF UnpackOutcomes
            <4>2. CASE o = <<x, FALSE>>
                BY <4>2
            <4>3. CASE o = <<x, TRUE>>
                BY <4>3
            <4> QED
                BY <4>1, <4>2, <4>3
        <3>2. status[p] \in Stanzas
            BY <1>3, <1>5 DEF Trees
        <3> QED
            BY <1>5, <3>1, <3>2 DEF Stanzas, Words
    <2>4. status' \in Trees
        BY <1>3, <1>5, <1>6a, <2>3 DEF Trees
    <2>5. \A q \in Pkgs : status[q].word = "absent" => status[q] = Absent
        BY <1>2 DEF Accounted, Sound
    <2>6. o[1].word \in {"broken", "unpacked"} => o[1] # Absent
        BY DEF Absent
    <2>7. \A q \in Pkgs : status[q] # Absent => status'[q] # Absent
        BY <2>2, <2>3, <2>6
    <2>8. \A q \in Pkgs : status'[q].word = "absent" => status'[q] = Absent
        BY <2>2, <2>3, <2>5
    <2>9. \A q \in Pkgs : status'[q].word = status[q].word \/ q \in run[a].todo
        BY <1>3, <2>2
    <2> QED
        BY <1>1, <2>1, <2>4, <2>7, <2>8, <2>9, FailWith DEF Fetching
<1>8. CASE o[2]
    <2>1. (a = 1 => run[2].pc = "idle") /\ (a = 2 => run[1].pc = "postinst")
        BY <1>1, Alone
    <2> DEFINE s == [v |-> v, word |-> "unpacked"]
    <2>2. o[1] = s
        <3>1. o = <<s, TRUE>> \/ \E x : o = <<x, FALSE>>
            BY <1>6a DEF UnpackOutcomes
        <3>2. ASSUME NEW x, o = <<x, FALSE>> PROVE FALSE
            BY <1>8, <3>2
        <3> HIDE DEF s
        <3>3. o = <<s, TRUE>>
            BY <3>1, <3>2, Zenon
        <3> QED
            BY <3>3
    <2>3. s \in Stanzas /\ s.word = "unpacked" /\ s # Absent
        BY <1>5 DEF Stanzas, Words, Absent
    <2> HIDE DEF s
    <2>4. status' \in Trees /\ status'[p] = s /\ \A q \in Pkgs \ {p} : status'[q] = status[q]
        BY <1>3, <1>5, <1>6a, <2>2, <2>3 DEF Trees
    <2>5. left' = left
        BY <1>6a, <1>8
    <2>6. /\ run' \in [Levels -> Runs] /\ run'[Other(a)] = run[Other(a)]
          /\ run'[a].pc = (IF last THEN "configure" ELSE "retrieve")
          /\ run'[a].at = (IF last THEN 0 ELSE n)
          /\ run'[a].todo = run[a].todo /\ run'[a].asked = run[a].asked
          /\ run'[a].list = run[a].list
        <3>1. run \in [Levels -> Runs] /\ Other(a) \in Levels /\ Other(a) # a
            BY DEF IInv, Types, Other, Levels
        <3> DEFINE to == IF last THEN 0 ELSE n
                   where == IF last THEN "configure" ELSE "retrieve"
                   r == [run[a] EXCEPT !.file = "none", !.at = to, !.pc = where]
        <3>2. run' = [run EXCEPT ![a] = r]
            BY <1>6a, <1>8, <3>1
        <3>3. run[a] \in Runs
            BY <3>1
        <3>4. to \in 0..Len(List) /\ where \in Places
            BY <1>3 DEF Places, Fetching, Configuring
        <3> HIDE DEF to, where
        <3>5. /\ r \in Runs /\ r.pc = where /\ r.at = to
              /\ r.todo = run[a].todo /\ r.asked = run[a].asked /\ r.list = run[a].list
            BY <3>3, <3>4 DEF Runs
        <3> HIDE DEF r
        <3> QED
            BY <3>1, <3>2, <3>5 DEF to, where
    <2>7. Cached' /\ NoDeadRetry'
        <3>1. \A c \in Levels : run'[c].pc \in Waiting =>
                  run[c].pc \in Waiting /\ run'[c].kind = run[c].kind
            BY <2>6 DEF Levels, Other, Waiting
        <3>2. run[1].pc \in Waiting => run'[1].pc \in Waiting /\ run'[1].kind = run[1].kind
            BY <1>1, <2>6 DEF Levels, Other, Waiting
        <3> QED
            BY <1>1, <3>1, <3>2, CacheKept DEF files
    <2>8. \A q \in run[a].todo \cap Upto(n) : status'[q].word = "unpacked"
        BY <1>1, <1>2, <1>4, <2>3, <2>4 DEF Passing, Fetching
    <2>9. Pending(a) \cup {p} = run[a].todo \cap Upto(n)
        BY <1>1, <1>4 DEF Pending, Fetching
    <2>10. Pending(a)' = IF last THEN run[a].todo \ MenuItems ELSE run[a].todo \cap Upto(n)
        BY <2>6, UptoNone DEF Pending, Menuless, Fetching, Configuring
    <2>11. ASSUME Pending(Other(a))' = Pending(Other(a)) PROVE Accounted'
        <3> SUFFICES ASSUME NEW q \in Pkgs
                     PROVE  Sound(q, status[q], Pending(1) \cup Pending(2))'
            BY DEF Accounted
        <3>1. Pending(1) \cup Pending(2) = Pending(a) \cup Pending(Other(a))
            BY DEF Levels, Other
        <3>2. Pending(1)' \cup Pending(2)' = Pending(a)' \cup Pending(Other(a))
            BY <2>11 DEF Levels, Other
        <3>3. CASE q \in run[a].todo \cap Upto(n)
            <4>1. status'[q].word = "unpacked"
                BY <2>8, <3>3
            <4>2. q \in Pending(a)' \/ q \in MenuItems
                BY <2>10, <3>3
            <4> QED
                BY <3>2, <4>1, <4>2 DEF Sound, Settled
        <3>4. CASE q \notin run[a].todo \cap Upto(n)
            <4>1. status'[q] = status[q] /\ q \notin Pending(a)
                BY <2>4, <2>9, <3>4
            <4> QED
                BY <1>2, <2>5, <3>1, <3>2, <4>1 DEF Accounted, Sound, Settled
        <3> QED
            BY <3>3, <3>4
    <2>12. \A q \in Pkgs : status[q] # Absent => status'[q] # Absent
        BY <2>3, <2>4
    <2>13. LevelInv(a)'
        <3>1. ASSUME ~last PROVE Passing(a)'
            <4>1. \A q \in run[a].todo : q \notin Upto(n) => status'[q].v < run[a].list
                BY <1>1, <1>2, <1>4, <2>4 DEF Passing, Fetching
            <4> QED
                BY <1>4, <2>6, <2>8, <3>1, <4>1 DEF Passing, Listing, Fetching
        <3>2. ASSUME last PROVE Passing(a)'
            BY <2>6, <3>2 DEF Passing, Listing, Fetching
        <3>3. TreeAccounted(a)'
            BY <2>6 DEF TreeAccounted
        <3>4. ASSUME last PROVE \A q \in run[a].todo : status'[q] # Absent
            BY <1>4, <2>8, <3>4 DEF Absent
        <3>5. Asking(a)'
            BY <1>1, <1>2, <2>6, <2>12, <3>4 DEF Asking, nameless, Fetching, Configuring, files
        <3> QED
            BY <3>1, <3>2, <3>3, <3>5 DEF LevelInv
    <2> QED
        BY <1>1, <2>1, <2>4, <2>5, <2>6, <2>7, <2>11, <2>12, <2>13, LevelStep DEF IInv, Types, files
<1> QED
    BY <1>7, <1>8

\* configure_package
LEMMA ConfigureStep ==
    ASSUME IInv, NEW a \in Levels, configure_package(a)
    PROVE  IInv'
<1> USE ConstantsAssumption
<1>1. run[a].pc = "configure" /\ UNCHANGED <<boot, files, status, runs, unlisted>>
    BY DEF configure_package
<1>2. (a = 1 => run[2].pc = "idle") /\ (a = 2 => run[1].pc = "postinst")
    BY <1>1, Alone
<1>3. Types /\ Passing(a) /\ Asking(a) /\ Accounted /\ Menuless(a) \subseteq Pkgs
    BY DEF IInv, LevelInv, Types, Runs, Menuless
<1>4. Pending(a) = Menuless(a) \ Upto(run[a].at)
    BY <1>1 DEF Pending, Fetching, Configuring
<1>5. ahead(a, Menuless(a)) = {} <=> Menuless(a) \subseteq Upto(run[a].at)
    BY <1>3, AheadUpto
<1>6. CASE ahead(a, Menuless(a)) = {}
    <2>1. exit(a, 0)
        BY <1>6 DEF configure_package
    <2>2. /\ run' \in [Levels -> Runs] /\ run'[Other(a)] = run[Other(a)]
          /\ run'[a].pc = "exit" /\ run'[a].asked = run[a].asked /\ run'[a].list = run[a].list
          /\ left \subseteq left' /\ left' \subseteq Pkgs
        BY <2>1, ExitFacts
    <2>3. Cached' /\ NoDeadRetry'
        <3>1. \A c \in Levels : run'[c].pc \in Waiting =>
                  run[c].pc \in Waiting /\ run'[c].kind = run[c].kind
            BY <2>2 DEF Levels, Other, Waiting
        <3>2. run[1].pc \in Waiting => run'[1].pc \in Waiting /\ run'[1].kind = run[1].kind
            BY <1>1, <2>2 DEF Levels, Other, Waiting
        <3> QED
            BY <1>1, <3>1, <3>2, CacheKept DEF files
    <2>4. Pending(a) = {}
        BY <1>4, <1>5, <1>6
    <2>5. ASSUME Pending(Other(a))' = Pending(Other(a)) PROVE Accounted'
        BY <1>1, <2>2, <2>4, <2>5, AccountedKept
    <2>6. LevelInv(a)'
        BY <1>1, <1>3, <2>2 DEF LevelInv, Passing, TreeAccounted, Asking, nameless, Listing, Fetching,
                                Configuring, files
    <2> QED
        BY <1>1, <1>2, <2>2, <2>3, <2>5, <2>6, LevelStep DEF IInv, Types, files
<1>7. CASE exit(a, 8)
    BY <1>1, <1>7, FailStep DEF IInv, Types, files, Waiting
<1>8. CASE /\ ahead(a, Menuless(a)) # {}
           /\ run' = [run EXCEPT ![a].pc = "postinst", ![a].tree = status]
           /\ UNCHANGED left
    <2>1. /\ run' \in [Levels -> Runs] /\ run'[Other(a)] = run[Other(a)]
          /\ run'[a].pc = "postinst" /\ run'[a].at = run[a].at /\ run'[a].tree = status
          /\ run'[a].list = run[a].list
          /\ run'[a].todo = run[a].todo /\ run'[a].asked = run[a].asked
        <3>1. run \in [Levels -> Runs] /\ Other(a) \in Levels /\ Other(a) # a /\ status \in Trees
            BY DEF IInv, Types, Other, Levels
        <3> DEFINE r == [run[a] EXCEPT !.pc = "postinst", !.tree = status]
        <3>2. run' = [run EXCEPT ![a] = r]
            BY <1>8, <3>1
        <3>3. run[a] \in Runs
            BY <3>1
        <3>4. /\ r \in Runs /\ r.pc = "postinst" /\ r.tree = status /\ r.at = run[a].at
              /\ r.list = run[a].list
              /\ r.todo = run[a].todo /\ r.asked = run[a].asked
            BY <3>1, <3>3 DEF Runs, Places, Configuring
        <3> HIDE DEF r
        <3> QED
            BY <3>1, <3>2, <3>4
    <2>2. Cached' /\ NoDeadRetry'
        <3>1. \A c \in Levels : run'[c].pc \in Waiting =>
                  run[c].pc \in Waiting /\ run'[c].kind = run[c].kind
            BY <2>1 DEF Levels, Other, Waiting
        <3>2. run[1].pc \in Waiting => run'[1].pc \in Waiting /\ run'[1].kind = run[1].kind
            BY <1>1, <2>1 DEF Levels, Other, Waiting
        <3> QED
            BY <1>1, <3>1, <3>2, CacheKept DEF files
    <2>3. Menuless(a)' = Menuless(a) /\ Pending(a)' = Pending(a)
        BY <1>1, <2>1 DEF Pending, Menuless, Fetching, Configuring
    <2>4. ASSUME Pending(Other(a))' = Pending(Other(a)) PROVE Accounted'
        BY <1>1, <1>8, <2>3, <2>4, AccountedKept
    <2>5. ASSUME Pending(Other(a))' = Pending(Other(a)) PROVE LevelInv(a)'
        <3>1. Passing(a)'
            BY <1>3, <1>5, <1>8, <2>1, <2>3 DEF Passing, Listing, Fetching, Types
        <3>2. Asking(a)'
            BY <1>1, <1>3, <2>1 DEF Asking, nameless, Fetching, Configuring, files
        <3>3. CASE a = 1
            <4>1. Pending(2) = {}
                BY <1>2, <3>3 DEF Pending, Fetching, Configuring
            <4> QED
                BY <1>3, <1>8, <2>1, <2>3, <3>1, <3>2, <3>3, <4>1
                   DEF LevelInv, TreeAccounted, Accounted, Sound, Settled
        <3>4. CASE a = 2
            <4>1. Pending(1)' = Pending(1)
                BY <2>5, <3>4 DEF Other
            <4> QED
                BY <1>3, <1>8, <2>1, <2>3, <3>1, <3>2, <3>4, <4>1
                   DEF LevelInv, TreeAccounted, Accounted, Sound, Settled
        <3> QED
            BY <3>3, <3>4 DEF Levels
    <2> QED
        BY <1>1, <1>2, <1>8, <2>1, <2>2, <2>4, <2>5, LevelStep DEF IInv, Types, files
<1> QED
    BY <1>6, <1>7, <1>8 DEF configure_package

\* What ScriptEnd makes of the stanzas, when package p gets the word w.
Written(a, p, w) ==
    [q \in Pkgs |-> [status[q] EXCEPT !.word = IF q = p THEN w
                                               ELSE IF run[a].tree[q] # Absent THEN run[a].tree[q].word
                                               ELSE @]]

\* ScriptEnd
LEMMA ScriptEndStep ==
    ASSUME IInv, NEW a \in Levels, ScriptEnd(a)
    PROVE  IInv'
<1> USE ConstantsAssumption
<1> DEFINE n == next(a, Menuless(a))
           p == List[n]
<1>1. run[a].pc = "postinst" /\ (a = 1 => run[2].pc = "idle")
      /\ UNCHANGED <<boot, files, runs, unlisted>>
    BY DEF ScriptEnd
<1>2. (a = 1 => run[2].pc = "idle") /\ (a = 2 => run[1].pc = "postinst")
    BY <1>1, Alone
<1>3. Types /\ Passing(a) /\ Asking(a) /\ Accounted /\ TreeAccounted(a)
      /\ Menuless(a) \subseteq Pkgs /\ Menuless(a) \subseteq run[a].todo
      /\ run[a].todo \subseteq Pkgs /\ run[a].asked \subseteq Pkgs
    BY DEF IInv, LevelInv, Types, Runs, Menuless
<1>4. ahead(a, Menuless(a)) # {} /\ run[a].tree \in Trees
    BY <1>1, <1>3, AheadUpto DEF Passing
<1>5. /\ n \in 1..Len(List) /\ p \in Menuless(a)
      /\ Menuless(a) \cap Upto(n) = (Menuless(a) \cap Upto(run[a].at)) \cup {p}
    BY <1>3, <1>4, NextAhead
<1>6. PICK w \in {"installed", "unpacked"} :
          /\ status' = Written(a, p, w)
          /\ IF w = "installed"
             THEN /\ run' = [run EXCEPT ![a].pc = "configure", ![a].at = n, ![a].tree = <<>>]
                  /\ UNCHANGED left
             ELSE exit(a, 8)
    BY DEF ScriptEnd, Written
<1> HIDE DEF n, p
<1>7. ASSUME NEW q \in Pkgs
      PROVE  /\ status'[q] \in Stanzas
             /\ q = p => status'[q].word = w
             /\ q # p /\ run[a].tree[q] # Absent => status'[q].word = run[a].tree[q].word
             /\ q # p /\ run[a].tree[q] = Absent => status'[q] = status[q]
    <2>1. status[q] \in Stanzas /\ run[a].tree[q] \in Stanzas
        BY <1>3, <1>4 DEF Types, Trees
    <2>2. status'[q] = [status[q] EXCEPT !.word = IF q = p THEN w
                                               ELSE IF run[a].tree[q] # Absent THEN run[a].tree[q].word
                                               ELSE @]
        BY <1>6 DEF Written
    <2> QED
        BY <2>1, <2>2 DEF Stanzas, Words
<1>8. status' \in Trees
    BY <1>6, <1>7 DEF Written, Trees
<1>9. \A q \in Pkgs : status'[q].word = "absent" => status'[q] = Absent
    BY <1>1, <1>3, <1>7 DEF TreeAccounted, Accounted, Sound
<1>10. \A q \in Pkgs : status[q] # Absent => status'[q] # Absent
    BY <1>1, <1>3, <1>7 DEF TreeAccounted, Sound, Absent
<1>11. ASSUME NEW q \in Pkgs, q # p, run[a].tree[q] # Absent
       PROVE  Settled(q, status'[q].word) \/ q \in Pending(a) \/ q \in Pending(Other(a))
    BY <1>1, <1>3, <1>7, <1>11 DEF TreeAccounted, Sound, Levels, Other
<1>12. CASE w = "installed"
    <2>1. run' = [run EXCEPT ![a].pc = "configure", ![a].at = n, ![a].tree = <<>>] /\ left' = left
        BY <1>6, <1>12
    <2>2. /\ run' \in [Levels -> Runs] /\ run'[Other(a)] = run[Other(a)]
          /\ run'[a].pc = "configure" /\ run'[a].at = n /\ run'[a].list = run[a].list
          /\ run'[a].todo = run[a].todo /\ run'[a].asked = run[a].asked
        <3>1. run \in [Levels -> Runs] /\ Other(a) \in Levels /\ Other(a) # a
            BY DEF IInv, Types, Other, Levels
        <3> DEFINE r == [run[a] EXCEPT !.pc = "configure", !.at = n, !.tree = <<>>]
        <3>2. run' = [run EXCEPT ![a] = r]
            BY <2>1, <3>1
        <3>3. run[a] \in Runs /\ n \in 0..Len(List)
            BY <1>5, <3>1
        <3>4. /\ r \in Runs /\ r.pc = "configure" /\ r.at = n /\ r.list = run[a].list
              /\ r.todo = run[a].todo /\ r.asked = run[a].asked
            BY <3>3 DEF Runs, Places, Configuring
        <3> HIDE DEF r
        <3> QED
            BY <3>1, <3>2, <3>4
    <2>3. Cached' /\ NoDeadRetry'
        <3>1. \A c \in Levels : run'[c].pc \in Waiting =>
                  run[c].pc \in Waiting /\ run'[c].kind = run[c].kind
            BY <2>2 DEF Levels, Other, Waiting
        <3>2. run[1].pc \in Waiting => run'[1].pc \in Waiting /\ run'[1].kind = run[1].kind
            BY <1>1, <2>2 DEF Levels, Other, Waiting
        <3> QED
            BY <1>1, <3>1, <3>2, CacheKept DEF files
    <2>4. Pending(a)' = Pending(a) \ {p}
        BY <1>1, <1>5, <2>2 DEF Pending, Menuless, Fetching, Configuring
    <2>5. ASSUME Pending(Other(a))' = Pending(Other(a)) PROVE Accounted'
        <3> SUFFICES ASSUME NEW q \in Pkgs
                     PROVE  Sound(q, status[q], Pending(1) \cup Pending(2))'
            BY DEF Accounted
        <3>1. Pending(1) \cup Pending(2) = Pending(a) \cup Pending(Other(a))
            BY DEF Levels, Other
        <3>2. Pending(1)' \cup Pending(2)' = (Pending(a) \ {p}) \cup Pending(Other(a))
            BY <2>4, <2>5 DEF Levels, Other
        <3>3. CASE q = p
            BY <1>7, <1>9, <1>12, <3>3 DEF Sound, Settled
        <3>4. CASE q # p /\ run[a].tree[q] # Absent
            BY <1>9, <1>11, <2>1, <3>2, <3>4 DEF Sound, Settled
        <3>5. CASE q # p /\ run[a].tree[q] = Absent
            <4>1. status'[q] = status[q]
                BY <1>7, <3>5
            <4> QED
                BY <1>3, <2>1, <3>1, <3>2, <3>5, <4>1 DEF Accounted, Sound, Settled
        <3> QED
            BY <3>3, <3>4, <3>5
    <2>6. LevelInv(a)'
        <3>1. Asking(a)'
            BY <1>1, <1>3, <1>10, <2>2 DEF Asking, nameless, Fetching, Configuring, files
        <3> QED
            BY <2>2, <3>1 DEF LevelInv, Passing, TreeAccounted, Listing, Fetching
    <2> QED
        BY <1>1, <1>2, <1>8, <1>10, <2>1, <2>2, <2>3, <2>5, <2>6, LevelStep DEF IInv, Types, files
<1>13. CASE w = "unpacked"
    <2>1. exit(a, 8)
        BY <1>6, <1>13
    <2>2. ASSUME NEW q \in Pkgs
          PROVE  \/ status'[q].word = status[q].word
                 \/ q \in run[a].todo
                 \/ Settled(q, status'[q].word)
                 \/ q \in Pending(Other(a))
        BY <1>3, <1>5, <1>7, <1>11, PendingTodo
    <2> QED
        BY <1>1, <1>8, <1>9, <1>10, <2>1, <2>2, FailWith DEF Configuring
<1> QED
    BY <1>12, <1>13

\* Return
LEMMA ReturnStep ==
    ASSUME IInv, NEW a \in Levels, Return(a)
    PROVE  IInv'
<1> USE ConstantsAssumption
<1>1. run[a].pc = "exit" /\ UNCHANGED <<boot, files, status, runs, history>>
      /\ run' = [run EXCEPT ![a] = Idle]
    BY DEF Return
<1>2. (a = 1 => run[2].pc = "idle") /\ (a = 2 => run[1].pc = "postinst")
    BY <1>1, Alone
<1>3. run' \in [Levels -> Runs] /\ run'[Other(a)] = run[Other(a)] /\ run'[a].pc = "idle"
    BY <1>1, IdleRun DEF IInv, Types, Other, Levels
<1>4. Cached' /\ NoDeadRetry'
    <2>1. \A c \in Levels : run'[c].pc \in Waiting =>
              run[c].pc \in Waiting /\ run'[c].kind = run[c].kind
        BY <1>3 DEF Levels, Other, Waiting
    <2>2. run[1].pc \in Waiting => run'[1].pc \in Waiting /\ run'[1].kind = run[1].kind
        BY <1>1, <1>3 DEF Levels, Other, Waiting
    <2> QED
        BY <1>1, <2>1, <2>2, CacheKept DEF files, history
<1>5. ASSUME Pending(Other(a))' = Pending(Other(a)) PROVE Accounted'
    <2>1. Pending(a) = {}
        BY <1>1 DEF Pending, Fetching, Configuring
    <2> QED
        BY <1>1, <1>5, <2>1, AccountedKept DEF history
<1>6. LevelInv(a)'
    BY <1>3 DEF LevelInv, Passing, TreeAccounted, Asking, nameless, Listing, Fetching, Configuring
<1> QED
    BY <1>1, <1>2, <1>3, <1>4, <1>5, <1>6, LevelStep DEF IInv, Types, files, history

\* A run starts: there is a cached list if it is to be used.
LEMMA StartStep ==
    ASSUME IInv, NEW a \in Levels, run[a].pc = "idle", runs < MaxRuns,
           a = 1 => run[2].pc = "idle", a = 2 => run[1].pc = "postinst",
           NEW how \in {"default", "other", "install"}, NEW pkgs \in SUBSET Pkgs,
           start(a, how, pkgs), retriever' \in BOOLEAN,
           how = "install" => retriever,
           (a = 1 /\ how = "default") \/ retriever' = retriever,
           UNCHANGED <<boot, cached, queue, chosen, status, history>>
    PROVE  IInv'
<1> USE ConstantsAssumption
<1>1. /\ run' \in [Levels -> Runs] /\ run'[Other(a)] = run[Other(a)]
      /\ run'[a].pc = "packages" /\ run'[a].kind = how /\ run'[a].at = 0
    <2> DEFINE r == [Idle EXCEPT !.pc = "packages", !.kind = how, !.args = pkgs]
    <2>1. run \in [Levels -> Runs] /\ Other(a) \in Levels /\ Other(a) # a
        BY DEF IInv, Types, Other, Levels
    <2>2. r \in Runs /\ r.pc = "packages" /\ r.kind = how /\ r.at = 0
        BY IdleRun DEF Runs, Places, Listing
    <2>3. run' = [run EXCEPT ![a] = r]
        BY DEF start
    <2> HIDE DEF r
    <2> QED
        BY <2>1, <2>2, <2>3
<1>2. Cached'
    BY <1>1 DEF IInv, Cached, Levels, Other, history
<1>3. NoDeadRetry'
    BY <1>1 DEF IInv, Cached, NoDeadRetry, usecached, Levels, Other, history
<1>4. ASSUME Pending(Other(a))' = Pending(Other(a)) PROVE Accounted'
    <2>1. Pending(a) = {}
        BY DEF Pending, Fetching, Configuring
    <2> QED
        BY <1>4, <2>1, AccountedKept DEF history
<1>5. LevelInv(a)'
    BY <1>1 DEF LevelInv, Passing, TreeAccounted, Asking, nameless, Listing, Fetching, Configuring
<1>6. runs' \in 0..MaxRuns
    BY DEF start, IInv, Types
<1> QED
    BY <1>1, <1>2, <1>3, <1>4, <1>5, <1>6, LevelStep DEF IInv, Types, history

\* anna
LEMMA AnnaStep ==
    ASSUME IInv, NEW how \in {"default", "other"}, anna(how)
    PROVE  IInv'
<1>1. run[2].pc = "idle"
    BY DEF anna, IInv, Nested
<1>2. retriever' \in BOOLEAN
    BY Zenon DEF anna
<1>3. how = "default" \/ retriever' = retriever
    BY DEF anna, IInv, Types
<1>4. 1 \in Levels /\ {} \in SUBSET Pkgs
    BY DEF Levels
<1> QED
    BY <1>1, <1>2, <1>3, <1>4, StartStep DEF anna

\* anna_install
LEMMA AnnaInstallStep ==
    ASSUME IInv, NEW a \in Levels, NEW p \in Requests, anna_install(a, p)
    PROVE  IInv'
<1> USE ConstantsAssumption
<1>1. /\ run[a].pc = "idle" /\ runs < MaxRuns
      /\ (a = 1 => run[2].pc = "idle") /\ (a = 2 => run[1].pc = "postinst")
      /\ UNCHANGED <<boot, retriever, cached, chosen, status, history>>
    BY DEF anna_install, IInv, Nested, Levels
<1>2. CASE retriever
    BY <1>1, <1>2, StartStep DEF anna_install, IInv, Types
<1>3. CASE ~retriever
    <2>1. queue' = queue \cup {p} /\ run' = run /\ runs' = runs
        BY <1>3 DEF anna_install
    <2>2. Cached' /\ NoDeadRetry'
        BY <1>1, <2>1 DEF IInv, Cached, NoDeadRetry, usecached, history
    <2>3. Pending(a)' = Pending(a)
        BY <2>1 DEF Pending, Menuless
    <2>4. ASSUME Pending(Other(a))' = Pending(Other(a)) PROVE Accounted'
        BY <1>1, <2>3, <2>4, AccountedKept DEF history
    <2>5. LevelInv(a)'
        BY <1>1, <2>1 DEF LevelInv, Passing, TreeAccounted, Asking, nameless, Listing, Fetching, Configuring
    <2> QED
        BY <1>1, <2>1, <2>2, <2>4, <2>5, LevelStep DEF IInv, Types, history
<1> QED
    BY <1>2, <1>3

\* main_menu
LEMMA MainMenuStep ==
    ASSUME IInv, NEW p \in Pkgs, main_menu(p)
    PROVE  IInv'
<1> USE ConstantsAssumption
<1>1. /\ run[1].pc = "idle" /\ run[2].pc = "idle" /\ status[p] # Absent
      /\ p \in MenuItems \/ status[p].word # "installed"
      /\ UNCHANGED <<boot, files, run, runs, history>>
    BY DEF main_menu, IInv, Nested
<1>2. PICK w \in {"installed", "unpacked"} : status' = [status EXCEPT ![p].word = w]
    BY DEF main_menu
<1>3. status \in Trees /\ Accounted
    BY DEF IInv, Types
<1>4. /\ status' \in Trees /\ status'[p].word = w
      /\ \A q \in Pkgs \ {p} : status'[q] = status[q]
    BY <1>2, <1>3 DEF Trees, Stanzas, Words
<1>5. \A c \in Levels : Pending(c) = {} /\ Pending(c)' = {}
    BY <1>1 DEF Levels, Pending, Fetching, Configuring
<1>6. Accounted'
    <2> SUFFICES ASSUME NEW q \in Pkgs PROVE Sound(q, status[q], Pending(1) \cup Pending(2))'
        BY DEF Accounted
    <2>1. Sound(q, status[q], {})
        BY <1>3, <1>5 DEF Accounted, Levels
    <2>2. CASE q = p
        <3>1. w = "unpacked" => p \in MenuItems \/ p \in left
            BY <1>1, <2>1, <2>2 DEF Sound, Settled
        <3> QED
            BY <1>1, <1>4, <2>2, <3>1 DEF Sound, Settled, history
    <2>3. CASE q # p
        BY <1>1, <1>4, <2>1, <2>3 DEF Sound, Settled, history
    <2> QED
        BY <2>2, <2>3
<1>7. \A c \in Levels : LevelInv(c)'
    BY <1>1 DEF Levels, LevelInv, Passing, TreeAccounted, Asking, nameless, Listing, Fetching, Configuring
<1>8. Cached' /\ NoDeadRetry'
    BY <1>1 DEF IInv, Cached, NoDeadRetry, usecached, files, history
<1>9. Nested'
    BY <1>1 DEF Nested
<1>10. Types'
    BY <1>1, <1>4 DEF IInv, Types, files, history
<1> QED
    BY <1>6, <1>7, <1>8, <1>9, <1>10 DEF IInv

-----------------------------------------------------------------------------
\* The invariant is inductive: what happened in earlier runs and in the run around
\* a nested one is in left, in the trees and in what is pending.
THEOREM Inductive == Spec => []IInv
<1>1. Init => IInv
    BY InitIInv
<1>2. IInv /\ [Next]_vars => IInv'
    <2> SUFFICES ASSUME IInv, [Next]_vars PROVE IInv'
        OBVIOUS
    <2>1. CASE anna("default") \/ anna("other")
        BY <2>1, AnnaStep
    <2>2. ASSUME NEW a \in Levels, step(a) PROVE IInv'
        BY <2>2, PackagesStep, ErrorStep, SelectStep, ChooseStep, RetrieveStep, UnpackStep,
           ConfigureStep, ScriptEndStep, ReturnStep DEF step
    <2>3. ASSUME NEW a \in Levels, NEW p \in Requests, anna_install(a, p) PROVE IInv'
        BY <2>3, AnnaInstallStep
    <2>4. ASSUME NEW p \in Pkgs, main_menu(p) PROVE IInv'
        BY <2>4, MainMenuStep
    <2>5. CASE UNCHANGED vars
        BY <2>5 DEF vars, files, history, IInv, Types, Nested, Accounted, Cached, NoDeadRetry, usecached,
            LevelInv, Passing, TreeAccounted, Asking, nameless, Sound, Settled, Pending, Menuless,
            sha256sum, current, next, ahead
    <2> QED
        BY <2>1, <2>2, <2>3, <2>4, <2>5 DEF Next
<1> QED
    BY <1>1, <1>2, PTL DEF Spec

\* Every variable keeps its type, and there is a package ahead wherever one is
\* retrieved, checked or unpacked.
THEOREM TypeCorrect == Spec => []TypeOK
<1>1. IInv => TypeOK
    <2> SUFFICES ASSUME IInv PROVE TypeOK
        OBVIOUS
    <2>1. \A a \in Levels : run[a].pc \in Fetching => ahead(a, run[a].todo) # {}
        BY NextToUnpack
    <2> QED
        BY <2>1 DEF IInv, Types, TypeOK, Runs, Trees, Stanzas, Fetching
<1> QED
    BY <1>1, Inductive, PTL

\* When anna ends with 0 what was asked for is configured, but for the exceptions
\* that DoneMeansInstalled names.
THEOREM SuccessMeansInstalled == Spec => []DoneMeansInstalled
<1>1. IInv => DoneMeansInstalled
    <2> SUFFICES ASSUME IInv, NEW a \in Levels, run[a].pc = "exit", run[a].code = 0,
                        NEW p \in run[a].asked,
                        ~(p \in Standard \cap queue /\ ~boot.standard_modules),
                        ~(nameless(a, p) /\ status[p] = Absent)
                 PROVE  \/ status[p].word = "installed"
                        \/ p \in MenuItems /\ status[p].word = "unpacked"
                        \/ p \in left
                        \/ a = 2 /\ p \in run[1].todo
        BY DEF DoneMeansInstalled
    <2>1. Types /\ Nested /\ Asking(a) /\ Accounted /\ p \in Pkgs
        BY DEF IInv, LevelInv, Types, Runs
    <2>2. status[p] # Absent
        BY <2>1 DEF Asking, nameless, Fetching
    <2>3. Pending(a) = {} /\ (a = 1 => Pending(2) = {})
        BY <2>1 DEF Pending, Nested, Fetching, Configuring
    <2>4. Pending(1) \subseteq run[1].todo
        BY <2>1, PendingTodo DEF Levels
    <2> QED
        BY <2>1, <2>2, <2>3, <2>4 DEF Accounted, Sound, Settled, Levels
<1> QED
    BY <1>1, Inductive, PTL

\* The cached list is there whenever anna install looks for it.
THEOREM CacheThere == Spec => []NoDeadRetry
<1>1. IInv => NoDeadRetry
    BY DEF IInv
<1> QED
    BY <1>1, Inductive, PTL

\* Versions change only where a file is unpacked, to that of the list if the file
\* has been checked.
LEMMA VersionSteps ==
    ASSUME IInv, [Next]_vars, NEW p \in Pkgs, ~Unchecked(p)
    PROVE  \/ status'[p].v = status[p].v
           \/ /\ \E a \in Levels : run[a].pc = "unpack" /\ run[a].file = "good"
              /\ status'[p].v >= status[p].v \/ status'[p].word = "broken"
<1> USE ConstantsAssumption
<1>1. status \in Trees /\ status[p] \in Stanzas
    BY DEF IInv, Types, Trees
<1>2. ASSUME NEW a \in Levels, unpack_package(a)
      PROVE  \/ status'[p].v = status[p].v
             \/ /\ run[a].pc = "unpack" /\ run[a].file = "good"
                /\ status'[p].v >= status[p].v \/ status'[p].word = "broken"
    <2> DEFINE q == current(a)
    <2>1. run[a].pc = "unpack" /\ sha256sum(a, run[a].file) /\ run[a].list \in 0..MaxGen
          /\ run[a].todo \subseteq Pkgs
        BY <1>2 DEF unpack_package, IInv, LevelInv, Passing, Types, Runs
    <2>2. q \in Pkgs /\ status[q].v < run[a].list
        BY <2>1, NextToUnpack DEF Fetching, current
    <2>3. PICK v \in Versions(a) : \E o \in UnpackOutcomes(q, v) : status' = [status EXCEPT ![q] = o[1]]
        BY <1>2 DEF unpack_package
    <2>4. PICK o \in UnpackOutcomes(q, v) : status' = [status EXCEPT ![q] = o[1]]
        BY <2>3
    <2>5. CASE p # q
        BY <1>1, <2>4, <2>5 DEF Trees
    <2>6. CASE p = q
        <3>1. status'[p] = o[1]
            BY <1>1, <2>2, <2>4, <2>6 DEF Trees
        <3>2. run[a].file = "good"
            BY <2>1, <2>6 DEF sha256sum, Unchecked
        <3>3. v = run[a].list
            BY <2>3, <3>2 DEF Versions
        <3> HIDE DEF q
        <3>4. PICK x \in {status[q], [v |-> 0, word |-> "broken"],
                          [v |-> v, word |-> "broken"], [v |-> v, word |-> "unpacked"]} :
                  o = <<x, FALSE>> \/ o = <<x, TRUE>>
            BY Zenon DEF UnpackOutcomes
        <3>5. o[1] = x
            <4>1. CASE o = <<x, FALSE>>
                BY <4>1
            <4>2. CASE o = <<x, TRUE>>
                BY <4>2
            <4> QED
                BY <3>4, <4>1, <4>2
        <3> QED
            BY <1>1, <2>1, <2>2, <2>6, <3>1, <3>2, <3>3, <3>5 DEF Stanzas
    <2> QED
        BY <2>5, <2>6
<1>3. ASSUME NEW a \in Levels, ScriptEnd(a) PROVE status'[p].v = status[p].v
    <2>1. \E w : status'[p] = [status[p] EXCEPT !.word = w]
        BY <1>3 DEF ScriptEnd
    <2> QED
        BY <1>1, <2>1 DEF Stanzas
<1>4. ASSUME NEW q \in Pkgs, main_menu(q) PROVE status'[p].v = status[p].v
    BY <1>1, <1>4 DEF main_menu, Trees, Stanzas
<1>5. ASSUME NEW a \in Levels,
             \/ retriever_packages(a) \/ retriever_error(a) \/ select_arguments(a)
             \/ choose_modules(a) \/ retriever_retrieve(a) \/ configure_package(a) \/ Return(a)
      PROVE  status' = status
    BY <1>5 DEF retriever_packages, retriever_error, select_arguments, choose_modules,
                retriever_retrieve, configure_package, Return
<1>6. ASSUME NEW a \in Levels, NEW q \in Requests, anna_install(a, q) PROVE status' = status
    BY <1>6 DEF anna_install
<1>7. CASE anna("default") \/ anna("other") \/ UNCHANGED vars
    BY <1>7 DEF anna, vars
<1> QED
    BY <1>2, <1>3, <1>4, <1>5, <1>6, <1>7 DEF Next, step

\* Only a file with the checksum of the list gives a package another version, but
\* for stanzas without one.
THEOREM Checked == Spec => OnlyChecked
<1>1. IInv /\ [Next]_vars =>
          [\A p \in Pkgs : status'[p].v # status[p].v =>
              Unchecked(p) \/ \E a \in Levels : run[a].pc = "unpack" /\ run[a].file = "good"]_vars
    BY VersionSteps
<1> QED
    BY <1>1, Inductive, PTL DEF Spec, OnlyChecked

\* No package is replaced by an older one whose file was checked.
THEOREM Upgrades == Spec => NoDowngrade
<1>1. IInv /\ [Next]_vars =>
          [\A p \in Pkgs : \/ status'[p].v >= status[p].v \/ status'[p].word = "broken"
                          \/ Unchecked(p)]_vars
    <2> SUFFICES ASSUME IInv, [Next]_vars, NEW p \in Pkgs, ~Unchecked(p)
                 PROVE  status'[p].v >= status[p].v \/ status'[p].word = "broken"
        OBVIOUS
    <2>1. status[p].v \in Nat
        BY ConstantsAssumption DEF IInv, Types, Trees, Stanzas
    <2> QED
        BY <2>1, VersionSteps
<1> QED
    BY <1>1, Inductive, PTL DEF Spec, NoDowngrade
=============================================================================
