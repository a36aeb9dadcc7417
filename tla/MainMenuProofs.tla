--------------------------- MODULE MainMenuProofs ---------------------------
(***************************************************************************)
(* main-menu is right for every set of packages, dependencies, menu and    *)
(* recursion limit. The menu's part: the types, the agreement with debconf *)
(* about the priority, and from it that the menu shows when it was asked   *)
(* for and that a hidden menu runs the default. The recursion's part: an   *)
(* invariant over all frames of the stack, and from it that dependencies   *)
(* are configured first, that a virtual package has a provider, and that a *)
(* loop of dependencies stops.                                             *)
(***************************************************************************)
EXTENDS MainMenu, SequenceTheorems, FiniteSetTheorems, TLAPS

Rets == {NoRet, EXIT_OK, 1, EXIT_BACKUP, EXIT_INSTALLER, FAILED}

IInv == TypeOK /\ PriorityInStep /\ HiddenMeansDefault

-----------------------------------------------------------------------------
\* Frames and the stack.

\* A package's activation starts as a frame.
LEMMA EntryType ==
    ASSUME NEW p \in Packages PROVE Entry(p) \in Frames
  BY DEF Entry, Frames, Packages

\* Going on to the next dependency or provider keeps a frame a frame.
LEMMA NextFrame ==
    ASSUME NEW f \in Frames PROVE [f EXCEPT !.i = @ + 1] \in Frames
  BY DEF Frames

\* So does what satisfy_virtual makes of its frame.
LEMMA AllFrame ==
    ASSUME NEW f \in Frames, f.at = "virtual"
    PROVE  [f EXCEPT !.at = "all"] \in Frames
  BY DEF Frames

\* The default provider enters the frame with the question.
LEMMA AskFrame ==
    ASSUME NEW f \in Frames, f.at = "virtual", NEW d \in Real
    PROVE  [f EXCEPT !.at = "ask", !.pick = d] \in Frames
  BY DEF Frames

\* The user's choice replaces it.
LEMMA OneFrame ==
    ASSUME NEW f \in Frames, f.at = "ask", NEW d \in Real
    PROVE  [f EXCEPT !.at = "one", !.pick = d] \in Frames
  BY DEF Frames

\* What a frame stands for.
LEMMA FrameFacts ==
    ASSUME NEW f \in Frames
    PROVE  /\ f.i \in Nat \ {0}
           /\ f.at = "deps" => f.p \in Real
           /\ f.at # "deps" => f.p \in Virtual
           /\ f.at = "ask" => f.pick \in Real
  BY DEF Frames

\* The running activation and its callers.
LEMMA TopBelow ==
    ASSUME TypeOK, stack # <<>>
    PROVE  /\ top \in Frames
           /\ below \in Seq(Frames)
           /\ Len(stack) \in Nat \ {0}
           /\ Len(below) = Len(stack) - 1
<1>1. stack \in Seq(Frames) /\ Len(stack) \in Nat \ {0}
  BY DEF TypeOK
<1>2. top \in Frames
  BY <1>1 DEF top
<1>3. \A i \in 1..(Len(stack) - 1) : stack[i] \in Frames
  BY <1>1
<1> DEFINE n == Len(stack) - 1
<1>4. below \in Seq(Frames) /\ Len(below) = Len(stack) - 1
  <2>1. n \in Nat
    BY <1>1
  <2> HIDE DEF n
  <2>2. \A i \in 1..n : stack[i] \in Frames
    BY <1>3 DEF n
  <2>3. /\ SubSeq(stack, 1, n) \in Seq(Frames)
        /\ Len(SubSeq(stack, 1, n)) = IF 1 <= n THEN n - 1 + 1 ELSE 0
    BY <2>1, <2>2, SubSeqProperties
  <2>4. Len(SubSeq(stack, 1, n)) = n
    BY <2>1, <2>3
  <2> QED BY <2>3, <2>4 DEF below, n
<1> QED BY <1>1, <1>2, <1>4

\* A call puts a well-formed frame on the stack.
LEMMA PushType ==
    ASSUME TypeOK, stack # <<>>, NEW f \in Frames, NEW p \in Packages, push(f, p)
    PROVE  stack' \in Seq(Frames) /\ stack' # <<>>
<1>1. below \in Seq(Frames)
  BY TopBelow
<1>2. Entry(p) \in Frames
  BY EntryType
<1>3. stack' = Append(Append(below, f), Entry(p))
  BY DEF push
<1>4. Append(below, f) \in Seq(Frames)
  BY <1>1
<1> QED BY <1>2, <1>3, <1>4

\* A new state of the running activation does too.
LEMMA ReplaceType ==
    ASSUME TypeOK, stack # <<>>, NEW f \in Frames, stack' = Append(below, f)
    PROVE  stack' \in Seq(Frames) /\ stack' # <<>>
<1>1. below \in Seq(Frames)
  BY TopBelow
<1> QED BY <1>1

\* A return takes the frame off, and main goes on only when it was the last.
LEMMA ReturnType ==
    ASSUME TypeOK, pc = "run", NEW r \in Rets, return(r)
    PROVE  /\ stack' \in Seq(Frames)
           /\ ret' \in Rets
           /\ pc' \in {"run", "done"}
           /\ pc' = "run" => stack' # <<>>
<1>1. stack # <<>>
  BY DEF TypeOK
<1>2. /\ below \in Seq(Frames)
      /\ Len(stack) \in Nat \ {0}
      /\ Len(below) = Len(stack) - 1
  BY <1>1, TopBelow
<1>3. /\ stack' = below /\ ret' = r
      /\ pc' = IF Len(stack) = 1 THEN "done" ELSE "run"
  BY DEF return
<1>4. pc' = "run" => Len(below) # 0
  BY <1>2, <1>3
<1>5. Len(<<>>) = 0
  OBVIOUS
<1> QED BY <1>2, <1>3, <1>4, <1>5

\* Steps inside di_config_package and satisfy_virtual leave the menu and the
\* priority alone.
LEMMA QuietStep ==
    ASSUME IInv, pc = "run", UNCHANGED quiet,
           stack' \in Seq(Frames), ret' \in Rets,
           pc' \in {"run", "done"}, pc' = "run" => stack' # <<>>,
           mem' \in [Packages -> Statuses],
           depth' \in Int /\ depth' <= MaxDepth + 1,
           declined' \subseteq Virtual
    PROVE  IInv'
<1>1. TypeOK'
  BY DEF IInv, TypeOK, quiet, prios, menus, Rets
<1>2. PriorityInStep' /\ HiddenMeansDefault'
  BY DEF IInv, PriorityInStep, HiddenMeansDefault, quiet, prios, menus
<1> QED BY <1>1, <1>2 DEF IInv

-----------------------------------------------------------------------------
\* The steps of di_config_package and satisfy_virtual.

\* A running activation has a frame.
LEMMA RunningFacts ==
    ASSUME TypeOK, pc = "run"
    PROVE  /\ stack # <<>> /\ top \in Frames
           /\ mem \in [Packages -> Statuses]
           /\ depth \in Int /\ depth <= MaxDepth + 1
           /\ declined \subseteq Virtual
           /\ ret \in Rets
<1>1. stack # <<>>
  BY DEF TypeOK
<1>2. top \in Frames
  BY <1>1, TopBelow
<1> QED BY <1>1, <1>2 DEF TypeOK, Rets

\* The dependencies of the running activation are packages.
LEMMA DepsType ==
    ASSUME TypeOK, pc = "run", top.at = "deps", top.i <= Len(deps)
    PROVE  deps[top.i] \in Packages
<1>1. top \in Frames
  BY RunningFacts
<1>2. top.p \in Real /\ top.i \in Nat \ {0}
  BY <1>1, FrameFacts
<1>3. deps \in Seq(Packages)
  BY <1>2, ConstantsAssumption DEF deps
<1> QED BY <1>2, <1>3

\* The providers of a virtual package are real packages.
LEMMA ProvidersType ==
    ASSUME NEW v \in Virtual
    PROVE  /\ Providers[v] \in Seq(Real)
           /\ ProviderSet(v) \subseteq Real
           /\ DefaultProvider(v) \subseteq Real
<1>1. Providers[v] \in Seq(Real)
  BY ConstantsAssumption
<1>3. ProviderSet(v) \subseteq Real
  BY <1>1 DEF ProviderSet
<1>4. DefaultProvider(v) \subseteq Real
  BY <1>1 DEF DefaultProvider
<1> QED BY <1>1, <1>3, <1>4

\* A non-existent package returns at once.
LEMMA NonExistentStep ==
    ASSUME IInv, NonExistent PROVE IInv'
<1>1. pc = "run" /\ TypeOK
  BY DEF NonExistent, running, IInv
<1>2. return(EXIT_OK) /\ EXIT_OK \in Rets
  BY DEF NonExistent, Rets
<1>3. UNCHANGED <<quiet, mem, depth, declined>>
  BY DEF NonExistent
<1> QED BY <1>1, <1>2, <1>3, ReturnType, RunningFacts, QuietStep

\* A dependency already installed is passed over.
LEMMA SkipStep ==
    ASSUME IInv, SkipDependency PROVE IInv'
<1>1. pc = "run" /\ TypeOK
  BY DEF SkipDependency, running, IInv
<1>2. stack # <<>> /\ [top EXCEPT !.i = @ + 1] \in Frames
  BY <1>1, RunningFacts, NextFrame
<1>3. /\ stack' = Append(below, [top EXCEPT !.i = @ + 1])
      /\ UNCHANGED <<quiet, pc, mem, ret, depth, declined>>
  BY DEF SkipDependency
<1>4. stack' \in Seq(Frames) /\ stack' # <<>>
  BY <1>1, <1>2, <1>3, ReplaceType
<1> QED BY <1>1, <1>3, <1>4, RunningFacts, QuietStep

\* The recursion, or the failure for its depth.
LEMMA ConfigureDependencyStep ==
    ASSUME IInv, ConfigureDependency PROVE IInv'
<1>1. pc = "run" /\ TypeOK /\ top.at = "deps" /\ top.i <= Len(deps)
  BY DEF ConfigureDependency, running, IInv
<1>2. UNCHANGED <<quiet, mem, declined>>
  BY DEF ConfigureDependency
<1>3. depth \in Int /\ depth <= MaxDepth + 1 /\ MaxDepth \in Nat
  BY <1>1, RunningFacts, ConstantsAssumption
<1>4. depth' \in Int /\ depth' <= MaxDepth + 1
  BY <1>3 DEF ConfigureDependency
<1>5. CASE depth + 1 > MaxDepth
  <2>1. return(FAILED) /\ FAILED \in Rets
    BY <1>5 DEF ConfigureDependency, Rets
  <2> QED BY <1>1, <1>2, <1>4, <2>1, ReturnType, RunningFacts, QuietStep
<1>6. CASE ~(depth + 1 > MaxDepth)
  <2>1. push(top, deps[top.i]) /\ UNCHANGED <<pc, ret>>
    BY <1>6 DEF ConfigureDependency
  <2>2. deps[top.i] \in Packages /\ top \in Frames /\ stack # <<>>
    BY <1>1, DepsType, RunningFacts
  <2>3. stack' \in Seq(Frames) /\ stack' # <<>>
    BY <1>1, <2>1, <2>2, PushType
  <2> QED BY <1>1, <1>2, <1>4, <2>1, <2>3, RunningFacts, QuietStep
<1> QED BY <1>5, <1>6

\* A dependency has been configured, or the failure is passed on.
LEMMA DependencyDoneStep ==
    ASSUME IInv, DependencyDone PROVE IInv'
<1>1. pc = "run" /\ TypeOK
  BY DEF DependencyDone, IInv
<1>2. UNCHANGED <<quiet, mem, declined>>
  BY DEF DependencyDone
<1>3. depth' \in Int /\ depth' <= MaxDepth + 1
  BY <1>1, RunningFacts, ConstantsAssumption DEF DependencyDone
<1>4. CASE ret \in {FAILED, EXIT_BACKUP}
  <2>1. return(ret)
    BY <1>4 DEF DependencyDone
  <2> QED BY <1>1, <1>2, <1>3, <2>1, ReturnType, RunningFacts, QuietStep
<1>5. CASE ret \notin {FAILED, EXIT_BACKUP}
  <2>1. /\ stack' = Append(below, [top EXCEPT !.i = @ + 1])
        /\ ret' = NoRet /\ UNCHANGED pc
    BY <1>5 DEF DependencyDone
  <2>2. stack # <<>> /\ [top EXCEPT !.i = @ + 1] \in Frames /\ NoRet \in Rets
    BY <1>1, RunningFacts, NextFrame DEF Rets
  <2>3. stack' \in Seq(Frames) /\ stack' # <<>>
    BY <1>1, <2>1, <2>2, ReplaceType
  <2> QED BY <1>1, <1>2, <1>3, <2>1, <2>2, <2>3, RunningFacts, QuietStep
<1> QED BY <1>4, <1>5

\* A provider has been configured, or the failure is passed on.
LEMMA ProviderDoneStep ==
    ASSUME IInv, ProviderDone PROVE IInv'
<1>1. pc = "run" /\ TypeOK
  BY DEF ProviderDone, IInv
<1>2. UNCHANGED <<quiet, mem, depth, declined>>
  BY DEF ProviderDone
<1>4. CASE ret \in {FAILED, EXIT_BACKUP}
  <2>1. return(ret)
    BY <1>4 DEF ProviderDone
  <2> QED BY <1>1, <1>2, <2>1, ReturnType, RunningFacts, QuietStep
<1>5. CASE ret \notin {FAILED, EXIT_BACKUP}
  <2>1. /\ stack' = Append(below, [top EXCEPT !.i = @ + 1])
        /\ ret' = NoRet /\ UNCHANGED pc
    BY <1>5 DEF ProviderDone
  <2>2. stack # <<>> /\ [top EXCEPT !.i = @ + 1] \in Frames /\ NoRet \in Rets
    BY <1>1, RunningFacts, NextFrame DEF Rets
  <2>3. stack' \in Seq(Frames) /\ stack' # <<>>
    BY <1>1, <2>1, <2>2, ReplaceType
  <2> QED BY <1>1, <1>2, <2>1, <2>2, <2>3, RunningFacts, QuietStep
<1> QED BY <1>4, <1>5

\* Marking a virtual package installed keeps the type of the statuses.
LEMMA SatisfiedType ==
    ASSUME TypeOK, NEW v \in Virtual, Satisfied(v)
    PROVE  mem' \in [Packages -> Statuses]
  BY DEF TypeOK, Satisfied, Statuses

\* A provider is installed already.
LEMMA VirtualProvidedStep ==
    ASSUME IInv, VirtualProvided PROVE IInv'
<1>1. pc = "run" /\ TypeOK /\ top.at = "virtual"
  BY DEF VirtualProvided, running, IInv
<1>2. Satisfied(top.p) /\ return(1) /\ 1 \in Rets /\ UNCHANGED <<quiet, depth, declined>>
  BY DEF VirtualProvided, Rets
<1>3. top.p \in Virtual
  BY <1>1, RunningFacts, FrameFacts
<1>4. mem' \in [Packages -> Statuses]
  BY <1>1, <1>2, <1>3, SatisfiedType
<1> QED BY <1>1, <1>2, <1>4, ReturnType, RunningFacts, QuietStep

\* The question about the providers, or all of them.
LEMMA VirtualNeededStep ==
    ASSUME IInv, VirtualNeeded PROVE IInv'
<1>1. pc = "run" /\ TypeOK /\ top.at = "virtual"
  BY DEF VirtualNeeded, running, IInv
<1>2. stack # <<>> /\ top \in Frames /\ top.p \in Virtual
  BY <1>1, RunningFacts, FrameFacts
<1>3. UNCHANGED <<quiet, pc, mem, ret, depth, declined>>
  BY DEF VirtualNeeded
<1>4. stack' \in Seq(Frames) /\ stack' # <<>>
  <2>1. CASE \E d \in ProviderSet(top.p) : present(d) /\ Item[d] # 0
    <3>1. PICK d \in DefaultProvider(top.p) :
             stack' = Append(below, [top EXCEPT !.at = "ask", !.pick = d])
      BY <2>1 DEF VirtualNeeded
    <3>2. d \in Real
      BY <1>2, <3>1, ProvidersType
    <3>3. [top EXCEPT !.at = "ask", !.pick = d] \in Frames
      BY <1>1, <1>2, <3>2, AskFrame
    <3> QED BY <1>1, <1>2, <3>1, <3>3, ReplaceType
  <2>2. CASE ~(\E d \in ProviderSet(top.p) : present(d) /\ Item[d] # 0)
    <3>1. stack' = Append(below, [top EXCEPT !.at = "all"])
      BY <2>2 DEF VirtualNeeded
    <3>2. [top EXCEPT !.at = "all"] \in Frames
      BY <1>1, <1>2, AllFrame
    <3> QED BY <1>1, <1>2, <3>1, <3>2, ReplaceType
  <2> QED BY <2>1, <2>2
<1> QED BY <1>1, <1>3, <1>4, RunningFacts, QuietStep

\* The user's choice, or the default.
LEMMA ChooseProviderStep ==
    ASSUME IInv, ChooseProvider PROVE IInv'
<1>1. pc = "run" /\ TypeOK /\ top.at = "ask"
  BY DEF ChooseProvider, running, IInv
<1>2. stack # <<>> /\ top \in Frames /\ top.p \in Virtual /\ top.pick \in Real
  BY <1>1, RunningFacts, FrameFacts
<1>3. UNCHANGED <<quiet, pc, mem, ret, depth, declined>>
  BY DEF ChooseProvider
<1>4. PICK d \in IF visible(1)
                 THEN {d \in ProviderSet(top.p) : present(d)} ELSE {top.pick} :
         push([top EXCEPT !.at = "one", !.pick = d], d)
  BY DEF ChooseProvider
<1>5. d \in Real
  BY <1>2, <1>4, ProvidersType
<1>6. [top EXCEPT !.at = "one", !.pick = d] \in Frames /\ d \in Packages
  BY <1>1, <1>2, <1>5, OneFrame DEF Packages
<1>7. stack' \in Seq(Frames) /\ stack' # <<>>
  BY <1>1, <1>2, <1>4, <1>6, PushType
<1> QED BY <1>1, <1>3, <1>7, RunningFacts, QuietStep

\* Backing up from the question.
LEMMA DeclineProviderStep ==
    ASSUME IInv, DeclineProvider PROVE IInv'
<1>1. pc = "run" /\ TypeOK /\ top.at = "ask"
  BY DEF DeclineProvider, running, IInv
<1>2. return(0) /\ 0 \in Rets /\ UNCHANGED <<quiet, mem, depth>>
  BY DEF DeclineProvider, Rets, EXIT_OK
<1>3. declined' \subseteq Virtual
  BY <1>1, RunningFacts, FrameFacts DEF DeclineProvider
<1> QED BY <1>1, <1>2, <1>3, ReturnType, RunningFacts, QuietStep

\* The chosen provider has been configured, or the failure is passed on.
LEMMA ChosenProviderDoneStep ==
    ASSUME IInv, ChosenProviderDone PROVE IInv'
<1>1. pc = "run" /\ TypeOK /\ top.at = "one"
  BY DEF ChosenProviderDone, IInv
<1>2. UNCHANGED <<quiet, depth, declined>> /\ 1 \in Rets
  BY DEF ChosenProviderDone, Rets
<1>3. top.p \in Virtual
  BY <1>1, RunningFacts, FrameFacts
<1>4. CASE ret \in {FAILED, EXIT_BACKUP}
  <2>1. return(ret) /\ UNCHANGED mem
    BY <1>4 DEF ChosenProviderDone
  <2> QED BY <1>1, <1>2, <2>1, ReturnType, RunningFacts, QuietStep
<1>5. CASE ret \notin {FAILED, EXIT_BACKUP}
  <2>1. return(1) /\ Satisfied(top.p)
    BY <1>5 DEF ChosenProviderDone
  <2>2. mem' \in [Packages -> Statuses]
    BY <1>1, <1>3, <2>1, SatisfiedType
  <2> QED BY <1>1, <1>2, <2>1, <2>2, ReturnType, RunningFacts, QuietStep
<1> QED BY <1>4, <1>5

\* The next of all providers, or none is left.
LEMMA ConfigureProviderStep ==
    ASSUME IInv, ConfigureProvider PROVE IInv'
<1>1. pc = "run" /\ TypeOK /\ top.at = "all"
  BY DEF ConfigureProvider, running, IInv
<1>2. UNCHANGED <<quiet, depth, declined>> /\ 1 \in Rets
  BY DEF ConfigureProvider, Rets
<1>3. stack # <<>> /\ top \in Frames /\ top.p \in Virtual /\ top.i \in Nat \ {0}
  BY <1>1, RunningFacts, FrameFacts
<1>4. CASE top.i <= Len(Providers[top.p])
  <2>1. push(top, Providers[top.p][top.i]) /\ UNCHANGED <<pc, mem, ret>>
    BY <1>4 DEF ConfigureProvider
  <2>2. Providers[top.p][top.i] \in Packages
    BY <1>3, <1>4, ProvidersType DEF Packages
  <2>3. stack' \in Seq(Frames) /\ stack' # <<>>
    BY <1>1, <1>3, <2>1, <2>2, PushType
  <2> QED BY <1>1, <1>2, <2>1, <2>3, RunningFacts, QuietStep
<1>5. CASE ~(top.i <= Len(Providers[top.p]))
  <2>1. return(1) /\ Satisfied(top.p)
    BY <1>5 DEF ConfigureProvider
  <2>2. mem' \in [Packages -> Statuses]
    BY <1>1, <1>3, <2>1, SatisfiedType
  <2> QED BY <1>1, <1>2, <2>1, <2>2, ReturnType, RunningFacts, QuietStep
<1> QED BY <1>4, <1>5

\* udpkg configures the package; its postinst may fetch others and set the
\* priority.
LEMMA ConfigurePackageStep ==
    ASSUME IInv, ConfigurePackage PROVE IInv'
<1>1. pc = "run" /\ TypeOK /\ top.at = "deps"
  BY DEF ConfigurePackage, running, IInv
<1>2. top.p \in Real
  BY <1>1, RunningFacts, FrameFacts
<1>3. PICK r \in {EXIT_OK, EXIT_BACKUP, EXIT_INSTALLER, FAILED} :
         /\ return(r)
         /\ mem' = [mem EXCEPT ![top.p] =
                      IF r \in {EXIT_OK, EXIT_INSTALLER}
                      THEN "installed" ELSE "half_configured"]
  BY DEF ConfigurePackage
<1>4. /\ stack' \in Seq(Frames) /\ ret' \in Rets
      /\ pc' \in {"run", "done"} /\ (pc' = "run" => stack' # <<>>)
  BY <1>1, <1>3, ReturnType DEF Rets
<1>5. mem' \in [Packages -> Statuses]
  BY <1>1, <1>3, RunningFacts DEF Statuses
<1>6. file' \in [Real -> Statuses]
  BY <1>1 DEF ConfigurePackage, TypeOK, Statuses
<1>7. prio' \in Priorities
  BY <1>1 DEF ConfigurePackage, TypeOK
<1>8. UNCHANGED <<local_priority, default_priority, menus, depth, declined>>
  BY DEF ConfigurePackage
<1>9. TypeOK'
  BY <1>1, <1>4, <1>5, <1>6, <1>7, <1>8 DEF TypeOK, menus, Rets
<1>10. PriorityInStep' /\ HiddenMeansDefault'
  BY <1>1, <1>4, <1>8 DEF IInv, PriorityInStep, HiddenMeansDefault, menus
<1> QED BY <1>9, <1>10 DEF IInv

-----------------------------------------------------------------------------
\* The menu.

\* The list has at most one first item that can be the default.
LEMMA DefaultUnique ==
    ASSUME NEW bad, NEW p \in get_default_menu_item(bad), NEW q \in get_default_menu_item(bad)
    PROVE  p = q
<1>1. Order \in Seq(Real)
  BY ConstantsAssumption
<1>2. PICK i \in Looked(bad) : CanBeDefault(Order[i], bad) /\ p = Order[i]
  BY DEF get_default_menu_item
<1>3. PICK j \in Looked(bad) : CanBeDefault(Order[j], bad) /\ q = Order[j]
  BY DEF get_default_menu_item
<1>4. /\ i \in DOMAIN Order /\ j \in DOMAIN Order
      /\ \A k \in 1..(i - 1) : ~CanBeDefault(Order[k], bad)
      /\ \A k \in 1..(j - 1) : ~CanBeDefault(Order[k], bad)
  BY <1>2, <1>3 DEF Looked
<1>5. i \in Nat \ {0} /\ j \in Nat \ {0}
  BY <1>1, <1>4
<1>6. ~(i < j) /\ ~(j < i)
  BY <1>2, <1>3, <1>4, <1>5
<1>7. i = j
  BY <1>5, <1>6
<1> QED BY <1>2, <1>3, <1>7

\* A default is a real package.
LEMMA DefaultType ==
    ASSUME NEW bad PROVE get_default_menu_item(bad) \subseteq Real
<1>1. Order \in Seq(Real)
  BY ConstantsAssumption
<1> QED BY <1>1 DEF get_default_menu_item, Looked

\* Lowering keeps the priority between 0 and the limit.
LEMMA ClampedType ==
    ASSUME NEW limit \in Priorities, NEW pri \in Priorities
    PROVE  /\ Clamped(pri - 1, limit) \in Priorities
           /\ Clamped(pri - 1, limit) <= limit
  BY DEF Clamped, Priorities

\* What main-menu shows, and what it then runs.
LEMMA ShowMenuStep ==
    ASSUME IInv, show_main_menu
    PROVE  IInv' /\ (pc' = "run" /\ display_menu => shown')
<1> USE DEF MENU_PRIORITY
<1>1. pc = "menu" /\ TypeOK /\ prio = local_priority /\ local_priority <= default_priority
  BY DEF show_main_menu, IInv, PriorityInStep
<1>2. prio \in Priorities /\ local_priority \in Priorities /\ default_priority \in Priorities
  BY <1>1 DEF TypeOK
<1>3. LowerTo \in Priorities /\ LowerTo <= default_priority
  BY <1>2, ClampedType DEF LowerTo
<1>4. PICK bad \in SUBSET Conditional :
       LET default == get_default_menu_item(bad)
           lower == default = {}
           newprio == IF lower THEN LowerTo ELSE local_priority
           threshold == IF lower /\ local_priority # LowerTo THEN LowerTo ELSE prio
           seen == menu_priority(lower, newprio) >= threshold
           choices == IF seen /\ Menu(bad) # {} THEN Menu(bad)
                      ELSE IF lower THEN {item} \ {None} ELSE default
       IN
          /\ notinstallables' = NotInstallables(bad)
          /\ refused' = {p \in bad : /\ present(p) /\ ~installed(p)
                                     /\ Item[p] \notin {0, ANNA_ONLY}}
          /\ menudefault' = IF lower THEN None ELSE CHOOSE p \in default : TRUE
          /\ local_priority' = newprio
          /\ prio' = threshold
          /\ shown' = seen
          /\ \/ \E p \in choices :
                   /\ item' = p
                   /\ display_menu' =
                         ((lower \/ display_menu) /\ Item[p] >= NEVERDEFAULT)
                   /\ stack' = <<Entry(p)>>
                   /\ pc' = "run"
             \/ /\ choices = {}
                /\ pc' = "failed"
                /\ UNCHANGED <<item, stack>>
                /\ display_menu' = (lower \/ display_menu)
  BY DEF show_main_menu
<1> DEFINE default == get_default_menu_item(bad)
           lower == default = {}
           newprio == IF lower THEN LowerTo ELSE local_priority
           threshold == IF lower /\ local_priority # LowerTo THEN LowerTo ELSE prio
           seen == menu_priority(lower, newprio) >= threshold
           choices == IF seen /\ Menu(bad) # {} THEN Menu(bad)
                      ELSE IF lower THEN {item} \ {None} ELSE default
<1>5. /\ notinstallables' = NotInstallables(bad)
      /\ refused' \subseteq bad
      /\ menudefault' = IF lower THEN None ELSE CHOOSE p \in default : TRUE
      /\ local_priority' = newprio /\ prio' = threshold /\ shown' = seen
      /\ \/ /\ item' \in choices /\ display_menu' \in BOOLEAN
            /\ stack' = <<Entry(item')>> /\ pc' = "run"
         \/ /\ pc' = "failed" /\ UNCHANGED <<item, stack>> /\ display_menu' \in BOOLEAN
  <2>1. display_menu \in BOOLEAN
    BY <1>1 DEF TypeOK
  <2> QED BY <1>4, <2>1
<1>6. UNCHANGED <<default_priority, last_successful_item, seen_items,
                  ret, depth, declined, file, mem>>
  BY DEF show_main_menu
<1>7. default \subseteq Real /\ \A p, q \in default : p = q
  BY DefaultType, DefaultUnique
<1>8. Menu(bad) \subseteq Real /\ NotInstallables(bad) \subseteq bad /\ bad \subseteq Real
  BY ConstantsAssumption DEF Menu, NotInstallables
<1> HIDE DEF default
<1>9. lower \/ display_menu => seen
  BY <1>1, <1>2, <1>3 DEF menu_priority, Priorities
<1>10. choices \subseteq Real
  BY <1>1, <1>7, <1>8 DEF TypeOK
<1>11. ~seen => ~lower /\ choices = default
  BY <1>9
<1>12. menudefault' \in Real \cup {None}
  <2>1. CASE lower
    BY <1>5, <2>1
  <2>2. CASE ~lower
    BY <1>5, <1>7, <2>2
  <2> QED BY <2>1, <2>2
<1>13. newprio \in Priorities /\ threshold \in Priorities /\ newprio = threshold
       /\ newprio <= default_priority
  BY <1>1, <1>2, <1>3
<1>14. /\ item' \in Real \cup {None}
       /\ pc' = "run" => item' \in Real
       /\ stack' \in Seq(Frames)
       /\ pc' = "run" => stack' # <<>>
  <2>1. CASE pc' = "run"
    <3>1. item' \in Real /\ stack' = <<Entry(item')>>
      BY <1>5, <1>10, <2>1
    <3>2. Entry(item') \in Frames
      BY <3>1, EntryType DEF Packages
    <3> QED BY <3>1, <3>2
  <2>2. CASE pc' # "run"
    BY <1>1, <1>5, <2>2 DEF TypeOK
  <2> QED BY <2>1, <2>2
<1>15. shown' \in BOOLEAN /\ display_menu' \in BOOLEAN /\ pc' \in {"run", "failed"}
  BY <1>5
<1>16. TypeOK'
  <2>1. notinstallables' \subseteq Real /\ refused' \subseteq Real
    BY <1>5, <1>8
  <2>2. prio' \in Priorities /\ local_priority' \in Priorities /\ default_priority' \in Priorities
    BY <1>2, <1>5, <1>6, <1>13
  <2> HIDE DEF newprio, threshold, seen, choices, lower
  <2> QED BY <1>1, <1>6, <1>12, <1>14, <1>15, <2>1, <2>2 DEF TypeOK
<1>17. PriorityInStep'
  BY <1>5, <1>6, <1>13, <1>15 DEF PriorityInStep
<1>18. HiddenMeansDefault'
  <2> SUFFICES ASSUME pc' = "run", ~shown' PROVE item' = menudefault'
    BY <1>15 DEF HiddenMeansDefault
  <2>1. item' \in default /\ ~lower
    BY <1>5, <1>11
  <2>2. menudefault' \in default
    BY <1>5, <2>1
  <2> QED BY <1>7, <2>1, <2>2
<1>19. pc' = "run" /\ display_menu => shown'
  BY <1>5, <1>9
<1> QED BY <1>16, <1>17, <1>18, <1>19 DEF IInv

-----------------------------------------------------------------------------
\* After the item.

\* Reading the status file again yields statuses.
LEMMA ReadFileType ==
    ASSUME NEW f \in [Real -> Statuses] PROVE ReadFile(f) \in [Packages -> Statuses]
  BY DEF ReadFile, Packages, Statuses

\* The end of main's loop body keeps the invariant, whatever the outcome did to
\* the priority, provided debconf and main-menu agree on it afterwards.
LEMMA AfterItemStep ==
    ASSUME IInv, pc = "done", NEW then \in {"menu", "exit"}, AfterItem(then),
           prio' \in Priorities, local_priority' = prio',
           local_priority' <= adjust_default_priority,
           display_menu' \in BOOLEAN, last_successful_item' \in {-1} \cup Nat
    PROVE  IInv'
<1>1. TypeOK
  BY DEF IInv
<1>2. mem' \in [Packages -> Statuses]
  BY <1>1, ReadFileType DEF AfterItem, TypeOK
<1>3. default_priority' = adjust_default_priority /\ default_priority' \in Priorities
  BY <1>1 DEF AfterItem, TypeOK, adjust_default_priority
<1>4. seen_items' \subseteq Real
  BY <1>1 DEF AfterItem, TypeOK
<1>5. pc' = then /\ ret' = NoRet /\ declined' = {}
      /\ UNCHANGED <<notinstallables, item, menudefault, shown, refused, stack,
                     depth, file>>
  BY DEF AfterItem
<1>6. TypeOK'
  BY <1>1, <1>2, <1>3, <1>4, <1>5 DEF TypeOK
<1>7. PriorityInStep'
  BY <1>3 DEF PriorityInStep
<1>8. HiddenMeansDefault'
  BY <1>5 DEF HiddenMeansDefault
<1> QED BY <1>6, <1>7, <1>8 DEF IInv

\* The priorities before, and what the adjusted default is at least.
LEMMA AdjustFacts ==
    ASSUME IInv
    PROVE  /\ prio \in Priorities /\ adjust_default_priority \in Priorities
           /\ prio <= adjust_default_priority
           /\ display_menu \in BOOLEAN /\ last_successful_item \in {-1} \cup Nat
  BY DEF IInv, TypeOK, PriorityInStep, adjust_default_priority, Priorities

\* An item succeeded: the default priority is restored.
LEMMA ItemSucceededStep ==
    ASSUME IInv, ItemSucceeded PROVE IInv'
<1>1. pc = "done" /\ AfterItem("menu") /\ display_menu' = display_menu
  BY DEF ItemSucceeded
<1>2. Item[item] \in Nat
  BY <1>1, ConstantsAssumption DEF IInv, TypeOK
<1>3. /\ prio' \in Priorities /\ local_priority' = prio'
      /\ local_priority' <= adjust_default_priority
      /\ last_successful_item' \in {-1} \cup Nat
  <2>1. CASE Item[item] < NEVERDEFAULT
    <3>1. /\ prio' = adjust_default_priority
          /\ local_priority' = adjust_default_priority
          /\ last_successful_item' = Item[item]
      BY <2>1 DEF ItemSucceeded
    <3> QED BY <1>2, <3>1, AdjustFacts DEF Priorities
  <2>2. CASE ~(Item[item] < NEVERDEFAULT)
    <3>1. local_priority' = prio /\ UNCHANGED <<last_successful_item, prio>>
      BY <2>2 DEF ItemSucceeded
    <3> QED BY <3>1, AdjustFacts
  <2> QED BY <2>1, <2>2
<1> QED BY <1>1, <1>3, AdjustFacts, AfterItemStep

\* The user backed up: the menu is asked for.
LEMMA ItemBackedUpStep ==
    ASSUME IInv, ItemBackedUp PROVE IInv'
<1>1. /\ pc = "done" /\ AfterItem("menu") /\ display_menu' = TRUE
      /\ local_priority' = prio /\ prio' = prio
      /\ last_successful_item' = last_successful_item
  BY DEF ItemBackedUp
<1> QED BY <1>1, AdjustFacts, AfterItemStep

\* The item ended the installation.
LEMMA ItemExitsStep ==
    ASSUME IInv, ItemExits PROVE IInv'
<1>1. /\ pc = "done" /\ AfterItem("exit") /\ display_menu' = display_menu
      /\ local_priority' = prio /\ prio' = prio
      /\ last_successful_item' = last_successful_item
  BY DEF ItemExits
<1> QED BY <1>1, AdjustFacts, AfterItemStep

\* The item failed: the priority is lowered and the menu asked for.
LEMMA ItemFailedStep ==
    ASSUME IInv, ItemFailed PROVE IInv'
<1>1. /\ pc = "done" /\ AfterItem("menu") /\ display_menu' = TRUE
      /\ prio' = Clamped(prio - 1, adjust_default_priority)
      /\ local_priority' = prio'
      /\ last_successful_item' = last_successful_item
  BY DEF ItemFailed
<1>2. prio' \in Priorities /\ local_priority' <= adjust_default_priority
  BY <1>1, AdjustFacts, ClampedType
<1> QED BY <1>1, <1>2, AdjustFacts, AfterItemStep

-----------------------------------------------------------------------------
\* The theorems.

\* main starts in a state of the invariant.
LEMMA InitInv ==
    Init => IInv
<1> SUFFICES ASSUME Init PROVE IInv
  OBVIOUS
<1>1. InitFile \in [Real -> Statuses] /\ MaxDepth \in Nat
  BY ConstantsAssumption
<1>2. ReadFile(InitFile) \in [Packages -> Statuses]
  BY <1>1, ReadFileType
<1>3. TypeOK
  <2>1. stack \in Seq(Frames) /\ depth \in Int /\ depth <= MaxDepth + 1
    BY <1>1 DEF Init
  <2>2. file \in [Real -> Statuses] /\ mem \in [Packages -> Statuses]
    BY <1>1, <1>2 DEF Init
  <2> QED BY <2>1, <2>2 DEF Init, TypeOK
<1>4. PriorityInStep /\ HiddenMeansDefault
  BY DEF Init, PriorityInStep, HiddenMeansDefault, Priorities
<1> QED BY <1>3, <1>4 DEF IInv

\* Every step of main-menu keeps it, and shows the menu when it was asked for.
LEMMA StepInv ==
    ASSUME IInv, [Next]_vars
    PROVE  IInv' /\ (pc = "menu" /\ pc' = "run" /\ display_menu => shown')
<1>1. CASE show_main_menu
  BY <1>1, ShowMenuStep
<1>2. CASE UNCHANGED vars
  BY <1>2 DEF vars, prios, menus, calls, IInv, TypeOK, PriorityInStep, HiddenMeansDefault
<1>3. ASSUME Next, ~show_main_menu PROVE IInv' /\ pc # "menu"
  <2>1. CASE NonExistent
    BY <2>1, NonExistentStep DEF NonExistent, running
  <2>2. CASE SkipDependency
    BY <2>2, SkipStep DEF SkipDependency, running
  <2>3. CASE ConfigureDependency
    BY <2>3, ConfigureDependencyStep DEF ConfigureDependency, running
  <2>4. CASE DependencyDone
    BY <2>4, DependencyDoneStep DEF DependencyDone
  <2>5. CASE ConfigurePackage
    BY <2>5, ConfigurePackageStep DEF ConfigurePackage, running
  <2>6. CASE VirtualProvided
    BY <2>6, VirtualProvidedStep DEF VirtualProvided, running
  <2>7. CASE VirtualNeeded
    BY <2>7, VirtualNeededStep DEF VirtualNeeded, running
  <2>8. CASE ChooseProvider
    BY <2>8, ChooseProviderStep DEF ChooseProvider, running
  <2>9. CASE DeclineProvider
    BY <2>9, DeclineProviderStep DEF DeclineProvider, running
  <2>10. CASE ChosenProviderDone
    BY <2>10, ChosenProviderDoneStep DEF ChosenProviderDone
  <2>11. CASE ConfigureProvider
    BY <2>11, ConfigureProviderStep DEF ConfigureProvider, running
  <2>12. CASE ProviderDone
    BY <2>12, ProviderDoneStep DEF ProviderDone
  <2>13. CASE ItemSucceeded
    BY <2>13, ItemSucceededStep DEF ItemSucceeded
  <2>14. CASE ItemBackedUp
    BY <2>14, ItemBackedUpStep DEF ItemBackedUp
  <2>15. CASE ItemExits
    BY <2>15, ItemExitsStep DEF ItemExits
  <2>16. CASE ItemFailed
    BY <2>16, ItemFailedStep DEF ItemFailed
  <2> QED BY <1>3, <2>1, <2>2, <2>3, <2>4, <2>5, <2>6, <2>7, <2>8, <2>9, <2>10,
             <2>11, <2>12, <2>13, <2>14, <2>15, <2>16 DEF Next
<1> QED BY <1>1, <1>2, <1>3

\* IInv is an invariant of main-menu.
THEOREM Invariance == Spec => []IInv
<1>1. Init => IInv
  BY InitInv
<1>2. IInv /\ [Next]_vars => IInv'
  BY StepInv
<1> QED BY <1>1, <1>2, PTL DEF Spec

\* Every variable keeps its type, for every set of packages and every limit.
THEOREM TypeCorrect == Spec => []TypeOK
<1>1. IInv => TypeOK
  BY DEF IInv
<1> QED BY <1>1, Invariance, PTL

\* main-menu and debconf agree about the priority at every menu, and the
\* priority main-menu set is never above the default it will restore.
THEOREM PriorityAgrees == Spec => []PriorityInStep
<1>1. IInv => PriorityInStep
  BY DEF IInv
<1> QED BY <1>1, Invariance, PTL

\* A menu the user does not see runs the computed default.
THEOREM HiddenRunsDefault == Spec => []HiddenMeansDefault
<1>1. IInv => HiddenMeansDefault
  BY DEF IInv
<1> QED BY <1>1, Invariance, PTL

\* After a failure or a backup the user sees the menu.
THEOREM MenuShown == Spec => MenuWhenAsked
<1>1. IInv /\ [Next]_vars =>
        [pc = "menu" /\ pc' = "run" /\ display_menu => shown']_vars
  BY StepInv
<1> QED BY <1>1, Invariance, PTL DEF Spec, MenuWhenAsked

-----------------------------------------------------------------------------
(***************************************************************************)
(* The recursion.  What holds of one activation depends on its callers, so *)
(* the invariant is about all frames of the stack: each waits for the one  *)
(* above it, has passed only what is settled, and is not deeper than twice *)
(* the counted recursions below it.                                        *)
(***************************************************************************)

\* Results with which every caller returns at once.
Backing == {FAILED, EXIT_BACKUP}

\* A package that di_config_package may pass over, given statuses m and the
\* virtual packages D that were declined.
Settled(d, m, D) ==
    \/ m[d] = "installed"
    \/ IF d \in Real THEN m[d] = "absent" ELSE \A e \in ProviderSet(d) : m[e] = "absent"
    \/ d \in D

\* The activations that call, and what they call.
Calls(f) ==
    \/ f.at = "deps" /\ f.i <= Len(Depends[f.p])
    \/ f.at = "one"
    \/ f.at = "all" /\ f.i <= Len(Providers[f.p])

Callee(f) ==
    IF f.at = "deps" THEN Depends[f.p][f.i]
    ELSE IF f.at = "one" THEN f.pick ELSE Providers[f.p][f.i]

Shaped(f) ==
    /\ f.at = "deps" => f.i <= Len(Depends[f.p]) + 1
    /\ f.at = "virtual" => f.i = 1
    /\ f.at \in {"ask", "one"} => f.pick \in ProviderSet(f.p)
    /\ f.at = "all" => f.i <= Len(Providers[f.p]) + 1

\* What an activation has behind it.
Passed(f, m, D) ==
    /\ f.at = "deps" => \A j \in 1..(f.i - 1) : Settled(Depends[f.p][j], m, D)
    /\ f.at \in {"ask", "one"} => m[f.pick] # "absent"
    /\ f.at = "all" => /\ \E d \in ProviderSet(f.p) : m[d] # "absent"
                       /\ \A j \in 1..(f.i - 1) : Settled(Providers[f.p][j], m, D)

HasProvider(m) ==
    \A v \in Virtual : m[v] = "installed" => \E d \in ProviderSet(v) : m[d] = "installed"

\* Recursions of di_config_package below the k-th activation.
Count(s, k) == Cardinality({j \in 1..(k - 1) : s[j].at = "deps"})

Held(s) ==
    \A k \in DOMAIN s :
        /\ Shaped(s[k])
        /\ k < Len(s) => Calls(s[k]) /\ s[k + 1].p = Callee(s[k])

Deep(s) ==
    \A k \in DOMAIN s : k <= 2 * Count(s, k) + (IF s[k].at = "deps" THEN 1 ELSE 0)

\* A recursion is also counted between the return and the caller's next step.
Busy ==
    Count(stack, Len(stack))
    + (IF pc = "run" /\ ret # NoRet /\ top.at = "deps" THEN 1 ELSE 0)

Linked ==
    /\ pc # "run" => stack = <<>>
    /\ Held(stack)
    /\ pc = "run" => IF ret = NoRet THEN top.at # "one" ELSE Calls(top)

Bounded == Deep(stack) /\ Busy <= depth /\ Busy <= MaxDepth

Progress ==
    /\ pc = "menu" => ret = NoRet /\ HasProvider(mem)
    /\ pc = "run" /\ ret \notin Backing =>
          /\ HasProvider(mem)
          /\ \A k \in DOMAIN stack : Passed(stack[k], mem, declined)
          /\ ret # NoRet => Settled(Callee(top), mem, declined)

SInv == Linked /\ Bounded /\ Progress

\* Statuses only get better: nothing installed is lost, nothing appears or goes.
Grows(m, D, n, E) ==
    /\ \A p \in Packages : m[p] = "installed" => n[p] = "installed"
    /\ \A p \in Real : n[p] = "absent" <=> m[p] = "absent"
    /\ D \subseteq E

\* Then what was settled remains so,
LEMMA SettledKept ==
    ASSUME NEW m, NEW D, NEW n, NEW E, Grows(m, D, n, E),
           NEW d \in Packages, Settled(d, m, D)
    PROVE  Settled(d, n, E)
<1>1. d \in Virtual => ProviderSet(d) \subseteq Real
  BY ProvidersType
<1> QED BY <1>1 DEF Grows, Settled, Packages

\* and what an activation has behind it.
LEMMA PassedKept ==
    ASSUME NEW m, NEW D, NEW n, NEW E, Grows(m, D, n, E),
           NEW f \in Frames, Shaped(f), Passed(f, m, D)
    PROVE  Passed(f, n, E)
<1>1. CASE f.at = "deps"
  <2>1. f.p \in Real /\ Depends[f.p] \in Seq(Packages) /\ f.i \in Nat
    BY <1>1, FrameFacts, ConstantsAssumption
  <2>2. \A j \in 1..(f.i - 1) : Depends[f.p][j] \in Packages
    BY <1>1, <2>1 DEF Shaped
  <2> QED BY <1>1, <2>2, SettledKept DEF Passed
<1>2. CASE f.at = "all"
  <2>1. f.p \in Virtual /\ f.i \in Nat
    BY <1>2, FrameFacts
  <2>2. Providers[f.p] \in Seq(Real) /\ ProviderSet(f.p) \subseteq Real
    BY <2>1, ProvidersType
  <2>3. \A j \in 1..(f.i - 1) : Providers[f.p][j] \in Packages
    BY <1>2, <2>1, <2>2 DEF Shaped, Packages
  <2>4. \E d \in ProviderSet(f.p) : n[d] # "absent"
    BY <1>2, <2>2 DEF Passed, Grows
  <2> QED BY <1>2, <2>3, <2>4, SettledKept DEF Passed
<1>3. CASE f.at \in {"ask", "one"}
  <2>1. f.p \in Virtual /\ f.pick \in ProviderSet(f.p)
    BY <1>3, FrameFacts DEF Shaped
  <2>2. f.pick \in Real
    BY <2>1, ProvidersType
  <2> QED BY <1>3, <2>2 DEF Passed, Grows
<1>4. CASE f.at = "virtual"
  BY <1>4 DEF Passed
<1> QED BY <1>1, <1>2, <1>3, <1>4 DEF Frames

\* Counting one activation further.
LEMMA CountStep ==
    ASSUME NEW s, NEW k \in Nat \ {0}
    PROVE  /\ Count(s, k) \in Nat
           /\ Count(s, k + 1) = Count(s, k) + (IF s[k].at = "deps" THEN 1 ELSE 0)
<1> DEFINE S == {j \in 1..(k - 1) : s[j].at = "deps"}
           T == {j \in 1..(k + 1 - 1) : s[j].at = "deps"}
<1>1. IsFiniteSet(S)
  <2>1. IsFiniteSet(1..(k - 1))
    BY FS_Interval
  <2> QED BY <2>1, FS_Subset
<1>2. Cardinality(S) \in Nat
  BY <1>1, FS_CardinalityType
<1>3. k \notin S
  OBVIOUS
<1>6. Count(s, k) = Cardinality(S) /\ Count(s, k + 1) = Cardinality(T)
  BY DEF Count
<1>4. CASE s[k].at = "deps"
  <2>1. T = S \cup {k}
    BY <1>4
  <2>2. Cardinality(S \cup {k}) = Cardinality(S) + 1
    BY <1>1, <1>3, FS_AddElement
  <2> HIDE DEF S, T
  <2> QED BY <1>2, <1>4, <1>6, <2>1, <2>2
<1>5. CASE s[k].at # "deps"
  <2>1. T = S
    BY <1>5
  <2> HIDE DEF S, T
  <2> QED BY <1>2, <1>5, <1>6, <2>1
<1> QED BY <1>4, <1>5

\* The count depends only on the activations below.
LEMMA CountSame ==
    ASSUME NEW s, NEW t, NEW k \in Nat, \A j \in 1..(k - 1) : t[j] = s[j]
    PROVE  Count(t, k) = Count(s, k)
<1>1. {j \in 1..(k - 1) : t[j].at = "deps"} = {j \in 1..(k - 1) : s[j].at = "deps"}
  OBVIOUS
<1> QED BY <1>1 DEF Count

\* The three things that happen to the stack: its last activation returns,
LEMMA ReturnSeq ==
    ASSUME NEW s \in Seq(Frames), NEW t \in Seq(Frames), Held(s), Deep(s),
           Len(s) # 0, Len(t) = Len(s) - 1, \A k \in 1..Len(t) : t[k] = s[k]
    PROVE  /\ Held(t) /\ Deep(t)
           /\ Len(t) # 0 => /\ Calls(t[Len(t)]) /\ Callee(t[Len(t)]) = s[Len(s)].p
                            /\ Count(t, Len(t)) + (IF t[Len(t)].at = "deps" THEN 1 ELSE 0)
                                  = Count(s, Len(s))
<1>1. DOMAIN s = 1..Len(s) /\ DOMAIN t = 1..Len(t) /\ Len(s) \in Nat /\ Len(t) \in Nat
  OBVIOUS
<1>2. Held(t)
  BY <1>1 DEF Held
<1>3. Deep(t)
  <2> SUFFICES ASSUME NEW k \in 1..Len(t)
               PROVE  k <= 2 * Count(t, k) + (IF t[k].at = "deps" THEN 1 ELSE 0)
    BY <1>1 DEF Deep
  <2>1. Count(t, k) = Count(s, k)
    BY <1>1, CountSame
  <2>2. t[k] = s[k] /\ k \in DOMAIN s
    BY <1>1
  <2> QED BY <2>1, <2>2 DEF Deep
<1>4. ASSUME Len(t) # 0
      PROVE  /\ Calls(t[Len(t)]) /\ Callee(t[Len(t)]) = s[Len(s)].p
             /\ Count(t, Len(t)) + (IF t[Len(t)].at = "deps" THEN 1 ELSE 0)
                   = Count(s, Len(s))
  <2>1. Len(t) \in DOMAIN s /\ Len(t) < Len(s) /\ Len(t) + 1 = Len(s) /\ t[Len(t)] = s[Len(t)]
    BY <1>1, <1>4
  <2>2. Calls(t[Len(t)]) /\ Callee(t[Len(t)]) = s[Len(s)].p
    BY <2>1 DEF Held
  <2>3. Count(t, Len(t)) = Count(s, Len(t))
    BY <1>1, CountSame
  <2>4. Count(s, Len(t) + 1) = Count(s, Len(t)) + (IF s[Len(t)].at = "deps" THEN 1 ELSE 0)
    BY <1>1, <1>4, CountStep
  <2> QED BY <2>1, <2>2, <2>3, <2>4
<1> QED BY <1>2, <1>3, <1>4

\* goes on,
LEMMA ReplaceSeq ==
    ASSUME NEW s \in Seq(Frames), NEW t \in Seq(Frames), Held(s), Deep(s),
           Len(s) # 0, Len(t) = Len(s), \A k \in 1..(Len(s) - 1) : t[k] = s[k],
           t[Len(s)].p = s[Len(s)].p, Shaped(t[Len(s)]),
           t[Len(s)].at = "deps" <=> s[Len(s)].at = "deps"
    PROVE  /\ Held(t) /\ Deep(t)
           /\ Count(t, Len(s)) = Count(s, Len(s))
<1>1. DOMAIN s = 1..Len(s) /\ DOMAIN t = 1..Len(s) /\ Len(s) \in Nat
  OBVIOUS
<1>2. Held(t)
  <2> SUFFICES ASSUME NEW k \in 1..Len(s)
               PROVE  /\ Shaped(t[k])
                      /\ k < Len(t) => Calls(t[k]) /\ t[k + 1].p = Callee(t[k])
    BY <1>1 DEF Held
  <2>1. CASE k = Len(s)
    BY <2>1
  <2>2. CASE k < Len(s)
    <3>1. t[k] = s[k] /\ t[k + 1].p = s[k + 1].p
      BY <1>1, <2>2
    <3> QED BY <1>1, <2>2, <3>1 DEF Held
  <2>3. k = Len(s) \/ k < Len(s)
    <3>1. k \in Int /\ k <= Len(s) /\ Len(s) \in Int
      OBVIOUS
    <3> QED BY <3>1
  <2> QED BY <2>1, <2>2, <2>3
<1>3. \A k \in 1..Len(s) : Count(t, k) = Count(s, k)
  BY <1>1, CountSame
<1>4. Deep(t)
  <2> SUFFICES ASSUME NEW k \in 1..Len(s)
               PROVE  k <= 2 * Count(t, k) + (IF t[k].at = "deps" THEN 1 ELSE 0)
    BY <1>1 DEF Deep
  <2>1. t[k].at = "deps" <=> s[k].at = "deps"
    BY <1>1
  <2> QED BY <1>1, <1>3, <2>1 DEF Deep
<1> QED BY <1>1, <1>2, <1>3, <1>4

\* A place of a stack is the last one, the one below it, or further down.
LEMMA LastTwo ==
    ASSUME NEW n \in Nat, NEW j \in 1..(n + 1)
    PROVE  j = n + 1 \/ j = n \/ j < n
  OBVIOUS

\* The stack stays so when the top frame calls.
LEMMA PushSeq ==
    ASSUME NEW s \in Seq(Frames), NEW t \in Seq(Frames), Held(s), Deep(s),
           Len(s) # 0, Len(t) = Len(s) + 1, \A k \in 1..(Len(s) - 1) : t[k] = s[k],
           t[Len(s)].p = s[Len(s)].p, Shaped(t[Len(s)]), Calls(t[Len(s)]),
           t[Len(s)].at = "deps" <=> s[Len(s)].at = "deps",
           t[Len(t)].p = Callee(t[Len(s)]), Shaped(t[Len(t)]),
           t[Len(s)].at = "deps" \/ t[Len(t)].at = "deps"
    PROVE  /\ Held(t) /\ Deep(t)
           /\ Count(t, Len(t)) = Count(s, Len(s)) + (IF s[Len(s)].at = "deps" THEN 1 ELSE 0)
<1>1. DOMAIN s = 1..Len(s) /\ DOMAIN t = 1..Len(t) /\ Len(s) \in Nat \ {0}
  OBVIOUS
<1>2. Held(t)
  <2> SUFFICES ASSUME NEW k \in 1..Len(t)
               PROVE  /\ Shaped(t[k])
                      /\ k < Len(t) => Calls(t[k]) /\ t[k + 1].p = Callee(t[k])
    BY <1>1 DEF Held
  <2>1. CASE k = Len(s)
    <3>1. k + 1 = Len(t)
      BY <2>1
    <3> QED BY <2>1, <3>1
  <2>4. CASE k = Len(t)
    BY <2>4
  <2>2. CASE k < Len(s)
    <3>1. t[k] = s[k] /\ t[k + 1].p = s[k + 1].p
      BY <1>1, <2>2
    <3> QED BY <1>1, <2>2, <3>1 DEF Held
  <2>3. k = Len(t) \/ k = Len(s) \/ k < Len(s)
    <3>1. Len(s) \in Nat /\ k \in 1..(Len(s) + 1)
      BY <1>1
    <3> QED BY <3>1, LastTwo
  <2> QED BY <2>1, <2>2, <2>3, <2>4
<1>3. \A k \in 1..Len(s) : Count(t, k) = Count(s, k)
  BY <1>1, CountSame
<1>4. Count(t, Len(t)) = Count(s, Len(s)) + (IF s[Len(s)].at = "deps" THEN 1 ELSE 0)
  <2>1. Count(t, Len(s) + 1) = Count(t, Len(s)) + (IF t[Len(s)].at = "deps" THEN 1 ELSE 0)
    BY <1>1, CountStep
  <2> QED BY <1>1, <1>3, <2>1
<1>5. Deep(t)
  <2> SUFFICES ASSUME NEW k \in 1..Len(t)
               PROVE  k <= 2 * Count(t, k) + (IF t[k].at = "deps" THEN 1 ELSE 0)
    BY <1>1 DEF Deep
  <2>1. CASE k \in 1..Len(s)
    <3>1. t[k].at = "deps" <=> s[k].at = "deps"
      BY <1>1, <2>1
    <3> QED BY <1>1, <1>3, <2>1, <3>1 DEF Deep
  <2>2. CASE k = Len(t)
    <3>1. Len(s) <= 2 * Count(s, Len(s)) + (IF s[Len(s)].at = "deps" THEN 1 ELSE 0)
      BY <1>1 DEF Deep
    <3>2. Count(s, Len(s)) \in Nat
      BY <1>1, CountStep
    <3> QED BY <1>1, <1>4, <2>2, <3>1, <3>2
  <2> QED BY <1>1, <2>1, <2>2
<1> QED BY <1>2, <1>4, <1>5

\* Position by position, what the three forms of stack' are.
LEMMA BelowFacts ==
    ASSUME TypeOK, stack # <<>>
    PROVE  \A k \in 1..(Len(stack) - 1) : below[k] = stack[k]
<1>1. stack \in Seq(Frames) /\ Len(stack) \in Nat \ {0}
  BY TopBelow DEF TypeOK
<1> QED BY <1>1 DEF below

\* A return takes the top frame off the stack and leaves the others as they are.
LEMMA StackReturn ==
    ASSUME TypeOK, pc = "run", NEW r, return(r)
    PROVE  /\ stack' \in Seq(Frames) /\ stack \in Seq(Frames)
           /\ Len(stack) # 0 /\ Len(stack') = Len(stack) - 1
           /\ \A k \in 1..Len(stack') : stack'[k] = stack[k]
           /\ ret' = r
           /\ pc' = IF Len(stack') = 0 THEN "done" ELSE "run"
<1>1. stack # <<>> /\ stack \in Seq(Frames)
  BY DEF TypeOK
<1>2. stack' = below /\ ret' = r /\ pc' = IF Len(stack) = 1 THEN "done" ELSE "run"
  BY DEF return
<1> QED BY <1>1, <1>2, TopBelow, BelowFacts

\* A frame that goes on replaces itself and no other.
LEMMA StackReplace ==
    ASSUME TypeOK, pc = "run", NEW f \in Frames, stack' = Append(below, f)
    PROVE  /\ stack' \in Seq(Frames) /\ stack \in Seq(Frames)
           /\ Len(stack) # 0 /\ Len(stack') = Len(stack)
           /\ \A k \in 1..(Len(stack) - 1) : stack'[k] = stack[k]
           /\ stack'[Len(stack)] = f
<1>1. stack # <<>> /\ stack \in Seq(Frames)
  BY DEF TypeOK
<1>2. below \in Seq(Frames) /\ Len(stack) \in Nat \ {0} /\ Len(below) = Len(stack) - 1
  BY <1>1, TopBelow
<1>3. stack' \in Seq(Frames) /\ Len(stack') = Len(below) + 1 /\ stack'[Len(below) + 1] = f
  BY <1>2
<1>4. \A k \in 1..Len(below) : stack'[k] = below[k]
  BY <1>2
<1> QED BY <1>1, <1>2, <1>3, <1>4, BelowFacts

\* A call keeps the caller's frame and puts the callee's on top of it.
LEMMA StackPush ==
    ASSUME TypeOK, pc = "run", NEW f \in Frames, NEW p \in Packages, push(f, p)
    PROVE  /\ stack' \in Seq(Frames) /\ stack \in Seq(Frames)
           /\ Len(stack) # 0 /\ Len(stack') = Len(stack) + 1
           /\ \A k \in 1..(Len(stack) - 1) : stack'[k] = stack[k]
           /\ stack'[Len(stack)] = f /\ stack'[Len(stack')] = Entry(p)
<1>1. stack # <<>> /\ stack \in Seq(Frames)
  BY DEF TypeOK
<1>2. below \in Seq(Frames) /\ Len(stack) \in Nat \ {0} /\ Len(below) = Len(stack) - 1
  BY <1>1, TopBelow
<1> DEFINE t == Append(below, f)
<1>3. t \in Seq(Frames) /\ Len(t) = Len(below) + 1 /\ t[Len(below) + 1] = f
      /\ \A k \in 1..Len(below) : t[k] = below[k]
  BY <1>2
<1>4. Entry(p) \in Frames /\ stack' = Append(t, Entry(p))
  BY EntryType DEF push
<1> HIDE DEF t
<1>5. stack' \in Seq(Frames) /\ Len(stack') = Len(t) + 1 /\ stack'[Len(t) + 1] = Entry(p)
      /\ \A k \in 1..Len(t) : stack'[k] = t[k]
  BY <1>3, <1>4
<1> QED BY <1>1, <1>2, <1>3, <1>5, BelowFacts

\* A fresh activation has nothing behind it.
LEMMA EntryFacts ==
    ASSUME NEW p \in Packages
    PROVE  /\ Entry(p).p = p /\ Entry(p).at \in {"deps", "virtual"}
           /\ Entry(p).at = "deps" <=> p \in Real
           /\ Shaped(Entry(p)) /\ \A m, D : Passed(Entry(p), m, D)
<1>1. /\ Entry(p).p = p /\ Entry(p).at = (IF p \in Real THEN "deps" ELSE "virtual")
      /\ Entry(p).i = 1
  BY DEF Entry
<1>2. p \in Real => Len(Depends[p]) \in Nat
  BY ConstantsAssumption
<1>3. Shaped(Entry(p))
  BY <1>1, <1>2 DEF Shaped
<1>4. \A m, D : Passed(Entry(p), m, D)
  BY <1>1 DEF Passed
<1> QED BY <1>1, <1>3, <1>4

\* What an activation calls is a package, and for a virtual package a real one.
LEMMA CalleeType ==
    ASSUME NEW f \in Frames, Calls(f), Shaped(f)
    PROVE  Callee(f) \in Packages /\ (f.at # "deps" => Callee(f) \in Real)
<1>1. CASE f.at = "deps"
  <2>1. f.p \in Real /\ Depends[f.p] \in Seq(Packages) /\ f.i \in Nat \ {0}
    BY <1>1, FrameFacts, ConstantsAssumption
  <2>2. f.i <= Len(Depends[f.p]) /\ Callee(f) = Depends[f.p][f.i]
    BY <1>1 DEF Calls, Callee
  <2> QED BY <1>1, <2>1, <2>2
<1>2. CASE f.at = "one"
  <2>1. f.p \in Virtual /\ f.pick \in ProviderSet(f.p) /\ Callee(f) = f.pick
    BY <1>2, FrameFacts DEF Callee, Shaped
  <2> QED BY <2>1, ProvidersType DEF Packages
<1>3. CASE f.at = "all"
  <2>1. f.p \in Virtual /\ f.i \in Nat \ {0}
    BY <1>3, FrameFacts
  <2>2. Providers[f.p] \in Seq(Real)
    BY <2>1, ProvidersType
  <2>3. f.i <= Len(Providers[f.p]) /\ Callee(f) = Providers[f.p][f.i]
    BY <1>3 DEF Calls, Callee
  <2> QED BY <2>1, <2>2, <2>3 DEF Packages
<1> QED BY <1>1, <1>2, <1>3 DEF Calls

\* An activation returns r: its caller is the one that called it.  A result that
\* makes callers go on must leave the package settled.
LEMMA ReturnKeeps ==
    ASSUME TypeOK, SInv, pc = "run", NEW r \in Rets \ {NoRet}, return(r),
           depth' \in Int, Count(stack, Len(stack)) <= depth',
           r \notin Backing => /\ ret \notin Backing
                               /\ Grows(mem, declined, mem', declined')
                               /\ HasProvider(mem')
                               /\ Settled(top.p, mem', declined')
    PROVE  SInv'
<1>1. /\ stack' \in Seq(Frames) /\ stack \in Seq(Frames)
      /\ Len(stack) # 0 /\ Len(stack') = Len(stack) - 1
      /\ \A k \in 1..Len(stack') : stack'[k] = stack[k]
      /\ ret' = r /\ pc' = IF Len(stack') = 0 THEN "done" ELSE "run"
  BY StackReturn
<1>2. Held(stack) /\ Deep(stack)
  BY DEF SInv, Linked, Bounded
<1>3. /\ Held(stack') /\ Deep(stack')
      /\ Len(stack') # 0 =>
            /\ Calls(stack'[Len(stack')]) /\ Callee(stack'[Len(stack')]) = stack[Len(stack)].p
            /\ Count(stack', Len(stack')) + (IF stack'[Len(stack')].at = "deps" THEN 1 ELSE 0)
                  = Count(stack, Len(stack))
  BY <1>1, <1>2, ReturnSeq
<1>4. top = stack[Len(stack)] /\ top' = stack'[Len(stack')] /\ ret' # NoRet
  BY <1>1 DEF top
<1>5. Linked'
  <2>1. pc' # "run" => stack' = <<>>
    BY <1>1
  <2>2. pc' = "run" => Calls(top')
    BY <1>1, <1>3, <1>4
  <2> QED BY <1>3, <1>4, <2>1, <2>2 DEF Linked
<1>6. Bounded'
  <2>1. Count(stack, Len(stack)) \in Nat /\ Count(stack, Len(stack)) <= MaxDepth
    <3>1. Len(stack) \in Nat \ {0}
      BY <1>1
    <3>2. Count(stack, Len(stack)) \in Nat
      BY <3>1, CountStep
    <3>3. Busy <= MaxDepth /\ MaxDepth \in Nat
      BY ConstantsAssumption DEF SInv, Bounded
    <3> QED BY <3>2, <3>3 DEF Busy
  <2>2. CASE Len(stack') = 0
    <3>1. Count(stack', Len(stack')) = 0
      BY <2>2, FS_EmptySet DEF Count
    <3>2. Busy' = 0
      BY <1>1, <2>2, <3>1 DEF Busy
    <3> QED BY <1>3, <2>1, <3>2, ConstantsAssumption DEF Bounded
  <2>3. CASE Len(stack') # 0
    <3>1. Busy' = Count(stack, Len(stack))
      BY <1>1, <1>3, <1>4, <2>3 DEF Busy
    <3> QED BY <1>3, <2>1, <3>1 DEF Bounded
  <2> QED BY <2>2, <2>3
<1>7. Progress'
  <2>1. pc' # "menu"
    BY <1>1
  <2> SUFFICES ASSUME pc' = "run", r \notin Backing
               PROVE  /\ HasProvider(mem')
                      /\ \A k \in DOMAIN stack' : Passed(stack'[k], mem', declined')
                      /\ Settled(Callee(top'), mem', declined')
    BY <1>1, <2>1 DEF Progress
  <2>2. Len(stack') # 0
    BY <1>1
  <2>3. Settled(Callee(top'), mem', declined')
    BY <1>3, <1>4, <2>2
  <2>4. ASSUME NEW k \in DOMAIN stack' PROVE Passed(stack'[k], mem', declined')
    <3>1. k \in DOMAIN stack /\ stack'[k] = stack[k] /\ stack[k] \in Frames
      BY <1>1
    <3>2. Shaped(stack[k]) /\ Passed(stack[k], mem, declined)
      BY <1>2, <3>1 DEF Held, SInv, Progress
    <3> QED BY <3>1, <3>2, PassedKept
  <2> QED BY <2>3, <2>4
<1> QED BY <1>5, <1>6, <1>7 DEF SInv

\* An activation goes on in another state.
LEMMA ReplaceKeeps ==
    ASSUME TypeOK, SInv, pc = "run", UNCHANGED <<pc, mem, declined>>,
           NEW f \in Frames, stack' = Append(below, f), f.p = top.p,
           f.at = "deps" <=> top.at = "deps", f.at # "one", Shaped(f),
           ret \notin Backing, ret' = NoRet, Passed(f, mem, declined),
           depth' \in Int, Count(stack, Len(stack)) <= depth'
    PROVE  SInv'
<1>1. /\ stack' \in Seq(Frames) /\ stack \in Seq(Frames)
      /\ Len(stack) # 0 /\ Len(stack') = Len(stack)
      /\ \A k \in 1..(Len(stack) - 1) : stack'[k] = stack[k]
      /\ stack'[Len(stack)] = f
  BY StackReplace
<1>2. Held(stack) /\ Deep(stack)
  BY DEF SInv, Linked, Bounded
<1>3. top = stack[Len(stack)] /\ top' = f
  BY <1>1 DEF top
<1>4. Held(stack') /\ Deep(stack') /\ Count(stack', Len(stack)) = Count(stack, Len(stack))
  BY <1>1, <1>2, <1>3, ReplaceSeq
<1>5. Linked'
  BY <1>3, <1>4 DEF Linked
<1>6. Bounded'
  <2>1. Count(stack, Len(stack)) \in Nat
    <3>1. Len(stack) \in Nat \ {0}
      BY <1>1
    <3> QED BY <3>1, CountStep
  <2>2. Count(stack, Len(stack)) <= MaxDepth
    BY <2>1, ConstantsAssumption DEF SInv, Bounded, Busy
  <2>3. Busy' = Count(stack, Len(stack))
    BY <1>1, <1>4, <2>1 DEF Busy
  <2> QED BY <1>4, <2>2, <2>3 DEF Bounded
<1>7. Progress'
  <2>1. HasProvider(mem) /\ \A k \in DOMAIN stack : Passed(stack[k], mem, declined)
    BY DEF SInv, Progress
  <2>2. ASSUME NEW k \in DOMAIN stack' PROVE Passed(stack'[k], mem', declined')
    <3>1. k \in 1..Len(stack)
      BY <1>1
    <3>2. k = Len(stack) \/ k \in 1..(Len(stack) - 1)
      BY <1>1, <3>1
    <3>3. k \in DOMAIN stack
      BY <1>1, <3>1
    <3> QED BY <1>1, <2>1, <3>2, <3>3
  <2> QED BY <2>1, <2>2 DEF Progress
<1> QED BY <1>5, <1>6, <1>7 DEF SInv

\* An activation calls another one.
LEMMA PushKeeps ==
    ASSUME TypeOK, SInv, pc = "run", ret = NoRet, UNCHANGED <<pc, ret, mem, declined>>,
           NEW f \in Frames, push(f, Callee(f)), f.p = top.p,
           f.at = "deps" <=> top.at = "deps", Shaped(f), Calls(f), Passed(f, mem, declined),
           depth' \in Int,
           Count(stack, Len(stack)) + (IF f.at = "deps" THEN 1 ELSE 0) <= depth',
           Count(stack, Len(stack)) + (IF f.at = "deps" THEN 1 ELSE 0) <= MaxDepth
    PROVE  SInv'
<1> DEFINE e == Entry(Callee(f))
<1>1. Callee(f) \in Packages /\ (f.at # "deps" => Callee(f) \in Real)
  BY CalleeType
<1>2. /\ stack' \in Seq(Frames) /\ stack \in Seq(Frames)
      /\ Len(stack) # 0 /\ Len(stack') = Len(stack) + 1
      /\ \A k \in 1..(Len(stack) - 1) : stack'[k] = stack[k]
      /\ stack'[Len(stack)] = f /\ stack'[Len(stack')] = e
  BY <1>1, StackPush
<1>3. /\ e.p = Callee(f) /\ e.at \in {"deps", "virtual"} /\ Shaped(e)
      /\ Passed(e, mem, declined) /\ (f.at = "deps" \/ e.at = "deps")
  BY <1>1, EntryFacts
<1> HIDE DEF e
<1>4. Held(stack) /\ Deep(stack)
  BY DEF SInv, Linked, Bounded
<1>5. top = stack[Len(stack)] /\ top' = e
  BY <1>2 DEF top
<1>6. /\ Held(stack') /\ Deep(stack')
      /\ Count(stack', Len(stack')) =
            Count(stack, Len(stack)) + (IF stack[Len(stack)].at = "deps" THEN 1 ELSE 0)
  BY <1>2, <1>3, <1>4, <1>5, PushSeq
<1>7. Linked'
  BY <1>3, <1>5, <1>6 DEF Linked
<1>8. Bounded'
  <2>1. Count(stack, Len(stack)) \in Nat
    <3>1. Len(stack) \in Nat \ {0}
      BY <1>2
    <3> QED BY <3>1, CountStep
  <2>2. Busy' = Count(stack', Len(stack'))
    BY <1>6, <2>1 DEF Busy
  <2> QED BY <1>5, <1>6, <2>1, <2>2 DEF Bounded
<1>9. Progress'
  <2>1. HasProvider(mem) /\ \A k \in DOMAIN stack : Passed(stack[k], mem, declined)
    BY DEF SInv, Progress, Backing, NoRet, FAILED, EXIT_BACKUP
  <2>2. ASSUME NEW k \in DOMAIN stack' PROVE Passed(stack'[k], mem', declined')
    <3>1. k = Len(stack') \/ k = Len(stack) \/ k \in 1..(Len(stack) - 1)
      BY <1>2
    <3>2. CASE k \in 1..(Len(stack) - 1)
      <4>1. k \in DOMAIN stack
        BY <1>2, <3>2
      <4> QED BY <1>2, <2>1, <3>2, <4>1
    <3> QED BY <1>2, <1>3, <3>1, <3>2
  <2> QED BY <2>1, <2>2 DEF Progress
<1> QED BY <1>7, <1>8, <1>9 DEF SInv

-----------------------------------------------------------------------------
\* The steps of the recursion, again.

\* What a running activation may rely on.
LEMMA TopFacts ==
    ASSUME TypeOK, SInv, pc = "run"
    PROVE  /\ stack # <<>> /\ Len(stack) \in Nat \ {0} /\ Len(stack) \in DOMAIN stack
           /\ top = stack[Len(stack)] /\ top \in Frames /\ Shaped(top)
           /\ Count(stack, Len(stack)) \in Nat
           /\ Count(stack, Len(stack)) <= depth /\ Count(stack, Len(stack)) <= MaxDepth
           /\ ret # NoRet => /\ Calls(top)
                             /\ top.at = "deps" => Count(stack, Len(stack)) <= depth - 1
           /\ ret = NoRet => top.at # "one" /\ ret \notin Backing
           /\ ret \notin Backing => /\ HasProvider(mem) /\ Passed(top, mem, declined)
                                    /\ ret # NoRet => Settled(Callee(top), mem, declined)
           /\ depth \in Int /\ MaxDepth \in Nat /\ ret \in Rets
           /\ mem \in [Packages -> Statuses] /\ declined \subseteq Virtual
<1>1. stack # <<>> /\ stack \in Seq(Frames) /\ depth \in Int /\ MaxDepth \in Nat
  BY ConstantsAssumption DEF TypeOK
<1>2. Len(stack) \in Nat \ {0} /\ top = stack[Len(stack)] /\ top \in Frames
  BY <1>1, TopBelow DEF top
<1>3. Len(stack) \in DOMAIN stack
  BY <1>1, <1>2
<1>4. Count(stack, Len(stack)) \in Nat
  BY <1>2, CountStep
<1>5. Shaped(top)
  BY <1>2, <1>3 DEF SInv, Linked, Held
<1>6. Busy <= depth /\ Busy <= MaxDepth
  BY DEF SInv, Bounded
<1>7. ret = NoRet => ret \notin Backing
  BY DEF NoRet, Backing, FAILED, EXIT_BACKUP
<1>8. IF ret = NoRet THEN top.at # "one" ELSE Calls(top)
  BY DEF SInv, Linked
<1>9. /\ Count(stack, Len(stack)) <= depth /\ Count(stack, Len(stack)) <= MaxDepth
      /\ ret # NoRet /\ top.at = "deps" => Count(stack, Len(stack)) <= depth - 1
  BY <1>1, <1>4, <1>6 DEF Busy
<1>10. ret \notin Backing => /\ HasProvider(mem) /\ Passed(top, mem, declined)
                             /\ ret # NoRet => Settled(Callee(top), mem, declined)
  BY <1>2, <1>3 DEF SInv, Progress
<1> QED BY <1>1, <1>2, <1>3, <1>4, <1>5, <1>7, <1>8, <1>9, <1>10, RunningFacts

\* Doing nothing to the statuses is a way for them to grow.
LEMMA GrowsSame ==
    ASSUME NEW m, NEW D PROVE Grows(m, D, m, D)
  BY DEF Grows

\* A package that is not there returns at once, and counts as settled.
LEMMA NonExistentStack ==
    ASSUME TypeOK, SInv, NonExistent PROVE SInv'
<1>1. pc = "run" /\ ret = NoRet /\ return(EXIT_OK) /\ UNCHANGED <<mem, depth, declined>>
  BY DEF NonExistent, running
<1>2. EXIT_OK \in Rets \ {NoRet} /\ EXIT_OK \notin Backing
  BY DEF Rets, EXIT_OK, NoRet, Backing, FAILED, EXIT_BACKUP
<1>3. Settled(top.p, mem, declined)
  <2>1. non_existent(top.p)
    BY DEF NonExistent
  <2> QED BY <2>1 DEF non_existent, present, Settled
<1>4. mem' = mem /\ declined' = declined /\ depth' = depth
  BY <1>1
<1> QED BY <1>1, <1>2, <1>3, <1>4, TopFacts, GrowsSame, ReturnKeeps

\* An activation that has its i-th dependency or provider settled goes on.
LEMMA NextPassed ==
    ASSUME NEW f \in Frames, NEW m, NEW D, Shaped(f), Passed(f, m, D), Calls(f),
           f.at # "one", Settled(Callee(f), m, D)
    PROVE  /\ [f EXCEPT !.i = @ + 1] \in Frames
           /\ [f EXCEPT !.i = @ + 1].p = f.p /\ [f EXCEPT !.i = @ + 1].at = f.at
           /\ Shaped([f EXCEPT !.i = @ + 1]) /\ Passed([f EXCEPT !.i = @ + 1], m, D)
<1> DEFINE g == [f EXCEPT !.i = @ + 1]
<1>1. g \in Frames
  BY NextFrame
<1>2. g.p = f.p /\ g.at = f.at /\ g.i = f.i + 1 /\ g.pick = f.pick /\ f.i \in Nat \ {0}
  BY FrameFacts DEF Frames
<1> HIDE DEF g
<1>3. CASE f.at = "deps"
  <2>1. f.p \in Real
    BY <1>3, FrameFacts
  <2>2. Len(Depends[f.p]) \in Nat /\ f.i <= Len(Depends[f.p]) /\ Callee(f) = Depends[f.p][f.i]
    BY <1>3, <2>1, ConstantsAssumption DEF Calls, Callee
  <2>3. Shaped(g)
    BY <1>2, <1>3, <2>2 DEF Shaped
  <2>4. \A j \in 1..(g.i - 1) : j = f.i \/ j \in 1..(f.i - 1)
    BY <1>2
  <2>5. \A j \in 1..(f.i - 1) : Settled(Depends[f.p][j], m, D)
    BY <1>3 DEF Passed
  <2>6. \A j \in 1..(g.i - 1) : Settled(Depends[g.p][j], m, D)
    BY <1>2, <2>2, <2>4, <2>5
  <2> QED BY <1>1, <1>2, <1>3, <2>3, <2>6 DEF Passed, g
<1>4. CASE f.at = "all"
  <2>1. f.p \in Virtual
    BY <1>4, FrameFacts
  <2>2. Len(Providers[f.p]) \in Nat /\ f.i <= Len(Providers[f.p])
        /\ Callee(f) = Providers[f.p][f.i]
    BY <1>4, <2>1, ProvidersType DEF Calls, Callee
  <2>3. Shaped(g)
    BY <1>2, <1>4, <2>2 DEF Shaped
  <2>4. \A j \in 1..(g.i - 1) : j = f.i \/ j \in 1..(f.i - 1)
    BY <1>2
  <2>5. /\ \A j \in 1..(f.i - 1) : Settled(Providers[f.p][j], m, D)
        /\ \E d \in ProviderSet(f.p) : m[d] # "absent"
    BY <1>4 DEF Passed
  <2>6. \A j \in 1..(g.i - 1) : Settled(Providers[g.p][j], m, D)
    BY <1>2, <2>2, <2>4, <2>5
  <2> QED BY <1>1, <1>2, <1>4, <2>3, <2>5, <2>6 DEF Passed, g
<1> QED BY <1>3, <1>4 DEF Calls

\* An installed dependency is settled, so the frame may pass it.
LEMMA SkipStack ==
    ASSUME TypeOK, SInv, SkipDependency PROVE SInv'
<1>1. /\ pc = "run" /\ ret = NoRet /\ top.at = "deps" /\ top.i <= Len(deps)
      /\ installed(deps[top.i])
      /\ stack' = Append(below, [top EXCEPT !.i = @ + 1])
      /\ UNCHANGED <<pc, mem, ret, depth, declined>>
  BY DEF SkipDependency, running
<1>2. Calls(top) /\ Callee(top) = deps[top.i]
  BY <1>1 DEF Calls, Callee, deps
<1>3. Settled(Callee(top), mem, declined)
  BY <1>1, <1>2 DEF Settled, installed
<1>4. /\ top \in Frames /\ Shaped(top) /\ Passed(top, mem, declined)
      /\ ret \notin Backing /\ depth \in Int /\ Count(stack, Len(stack)) <= depth
  BY <1>1, TopFacts
<1>5. /\ [top EXCEPT !.i = @ + 1] \in Frames
      /\ [top EXCEPT !.i = @ + 1].p = top.p /\ [top EXCEPT !.i = @ + 1].at = top.at
      /\ Shaped([top EXCEPT !.i = @ + 1]) /\ Passed([top EXCEPT !.i = @ + 1], mem, declined)
  BY <1>1, <1>2, <1>3, <1>4, NextPassed
<1> QED BY <1>1, <1>4, <1>5, ReplaceKeeps

\* A dependency is called one level deeper, or refused at the recursion limit;
\* either way the frame that calls it stays below.
LEMMA ConfigureDependencyStack ==
    ASSUME TypeOK, SInv, ConfigureDependency PROVE SInv'
<1>1. /\ pc = "run" /\ ret = NoRet /\ top.at = "deps" /\ top.i <= Len(deps)
      /\ UNCHANGED <<mem, declined>>
      /\ depth' = IF depth > MaxDepth THEN depth ELSE depth + 1
  BY DEF ConfigureDependency, running
<1>2. /\ top \in Frames /\ Shaped(top) /\ Passed(top, mem, declined)
      /\ depth \in Int /\ MaxDepth \in Nat
      /\ Count(stack, Len(stack)) \in Nat /\ Count(stack, Len(stack)) <= depth
  BY <1>1, TopFacts
<1>3. CASE depth + 1 > MaxDepth
  <2>1. return(FAILED)
    BY <1>3 DEF ConfigureDependency
  <2>2. FAILED \in Rets \ {NoRet} /\ FAILED \in Backing
    BY DEF Rets, FAILED, NoRet, Backing
  <2>3. depth' \in Int /\ Count(stack, Len(stack)) <= depth'
    BY <1>1, <1>2
  <2> QED BY <1>1, <2>1, <2>2, <2>3, ReturnKeeps
<1>4. CASE ~(depth + 1 > MaxDepth)
  <2>1. push(top, deps[top.i]) /\ UNCHANGED <<pc, ret>>
    BY <1>4 DEF ConfigureDependency
  <2>2. Calls(top) /\ Callee(top) = deps[top.i]
    BY <1>1 DEF Calls, Callee, deps
  <2>3. /\ depth' \in Int /\ Count(stack, Len(stack)) + 1 <= depth'
        /\ Count(stack, Len(stack)) + 1 <= MaxDepth
    BY <1>1, <1>2, <1>4
  <2> QED BY <1>1, <1>2, <2>1, <2>2, <2>3, PushKeeps
<1> QED BY <1>3, <1>4

\* A failure or a backup is passed on by every caller.
LEMMA PassOn ==
    ASSUME TypeOK, SInv, pc = "run", ret \in Backing, return(ret),
           depth' \in Int, Count(stack, Len(stack)) <= depth'
    PROVE  SInv'
<1>1. ret \in Rets \ {NoRet}
  BY DEF Rets, Backing, FAILED, NoRet, EXIT_BACKUP
<1> QED BY <1>1, ReturnKeeps

\* The caller passes the dependency that returned, or backs out with it.
LEMMA DependencyDoneStack ==
    ASSUME TypeOK, SInv, DependencyDone PROVE SInv'
<1>1. /\ pc = "run" /\ ret # NoRet /\ top.at = "deps"
      /\ depth' = depth - 1 /\ UNCHANGED <<mem, declined>>
  BY DEF DependencyDone
<1>2. /\ top \in Frames /\ Shaped(top) /\ Calls(top) /\ depth \in Int
      /\ Count(stack, Len(stack)) <= depth - 1
      /\ ret \notin Backing => /\ Passed(top, mem, declined)
                               /\ Settled(Callee(top), mem, declined)
  BY <1>1, TopFacts
<1>3. depth' \in Int /\ Count(stack, Len(stack)) <= depth'
  BY <1>1, <1>2
<1>4. CASE ret \in Backing
  <2>1. return(ret)
    BY <1>4 DEF DependencyDone, Backing
  <2> QED BY <1>1, <1>3, <1>4, <2>1, PassOn
<1>5. CASE ret \notin Backing
  <2>1. stack' = Append(below, [top EXCEPT !.i = @ + 1]) /\ ret' = NoRet /\ UNCHANGED pc
    BY <1>5 DEF DependencyDone, Backing
  <2>2. /\ [top EXCEPT !.i = @ + 1] \in Frames
        /\ [top EXCEPT !.i = @ + 1].p = top.p /\ [top EXCEPT !.i = @ + 1].at = top.at
        /\ Shaped([top EXCEPT !.i = @ + 1]) /\ Passed([top EXCEPT !.i = @ + 1], mem, declined)
    BY <1>1, <1>2, <1>5, NextPassed
  <2> QED BY <1>1, <1>3, <1>5, <2>1, <2>2, ReplaceKeeps
<1> QED BY <1>4, <1>5

\* With all providers to configure, satisfy_virtual goes on to the next one.
LEMMA ProviderDoneStack ==
    ASSUME TypeOK, SInv, ProviderDone PROVE SInv'
<1>1. /\ pc = "run" /\ ret # NoRet /\ top.at = "all" /\ UNCHANGED <<mem, depth, declined>>
  BY DEF ProviderDone
<1>2. /\ top \in Frames /\ Shaped(top) /\ Calls(top) /\ depth \in Int
      /\ Count(stack, Len(stack)) <= depth
      /\ ret \notin Backing => /\ Passed(top, mem, declined)
                               /\ Settled(Callee(top), mem, declined)
  BY <1>1, TopFacts
<1>4. CASE ret \in Backing
  <2>1. return(ret)
    BY <1>4 DEF ProviderDone, Backing
  <2> QED BY <1>1, <1>2, <1>4, <2>1, PassOn
<1>5. CASE ret \notin Backing
  <2>1. stack' = Append(below, [top EXCEPT !.i = @ + 1]) /\ ret' = NoRet /\ UNCHANGED pc
    BY <1>5 DEF ProviderDone, Backing
  <2>2. /\ [top EXCEPT !.i = @ + 1] \in Frames
        /\ [top EXCEPT !.i = @ + 1].p = top.p /\ [top EXCEPT !.i = @ + 1].at = top.at
        /\ Shaped([top EXCEPT !.i = @ + 1]) /\ Passed([top EXCEPT !.i = @ + 1], mem, declined)
    BY <1>1, <1>2, <1>5, NextPassed
  <2> QED BY <1>1, <1>2, <1>5, <2>1, <2>2, ReplaceKeeps
<1> QED BY <1>4, <1>5

\* A virtual package is marked installed when a provider is: nothing is lost.
LEMMA SatisfiedGrows ==
    ASSUME mem \in [Packages -> Statuses], NEW v \in Virtual, Satisfied(v), NEW D,
           HasProvider(mem), \E d \in ProviderSet(v) : mem[d] = "installed"
    PROVE  /\ Grows(mem, D, mem', D) /\ HasProvider(mem') /\ Settled(v, mem', D)
<1>1. mem' = [mem EXCEPT ![v] = "installed"] /\ v \in Packages /\ v \notin Real
  BY ConstantsAssumption DEF Satisfied, Packages
<1>2. mem'[v] = "installed" /\ \A p \in Packages \ {v} : mem'[p] = mem[p]
  BY <1>1
<1>3. Real \subseteq Packages \ {v}
  BY <1>1 DEF Packages
<1>4. Grows(mem, D, mem', D)
  BY <1>2, <1>3 DEF Grows
<1>5. HasProvider(mem')
  <2> SUFFICES ASSUME NEW w \in Virtual, mem'[w] = "installed"
               PROVE  \E d \in ProviderSet(w) : mem'[d] = "installed"
    BY DEF HasProvider
  <2>1. \E d \in ProviderSet(w) : mem[d] = "installed"
    BY <1>2 DEF HasProvider, Packages
  <2>2. ProviderSet(w) \subseteq Real
    BY ProvidersType
  <2> QED BY <1>2, <1>3, <2>1, <2>2
<1> QED BY <1>2, <1>4, <1>5 DEF Settled

\* A package that is present and was settled by its own activation is installed.
LEMMA RealSettled ==
    ASSUME NEW d \in Real, NEW m, NEW D \in SUBSET Virtual, Settled(d, m, D), m[d] # "absent"
    PROVE  m[d] = "installed"
  BY ConstantsAssumption DEF Settled

\* satisfy_virtual returns 1 only when a provider is installed.
LEMMA SatisfiedReturn ==
    ASSUME TypeOK, SInv, pc = "run", ret \notin Backing, top.at # "deps",
           Satisfied(top.p), return(1), UNCHANGED <<depth, declined>>,
           \E d \in ProviderSet(top.p) : mem[d] = "installed"
    PROVE  SInv'
<1>1. 1 \in Rets \ {NoRet} /\ 1 \notin Backing
  BY DEF Rets, NoRet, Backing, FAILED, EXIT_BACKUP
<1>2. /\ HasProvider(mem) /\ mem \in [Packages -> Statuses] /\ top \in Frames
      /\ depth \in Int /\ Count(stack, Len(stack)) <= depth
  BY TopFacts
<1>3. top.p \in Virtual
  BY <1>2, FrameFacts
<1>4. /\ Grows(mem, declined, mem', declined) /\ HasProvider(mem')
      /\ Settled(top.p, mem', declined)
  BY <1>2, <1>3, SatisfiedGrows
<1> QED BY <1>1, <1>2, <1>4, ReturnKeeps

\* A virtual package that has an installed provider is settled.
LEMMA VirtualProvidedStack ==
    ASSUME TypeOK, SInv, VirtualProvided PROVE SInv'
<1>1. /\ pc = "run" /\ ret = NoRet /\ top.at = "virtual"
      /\ \E d \in ProviderSet(top.p) : mem[d] = "installed"
      /\ Satisfied(top.p) /\ return(1) /\ UNCHANGED <<depth, declined>>
  BY DEF VirtualProvided, running, installed
<1>2. ret \notin Backing
  BY <1>1, TopFacts
<1> QED BY <1>1, <1>2, SatisfiedReturn

\* Without one, satisfy_virtual asks or configures all providers, and the frame
\* still stands for the package its caller waits for.
LEMMA VirtualNeededStack ==
    ASSUME TypeOK, SInv, VirtualNeeded PROVE SInv'
<1>1. /\ pc = "run" /\ ret = NoRet /\ top.at = "virtual" /\ ~non_existent(top.p)
      /\ UNCHANGED <<pc, mem, ret, depth, declined>>
  BY DEF VirtualNeeded, running
<1>2. /\ top \in Frames /\ ret \notin Backing /\ depth \in Int
      /\ Count(stack, Len(stack)) <= depth
  BY <1>1, TopFacts
<1>3. top.p \in Virtual /\ top.p \notin Real
  BY <1>1, <1>2, FrameFacts, ConstantsAssumption
<1>4. CASE \E d \in ProviderSet(top.p) : present(d) /\ Item[d] # 0
  <2>1. PICK d \in DefaultProvider(top.p) :
           stack' = Append(below, [top EXCEPT !.at = "ask", !.pick = d])
    BY <1>4 DEF VirtualNeeded
  <2>2. d \in ProviderSet(top.p) /\ mem[d] # "absent" /\ d \in Real
    BY <1>3, ProvidersType DEF DefaultProvider, ProviderSet, present
  <2> DEFINE f == [top EXCEPT !.at = "ask", !.pick = d]
  <2>3. f \in Frames
    BY <1>1, <1>2, <2>2, AskFrame
  <2>4. f.p = top.p /\ f.at = "ask" /\ f.pick = d
    BY <1>2 DEF Frames
  <2>5. stack' = Append(below, f)
    BY <2>1
  <2> HIDE DEF f
  <2>6. Shaped(f) /\ Passed(f, mem, declined)
    BY <2>2, <2>4 DEF Shaped, Passed
  <2> QED BY <1>1, <1>2, <2>3, <2>4, <2>5, <2>6, ReplaceKeeps
<1>5. CASE ~\E d \in ProviderSet(top.p) : present(d) /\ Item[d] # 0
  <2> DEFINE f == [top EXCEPT !.at = "all"]
  <2>1. stack' = Append(below, f)
    BY <1>5 DEF VirtualNeeded
  <2>2. f \in Frames
    BY <1>1, <1>2, AllFrame
  <2>3. f.p = top.p /\ f.at = "all" /\ f.i = top.i
    BY <1>2 DEF Frames
  <2> HIDE DEF f
  <2>4. top.i = 1
    BY <1>1, <1>2, TopFacts DEF Shaped
  <2>5. Len(Providers[f.p]) \in Nat
    BY <1>3, <2>3, ProvidersType
  <2>6. \E d \in ProviderSet(f.p) : mem[d] # "absent"
    BY <1>1, <1>3, <2>3 DEF non_existent, present
  <2>7. Shaped(f) /\ Passed(f, mem, declined)
    BY <2>3, <2>4, <2>5, <2>6 DEF Shaped, Passed
  <2> QED BY <1>1, <1>2, <2>1, <2>2, <2>3, <2>7, ReplaceKeeps
<1> QED BY <1>4, <1>5

\* The provider the user chose is called on top of the virtual package's frame.
LEMMA ChooseProviderStack ==
    ASSUME TypeOK, SInv, ChooseProvider PROVE SInv'
<1>1. /\ pc = "run" /\ ret = NoRet /\ top.at = "ask"
      /\ UNCHANGED <<pc, mem, ret, depth, declined>>
  BY DEF ChooseProvider, running
<1>2. /\ top \in Frames /\ Shaped(top) /\ Passed(top, mem, declined) /\ depth \in Int
      /\ Count(stack, Len(stack)) \in Nat
      /\ Count(stack, Len(stack)) <= depth /\ Count(stack, Len(stack)) <= MaxDepth
  BY <1>1, TopFacts
<1>3. top.p \in Virtual
  BY <1>1, <1>2, FrameFacts
<1>4. PICK d \in IF visible(1) THEN {d \in ProviderSet(top.p) : present(d)} ELSE {top.pick} :
         push([top EXCEPT !.at = "one", !.pick = d], d)
  BY DEF ChooseProvider
<1>5. d \in ProviderSet(top.p) /\ mem[d] # "absent"
  BY <1>1, <1>2, <1>4 DEF present, Shaped, Passed
<1>6. d \in Real
  BY <1>3, <1>5, ProvidersType
<1> DEFINE f == [top EXCEPT !.at = "one", !.pick = d]
<1>7. f \in Frames
  BY <1>1, <1>2, <1>6, OneFrame
<1>8. f.p = top.p /\ f.at = "one" /\ f.pick = d
  BY <1>2 DEF Frames
<1>9. push(f, d)
  BY <1>4
<1> HIDE DEF f
<1>10. Calls(f) /\ Callee(f) = d /\ Shaped(f) /\ Passed(f, mem, declined)
  BY <1>5, <1>8 DEF Calls, Callee, Shaped, Passed
<1> QED BY <1>1, <1>2, <1>7, <1>8, <1>9, <1>10, PushKeeps

\* A question the user does not answer settles the virtual package as declined.
LEMMA DeclineProviderStack ==
    ASSUME TypeOK, SInv, DeclineProvider PROVE SInv'
<1>1. /\ pc = "run" /\ ret = NoRet /\ return(0) /\ UNCHANGED <<mem, depth>>
      /\ declined' = declined \cup {top.p}
  BY DEF DeclineProvider, running
<1>2. 0 \in Rets \ {NoRet} /\ 0 \notin Backing
  BY DEF Rets, NoRet, Backing, FAILED, EXIT_BACKUP, EXIT_OK
<1>3. Settled(top.p, mem, declined') /\ Grows(mem, declined, mem, declined')
  BY <1>1 DEF Settled, Grows
<1> QED BY <1>1, <1>2, <1>3, TopFacts, ReturnKeeps

\* A chosen provider that succeeded has installed the virtual package.
LEMMA ChosenProviderDoneStack ==
    ASSUME TypeOK, SInv, ChosenProviderDone PROVE SInv'
<1>1. pc = "run" /\ ret # NoRet /\ top.at = "one" /\ UNCHANGED <<depth, declined>>
  BY DEF ChosenProviderDone
<1>2. /\ top \in Frames /\ Shaped(top) /\ depth \in Int /\ declined \subseteq Virtual
      /\ Count(stack, Len(stack)) <= depth
      /\ ret \notin Backing => /\ Passed(top, mem, declined)
                               /\ Settled(Callee(top), mem, declined)
  BY <1>1, TopFacts
<1>3. CASE ret \in Backing
  <2>1. return(ret)
    BY <1>3 DEF ChosenProviderDone, Backing
  <2> QED BY <1>1, <1>2, <1>3, <2>1, PassOn
<1>4. CASE ret \notin Backing
  <2>1. return(1) /\ Satisfied(top.p)
    BY <1>4 DEF ChosenProviderDone, Backing
  <2>2. top.pick \in ProviderSet(top.p) /\ Callee(top) = top.pick /\ mem[top.pick] # "absent"
    BY <1>1, <1>2, <1>4 DEF Shaped, Callee, Passed
  <2>3. top.pick \in Real
    BY <1>1, <1>2, <2>2, FrameFacts, ProvidersType
  <2>4. mem[top.pick] = "installed"
    BY <1>2, <1>4, <2>2, <2>3, RealSettled
  <2> QED BY <1>1, <1>4, <2>1, <2>2, <2>4, SatisfiedReturn
<1> QED BY <1>3, <1>4

\* The providers are called one after another, and when they are done, one of
\* them being installed settles the virtual package.
LEMMA ConfigureProviderStack ==
    ASSUME TypeOK, SInv, ConfigureProvider PROVE SInv'
<1>1. pc = "run" /\ ret = NoRet /\ top.at = "all" /\ UNCHANGED <<depth, declined>>
  BY DEF ConfigureProvider, running
<1>2. /\ top \in Frames /\ Shaped(top) /\ Passed(top, mem, declined) /\ depth \in Int
      /\ Count(stack, Len(stack)) \in Nat /\ declined \subseteq Virtual
      /\ Count(stack, Len(stack)) <= depth /\ Count(stack, Len(stack)) <= MaxDepth
      /\ ret \notin Backing
  BY <1>1, TopFacts
<1>3. top.p \in Virtual /\ top.i \in Nat \ {0}
  BY <1>1, <1>2, FrameFacts
<1>4. Providers[top.p] \in Seq(Real)
  BY <1>3, ProvidersType
<1>5. CASE top.i <= Len(Providers[top.p])
  <2>1. push(top, Providers[top.p][top.i]) /\ UNCHANGED <<pc, mem, ret>>
    BY <1>5 DEF ConfigureProvider
  <2>2. Calls(top) /\ Callee(top) = Providers[top.p][top.i]
    BY <1>1, <1>5 DEF Calls, Callee
  <2> QED BY <1>1, <1>2, <2>1, <2>2, PushKeeps
<1>6. CASE ~(top.i <= Len(Providers[top.p]))
  <2>1. return(1) /\ Satisfied(top.p)
    BY <1>6 DEF ConfigureProvider
  <2>2. PICK j \in DOMAIN Providers[top.p] : mem[Providers[top.p][j]] # "absent"
    BY <1>1, <1>2 DEF Passed, ProviderSet
  <2>3. j \in 1..(top.i - 1) /\ Providers[top.p][j] \in Real
    BY <1>3, <1>4, <1>6
  <2>4. Settled(Providers[top.p][j], mem, declined)
    BY <1>1, <1>2, <2>3 DEF Passed
  <2>5. mem[Providers[top.p][j]] = "installed"
    BY <1>2, <2>2, <2>3, <2>4, RealSettled
  <2>6. \E d \in ProviderSet(top.p) : mem[d] = "installed"
    BY <2>5 DEF ProviderSet
  <2> QED BY <1>1, <1>2, <2>1, <2>6, SatisfiedReturn
<1> QED BY <1>5, <1>6

\* A package is configured once all its dependencies have been passed; whatever
\* its postinst does, what was settled stays so.
LEMMA ConfigurePackageStack ==
    ASSUME TypeOK, SInv, ConfigurePackage PROVE SInv'
<1>1. /\ pc = "run" /\ ret = NoRet /\ top.at = "deps" /\ ~non_existent(top.p)
      /\ UNCHANGED <<depth, declined>>
  BY DEF ConfigurePackage, running
<1>2. /\ top \in Frames /\ ret \notin Backing /\ depth \in Int /\ HasProvider(mem)
      /\ Count(stack, Len(stack)) <= depth /\ mem \in [Packages -> Statuses]
  BY <1>1, TopFacts
<1>3. top.p \in Real /\ top.p \in Packages /\ mem[top.p] # "absent"
  BY <1>1, <1>2, FrameFacts DEF non_existent, present, Packages
<1>4. PICK r \in {EXIT_OK, EXIT_BACKUP, EXIT_INSTALLER, FAILED} :
         /\ return(r)
         /\ mem' = [mem EXCEPT ![top.p] =
                      IF r \in {EXIT_OK, EXIT_INSTALLER}
                      THEN "installed" ELSE "half_configured"]
  BY DEF ConfigurePackage
<1>5. r \in Rets \ {NoRet}
  BY <1>4 DEF Rets, NoRet, FAILED, EXIT_BACKUP, EXIT_OK, EXIT_INSTALLER
<1>6. ASSUME r \notin Backing
      PROVE  /\ Grows(mem, declined, mem', declined) /\ HasProvider(mem')
             /\ Settled(top.p, mem', declined)
  <2>1. r \in {EXIT_OK, EXIT_INSTALLER}
    BY <1>4, <1>6 DEF Backing
  <2>2. mem'[top.p] = "installed" /\ \A p \in Packages \ {top.p} : mem'[p] = mem[p]
    BY <1>2, <1>3, <1>4, <2>1
  <2>3. Grows(mem, declined, mem', declined)
    BY <1>3, <2>2 DEF Grows, Packages
  <2>4. HasProvider(mem')
    <3> SUFFICES ASSUME NEW v \in Virtual, mem'[v] = "installed"
                 PROVE  \E d \in ProviderSet(v) : mem'[d] = "installed"
      BY DEF HasProvider
    <3>1. v # top.p /\ v \in Packages
      BY <1>3, ConstantsAssumption DEF Packages
    <3>2. \E d \in ProviderSet(v) : mem[d] = "installed"
      BY <1>2, <2>2, <3>1 DEF HasProvider
    <3>3. ProviderSet(v) \subseteq Packages
      BY ProvidersType DEF Packages
    <3> QED BY <2>2, <3>2, <3>3
  <2> QED BY <2>2, <2>3, <2>4 DEF Settled
<1> QED BY <1>1, <1>2, <1>4, <1>5, <1>6, ReturnKeeps

-----------------------------------------------------------------------------
\* The menu and what follows the item, again.

\* A stack without activations is in order.
LEMMA EmptyStack ==
    Held(<<>>) /\ Deep(<<>>) /\ Count(<<>>, Len(<<>>)) = 0
<1>1. DOMAIN <<>> = {} /\ Len(<<>>) = 0
  OBVIOUS
<1>2. {j \in 1..(0 - 1) : <<>>[j].at = "deps"} = {}
  OBVIOUS
<1>3. Count(<<>>, 0) = 0
  BY <1>2, FS_EmptySet DEF Count
<1> QED BY <1>1, <1>3 DEF Held, Deep

\* The first activation of an item is the package's own.
LEMMA FirstFrame ==
    ASSUME NEW p \in Real
    PROVE  /\ Held(<<Entry(p)>>) /\ Deep(<<Entry(p)>>)
           /\ Count(<<Entry(p)>>, 1) = 0 /\ Entry(p).at = "deps"
<1>1. p \in Packages
  BY DEF Packages
<1>2. Entry(p).at = "deps" /\ Shaped(Entry(p)) /\ Entry(p) \in Frames
  BY <1>1, EntryFacts, EntryType
<1> DEFINE s == <<Entry(p)>>
<1>3. DOMAIN s = {1} /\ Len(s) = 1 /\ s[1] = Entry(p)
  OBVIOUS
<1> HIDE DEF s
<1>4. {j \in 1..(1 - 1) : s[j].at = "deps"} = {}
  OBVIOUS
<1>5. Count(s, 1) = 0
  BY <1>4, FS_EmptySet DEF Count
<1>6. Held(s)
  BY <1>2, <1>3 DEF Held
<1>7. Deep(s)
  BY <1>2, <1>3, <1>5 DEF Deep
<1> QED BY <1>2, <1>5, <1>6, <1>7 DEF s

\* An item is run from an empty stack.
LEMMA ShowMenuStack ==
    ASSUME IInv, IInv', SInv, show_main_menu PROVE SInv'
<1>1. /\ pc = "menu" /\ UNCHANGED <<ret, depth, declined, mem>>
      /\ pc' \in {"run", "failed"}
      /\ pc' = "failed" => stack' = stack
      /\ pc' = "run" => stack' = <<Entry(item')>>
  BY DEF show_main_menu
<1>2. /\ stack = <<>> /\ ret = NoRet /\ HasProvider(mem) /\ Busy <= depth /\ Busy <= MaxDepth
  BY <1>1 DEF SInv, Linked, Bounded, Progress
<1>3. depth \in Int /\ MaxDepth \in Nat
  BY ConstantsAssumption DEF IInv, TypeOK
<1>4. Busy = 0
  BY <1>1, <1>2, EmptyStack DEF Busy
<1>5. CASE pc' = "failed"
  <2>1. Linked'
    BY <1>1, <1>2, <1>5, EmptyStack DEF Linked
  <2>2. Bounded'
    <3>1. Busy' = 0 /\ Deep(stack')
      BY <1>1, <1>2, <1>5, EmptyStack DEF Busy
    <3> QED BY <1>1, <1>2, <1>3, <1>4, <3>1 DEF Bounded
  <2>3. Progress'
    BY <1>5 DEF Progress
  <2> QED BY <2>1, <2>2, <2>3 DEF SInv
<1>6. CASE pc' = "run"
  <2>1. item' \in Real /\ item' \in Packages /\ stack' = <<Entry(item')>>
    BY <1>1, <1>6 DEF IInv, TypeOK, Packages
  <2>2. /\ Held(<<Entry(item')>>) /\ Deep(<<Entry(item')>>)
        /\ Count(<<Entry(item')>>, 1) = 0 /\ Entry(item').at = "deps"
    BY <2>1, FirstFrame
  <2> DEFINE e == Entry(item')
  <2>3. stack' = <<e>> /\ e.at = "deps" /\ \A m, D : Passed(e, m, D)
    BY <2>1, <2>2, EntryFacts
  <2> HIDE DEF e
  <2>4. Len(stack') = 1 /\ top' = e /\ DOMAIN stack' = {1} /\ stack'[1] = e
    BY <2>3 DEF top
  <2>5. Linked'
    BY <1>1, <1>2, <1>6, <2>1, <2>2, <2>3, <2>4 DEF Linked
  <2>6. Bounded'
    <3>1. Busy' = 0
      BY <1>1, <1>2, <2>1, <2>2, <2>4 DEF Busy
    <3> QED BY <1>1, <1>2, <1>3, <1>4, <2>1, <2>2, <3>1 DEF Bounded
  <2>7. Progress'
    BY <1>1, <1>2, <1>6, <2>3, <2>4 DEF Progress
  <2> QED BY <2>5, <2>6, <2>7 DEF SInv
<1> QED BY <1>1, <1>5, <1>6

\* The statuses of virtual packages are forgotten with the item.
LEMMA AfterItemStack ==
    ASSUME TypeOK, SInv, pc = "done", NEW then \in {"menu", "exit"}, AfterItem(then)
    PROVE  SInv'
<1>1. /\ pc' = then /\ mem' = ReadFile(file) /\ ret' = NoRet /\ UNCHANGED <<stack, depth>>
  BY DEF AfterItem
<1>2. stack = <<>> /\ Busy <= depth /\ Busy <= MaxDepth
  BY DEF SInv, Linked, Bounded
<1>3. HasProvider(mem')
  <2>1. \A v \in Virtual : ReadFile(file)[v] = "undefined"
    BY ConstantsAssumption DEF ReadFile, Packages
  <2> QED BY <1>1, <2>1 DEF HasProvider
<1>4. Busy = 0 /\ Busy' = 0
  BY <1>1, <1>2, EmptyStack DEF Busy
<1>5. Linked'
  BY <1>1, <1>2, EmptyStack DEF Linked
<1>6. Bounded'
  BY <1>1, <1>2, <1>4, EmptyStack DEF Bounded
<1>7. Progress'
  BY <1>1, <1>3 DEF Progress
<1> QED BY <1>5, <1>6, <1>7 DEF SInv

\* main starts with an empty stack.
LEMMA InitStack ==
    Init => SInv
<1> SUFFICES ASSUME Init PROVE SInv
  OBVIOUS
<1>1. pc = "menu" /\ stack = <<>> /\ ret = NoRet /\ depth = 0 /\ mem = ReadFile(InitFile)
  BY DEF Init
<1>2. HasProvider(mem)
  <2>1. \A v \in Virtual : ReadFile(InitFile)[v] = "undefined"
    BY ConstantsAssumption DEF ReadFile, Packages
  <2> QED BY <1>1, <2>1 DEF HasProvider
<1>3. Busy = 0
  BY <1>1, EmptyStack DEF Busy
<1>4. MaxDepth \in Nat
  BY ConstantsAssumption
<1> QED BY <1>1, <1>2, <1>3, <1>4, EmptyStack DEF SInv, Linked, Bounded, Progress

\* Every step keeps the invariant of the stack.
LEMMA StepStack ==
    ASSUME IInv, IInv', SInv, [Next]_vars PROVE SInv'
<1>0. TypeOK
  BY DEF IInv
<1>1. CASE show_main_menu
  BY <1>1, ShowMenuStack
<1>2. CASE NonExistent
  BY <1>0, <1>2, NonExistentStack
<1>3. CASE SkipDependency
  BY <1>0, <1>3, SkipStack
<1>4. CASE ConfigureDependency
  BY <1>0, <1>4, ConfigureDependencyStack
<1>5. CASE DependencyDone
  BY <1>0, <1>5, DependencyDoneStack
<1>6. CASE ConfigurePackage
  BY <1>0, <1>6, ConfigurePackageStack
<1>7. CASE VirtualProvided
  BY <1>0, <1>7, VirtualProvidedStack
<1>8. CASE VirtualNeeded
  BY <1>0, <1>8, VirtualNeededStack
<1>9. CASE ChooseProvider
  BY <1>0, <1>9, ChooseProviderStack
<1>10. CASE DeclineProvider
  BY <1>0, <1>10, DeclineProviderStack
<1>11. CASE ChosenProviderDone
  BY <1>0, <1>11, ChosenProviderDoneStack
<1>12. CASE ConfigureProvider
  BY <1>0, <1>12, ConfigureProviderStack
<1>13. CASE ProviderDone
  BY <1>0, <1>13, ProviderDoneStack
<1>14. CASE ItemSucceeded
  BY <1>0, <1>14, AfterItemStack DEF ItemSucceeded
<1>15. CASE ItemBackedUp
  BY <1>0, <1>15, AfterItemStack DEF ItemBackedUp
<1>16. CASE ItemExits
  BY <1>0, <1>16, AfterItemStack DEF ItemExits
<1>17. CASE ItemFailed
  BY <1>0, <1>17, AfterItemStack DEF ItemFailed
<1>18. CASE UNCHANGED vars
  <2>1. UNCHANGED <<pc, stack, ret, depth, declined, mem>>
    BY <1>18 DEF vars, calls
  <2> QED BY <2>1 DEF SInv, Linked, Bounded, Busy, Progress, top
<1> QED BY <1>1, <1>2, <1>3, <1>4, <1>5, <1>6, <1>7, <1>8, <1>9, <1>10, <1>11, <1>12,
           <1>13, <1>14, <1>15, <1>16, <1>17, <1>18 DEF Next

\* SInv is an invariant of main-menu.
THEOREM StackInvariance == Spec => []SInv
<1>1. Init => SInv
  BY InitStack
<1>2. IInv /\ IInv' /\ SInv /\ [Next]_vars => SInv'
  BY StepStack
<1> QED BY <1>1, <1>2, Invariance, PTL DEF Spec

\* A package's own postinst is reached only past all of its dependencies.
THEOREM DependenciesFirst == Spec => []DepsFirst
<1>1. SInv => DepsFirst
  <2> SUFFICES ASSUME SInv, pc = "run", ret \notin Backing, NEW k \in DOMAIN stack,
                      stack[k].at = "deps", NEW j \in 1..(stack[k].i - 1)
               PROVE  LET d == Depends[stack[k].p][j]
                      IN installed(d) \/ non_existent(d) \/ d \in declined
    BY DEF DepsFirst, Backing
  <2>1. Settled(Depends[stack[k].p][j], mem, declined)
    BY DEF SInv, Progress, Passed
  <2> QED BY <2>1 DEF Settled, installed, non_existent, present
<1> QED BY <1>1, StackInvariance, PTL

\* A virtual package counts as configured only when a provider is.
THEOREM ProviderInstalled == Spec => []VirtualHasProvider
<1>1. SInv => VirtualHasProvider
  BY DEF SInv, Progress, HasProvider, VirtualHasProvider, Backing, installed
<1> QED BY <1>1, StackInvariance, PTL

\* A dependency loop stops, however it goes through virtual packages.
THEOREM LoopsStop == Spec => []RecursionBounded
<1>1. TypeOK /\ SInv => RecursionBounded
  <2> SUFFICES ASSUME TypeOK, SInv PROVE RecursionBounded
    OBVIOUS
  <2>1. stack \in Seq(Frames) /\ depth \in Int /\ MaxDepth \in Nat
    BY ConstantsAssumption DEF TypeOK
  <2>2. Deep(stack) /\ Busy <= depth /\ Busy <= MaxDepth
    BY DEF SInv, Bounded
  <2>3. CASE stack = <<>>
    <3>1. Count(stack, Len(stack)) = 0 /\ Len(stack) = 0
      BY <2>3, EmptyStack
    <3>2. pc # "run"
      BY <2>3 DEF TypeOK
    <3>3. 0 <= depth
      BY <2>2, <3>1, <3>2 DEF Busy
    <3> QED BY <2>1, <3>1, <3>3 DEF RecursionBounded, Count
  <2>4. CASE stack # <<>>
    <3>1. Len(stack) \in Nat \ {0} /\ Len(stack) \in DOMAIN stack
      BY <2>1, <2>4
    <3>2. Count(stack, Len(stack)) \in Nat
      BY <3>1, CountStep
    <3>3. Count(stack, Len(stack)) <= depth /\ Count(stack, Len(stack)) <= MaxDepth
      BY <2>1, <2>2, <3>2 DEF Busy
    <3>4. Len(stack) <= 2 * Count(stack, Len(stack)) + 1
      BY <2>2, <3>1, <3>2 DEF Deep
    <3>5. Len(stack) <= 2 * (MaxDepth + 1)
      BY <2>1, <3>1, <3>2, <3>3, <3>4
    <3> QED BY <3>3, <3>5 DEF RecursionBounded, Count
  <2> QED BY <2>3, <2>4
<1> QED BY <1>1, TypeCorrect, StackInvariance, PTL
=============================================================================
