-------------------------------- MODULE Debconf --------------------------------
(***************************************************************************)
(* packages/cdebconf: how debconf collects the questions of a module and   *)
(* asks them.  INPUT puts a question on one of two lists, which are linked *)
(* through the questions themselves; GO asks what is on the first, gives   *)
(* what is on the second a default, and empties both.  The module is the   *)
(* usual one, a row of steps that a backup goes through in reverse; what   *)
(* runs after it has ended is the next module of the same debconf.         *)
(***************************************************************************)
EXTENDS Naturals, Sequences, FiniteSets

CONSTANTS
    Questions,
    Null,
    Steps,      \* the questions each step of the module may ask
    MaxInputs,  \* INPUT commands in one step
    MaxBacks    \* times the user backs up

ASSUME ConstantsAssumption ==
    /\ IsFiniteSet(Questions) /\ Null \notin Questions
    /\ Steps \in Seq(SUBSET Questions) \ {<<>>}
    /\ MaxInputs \in Nat /\ MaxBacks \in Nat

VARIABLES
    at,         \* "module" (it issues commands), "going", "asking", "replied" or "ended"
    fate,       \* of debconf: it "runs", hangs in a loop, or died of an assertion
    \* debconf
    questions, questions_noninteractive,    \* the first of each list
    next, prev,     \* members of a question
    backed_up,
    capb,           \* the module can back up (DCF_CAPB_BACKUP)
    hidden,         \* questions of too low a priority, or seen
    valid,          \* questions whose value is one of their choices
    cursor,         \* the question the user is shown
    reply,          \* what GO returned
    \* the module, and what it has done
    step,
    inputs,         \* questions it has put since the last GO, in order
    skipped,        \* those of them debconf called hidden
    from,           \* the step the user left by backing up, or 0: until a GO is
                    \* answered or fails, or CLEAR takes a question back
    erred,          \* a GO of this module failed
    mishaps,        \* what this GO keeps to itself: the frontend was replaced ("switch"),
                    \* choices could not be split, a question's type is unknown ("type")
    backs

lists == <<questions, questions_noninteractive, next, prev>>
settings == <<capb, hidden, valid>>
history == <<skipped, from, erred, mishaps, backs>>
vars == <<at, fate, lists, backed_up, settings, cursor, reply, step, inputs, history>>

Links == Questions \cup {Null}
N == Cardinality(Questions)

-----------------------------------------------------------------------------
\* Lists.

\* The places a walk along next from a question comes through, Null at its end.
Walk(start) ==
    LET place[i \in 0..N] ==
            IF i = 0 THEN start
            ELSE IF place[i - 1] = Null THEN Null ELSE next[place[i - 1]]
    IN place

Endless(start) == Walk(start)[N] # Null
Members(start) == {Walk(start)[i] : i \in 0..N} \ {Null}

\* The list of questions from start on.
ListFrom(start) ==
    LET length == Cardinality(Members(start))
    IN [i \in 1..length |-> Walk(start)[i - 1]]

\* Where the loop that looks for the end of the list, or for q, stops: there is
\* no such place in a list that runs in a circle without q.
Last(start, q) ==
    {e \in Members(start) : e = q \/ (next[e] = Null /\ q \notin Members(start))}

\* Both lists come with the same assertion.
Linked(q) == prev[q] # Null \/ next[q] # Null

link(e, q) ==
    /\ next' = [next EXCEPT ![e] = q]
    /\ prev' = [prev EXCEPT ![q] = e]

\* A question that is on the list already is ignored.
frontend_add(q) ==
    /\ questions' = IF questions = Null THEN q ELSE questions
    /\ IF questions = Null \/ Last(questions, q) = {q}
       THEN UNCHANGED <<next, prev>>
       ELSE \E e \in Last(questions, q) : link(e, q)
    /\ UNCHANGED questions_noninteractive

frontend_add_noninteractive(q) ==
    /\ questions_noninteractive' =
          IF questions_noninteractive = Null THEN q ELSE questions_noninteractive
    /\ IF questions_noninteractive = Null
       THEN UNCHANGED <<next, prev>>
       ELSE \E e \in Last(questions_noninteractive, q) : link(e, q)
    /\ UNCHANGED questions

\* A mutated frontend_clear: it keeps the links of the questions.
frontend_clear_unlinked_not ==
    /\ questions' = Null /\ questions_noninteractive' = Null
    /\ UNCHANGED <<next, prev>>

unlink ==
    LET cleared == Members(questions) \cup Members(questions_noninteractive) IN
    /\ next' = [q \in Questions |-> IF q \in cleared THEN Null ELSE next[q]]
    /\ prev' = [q \in Questions |-> IF q \in cleared THEN Null ELSE prev[q]]

frontend_clear ==
    /\ questions' = Null /\ questions_noninteractive' = Null
    /\ unlink

-----------------------------------------------------------------------------
Init ==
    /\ at = "module" /\ fate = "runs"
    /\ questions = Null /\ questions_noninteractive = Null
    /\ next = [q \in Questions |-> Null] /\ prev = [q \in Questions |-> Null]
    /\ backed_up = FALSE
    /\ capb = TRUE /\ hidden \in SUBSET Questions /\ valid = {}
    /\ cursor = Null /\ reply = "ok"
    /\ step = 1 /\ inputs = <<>> /\ skipped = {}
    /\ from = 0 /\ erred = FALSE /\ mishaps = {} /\ backs = 0

Asked == {inputs[i] : i \in DOMAIN inputs}
working == at = "module" /\ fate = "runs"

\* SET debconf/priority, FSET seen: the module changes what is hidden.
command_set ==
    /\ working
    /\ \E q \in Questions : hidden' = IF q \in hidden THEN hidden \ {q} ELSE hidden \cup {q}
    /\ UNCHANGED <<at, fate, lists, backed_up, capb, valid, cursor, reply, step, inputs, history>>

\* RESET, and SUBST of the choices.
command_reset ==
    /\ working
    /\ \E q \in valid : valid' = valid \ {q}
    /\ UNCHANGED <<at, fate, lists, backed_up, capb, hidden, cursor, reply, step, inputs, history>>

command_capb ==
    /\ working
    /\ capb' = ~capb
    /\ UNCHANGED <<at, fate, lists, backed_up, hidden, valid, cursor, reply, step, inputs, history>>

\* A mutated command_input: a visible question leaves backed_up alone.
command_input_still_backed_up(q) ==
    /\ inputs' = Append(inputs, q)
    /\ IF q \in hidden
       THEN frontend_add_noninteractive(q) /\ skipped' = skipped \cup {q}
       ELSE frontend_add(q) /\ UNCHANGED skipped
    /\ UNCHANGED <<fate, backed_up>>

command_input(q) ==
    /\ inputs' = Append(inputs, q)
    /\ IF q \in hidden
       THEN /\ frontend_add_noninteractive(q)
            /\ skipped' = skipped \cup {q}
            /\ UNCHANGED backed_up
       ELSE /\ frontend_add(q)
            /\ backed_up' = FALSE
            /\ UNCHANGED skipped
    /\ UNCHANGED fate

\* The assertions, and the search for the end of a list in a circle.
input_fails(q) ==
    LET list == IF q \in hidden THEN questions_noninteractive ELSE questions IN
    /\ fate' = IF Linked(q) THEN "assertion" ELSE "hangs"
    /\ Linked(q) \/ (list # Null /\ Last(list, q) = {})
    /\ inputs' = Append(inputs, q)
    /\ UNCHANGED <<lists, backed_up, skipped>>

Input ==
    /\ working
    /\ Len(inputs) < MaxInputs
    /\ \E q \in Steps[step] :
          \/ /\ ~Linked(q)
             /\ command_input(q)
          \/ input_fails(q)
    /\ UNCHANGED <<at, settings, cursor, reply, step, from, erred, mishaps, backs>>

command_clear ==
    /\ working
    /\ frontend_clear
    /\ inputs' = <<>> /\ skipped' = {}
    /\ from' = IF questions = Null THEN from ELSE 0
    /\ UNCHANGED <<at, fate, backed_up, settings, cursor, reply, step, erred, mishaps, backs>>

-----------------------------------------------------------------------------
\* GO.

\* A mutated GO: what was backed up once is forgotten at once.
command_go_forgetful(ret) ==
    /\ reply' = ret
    /\ backed_up' = (ret = "back")

\* The end of command_go, after the frontend has returned ret.
command_go(ret) ==
    /\ reply' = IF ret = "back" \/ backed_up THEN "back" ELSE ret
    /\ backed_up' = (reply' = "back")

\* The module or the user has asked for another frontend.  The new one takes the heads
\* of both lists over, and deleting the old one cuts their links.  (If there is no such
\* frontend, the old one goes on.)  The new one has capabilities of its own.
switch_frontend ==
    /\ working
    /\ at' = "going"
    /\ unlink
    /\ mishaps' = {"switch"}
    /\ capb' \in BOOLEAN
    /\ UNCHANGED <<fate, questions, questions_noninteractive, backed_up, hidden, valid,
                   cursor, reply, step, inputs, skipped, from, erred, backs>>

\* The questions of a list before its place k.
Passed(start, k) == {Walk(start)[i] : i \in 0..(k - 1)} \ {Null}

\* A mutated frontend_go_noninteractive: only the first question gets a value.
go_noninteractive_first ==
    /\ ~Endless(questions_noninteractive)
    /\ valid' = valid \cup ({questions_noninteractive} \ {Null})
    /\ UNCHANGED mishaps

\* Hidden questions get their first choice, if their value is not one; at a question
\* whose choices cannot be split it stops, and nobody asks why.
go_noninteractive ==
    \/ /\ ~Endless(questions_noninteractive)
       /\ valid' = valid \cup Members(questions_noninteractive)
       /\ UNCHANGED mishaps
    \/ \E k \in 0..N :
          LET list == questions_noninteractive IN
          /\ Walk(list)[k] \notin Passed(list, k) \cup {Null}
          /\ valid' = valid \cup Passed(list, k)
          /\ mishaps' = mishaps \cup {"choices"}

Go ==
    /\ at \in {"module", "going"} /\ fate = "runs"
    /\ \/ /\ Endless(questions_noninteractive)
          /\ fate' = "hangs"
          /\ UNCHANGED <<at, lists, backed_up, valid, cursor, reply, mishaps>>
       \/ /\ questions # Null /\ go_noninteractive
          /\ at' = "asking" /\ cursor' = questions
          /\ UNCHANGED <<fate, lists, backed_up, reply>>
       \/ /\ questions = Null /\ go_noninteractive
          /\ at' = "replied" /\ command_go("ok") /\ frontend_clear
          /\ UNCHANGED <<fate, cursor>>
    /\ UNCHANGED <<capb, hidden, step, inputs, skipped, from, erred, backs>>

\* The frontend's go, over the list of questions: the user answers one,
frontend_answer ==
    /\ at = "asking" /\ fate = "runs"
    /\ valid' = valid \cup {cursor}
    /\ cursor' = next[cursor]
    /\ IF cursor' = Null
       THEN at' = "replied" /\ command_go("ok") /\ frontend_clear /\ from' = 0
       ELSE UNCHANGED <<at, backed_up, reply, lists, from>>
    /\ UNCHANGED <<fate, capb, hidden, step, inputs, skipped, erred, mishaps, backs>>

\* goes back, if only to the one before it on the list,
frontend_back ==
    /\ at = "asking" /\ fate = "runs"
    /\ capb /\ backs < MaxBacks
    /\ backs' = backs + 1
    /\ cursor' = prev[cursor]
    /\ IF cursor' = Null
       THEN at' = "replied" /\ command_go("back") /\ frontend_clear /\ from' = step
       ELSE UNCHANGED <<at, backed_up, reply, lists, from>>
    /\ UNCHANGED <<fate, capb, hidden, valid, step, inputs, skipped, erred, mishaps>>

\* sees nothing, if no handler knows its type (GO takes that for success),
frontend_notimpl ==
    /\ at = "asking" /\ fate = "runs"
    /\ cursor' = Null
    /\ at' = "replied" /\ command_go("ok") /\ frontend_clear
    /\ from' = 0 /\ mishaps' = mishaps \cup {"type"}
    /\ UNCHANGED <<fate, settings, step, inputs, skipped, erred, backs>>

\* or something fails.
frontend_error ==
    /\ at = "asking" /\ fate = "runs"
    /\ cursor' = Null
    /\ at' = "replied" /\ command_go("error") /\ frontend_clear
    /\ erred' = TRUE /\ from' = 0
    /\ UNCHANGED <<fate, settings, step, inputs, skipped, mishaps, backs>>

\* The module takes the reply for the way to go.
Proceed ==
    /\ at = "replied"
    /\ step' = IF reply = "ok" THEN step + 1 ELSE step - 1
    /\ at' = IF step' \in DOMAIN Steps THEN "module" ELSE "ended"
    /\ inputs' = <<>> /\ skipped' = {} /\ mishaps' = {}
    /\ UNCHANGED <<fate, lists, backed_up, settings, cursor, reply, from, erred, backs>>

\* The next module.  When one was backed out of, main-menu asks its own question
\* first, and the user sees it.
NextModule ==
    /\ at = "ended"
    /\ at' = "module" /\ step' = 1
    /\ backed_up' = IF step = 0 THEN FALSE ELSE backed_up
    /\ from' = 0 /\ erred' = FALSE
    /\ UNCHANGED <<fate, lists, settings, cursor, reply, inputs, skipped, mishaps, backs>>

Dead == fate # "runs" /\ UNCHANGED vars

Next ==
    \/ command_set \/ command_reset \/ command_capb \/ Input \/ command_clear
    \/ switch_frontend \/ Go
    \/ frontend_answer \/ frontend_back \/ frontend_notimpl \/ frontend_error
    \/ Proceed \/ NextModule \/ Dead

Spec == Init /\ [][Next]_vars

-----------------------------------------------------------------------------
\* Properties.

Twice == Len(inputs) # Cardinality(Asked)

\* debconf loops or dies of an assertion only when a module puts a question
\* twice before GO (frontend_add means to ignore the second one, and does when
\* the question is alone on its list): links left by an earlier GO are never in
\* the way.
OnlyTwiceFatal == fate # "runs" => Twice

\* A list holds these questions, each once, in the order they were put in.
InOrder(list, these) ==
    /\ {list[i] : i \in DOMAIN list} = these
    /\ \A i, j \in DOMAIN list, k, l \in DOMAIN inputs :
          list[i] = inputs[k] /\ list[j] = inputs[l] => (i < j <=> k < l)

\* As long as no question is put twice the two lists are what the module put,
\* in its order: no question is lost, asked although it is hidden, or given a
\* default although the user is to answer it.  The exception is a GO that replaces the
\* frontend, which loses all but the first of each list.
ListsAreInputs ==
    at \in {"module", "asking"} /\ ~Twice /\ "switch" \notin mishaps =>
        /\ InOrder(ListFrom(questions), Asked \ skipped)
        /\ InOrder(ListFrom(questions_noninteractive), skipped)

\* When GO succeeds every question that was put has a usable value, unless GO replaced
\* the frontend, met choices it could not split or a type without a handler: none of
\* these it reports.
AnsweredValid == at = "replied" /\ reply = "ok" /\ mishaps = {} => Asked \subseteq valid

\* Backing up goes back: the next question the user sees is one of an earlier
\* step, also when steps in between ask nothing.
BackupGoesBack == at = "asking" /\ from # 0 => step < from

\* A module is backed out of only when the user backed up in this very module,
\* or its frontend failed: a backup in an earlier module does not reach it.
EndsByWish == at = "ended" /\ step = 0 => from # 0 \/ erred
=============================================================================
