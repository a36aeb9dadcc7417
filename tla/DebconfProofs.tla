----------------------------- MODULE DebconfProofs -----------------------------
(***************************************************************************)
(* debconf's lists are right for any questions, and any module whose steps *)
(* ask some of them: what the walks along next find, what INPUT and GO do  *)
(* to the lists, also when a question is put twice, and where a backup     *)
(* leads.                                                                  *)
(***************************************************************************)
EXTENDS Debconf, FiniteSetTheorems, WellFoundedInduction, TLAPS

-----------------------------------------------------------------------------
\* Chains: lists as sequences.

Elements(s) == {s[i] : i \in DOMAIN s}
Once(s) == \A i, j \in DOMAIN s : s[i] = s[j] => i = j

\* The list that begins with start is s, through the links nx.
Chain(s, start, nx) ==
    /\ s \in Seq(Questions) /\ Once(s)
    /\ start = IF s = <<>> THEN Null ELSE s[1]
    /\ \A i \in 1..Len(s) : nx[s[i]] = IF i = Len(s) THEN Null ELSE s[i + 1]

\* What Walk's places must satisfy.
Places(g, start) ==
    g = [i \in 0..N |-> IF i = 0 THEN start
                        ELSE IF g[i - 1] = Null THEN Null ELSE next[g[i - 1]]]

\* There are finitely many questions.
LEMMA Many == N \in Nat
  BY ConstantsAssumption, FS_CardinalityType DEF N

\* What satisfies the equation of Walk is Walk.
LEMMA WalkIs ==
    ASSUME NEW start, NEW g, Places(g, start)
    PROVE  \A i \in 0..N : Walk(start)[i] = g[i]
<1>1. Walk(start) = CHOOSE h : Places(h, start)
  BY DEF Walk, Places
<1>2. Places(Walk(start), start)
  BY <1>1
<1> DEFINE W == Walk(start)
           Wrong == {i \in 0..N : W[i] # g[i]}
<1>3. \A i \in 0..N :
          /\ W[i] = IF i = 0 THEN start ELSE IF W[i - 1] = Null THEN Null ELSE next[W[i - 1]]
          /\ g[i] = IF i = 0 THEN start ELSE IF g[i - 1] = Null THEN Null ELSE next[g[i - 1]]
  BY <1>2 DEF Places
<1> HIDE DEF W
<1>4. ASSUME Wrong # {} PROVE FALSE
  <2>1. Wrong \subseteq Nat
    BY Many
  <2>2. PICK i \in Wrong : \A j \in Wrong : <<j, i>> \notin OpToRel(<, Nat)
    BY <1>4, <2>1, NatLessThanWellFounded, WFMin
  <2>3. i \in 0..N /\ i # 0 /\ W[i] # g[i]
    BY <1>3
  <2>4. i - 1 \in 0..N /\ W[i - 1] # g[i - 1]
    BY <1>3, <2>3, Many
  <2>5. i - 1 \in Wrong
    BY <2>4
  <2>6. <<i - 1, i>> \in Nat \X Nat /\ <<i - 1, i>>[1] < <<i - 1, i>>[2]
    BY <2>1, <2>5, <2>3, Many
  <2>7. <<i - 1, i>> \in OpToRel(<, Nat)
    BY <2>6, Zenon DEF OpToRel
  <2> QED BY <2>2, <2>5, <2>7
<1> QED BY <1>4 DEF W

\* A list without repetition is not longer than there are questions.
LEMMA ChainShort ==
    ASSUME NEW s \in Seq(Questions), Once(s)
    PROVE  Len(s) \in 0..N /\ Cardinality(Elements(s)) = Len(s)
<1>1. Len(s) \in Nat /\ DOMAIN s = 1..Len(s)
  OBVIOUS
<1>2. s \in Injection(1..Len(s), Questions)
  <2>1. s \in [1..Len(s) -> Questions]
    BY <1>1
  <2> QED BY <1>1, <2>1 DEF Once, Injection, IsInjective
<1>3. IsFiniteSet(1..Len(s)) /\ Cardinality(1..Len(s)) = Len(s)
  BY <1>1, FS_Interval
<1>4. Len(s) <= N
  BY <1>2, <1>3, FS_Injection, ConstantsAssumption DEF N
<1>5. s \in Surjection(1..Len(s), Elements(s)) /\ s \in Injection(1..Len(s), Elements(s))
  <2>1. s \in [1..Len(s) -> Elements(s)]
    BY <1>1 DEF Elements
  <2> QED BY <1>1, <2>1 DEF Once, Injection, IsInjective, Surjection, Elements
<1>6. Cardinality(Elements(s)) = Len(s)
  BY <1>3, <1>5, FS_Surjection
<1> QED BY <1>1, <1>4, <1>6, Many

\* The walk along a chain goes through its elements to Null.
LEMMA WalkChain ==
    ASSUME NEW s, NEW start, Chain(s, start, next)
    PROVE  \A i \in 0..N : Walk(start)[i] = IF i < Len(s) THEN s[i + 1] ELSE Null
<1> DEFINE g == [i \in 0..N |-> IF i < Len(s) THEN s[i + 1] ELSE Null]
<1>1. s \in Seq(Questions) /\ Len(s) \in Nat
  BY DEF Chain
<1>2. ASSUME NEW i \in 0..N
      PROVE  g[i] = IF i = 0 THEN start ELSE IF g[i - 1] = Null THEN Null ELSE next[g[i - 1]]
  <2>1. CASE i = 0
    BY <1>1, <2>1, Many DEF Chain
  <2>2. CASE i # 0 /\ i - 1 < Len(s)
    <3>1. i - 1 \in 0..N /\ i \in 1..Len(s)
      BY <1>1, <2>2, Many
    <3>2. g[i - 1] = s[i] /\ s[i] # Null
      BY <1>1, <2>2, <3>1, ConstantsAssumption
    <3>3. next[s[i]] = IF i = Len(s) THEN Null ELSE s[i + 1]
      BY <3>1 DEF Chain
    <3> QED BY <1>1, <2>2, <3>1, <3>2, <3>3, Many
  <2>3. CASE i # 0 /\ ~(i - 1 < Len(s))
    <3>1. i - 1 \in 0..N
      BY <2>3, Many
    <3> QED BY <1>1, <2>3, <3>1, Many
  <2> QED BY <2>1, <2>2, <2>3
<1>3. Places(g, start)
  BY <1>2 DEF Places
<1> QED BY <1>3, WalkIs

\* So the list is what the walk finds.
LEMMA ChainMembers ==
    ASSUME NEW s, NEW start, Chain(s, start, next)
    PROVE  Members(start) = Elements(s) /\ ~Endless(start) /\ ListFrom(start) = s
<1>1. s \in Seq(Questions) /\ Once(s)
  BY DEF Chain
<1>2. Len(s) \in 0..N /\ Cardinality(Elements(s)) = Len(s) /\ DOMAIN s = 1..Len(s)
  BY <1>1, ChainShort
<1>3. \A i \in 0..N : Walk(start)[i] = IF i < Len(s) THEN s[i + 1] ELSE Null
  BY WalkChain
<1>4. ~Endless(start)
  BY <1>2, <1>3, Many DEF Endless
<1>5. ASSUME NEW x \in Members(start) PROVE x \in Elements(s)
  <2>1. PICK i \in 0..N : x = Walk(start)[i] /\ x # Null
    BY DEF Members
  <2>2. x = s[i + 1] /\ i < Len(s)
    BY <1>3, <2>1
  <2>3. i + 1 \in 1..Len(s)
    BY <1>2, <2>2, Many
  <2> QED BY <1>2, <2>2, <2>3 DEF Elements
<1>6. ASSUME NEW x \in Elements(s) PROVE x \in Members(start)
  <2>1. PICK i \in 1..Len(s) : x = s[i]
    BY <1>2 DEF Elements
  <2>2. i - 1 \in 0..N /\ Walk(start)[i - 1] = s[i]
    BY <1>2, <1>3, <2>1, Many
  <2>3. x # Null
    BY <1>1, <2>1, ConstantsAssumption
  <2> QED BY <2>1, <2>2, <2>3 DEF Members
<1>7. Members(start) = Elements(s)
  BY <1>5, <1>6
<1>8. ListFrom(start) = [i \in 1..Len(s) |-> Walk(start)[i - 1]]
  BY <1>2, <1>7 DEF ListFrom
<1>9. ListFrom(start) = [i \in 1..Len(s) |-> s[i]]
  <2>1. \A i \in 1..Len(s) : Walk(start)[i - 1] = s[i]
    BY <1>2, <1>3, Many
  <2> QED BY <1>8, <2>1
<1>10. s = [i \in 1..Len(s) |-> s[i]]
  BY <1>1
<1> QED BY <1>4, <1>7, <1>9, <1>10

\* A question that is its own successor is a list without end.
LEMMA LoopMembers ==
    ASSUME NEW q \in Questions, next[q] = q
    PROVE  Members(q) = {q} /\ Endless(q)
<1> DEFINE g == [i \in 0..N |-> q]
<1>1. ASSUME NEW i \in 0..N
      PROVE  g[i] = IF i = 0 THEN q ELSE IF g[i - 1] = Null THEN Null ELSE next[g[i - 1]]
  <2>1. i # 0 => i - 1 \in 0..N
    BY Many
  <2> QED BY <2>1, ConstantsAssumption
<1>2. Places(g, q)
  BY <1>1 DEF Places
<1>3. \A i \in 0..N : Walk(q)[i] = q
  <2> HIDE DEF g
  <2>1. \A i \in 0..N : Walk(q)[i] = g[i]
    BY <1>2, WalkIs
  <2> QED BY <2>1 DEF g
<1>4. 0 \in 0..N /\ N \in 0..N /\ q # Null
  BY Many, ConstantsAssumption
<1>5. Members(q) = {q}
  BY <1>3, <1>4 DEF Members
<1> QED BY <1>3, <1>4, <1>5 DEF Endless

\* Where the search for q, or for the end, stops.
LEMMA LastOfChain ==
    ASSUME NEW s, NEW start, Chain(s, start, next), s # <<>>, NEW q
    PROVE  Last(start, q) = IF q \in Elements(s) THEN {q} ELSE {s[Len(s)]}
<1>1. Members(start) = Elements(s)
  BY ChainMembers
<1>2. s \in Seq(Questions) /\ Len(s) \in 1..Len(s) /\ DOMAIN s = 1..Len(s)
  BY DEF Chain
<1>3. \A i \in 1..Len(s) : next[s[i]] = Null <=> i = Len(s)
  <2> TAKE i \in 1..Len(s)
  <2>1. ASSUME i # Len(s) PROVE s[i + 1] # Null
    <3>1. i + 1 \in 1..Len(s)
      <4>1. Len(s) \in Nat
        BY <1>2
      <4> QED BY <2>1, <4>1
    <3> QED BY <1>2, <3>1, ConstantsAssumption
  <2> QED BY <2>1 DEF Chain
<1>4. \A e \in Elements(s) : next[e] = Null <=> e = s[Len(s)]
  BY <1>2, <1>3 DEF Elements
<1>5. s[Len(s)] \in Elements(s)
  BY <1>2 DEF Elements
<1> QED BY <1>1, <1>4, <1>5 DEF Last

\* In a circle without q it does not.
LEMMA LastOfLoop ==
    ASSUME NEW l \in Questions, next[l] = l, NEW q, q # l
    PROVE  Last(l, q) = {}
  BY LoopMembers, ConstantsAssumption DEF Last


-----------------------------------------------------------------------------
\* The invariant.

ListTypes ==
    /\ questions \in Links /\ questions_noninteractive \in Links
    /\ next \in [Questions -> Links] /\ prev \in [Questions -> Links]
    /\ inputs \in Seq(Questions) /\ skipped \subseteq Asked
    /\ at \in {"module", "going", "asking", "replied", "ended"}
    /\ hidden \subseteq Questions /\ valid \subseteq Questions

\* prev and next say the same.
Converse == \A a, b \in Questions : next[a] = b <=> prev[b] = a

\* Questions that were not put have no links.
Unlinked == \A x \in Questions : Linked(x) => x \in Asked

\* The two lists are chains.  They have a tail in common when a question was put
\* twice, once hidden and once not.
Chains(shown, quiet) ==
    /\ Chain(shown, questions, next) /\ Chain(quiet, questions_noninteractive, next)
    /\ Asked = Elements(shown) \cup Elements(quiet)
    /\ ~Twice => InOrder(shown, Asked \ skipped) /\ InOrder(quiet, skipped)

\* Or a hidden question that was put twice, and first, follows itself.
Looped(shown) ==
    /\ at = "module" \/ mishaps # {}
    /\ Twice
    /\ questions_noninteractive \in Questions
    /\ next[questions_noninteractive] = questions_noninteractive
    /\ \/ questions = questions_noninteractive /\ shown = <<>>
       \/ Chain(shown, questions, next)
    /\ Asked = Elements(shown) \cup {questions_noninteractive}

Empty ==
    /\ questions = Null /\ questions_noninteractive = Null
    /\ \A x \in Questions : next[x] = Null /\ prev[x] = Null

\* After the frontend was replaced no question has a link.
Bare == \A x \in Questions : next[x] = Null /\ prev[x] = Null

Listed ==
    IF at \in {"replied", "ended"} THEN Empty /\ fate = "runs"
    ELSE IF fate # "runs" THEN Twice /\ at = "module"
    ELSE IF "switch" \in mishaps THEN Bare
    ELSE /\ Unlinked
         /\ \/ \E shown, quiet \in Seq(Questions) : Chains(shown, quiet)
            \/ \E shown \in Seq(Questions) : Looped(shown)

\* Only a GO has mishaps.
Noted ==
    /\ at \in {"module", "ended"} => mishaps = {}
    /\ at = "going" => mishaps = {"switch"}

\* While the user is asked, what is not valid yet is still to come.
ToCome ==
    at = "asking" =>
        /\ cursor \in Questions
        /\ mishaps = {} =>
              \E rest \in Seq(Questions) : /\ Chain(rest, cursor, next) /\ rest # <<>>
                                           /\ Asked \subseteq valid \cup Elements(rest)

Between == at = "ended" => inputs = <<>>

LInv == ListTypes /\ Converse /\ Listed /\ Noted /\ ToCome /\ Between /\ AnsweredValid

\* Where a backup leads, and why a module ends.
Way ==
    /\ step \in Nat /\ from \in Nat /\ backed_up \in BOOLEAN
    /\ at # "ended" => step \in DOMAIN Steps
    /\ at \in {"module", "going", "asking"} /\ questions # Null => ~backed_up
    /\ at = "asking" => questions # Null
    /\ at \in {"module", "going"} /\ from # 0 => step < from /\ (backed_up \/ questions # Null)
    /\ at = "asking" /\ from # 0 => step < from
    /\ at = "replied" => /\ step <= from \/ from = 0
                         /\ reply = "ok" => from = 0
                         /\ reply # "ok" => from # 0 \/ erred
                         /\ backed_up = (reply = "back")
                         /\ from # 0 => reply = "back"
    /\ at \in {"module", "going", "asking"} /\ backed_up => from # 0 \/ erred
    /\ at = "ended" => IF step = 0 THEN from # 0 \/ erred ELSE ~backed_up

IInv == LInv /\ Way


-----------------------------------------------------------------------------
\* One more question.

Ordered(list, these, all) ==
    /\ Elements(list) = these
    /\ \A i, j \in DOMAIN list, k, l \in DOMAIN all :
          list[i] = all[k] /\ list[j] = all[l] => (i < j <=> k < l)

\* A sequence without repetition has as many elements as places.
LEMMA OnceIs ==
    ASSUME NEW s \in Seq(Questions)
    PROVE  Len(s) = Cardinality(Elements(s)) <=> Once(s)
<1>1. Len(s) \in Nat /\ DOMAIN s = 1..Len(s)
  OBVIOUS
<1>2. s \in Surjection(1..Len(s), Elements(s))
  <2>1. s \in [1..Len(s) -> Elements(s)]
    BY <1>1 DEF Elements
  <2> QED BY <1>1, <2>1 DEF Surjection, Elements
<1>3. IsFiniteSet(1..Len(s)) /\ Cardinality(1..Len(s)) = Len(s)
  BY <1>1, FS_Interval
<1>4. Cardinality(Elements(s)) = Len(s) <=> s \in Injection(1..Len(s), Elements(s))
  BY <1>2, <1>3, FS_Surjection
<1>5. s \in Injection(1..Len(s), Elements(s)) <=> Once(s)
  BY <1>1, <1>2 DEF Injection, IsInjective, Surjection, Once
<1> QED BY <1>4, <1>5

\* Appending to a sequence.
LEMMA Appended ==
    ASSUME NEW s \in Seq(Questions), NEW q \in Questions
    PROVE  /\ Append(s, q) \in Seq(Questions) /\ Append(s, q) # <<>>
           /\ Len(Append(s, q)) = Len(s) + 1
           /\ \A i \in 1..Len(s) : Append(s, q)[i] = s[i]
           /\ Append(s, q)[Len(s) + 1] = q
           /\ Elements(Append(s, q)) = Elements(s) \cup {q}
           /\ Once(Append(s, q)) <=> Once(s) /\ q \notin Elements(s)
<1> DEFINE t == Append(s, q)
<1>1. /\ t \in Seq(Questions) /\ t # <<>> /\ Len(t) = Len(s) + 1 /\ Len(s) \in Nat
      /\ \A i \in 1..Len(s) : t[i] = s[i]
      /\ t[Len(s) + 1] = q
  OBVIOUS
<1>2. DOMAIN t = 1..(Len(s) + 1) /\ DOMAIN s = 1..Len(s)
  BY <1>1
<1> HIDE DEF t
<1>3. 1..(Len(s) + 1) = 1..Len(s) \cup {Len(s) + 1} /\ Len(s) + 1 \notin 1..Len(s)
  BY <1>1
<1>4. Elements(t) = Elements(s) \cup {q}
  BY <1>1, <1>2, <1>3 DEF Elements
<1>5. Once(t) <=> Once(s) /\ q \notin Elements(s)
  BY <1>1, <1>2, <1>3 DEF Once, Elements
<1> QED BY <1>1, <1>4, <1>5 DEF t

\* Order, when one more question is put.
LEMMA OrderKept ==
    ASSUME NEW s \in Seq(Questions), NEW S, NEW all \in Seq(Questions), NEW q \in Questions,
           Ordered(s, S, all), q \notin S, q \notin Elements(all)
    PROVE  Ordered(s, S, Append(all, q)) /\ Ordered(Append(s, q), S \cup {q}, Append(all, q))
<1> DEFINE a == Append(all, q)
           t == Append(s, q)
<1>1. /\ Len(a) = Len(all) + 1 /\ a[Len(all) + 1] = q /\ \A i \in 1..Len(all) : a[i] = all[i]
      /\ DOMAIN a = 1..(Len(all) + 1) /\ DOMAIN all = 1..Len(all) /\ Len(all) \in Nat
  OBVIOUS
<1>2. /\ Len(t) = Len(s) + 1 /\ t[Len(s) + 1] = q /\ \A i \in 1..Len(s) : t[i] = s[i]
      /\ DOMAIN t = 1..(Len(s) + 1) /\ DOMAIN s = 1..Len(s) /\ Len(s) \in Nat
  OBVIOUS
<1>3. Elements(t) = S \cup {q}
  BY Appended DEF Ordered
<1> HIDE DEF a, t
<1>4. \A i \in 1..Len(s) : s[i] # q
  BY <1>2 DEF Ordered, Elements
<1>5. \A k \in 1..Len(all) : all[k] # q
  BY <1>1 DEF Elements
<1>6. \A i, j \in 1..Len(s), k, l \in 1..Len(all) :
          s[i] = all[k] /\ s[j] = all[l] => (i < j <=> k < l)
  BY <1>1, <1>2 DEF Ordered
<1>7. \A i \in 1..Len(s), k \in 1..(Len(all) + 1) :
          s[i] = a[k] => k \in 1..Len(all) /\ s[i] = all[k]
  BY <1>1, <1>4
<1>8. Ordered(s, S, a)
  BY <1>1, <1>2, <1>6, <1>7 DEF Ordered
<1>9. ASSUME NEW i \in 1..(Len(s) + 1), NEW k \in 1..(Len(all) + 1), t[i] = a[k]
      PROVE  \/ i \in 1..Len(s) /\ k \in 1..Len(all) /\ s[i] = all[k]
             \/ i = Len(s) + 1 /\ k = Len(all) + 1
  BY <1>1, <1>2, <1>4, <1>5, <1>9
<1>10. ASSUME NEW i \in 1..(Len(s) + 1), NEW j \in 1..(Len(s) + 1),
              NEW k \in 1..(Len(all) + 1), NEW l \in 1..(Len(all) + 1),
              t[i] = a[k], t[j] = a[l]
       PROVE  i < j <=> k < l
  <2>1. CASE i \in 1..Len(s) /\ j \in 1..Len(s)
    BY <1>1, <1>2, <1>6, <1>9, <1>10, <2>1
  <2>2. CASE i = Len(s) + 1 \/ j = Len(s) + 1
    BY <1>1, <1>2, <1>9, <1>10, <2>2
  <2> QED BY <1>2, <2>1, <2>2
<1>11. Ordered(t, S \cup {q}, a)
  BY <1>1, <1>2, <1>3, <1>10 DEF Ordered
<1> QED BY <1>8, <1>11 DEF a, t

\* Neighbours within 1..n.
LEMMA Inside ==
    ASSUME NEW n \in Nat, NEW i \in 1..n
    PROVE  /\ i # n => i + 1 \in 1..n
           /\ i # 1 => i - 1 \in 1..n /\ i - 1 # n /\ (i - 1) + 1 = i
  OBVIOUS

\* A question alone on its list has no links, one with company has.
LEMMA Alone ==
    ASSUME ListTypes, Converse, NEW s, NEW start, Chain(s, start, next),
           NEW q \in Elements(s), ~Linked(q)
    PROVE  s = <<q>>
<1>1. s \in Seq(Questions) /\ DOMAIN s = 1..Len(s)
  BY DEF Chain
<1>a. Len(s) \in Nat
  BY <1>1
<1>b. \A j \in 1..Len(s) : s[j] \in Questions
  BY <1>1
<1>c. \A j \in 1..Len(s) : next[s[j]] = IF j = Len(s) THEN Null ELSE s[j + 1]
  BY DEF Chain
<1>2. PICK i \in 1..Len(s) : q = s[i]
  BY <1>1 DEF Elements
<1>3. next[q] = Null /\ prev[q] = Null /\ q \in Questions
  BY <1>1, <1>2 DEF Linked
<1>4. i = Len(s)
  <2>1. ASSUME i # Len(s) PROVE FALSE
    <3>1. i + 1 \in 1..Len(s)
      BY <1>a, <2>1, Inside
    <3>2. next[q] = s[i + 1] /\ s[i + 1] \in Questions
      BY <1>b, <1>c, <1>2, <2>1, <3>1
    <3> QED BY <1>3, <3>2, ConstantsAssumption
  <2> QED BY <2>1
<1>5. i = 1
  <2>1. ASSUME i # 1 PROVE FALSE
    <3>1. i - 1 \in 1..Len(s) /\ i - 1 # Len(s) /\ (i - 1) + 1 = i
      BY <1>a, <2>1, Inside
    <3>2. next[s[i - 1]] = q /\ s[i - 1] \in Questions
      BY <1>b, <1>c, <1>2, <3>1
    <3>3. prev[q] = s[i - 1]
      BY <1>3, <3>2 DEF Converse
    <3> QED BY <1>3, <3>2, <3>3, ConstantsAssumption
  <2> QED BY <2>1
<1> QED BY <1>1, <1>2, <1>4, <1>5

\* A chain that does not hold e does not see its link.
LEMMA ChainKept ==
    ASSUME NEW s, NEW start, NEW nx \in [Questions -> Links], Chain(s, start, nx),
           NEW e, e \notin Elements(s), NEW q
    PROVE  Chain(s, start, [nx EXCEPT ![e] = q])
<1>1. \A i \in 1..Len(s) : s[i] \in Questions /\ s[i] # e
  BY DEF Chain, Elements
<1> QED BY <1>1 DEF Chain

\* A chain whose last question gets a successor is longer by that.
LEMMA ChainGrows ==
    ASSUME NEW s, NEW start, NEW nx \in [Questions -> Links], Chain(s, start, nx), s # <<>>,
           NEW q \in Questions, q \notin Elements(s), nx[q] = Null
    PROVE  Chain(Append(s, q), start, [nx EXCEPT ![s[Len(s)]] = q])
<1> DEFINE t == Append(s, q)
           n == [nx EXCEPT ![s[Len(s)]] = q]
<1>1. s \in Seq(Questions) /\ Len(s) \in Nat \ {0} /\ Once(s) /\ DOMAIN s = 1..Len(s)
  BY DEF Chain
<1>2. /\ t \in Seq(Questions) /\ t # <<>> /\ Len(t) = Len(s) + 1 /\ Once(t)
      /\ \A i \in 1..Len(s) : t[i] = s[i]
      /\ t[Len(s) + 1] = q
  BY <1>1, Appended
<1>3. s[Len(s)] \in Questions /\ s[Len(s)] # q
  BY <1>1 DEF Elements
<1>4. n[q] = Null /\ n[s[Len(s)]] = q
  BY <1>3
<1>a. Len(s) \in Nat /\ Len(s) \in 1..Len(s) /\ 1 \in 1..Len(s)
  BY <1>1
<1>b. \A i \in 1..Len(s) : s[i] \in Questions /\ (s[i] = s[Len(s)] => i = Len(s))
  <2>1. \A i \in 1..Len(s) : s[i] \in Questions
    BY <1>1
  <2>2. \A i, j \in 1..Len(s) : s[i] = s[j] => i = j
    BY <1>1 DEF Once
  <2> QED BY <1>a, <2>1, <2>2
<1>c. \A i \in 1..Len(s) : nx[s[i]] = IF i = Len(s) THEN Null ELSE s[i + 1]
  BY DEF Chain
<1>5. \A i \in 1..Len(s) : i # Len(s) => n[s[i]] = s[i + 1]
  BY <1>b, <1>c
<1>6. start = t[1]
  BY <1>a, <1>2 DEF Chain
<1> HIDE DEF t, n
<1>7. ASSUME NEW i \in 1..Len(t) PROVE n[t[i]] = IF i = Len(t) THEN Null ELSE t[i + 1]
  <2>1. CASE i = Len(t)
    BY <1>2, <1>4, <2>1
  <2>2. CASE i = Len(s)
    BY <1>a, <1>2, <1>4, <2>2
  <2>3. CASE i \in 1..Len(s) /\ i # Len(s)
    <3>1. i + 1 \in 1..Len(s)
      BY <1>a, <2>3, Inside
    <3>2. i # Len(t)
      BY <1>a, <1>2, <2>3
    <3> QED BY <1>2, <1>5, <2>3, <3>1, <3>2
  <2>4. i = Len(t) \/ i = Len(s) \/ (i \in 1..Len(s) /\ i # Len(s))
    BY <1>a, <1>2
  <2> QED BY <2>4, <2>1, <2>2, <2>3
<1>8. Chain(t, start, n)
  BY <1>2, <1>6, <1>7 DEF Chain
<1> QED BY <1>8 DEF t, n


\* Linking a question to the end of a list, whatever other list shares that end.
LEMMA Linking ==
    ASSUME ListTypes, Converse, NEW s, NEW start, Chain(s, start, next), s # <<>>,
           NEW q \in Questions, q \notin Elements(s), ~Linked(q), link(s[Len(s)], q)
    PROVE  /\ next' \in [Questions -> Links] /\ prev' \in [Questions -> Links] /\ Converse'
           /\ Chain(Append(s, q), start, next')
           /\ \A t, other : Chain(t, other, next) =>
                  IF s[Len(s)] \in Elements(t) THEN Chain(Append(t, q), other, next')
                                              ELSE Chain(t, other, next')
           /\ \A x \in Questions : Linked(x)' => Linked(x) \/ x \in Elements(s) \cup {q}
<1> DEFINE e == s[Len(s)]
<1>1. s \in Seq(Questions) /\ Len(s) \in 1..Len(s) /\ DOMAIN s = 1..Len(s)
  BY DEF Chain
<1>2. e \in Questions /\ e \in Elements(s) /\ e # q
  BY <1>1 DEF Elements
<1>3. next[e] = Null /\ next[q] = Null /\ prev[q] = Null
  BY <1>1 DEF Chain, Linked
<1>4. next' = [next EXCEPT ![e] = q] /\ prev' = [prev EXCEPT ![q] = e]
  BY DEF link
<1>5. next \in [Questions -> Links] /\ prev \in [Questions -> Links] /\ q \in Links /\ e \in Links
  BY <1>2 DEF ListTypes, Links
<1>6. Chain(Append(s, q), start, next')
  BY <1>3, <1>4, <1>5, ChainGrows
<1> HIDE DEF e
<1>7. next' \in [Questions -> Links] /\ prev' \in [Questions -> Links]
  BY <1>4, <1>5
<1>8. Converse'
  <2> SUFFICES ASSUME NEW a \in Questions, NEW b \in Questions
               PROVE  next'[a] = b <=> prev'[b] = a
    BY DEF Converse
  <2>1. next[a] = b <=> prev[b] = a
    BY DEF Converse
  <2>2. a # Null /\ b # Null
    BY ConstantsAssumption
  <2>3. next'[a] = (IF a = e THEN q ELSE next[a]) /\ prev'[b] = (IF b = q THEN e ELSE prev[b])
    BY <1>4, <1>5
  <2> QED BY <1>2, <1>3, <2>1, <2>2, <2>3
<1>9. ASSUME NEW t, NEW other, Chain(t, other, next), e \in Elements(t)
      PROVE  Chain(Append(t, q), other, next')
  <2>1. t \in Seq(Questions) /\ DOMAIN t = 1..Len(t)
    BY <1>9 DEF Chain
  <2>2. PICK i \in 1..Len(t) : e = t[i]
    BY <1>9, <2>1 DEF Elements
  <2>3. Len(t) \in Nat
    BY <2>1
  <2>4. i = Len(t)
    <3>1. ASSUME i # Len(t) PROVE FALSE
      <4>1. i + 1 \in 1..Len(t)
        BY <2>3, <3>1, Inside
      <4>2. next[e] = t[i + 1] /\ t[i + 1] \in Questions
        <5>1. next[t[i]] = t[i + 1]
          BY <1>9, <3>1 DEF Chain
        <5> QED BY <2>1, <2>2, <4>1, <5>1
      <4> QED BY <1>3, <4>2, ConstantsAssumption
    <3> QED BY <3>1
  <2>5. q \notin Elements(t)
    <3>1. ASSUME q \in Elements(t) PROVE FALSE
      <4>1. t = <<q>>
        BY <1>9, <3>1, Alone
      <4> QED BY <1>2, <2>2, <4>1
    <3> QED BY <3>1
  <2>6. t # <<>> /\ e = t[Len(t)]
    BY <2>2, <2>4
  <2> QED BY <1>3, <1>4, <1>5, <1>9, <2>5, <2>6, ChainGrows
<1>10. ASSUME NEW t, NEW other, Chain(t, other, next), e \notin Elements(t)
       PROVE  Chain(t, other, next')
  BY <1>4, <1>5, <1>10, ChainKept
<1>11. ASSUME NEW x \in Questions, x # q, x # e PROVE Linked(x)' => Linked(x)
  BY <1>4, <1>5, <1>11 DEF Linked
<1> QED BY <1>2, <1>6, <1>7, <1>8, <1>9, <1>10, <1>11 DEF e

\* What the module has put.
LEMMA Putting ==
    ASSUME ListTypes, NEW q \in Questions, inputs' = Append(inputs, q)
    PROVE  /\ inputs' \in Seq(Questions) /\ Asked' = Asked \cup {q}
           /\ Twice' <=> Twice \/ q \in Asked
<1>1. inputs \in Seq(Questions)
  BY DEF ListTypes
<1>2. Asked = Elements(inputs) /\ Asked' = Elements(inputs')
  BY DEF Asked, Elements
<1>3. Twice <=> ~Once(inputs)
  BY <1>1, <1>2, OnceIs DEF Twice
<1>4. inputs' \in Seq(Questions) /\ Asked' = Asked \cup {q}
  BY <1>1, <1>2, Appended
<1>5. Twice' <=> ~Once(inputs')
  BY <1>2, <1>4, OnceIs DEF Twice
<1> QED BY <1>1, <1>2, <1>3, <1>4, <1>5, Appended

\* If it was not put before, it comes last in its list, and the lists have
\* nothing in common.
LEMMA NewShown ==
    ASSUME ListTypes, NEW q \in Questions, inputs' = Append(inputs, q), ~Twice',
           NEW shown, NEW quiet, Chains(shown, quiet), skipped' = skipped
    PROVE  /\ InOrder(Append(shown, q), Asked \ skipped)'
           /\ InOrder(quiet, skipped)'
           /\ Elements(shown) \cap Elements(quiet) = {}
<1>1. ~Twice /\ q \notin Asked /\ Asked' = Asked \cup {q}
  BY Putting
<1>2. Ordered(shown, Asked \ skipped, inputs) /\ Ordered(quiet, skipped, inputs)
  BY <1>1 DEF Chains, InOrder, Ordered, Elements
<1>3. shown \in Seq(Questions) /\ quiet \in Seq(Questions) /\ inputs \in Seq(Questions)
  BY DEF Chains, Chain, ListTypes
<1>4. q \notin Elements(inputs) /\ q \notin skipped
  BY <1>1 DEF Asked, Elements, ListTypes
<1>5. /\ Ordered(Append(shown, q), (Asked \ skipped) \cup {q}, inputs')
      /\ Ordered(quiet, skipped, inputs')
  BY <1>1, <1>2, <1>3, <1>4, OrderKept
<1>6. (Asked \ skipped) \cup {q} = Asked' \ skipped'
  BY <1>1, <1>4
<1>7. /\ Ordered(Append(shown, q), Asked' \ skipped', inputs')
      /\ Ordered(quiet, skipped', inputs')
  BY <1>5, <1>6
<1>8. Elements(shown) \cap Elements(quiet) = {}
  BY <1>2 DEF Ordered
<1> QED BY <1>7, <1>8 DEF InOrder, Ordered, Elements

\* The same of a hidden question.
LEMMA NewQuiet ==
    ASSUME ListTypes, NEW q \in Questions, inputs' = Append(inputs, q), ~Twice',
           NEW shown, NEW quiet, Chains(shown, quiet), skipped' = skipped \cup {q}
    PROVE  /\ InOrder(shown, Asked \ skipped)'
           /\ InOrder(Append(quiet, q), skipped)'
           /\ Elements(shown) \cap Elements(quiet) = {}
<1>1. ~Twice /\ q \notin Asked /\ Asked' = Asked \cup {q}
  BY Putting
<1>2. Ordered(shown, Asked \ skipped, inputs) /\ Ordered(quiet, skipped, inputs)
  BY <1>1 DEF Chains, InOrder, Ordered, Elements
<1>3. shown \in Seq(Questions) /\ quiet \in Seq(Questions) /\ inputs \in Seq(Questions)
  BY DEF Chains, Chain, ListTypes
<1>4. q \notin Elements(inputs) /\ q \notin skipped
  BY <1>1 DEF Asked, Elements, ListTypes
<1>5. /\ Ordered(shown, Asked \ skipped, inputs')
      /\ Ordered(Append(quiet, q), skipped \cup {q}, inputs')
  BY <1>1, <1>2, <1>3, <1>4, OrderKept
<1>6. Asked \ skipped = Asked' \ skipped'
  BY <1>1, <1>4
<1>7. /\ Ordered(shown, Asked' \ skipped', inputs')
      /\ Ordered(Append(quiet, q), skipped', inputs')
  BY <1>5, <1>6
<1>8. Elements(shown) \cap Elements(quiet) = {}
  BY <1>2 DEF Ordered
<1> QED BY <1>7, <1>8 DEF InOrder, Ordered, Elements


-----------------------------------------------------------------------------
\* INPUT.

\* A list of one.
LEMMA Single ==
    ASSUME NEW q \in Questions, NEW nx, nx[q] = Null
    PROVE  Chain(<<q>>, q, nx) /\ Elements(<<q>>) = {q} /\ <<q>> = Append(<<>>, q)
<1>1. <<q>> \in Seq(Questions) /\ Len(<<q>>) = 1 /\ DOMAIN <<q>> = {1} /\ <<q>>[1] = q
  OBVIOUS
<1> QED BY <1>1 DEF Chain, Elements, Once

\* The part of the invariant that the lists do not concern.
LEMMA AfterInput ==
    ASSUME ListTypes, NEW q \in Questions, working, inputs' = Append(inputs, q),
           fate' = "runs", UNCHANGED <<at, hidden, valid, mishaps>>, mishaps = {},
           skipped' \in {skipped, skipped \cup {q}},
           questions' \in Links, questions_noninteractive' \in Links,
           next' \in [Questions -> Links], prev' \in [Questions -> Links],
           Converse', Unlinked',
           (\E shown, quiet \in Seq(Questions) : Chains(shown, quiet)')
           \/ \E shown \in Seq(Questions) : Looped(shown)'
    PROVE  LInv'
<1>1. inputs' \in Seq(Questions) /\ Asked' = Asked \cup {q}
  BY Putting
<1>2. ListTypes'
  BY <1>1 DEF ListTypes
<1>3. Listed' /\ ToCome' /\ Between' /\ AnsweredValid'
  BY DEF Listed, ToCome, Between, AnsweredValid, working
<1>4. Noted'
  BY DEF Noted, working
<1> QED BY <1>2, <1>3, <1>4 DEF LInv

\* A visible question.
LEMMA InputShown ==
    ASSUME LInv, working, NEW q \in Questions, ~Linked(q), q \notin hidden,
           command_input(q), UNCHANGED <<at, settings, mishaps>>
    PROVE  LInv'
<1>1. /\ ListTypes /\ Converse /\ Unlinked /\ fate = "runs" /\ at = "module" /\ mishaps = {}
      /\ next[q] = Null /\ prev[q] = Null /\ Null \notin Questions
  BY ConstantsAssumption DEF LInv, Noted, Listed, working, Linked
<1>2. /\ inputs' = Append(inputs, q) /\ UNCHANGED <<skipped, fate, questions_noninteractive>>
      /\ UNCHANGED <<at, hidden, valid, mishaps>>
      /\ frontend_add(q)
  BY DEF command_input, frontend_add, settings
<1>3. Asked' = Asked \cup {q} /\ (Twice' <=> Twice \/ q \in Asked)
  BY <1>1, <1>2, Putting
<1>4. questions' \in Links /\ questions_noninteractive' \in Links
  BY <1>1, <1>2 DEF frontend_add, ListTypes, Links
<1>5. CASE questions = Null
  <2>1. questions' = q /\ UNCHANGED <<next, prev>>
    BY <1>2, <1>5 DEF frontend_add
  <2>2. Converse' /\ Unlinked' /\ next' \in [Questions -> Links] /\ prev' \in [Questions -> Links]
    BY <1>1, <1>3, <2>1 DEF Converse, Unlinked, Linked, ListTypes
  <2>3. Chain(<<q>>, q, next') /\ Elements(<<q>>) = {q} /\ <<q>> \in Seq(Questions)
    BY <1>1, <2>1, Single
  <2>4. ASSUME NEW shown \in Seq(Questions), NEW quiet \in Seq(Questions), Chains(shown, quiet)
        PROVE  Chains(<<q>>, quiet)'
    <3>1. shown = <<>> /\ <<q>> = Append(shown, q) /\ Elements(shown) = {}
      <4>1. ASSUME shown # <<>> PROVE FALSE
        <5>1. questions = shown[1] /\ shown[1] \in Questions
          BY <2>4, <4>1 DEF Chains, Chain
        <5> QED BY <1>1, <1>5, <5>1
      <4> QED BY <4>1, <2>3, Single, <1>1 DEF Elements
    <3>2. ~Twice' => InOrder(<<q>>, Asked \ skipped)' /\ InOrder(quiet, skipped)'
      BY <1>1, <1>2, <2>4, <3>1, NewShown
    <3> QED BY <1>2, <1>3, <2>1, <2>3, <2>4, <3>1, <3>2 DEF Chains
  <2>5. ASSUME NEW shown \in Seq(Questions), Looped(shown)
        PROVE  Looped(<<q>>)'
    <3>1. Elements(shown) = {}
      <4>1. Chain(shown, questions, next)
        BY <1>1, <1>5, <2>5 DEF Looped
      <4>2. ASSUME shown # <<>> PROVE FALSE
        <5>1. questions = shown[1] /\ shown[1] \in Questions
          BY <4>1, <4>2 DEF Chain
        <5> QED BY <1>1, <1>5, <5>1
      <4> QED BY <4>2 DEF Elements
    <3> QED BY <1>2, <1>3, <2>1, <2>3, <2>5, <3>1 DEF Looped
  <2>6. \/ \E shown, quiet \in Seq(Questions) : Chains(shown, quiet)'
        \/ \E shown \in Seq(Questions) : Looped(shown)'
    BY <1>1, <2>3, <2>4, <2>5 DEF LInv, Noted, Listed
  <2> QED BY <1>1, <1>2, <1>4, <2>2, <2>6, AfterInput
<1>6. CASE questions # Null /\ Last(questions, q) = {q}
  <2>1. UNCHANGED <<questions, next, prev>>
    BY <1>2, <1>6 DEF frontend_add
  <2>2. q \in Members(questions)
    BY <1>6 DEF Last
  <2>3. ASSUME NEW shown \in Seq(Questions), NEW quiet \in Seq(Questions), Chains(shown, quiet)
        PROVE  Chains(shown, quiet)'
    <3>1. q \in Asked
      BY <2>2, <2>3, ChainMembers DEF Chains
    <3> QED BY <1>2, <1>3, <2>1, <2>3, <3>1 DEF Chains
  <2>4. ASSUME NEW shown \in Seq(Questions), Looped(shown)
        PROVE  Looped(shown)'
    <3>1. q \in Asked
      <4>1. CASE questions = questions_noninteractive
        BY <2>2, <2>4, <4>1, LoopMembers DEF Looped
      <4>2. CASE Chain(shown, questions, next)
        BY <2>2, <2>4, <4>2, ChainMembers DEF Looped
      <4> QED BY <2>4, <4>1, <4>2 DEF Looped
    <3> QED BY <1>2, <1>3, <2>1, <2>4, <3>1 DEF Looped
  <2>5. Converse' /\ Unlinked' /\ next' \in [Questions -> Links] /\ prev' \in [Questions -> Links]
    BY <1>1, <1>3, <2>1 DEF Converse, Unlinked, Linked, ListTypes
  <2>6. \/ \E shown, quiet \in Seq(Questions) : Chains(shown, quiet)'
        \/ \E shown \in Seq(Questions) : Looped(shown)'
    BY <1>1, <2>3, <2>4 DEF LInv, Noted, Listed
  <2> QED BY <1>1, <1>2, <1>4, <2>5, <2>6, AfterInput
<1>7. CASE questions # Null /\ Last(questions, q) # {q}
  <2>1. questions' = questions /\ \E e \in Last(questions, q) : link(e, q)
    BY <1>2, <1>7 DEF frontend_add
  <2>2. ASSUME NEW shown \in Seq(Questions), Chain(shown, questions, next)
        PROVE  shown # <<>> /\ q \notin Elements(shown) /\ link(shown[Len(shown)], q)
    <3>1. shown # <<>>
      BY <1>7, <2>2 DEF Chain
    <3>2. Last(questions, q) = IF q \in Elements(shown) THEN {q} ELSE {shown[Len(shown)]}
      BY <2>2, <3>1, LastOfChain
    <3> QED BY <1>7, <2>1, <3>1, <3>2
  <2>3. ASSUME NEW shown \in Seq(Questions), Chain(shown, questions, next),
               Elements(shown) \subseteq Asked
        PROVE  Converse' /\ Unlinked' /\ next' \in [Questions -> Links] /\ prev' \in [Questions -> Links]
    <3>1. \A x \in Questions : Linked(x)' => Linked(x) \/ x \in Elements(shown) \cup {q}
      BY <1>1, <2>2, <2>3, Linking
    <3>2. Unlinked'
      BY <1>1, <1>3, <2>3, <3>1 DEF Unlinked
    <3> QED BY <1>1, <2>2, <2>3, <3>2, Linking
  <2>4. CASE \E shown, quiet \in Seq(Questions) : Chains(shown, quiet)
    <3>1. PICK shown \in Seq(Questions), quiet \in Seq(Questions) : Chains(shown, quiet)
      BY <2>4
    <3>2. /\ Chain(shown, questions, next) /\ Chain(quiet, questions_noninteractive, next)
          /\ Asked = Elements(shown) \cup Elements(quiet)
      BY <3>1 DEF Chains
    <3>3. shown # <<>> /\ q \notin Elements(shown) /\ link(shown[Len(shown)], q)
      BY <2>2, <3>2
    <3> DEFINE e == shown[Len(shown)]
               more == IF e \in Elements(quiet) THEN Append(quiet, q) ELSE quiet
    <3>4. e \in Elements(shown)
      BY <3>3 DEF Elements
    <3>5. /\ Append(shown, q) \in Seq(Questions) /\ Append(quiet, q) \in Seq(Questions)
          /\ Elements(Append(shown, q)) = Elements(shown) \cup {q}
          /\ Elements(Append(quiet, q)) = Elements(quiet) \cup {q}
      BY Appended
    <3>6. Chain(Append(shown, q), questions, next')
      BY <1>1, <3>2, <3>3, Linking
    <3>7. Chain(more, questions_noninteractive, next')
      BY <1>1, <3>2, <3>3, Linking
    <3> HIDE DEF e
    <3>8. Elements(more) \in {Elements(quiet), Elements(quiet) \cup {q}} /\ more \in Seq(Questions)
      BY <3>5
    <3>9. ASSUME ~Twice' PROVE InOrder(Append(shown, q), Asked \ skipped)' /\ InOrder(more, skipped)'
      <4>1. /\ InOrder(Append(shown, q), Asked \ skipped)' /\ InOrder(quiet, skipped)'
            /\ Elements(shown) \cap Elements(quiet) = {}
        BY <1>1, <1>2, <3>1, <3>9, NewShown
      <4>2. more = quiet
        BY <3>4, <4>1
      <4> QED BY <4>1, <4>2
    <3> HIDE DEF more
    <3>10. Asked' = Elements(Append(shown, q)) \cup Elements(more)
      BY <1>3, <3>2, <3>5, <3>8
    <3>11. Chains(Append(shown, q), more)'
      BY <1>2, <2>1, <3>6, <3>7, <3>9, <3>10 DEF Chains
    <3> QED BY <1>1, <1>2, <1>4, <2>3, <3>2, <3>5, <3>8, <3>11, AfterInput
  <2>5. CASE \E shown \in Seq(Questions) : Looped(shown)
    <3>1. PICK shown \in Seq(Questions) : Looped(shown)
      BY <2>5
    <3> DEFINE l == questions_noninteractive
    <3>2. l \in Questions /\ next[l] = l /\ Twice /\ Asked = Elements(shown) \cup {l}
      BY <3>1 DEF Looped
    <3>3. q # l
      BY <1>1, <3>2
    <3>4. questions # l
      BY <2>1, <3>2, <3>3, LastOfLoop
    <3>5. Chain(shown, questions, next)
      BY <3>1, <3>4 DEF Looped
    <3>6. shown # <<>> /\ q \notin Elements(shown) /\ link(shown[Len(shown)], q)
      BY <2>2, <3>5
    <3>7. Chain(Append(shown, q), questions, next')
      BY <1>1, <3>5, <3>6, Linking
    <3>8. /\ Append(shown, q) \in Seq(Questions)
          /\ Elements(Append(shown, q)) = Elements(shown) \cup {q}
      BY Appended
    <3>9. next'[l] = l
      <4>1. next[shown[Len(shown)]] = Null
        <5>1. Len(shown) \in 1..Len(shown)
          BY <3>6
        <5> QED BY <3>5, <5>1 DEF Chain
      <4> QED BY <1>1, <3>2, <3>6, <4>1 DEF link, ListTypes
    <3>10. Looped(Append(shown, q))'
      BY <1>1, <1>2, <1>3, <2>1, <3>2, <3>7, <3>8, <3>9 DEF Looped
    <3> QED BY <1>1, <1>2, <1>4, <2>3, <3>2, <3>5, <3>8, <3>10, AfterInput
  <2> QED BY <1>1, <2>4, <2>5 DEF LInv, Noted, Listed
<1> QED BY <1>5, <1>6, <1>7


\* A hidden question that is put a second time, alone on its list, follows itself.
LEMMA InputLoop ==
    ASSUME LInv, working, NEW q \in Questions, ~Linked(q), link(q, q),
           UNCHANGED <<at, questions, questions_noninteractive>>,
           inputs' = Append(inputs, q),
           NEW shown \in Seq(Questions), NEW quiet \in Seq(Questions), Chains(shown, quiet),
           q \in Elements(quiet)
    PROVE  /\ Converse' /\ Unlinked'
           /\ next' \in [Questions -> Links] /\ prev' \in [Questions -> Links]
           /\ \E s \in Seq(Questions) : Looped(s)'
<1>1. /\ ListTypes /\ Converse /\ Unlinked /\ at = "module"
      /\ next[q] = Null /\ prev[q] = Null /\ Null \notin Questions
  BY ConstantsAssumption DEF LInv, Noted, Listed, working, Linked
<1>2. /\ Chain(shown, questions, next) /\ Chain(quiet, questions_noninteractive, next)
      /\ Asked = Elements(shown) \cup Elements(quiet)
  BY DEF Chains
<1>3. quiet = <<q>> /\ Elements(quiet) = {q} /\ questions_noninteractive = q
  <2>1. quiet = <<q>>
    BY <1>1, <1>2, Alone
  <2> QED BY <1>1, <1>2, <2>1, Single DEF Chain
<1>4. Asked' = Asked /\ Twice'
  BY <1>1, <1>2, Putting
<1>5. next' = [next EXCEPT ![q] = q] /\ prev' = [prev EXCEPT ![q] = q]
  BY DEF link
<1>6. next' \in [Questions -> Links] /\ prev' \in [Questions -> Links] /\ next'[q] = q
  BY <1>1, <1>5 DEF ListTypes, Links
<1>7. Converse'
  <2> SUFFICES ASSUME NEW a \in Questions, NEW b \in Questions
               PROVE  next'[a] = b <=> prev'[b] = a
    BY DEF Converse
  <2>1. next[a] = b <=> prev[b] = a
    BY <1>1 DEF Converse
  <2>2. next'[a] = (IF a = q THEN q ELSE next[a]) /\ prev'[b] = (IF b = q THEN q ELSE prev[b])
    BY <1>1, <1>5 DEF ListTypes
  <2> QED BY <1>1, <2>1, <2>2
<1>8. Unlinked'
  <2>1. \A x \in Questions : x # q => (Linked(x)' <=> Linked(x))
    BY <1>1, <1>5 DEF Linked, ListTypes
  <2> QED BY <1>1, <1>2, <1>3, <1>4, <2>1 DEF Unlinked
<1>9. CASE q \in Elements(shown)
  <2>1. shown = <<q>> /\ questions = q /\ Elements(shown) = {q}
    <3>1. shown = <<q>>
      BY <1>1, <1>2, <1>9, Alone
    <3> QED BY <1>1, <1>2, <3>1, Single DEF Chain
  <2>2. Elements(<<>>) = {} /\ <<>> \in Seq(Questions)
    BY DEF Elements
  <2>3. Looped(<<>>)'
    BY <1>1, <1>2, <1>3, <1>4, <1>6, <2>1, <2>2 DEF Looped
  <2> QED BY <1>6, <1>7, <1>8, <2>2, <2>3
<1>10. CASE q \notin Elements(shown)
  <2>1. Chain(shown, questions, next')
    BY <1>1, <1>2, <1>5, <1>10, ChainKept DEF ListTypes
  <2>2. Looped(shown)'
    BY <1>1, <1>2, <1>3, <1>4, <1>6, <2>1 DEF Looped
  <2> QED BY <1>6, <1>7, <1>8, <2>2
<1> QED BY <1>9, <1>10

\* A hidden question.
LEMMA InputQuiet ==
    ASSUME LInv, working, NEW q \in Questions, ~Linked(q), q \in hidden,
           command_input(q), UNCHANGED <<at, settings, mishaps>>
    PROVE  LInv'
<1>1. /\ ListTypes /\ Converse /\ Unlinked /\ fate = "runs" /\ at = "module" /\ mishaps = {}
      /\ next[q] = Null /\ prev[q] = Null /\ Null \notin Questions
  BY ConstantsAssumption DEF LInv, Noted, Listed, working, Linked
<1>2. /\ inputs' = Append(inputs, q) /\ skipped' = skipped \cup {q}
      /\ UNCHANGED <<fate, questions>> /\ UNCHANGED <<at, hidden, valid, mishaps>>
      /\ frontend_add_noninteractive(q)
  BY DEF command_input, frontend_add_noninteractive, settings
<1>3. Asked' = Asked \cup {q} /\ (Twice' <=> Twice \/ q \in Asked)
  BY <1>1, <1>2, Putting
<1>4. questions' \in Links /\ questions_noninteractive' \in Links
  BY <1>1, <1>2 DEF frontend_add_noninteractive, ListTypes, Links
<1>5. CASE questions_noninteractive = Null
  <2>1. questions_noninteractive' = q /\ UNCHANGED <<next, prev>>
    BY <1>2, <1>5 DEF frontend_add_noninteractive
  <2>2. Converse' /\ Unlinked' /\ next' \in [Questions -> Links] /\ prev' \in [Questions -> Links]
    BY <1>1, <1>3, <2>1 DEF Converse, Unlinked, Linked, ListTypes
  <2>3. Chain(<<q>>, q, next') /\ Elements(<<q>>) = {q} /\ <<q>> \in Seq(Questions)
    BY <1>1, <2>1, Single
  <2>4. PICK shown \in Seq(Questions), quiet \in Seq(Questions) : Chains(shown, quiet)
    BY <1>1, <1>5 DEF LInv, Noted, Listed, Looped
  <2>5. quiet = <<>> /\ <<q>> = Append(quiet, q) /\ Elements(quiet) = {}
    <3>1. ASSUME quiet # <<>> PROVE FALSE
      <4>1. questions_noninteractive = quiet[1] /\ quiet[1] \in Questions
        BY <2>4, <3>1 DEF Chains, Chain
      <4> QED BY <1>1, <1>5, <4>1
    <3> QED BY <3>1, Single, <1>1 DEF Elements
  <2>6. ~Twice' => InOrder(shown, Asked \ skipped)' /\ InOrder(<<q>>, skipped)'
    BY <1>1, <1>2, <2>4, <2>5, NewQuiet
  <2>7. Chains(shown, <<q>>)'
    BY <1>2, <1>3, <2>1, <2>3, <2>4, <2>5, <2>6 DEF Chains
  <2> QED BY <1>1, <1>2, <1>4, <2>2, <2>3, <2>7, AfterInput
<1>6. CASE questions_noninteractive # Null
  <2>1. /\ questions_noninteractive' = questions_noninteractive
        /\ \E e \in Last(questions_noninteractive, q) : link(e, q)
    BY <1>2, <1>6 DEF frontend_add_noninteractive
  <2>2. ASSUME NEW shown \in Seq(Questions), Looped(shown) PROVE FALSE
    <3> DEFINE l == questions_noninteractive
    <3>1. l \in Questions /\ next[l] = l /\ q # l
      BY <1>1, <2>2 DEF Looped
    <3> QED BY <2>1, <3>1, LastOfLoop
  <2>3. PICK shown \in Seq(Questions), quiet \in Seq(Questions) : Chains(shown, quiet)
    BY <1>1, <2>2 DEF LInv, Noted, Listed
  <2>4. /\ Chain(shown, questions, next) /\ Chain(quiet, questions_noninteractive, next)
        /\ Asked = Elements(shown) \cup Elements(quiet) /\ quiet # <<>>
    BY <1>6, <2>3 DEF Chains, Chain
  <2>5. link(IF q \in Elements(quiet) THEN q ELSE quiet[Len(quiet)], q)
    BY <2>1, <2>4, LastOfChain
  <2>6. CASE q \in Elements(quiet)
    <3>1. link(q, q)
      BY <2>5, <2>6
    <3>2. /\ Converse' /\ Unlinked'
          /\ next' \in [Questions -> Links] /\ prev' \in [Questions -> Links]
          /\ \E s \in Seq(Questions) : Looped(s)'
      BY <1>2, <2>1, <2>3, <2>6, <3>1, InputLoop
    <3> QED BY <1>1, <1>2, <1>4, <3>2, AfterInput
  <2>7. CASE q \notin Elements(quiet)
    <3> DEFINE e == quiet[Len(quiet)]
               more == IF e \in Elements(shown) THEN Append(shown, q) ELSE shown
    <3>1. link(quiet[Len(quiet)], q)
      BY <2>5, <2>7
    <3>2. /\ next' \in [Questions -> Links] /\ prev' \in [Questions -> Links] /\ Converse'
          /\ Chain(Append(quiet, q), questions_noninteractive, next')
          /\ Chain(more, questions, next')
          /\ \A x \in Questions : Linked(x)' => Linked(x) \/ x \in Elements(quiet) \cup {q}
      BY <1>1, <2>4, <2>7, <3>1, Linking
    <3>3. Unlinked'
      BY <1>1, <1>3, <2>4, <3>2 DEF Unlinked
    <3>4. e \in Elements(quiet)
      BY <2>4 DEF Elements
    <3>5. /\ Append(shown, q) \in Seq(Questions) /\ Append(quiet, q) \in Seq(Questions)
          /\ Elements(Append(shown, q)) = Elements(shown) \cup {q}
          /\ Elements(Append(quiet, q)) = Elements(quiet) \cup {q}
      BY Appended
    <3> HIDE DEF e
    <3>6. Elements(more) \in {Elements(shown), Elements(shown) \cup {q}} /\ more \in Seq(Questions)
      BY <3>5
    <3>7. ASSUME ~Twice' PROVE InOrder(more, Asked \ skipped)' /\ InOrder(Append(quiet, q), skipped)'
      <4>1. /\ InOrder(shown, Asked \ skipped)' /\ InOrder(Append(quiet, q), skipped)'
            /\ Elements(shown) \cap Elements(quiet) = {}
        BY <1>1, <1>2, <2>3, <3>7, NewQuiet
      <4>2. more = shown
        BY <3>4, <4>1
      <4> QED BY <4>1, <4>2
    <3> HIDE DEF more
    <3>8. Asked' = Elements(more) \cup Elements(Append(quiet, q))
      BY <1>3, <2>4, <3>5, <3>6
    <3>9. Chains(more, Append(quiet, q))'
      BY <1>2, <2>1, <3>2, <3>7, <3>8 DEF Chains
    <3> QED BY <1>1, <1>2, <1>4, <3>2, <3>3, <3>5, <3>6, <3>9, AfterInput
  <2> QED BY <2>6, <2>7
<1> QED BY <1>5, <1>6

\* Without an end of the list there was a question put twice.
LEMMA Endings ==
    ASSUME LInv, fate = "runs", at \in {"module", "asking"}, "switch" \notin mishaps
    PROVE  /\ Members(questions) \cup Members(questions_noninteractive) = Asked
           /\ Endless(questions_noninteractive) => Twice
           /\ \A list \in {questions, questions_noninteractive}, q \in Questions :
                  list # Null /\ Last(list, q) = {} => Twice
<1>1. ASSUME NEW shown \in Seq(Questions), NEW quiet \in Seq(Questions), Chains(shown, quiet)
      PROVE  /\ Members(questions) \cup Members(questions_noninteractive) = Asked
             /\ ~Endless(questions_noninteractive)
             /\ \A list \in {questions, questions_noninteractive}, q \in Questions :
                    list # Null => Last(list, q) # {}
  <2>1. Chain(shown, questions, next) /\ Chain(quiet, questions_noninteractive, next)
    BY <1>1 DEF Chains
  <2>2. ASSUME NEW s, NEW list, Chain(s, list, next), NEW q \in Questions, list # Null
        PROVE  Last(list, q) # {}
    <3>1. s # <<>>
      BY <2>2 DEF Chain
    <3>2. Last(list, q) = IF q \in Elements(s) THEN {q} ELSE {s[Len(s)]}
      BY <2>2, <3>1, LastOfChain
    <3> QED BY <3>2
  <2>3. /\ Members(questions) = Elements(shown)
        /\ Members(questions_noninteractive) = Elements(quiet)
        /\ ~Endless(questions_noninteractive)
    BY <2>1, ChainMembers
  <2> QED BY <1>1, <2>1, <2>2, <2>3 DEF Chains
<1>2. ASSUME NEW shown \in Seq(Questions), Looped(shown)
      PROVE  /\ Members(questions) \cup Members(questions_noninteractive) = Asked
             /\ Twice
  <2>1. Members(questions_noninteractive) = {questions_noninteractive}
    BY <1>2, LoopMembers DEF Looped
  <2>2. CASE Chain(shown, questions, next)
    BY <1>2, <2>1, <2>2, ChainMembers DEF Looped
  <2>3. CASE questions = questions_noninteractive /\ shown = <<>>
    BY <1>2, <2>1, <2>3 DEF Looped, Elements
  <2> QED BY <1>2, <2>2, <2>3 DEF Looped
<1> QED BY <1>1, <1>2 DEF LInv, Noted, Listed

\* INPUT.
LEMMA InputStep ==
    ASSUME LInv, Way, Input PROVE LInv'
<1>1. working /\ UNCHANGED <<at, settings, cursor, reply, mishaps>>
  BY DEF Input
<1>2. PICK q \in Steps[step] : (~Linked(q) /\ command_input(q)) \/ input_fails(q)
  BY DEF Input
<1>3. q \in Questions
  <2>1. step \in DOMAIN Steps
    BY <1>1 DEF Way, working
  <2> QED BY <1>2, <2>1, ConstantsAssumption
<1>4. CASE ~Linked(q) /\ command_input(q)
  BY <1>1, <1>3, <1>4, InputShown, InputQuiet
<1>5. CASE input_fails(q)
  <2>1. /\ ListTypes /\ Converse /\ Unlinked /\ fate = "runs" /\ at = "module" /\ mishaps = {}
    BY <1>1 DEF LInv, Noted, Listed, working
  <2>2. fate' \in {"assertion", "hangs"} /\ inputs' = Append(inputs, q) /\ UNCHANGED <<lists, skipped>>
    BY <1>5 DEF input_fails
  <2>3. Asked' = Asked \cup {q} /\ (Twice' <=> Twice \/ q \in Asked) /\ inputs' \in Seq(Questions)
    BY <1>3, <2>1, <2>2, Putting
  <2>4. CASE Linked(q)
    <3>1. Twice'
      BY <1>3, <2>1, <2>3, <2>4 DEF Unlinked
    <3> QED BY <1>1, <2>1, <2>2, <2>3, <3>1
         DEF LInv, ListTypes, Converse, Listed, Noted, ToCome, Between, AnsweredValid, lists, settings
  <2>5. CASE ~Linked(q)
    <3>1. Twice
      BY <1>3, <1>5, <2>1, <2>5, Endings DEF input_fails
    <3> QED BY <1>1, <2>1, <2>2, <2>3, <3>1
         DEF LInv, ListTypes, Converse, Listed, Noted, ToCome, Between, AnsweredValid, lists, settings
  <2> QED BY <2>4, <2>5
<1> QED BY <1>2, <1>4, <1>5


-----------------------------------------------------------------------------
\* GO.

\* unlink leaves no links.
LEMMA Unlinking ==
    ASSUME LInv, fate = "runs", at \in {"module", "going", "asking"}, unlink
    PROVE  /\ Bare' /\ Converse'
           /\ next' \in [Questions -> Links] /\ prev' \in [Questions -> Links]
<1>1. Null \in Links /\ Null \notin Questions
  BY ConstantsAssumption DEF Links
<1> DEFINE cleared == Members(questions) \cup Members(questions_noninteractive)
<1>2. \A x \in Questions : Linked(x) => x \in cleared
  <2>1. CASE "switch" \in mishaps
    BY <2>1 DEF LInv, Listed, Bare, Linked
  <2>2. CASE "switch" \notin mishaps
    <3>1. at # "going" /\ Unlinked
      BY <2>2 DEF LInv, Listed, Noted
    <3>2. cleared = Asked
      BY <2>2, <3>1, Endings
    <3> QED BY <3>1, <3>2 DEF Unlinked
  <2> QED BY <2>1, <2>2
<1>3. /\ next' = [q \in Questions |-> IF q \in cleared THEN Null ELSE next[q]]
      /\ prev' = [q \in Questions |-> IF q \in cleared THEN Null ELSE prev[q]]
  BY DEF unlink
<1> HIDE DEF cleared
<1>4. \A x \in Questions : next'[x] = Null /\ prev'[x] = Null
  BY <1>2, <1>3 DEF Linked
<1>5. next' \in [Questions -> Links] /\ prev' \in [Questions -> Links]
  BY <1>1, <1>3, <1>4
<1> QED BY <1>1, <1>4, <1>5 DEF Bare, Converse

\* So does frontend_clear.
LEMMA Clearing ==
    ASSUME LInv, fate = "runs", at \in {"module", "going", "asking"}, frontend_clear
    PROVE  /\ Empty' /\ Converse'
           /\ questions' \in Links /\ questions_noninteractive' \in Links
           /\ next' \in [Questions -> Links] /\ prev' \in [Questions -> Links]
  BY Unlinking DEF frontend_clear, Empty, Bare, Links

\* One question further on.
LEMMA ChainTail ==
    ASSUME NEW s, NEW start, NEW nx, Chain(s, start, nx), s # <<>>
    PROVE  /\ start \in Elements(s) /\ Tail(s) \in Seq(Questions)
           /\ Chain(Tail(s), nx[start], nx)
           /\ Elements(s) \subseteq Elements(Tail(s)) \cup {start}
           /\ Tail(s) = <<>> <=> nx[start] = Null
<1> DEFINE t == Tail(s)
<1>1. s \in Seq(Questions) /\ DOMAIN s = 1..Len(s)
  BY DEF Chain
<1>2. Len(s) \in Nat /\ Len(s) # 0 /\ 1 \in 1..Len(s)
  BY <1>1
<1>3. start = s[1] /\ start \in Elements(s)
  BY <1>1, <1>2 DEF Chain, Elements
<1>4. /\ t \in Seq(Questions) /\ Len(t) = Len(s) - 1 /\ DOMAIN t = 1..(Len(s) - 1)
      /\ \A i \in 1..(Len(s) - 1) : t[i] = s[i + 1]
  BY <1>1, <1>2
<1>5. t = <<>> <=> Len(s) = 1
  <2>1. t = <<>> <=> Len(t) = 0
    BY <1>4
  <2> QED BY <1>2, <1>4, <2>1
<1> HIDE DEF t
<1>6. \A i \in 1..(Len(s) - 1) : i + 1 \in 1..Len(s) /\ i # Len(s)
  BY <1>2
<1>7. \A i, j \in 1..Len(s) : s[i] = s[j] => i = j
  BY <1>1 DEF Chain, Once
<1>8. \A i \in 1..Len(s) : nx[s[i]] = IF i = Len(s) THEN Null ELSE s[i + 1]
  BY DEF Chain
<1>9. \A i \in 1..Len(s) : s[i] \in Questions
  BY <1>1
<1>10. Once(t)
  <2>1. ASSUME NEW i \in 1..(Len(s) - 1), NEW j \in 1..(Len(s) - 1), t[i] = t[j] PROVE i = j
    <3>1. i + 1 = j + 1
      BY <1>4, <1>6, <1>7, <2>1
    <3> QED BY <1>2, <3>1
  <2> QED BY <1>4, <2>1 DEF Once
<1>11. nx[start] = IF t = <<>> THEN Null ELSE t[1]
  <2>1. CASE Len(s) = 1
    BY <1>2, <1>3, <1>5, <1>8, <2>1
  <2>2. CASE Len(s) # 1
    <3>1. 1 \in 1..(Len(s) - 1)
      <4>1. \A n \in Nat : n # 0 /\ n # 1 => 1 \in 1..(n - 1)
        OBVIOUS
      <4> QED BY <1>2, <2>2, <4>1
    <3>2. nx[s[1]] = s[1 + 1] /\ t[1] = s[1 + 1]
      BY <1>2, <1>4, <1>8, <2>2, <3>1
    <3> QED BY <1>3, <1>5, <2>2, <3>2
  <2> QED BY <2>1, <2>2
<1>12. ASSUME NEW i \in 1..Len(t) PROVE nx[t[i]] = IF i = Len(t) THEN Null ELSE t[i + 1]
  <2>1. i \in 1..(Len(s) - 1) /\ t[i] = s[i + 1] /\ i + 1 \in 1..Len(s)
    BY <1>4, <1>6
  <2>2. nx[t[i]] = IF i + 1 = Len(s) THEN Null ELSE s[(i + 1) + 1]
    BY <1>8, <2>1
  <2>3. i = Len(t) <=> i + 1 = Len(s)
    BY <1>2, <1>4, <2>1
  <2>4. ASSUME i # Len(t) PROVE t[i + 1] = s[(i + 1) + 1]
    <3>1. i + 1 \in 1..(Len(s) - 1)
      BY <1>2, <1>4, <2>1, <2>4
    <3> QED BY <1>4, <3>1
  <2> QED BY <2>2, <2>3, <2>4
<1>13. Chain(t, nx[start], nx)
  BY <1>4, <1>10, <1>11, <1>12 DEF Chain
<1>14. ASSUME NEW x \in Elements(s), x # start PROVE x \in Elements(t)
  <2>1. PICK i \in 1..Len(s) : x = s[i]
    BY <1>1 DEF Elements
  <2>2. i # 1 /\ i - 1 \in 1..(Len(s) - 1) /\ (i - 1) + 1 = i
    BY <1>2, <1>3, <1>14, <2>1
  <2>3. x = t[i - 1]
    BY <1>4, <2>1, <2>2
  <2> QED BY <1>4, <2>2, <2>3 DEF Elements
<1>15. t = <<>> <=> nx[start] = Null
  <2>1. ASSUME t # <<>> PROVE t[1] \in Questions
    BY <1>4, <2>1
  <2> QED BY <1>11, <2>1, ConstantsAssumption
<1> QED BY <1>3, <1>4, <1>13, <1>14, <1>15 DEF t

\* One question back.
LEMMA ChainBack ==
    ASSUME NEW s, NEW start, NEW nx, Chain(s, start, nx), s # <<>>,
           NEW p \in Questions, nx[p] = start
    PROVE  /\ <<p>> \o s \in Seq(Questions) /\ <<p>> \o s # <<>>
           /\ Chain(<<p>> \o s, p, nx)
           /\ Elements(s) \subseteq Elements(<<p>> \o s)
<1> DEFINE t == <<p>> \o s
<1>1. s \in Seq(Questions) /\ DOMAIN s = 1..Len(s)
  BY DEF Chain
<1>2. Len(s) \in Nat /\ Len(s) # 0 /\ 1 \in 1..Len(s)
  BY <1>1
<1>3. /\ t \in Seq(Questions) /\ Len(t) = Len(s) + 1 /\ DOMAIN t = 1..(Len(s) + 1)
      /\ t[1] = p /\ \A i \in 1..Len(s) : t[i + 1] = s[i]
  BY <1>1, <1>2
<1> HIDE DEF t
<1>4. \A i, j \in 1..Len(s) : s[i] = s[j] => i = j
  BY <1>1 DEF Chain, Once
<1>5. \A i \in 1..Len(s) : nx[s[i]] = IF i = Len(s) THEN Null ELSE s[i + 1]
  BY DEF Chain
<1>6. start = s[1] /\ s[1] \in Questions /\ start # Null
  <2>1. s[1] \in Questions
    BY <1>1, <1>2
  <2> QED BY <2>1, ConstantsAssumption DEF Chain
<1>7. \A i \in 1..Len(s) : s[i] # p
  <2> SUFFICES ASSUME NEW i \in 1..Len(s), s[i] = p PROVE FALSE
    OBVIOUS
  <2>1. i # Len(s)
    BY <1>5, <1>6
  <2>2. s[i + 1] = s[1]
    BY <1>5, <1>6, <2>1
  <2>3. i + 1 \in 1..Len(s) /\ i + 1 # 1
    BY <1>2, <2>1, Inside
  <2> QED BY <1>2, <1>4, <2>2, <2>3
<1>8. \A i \in 1..(Len(s) + 1) : i = 1 \/ (i - 1 \in 1..Len(s) /\ t[i] = s[i - 1])
  <2> TAKE i \in 1..(Len(s) + 1)
  <2>1. i # 1 => i - 1 \in 1..Len(s) /\ (i - 1) + 1 = i
    BY <1>2
  <2> QED BY <1>3, <2>1
<1>9. Once(t)
  <2>1. ASSUME NEW i \in 1..(Len(s) + 1), NEW j \in 1..(Len(s) + 1), t[i] = t[j] PROVE i = j
    <3>1. CASE i = 1 \/ j = 1
      BY <1>3, <1>7, <1>8, <2>1, <3>1
    <3>2. CASE i # 1 /\ j # 1
      <4>1. i - 1 = j - 1
        BY <1>4, <1>8, <2>1, <3>2
      <4> QED BY <1>2, <4>1
    <3> QED BY <3>1, <3>2
  <2> QED BY <1>3, <2>1 DEF Once
<1>10. ASSUME NEW i \in 1..Len(t) PROVE nx[t[i]] = IF i = Len(t) THEN Null ELSE t[i + 1]
  <2>1. CASE i = 1
    <3>1. i # Len(t) /\ t[i + 1] = s[1]
      BY <1>2, <1>3, <2>1
    <3> QED BY <1>3, <1>6, <2>1, <3>1
  <2>2. CASE i # 1
    <3>1. i - 1 \in 1..Len(s) /\ t[i] = s[i - 1]
      BY <1>3, <1>8, <2>2
    <3>2. nx[t[i]] = IF i - 1 = Len(s) THEN Null ELSE s[(i - 1) + 1]
      BY <1>5, <3>1
    <3>3. (i - 1) + 1 = i /\ (i - 1 = Len(s) <=> i = Len(t))
      BY <1>2, <1>3, <3>1
    <3>4. ASSUME i # Len(t) PROVE i \in 1..Len(s)
      BY <1>2, <1>3, <3>1, <3>4
    <3> QED BY <1>3, <3>2, <3>3, <3>4
  <2> QED BY <2>1, <2>2
<1>11. Chain(t, p, nx) /\ t # <<>>
  BY <1>2, <1>3, <1>9, <1>10 DEF Chain
<1>12. ASSUME NEW x \in Elements(s) PROVE x \in Elements(t)
  <2>1. PICK i \in 1..Len(s) : x = s[i]
    BY <1>1 DEF Elements
  <2>2. i + 1 \in 1..(Len(s) + 1)
    BY <1>2
  <2> QED BY <1>3, <2>1, <2>2 DEF Elements
<1> QED BY <1>3, <1>11, <1>12 DEF t


\* After a GO the lists are empty, and what succeeded is valid.
LEMMA AfterGo ==
    ASSUME LInv, fate = "runs", at \in {"module", "going", "asking"}, frontend_clear,
           at' = "replied", UNCHANGED <<fate, hidden, inputs, skipped>>, valid' \subseteq Questions,
           reply' = "ok" /\ mishaps' = {} => Asked \subseteq valid'
    PROVE  LInv'
<1>1. /\ Empty' /\ Converse'
      /\ questions' \in Links /\ questions_noninteractive' \in Links
      /\ next' \in [Questions -> Links] /\ prev' \in [Questions -> Links]
  BY Clearing
<1>2. Asked' = Asked
  BY DEF Asked
<1>3. ListTypes'
  BY <1>1, <1>2 DEF LInv, ListTypes
<1> QED BY <1>1, <1>2, <1>3 DEF LInv, Listed, Noted, ToCome, Between, AnsweredValid

\* While the user is asked, the lists stay.
LEMMA StillAsking ==
    ASSUME LInv, fate = "runs", at' = "asking", UNCHANGED <<fate, lists, hidden, inputs, skipped>>,
           at \in {"module", "going", "asking"}, valid' \subseteq Questions, ToCome',
           mishaps \subseteq mishaps', "switch" \in mishaps' => "switch" \in mishaps,
           at # "asking" /\ mishaps' = {} => ~Endless(questions_noninteractive)
    PROVE  LInv'
<1>1. Asked' = Asked /\ (Twice' <=> Twice)
  BY DEF Asked, Twice
<1>2. /\ ListTypes' /\ Converse'
      /\ Unlinked => Unlinked'
      /\ Bare => Bare'
  BY <1>1 DEF LInv, ListTypes, Converse, Unlinked, Linked, Bare, lists
<1>3. \A s, t : Chains(s, t) => Chains(s, t)'
  BY <1>1 DEF Chains, InOrder, lists
<1>4. ASSUME NEW s, Looped(s) PROVE Looped(s)'
  <2>1. mishaps' # {}
    <3>1. CASE at = "asking"
      BY <1>4, <3>1 DEF Looped
    <3>2. CASE at # "asking"
      BY <1>4, <3>2, LoopMembers DEF Looped
    <3> QED BY <3>1, <3>2
  <2> QED BY <1>1, <1>4, <2>1 DEF Looped, lists
<1>5. Listed'
  BY <1>2, <1>3, <1>4 DEF LInv, Listed
<1> QED BY <1>2, <1>5 DEF LInv, Noted, Between, AnsweredValid

\* The links of a list that was handed over are cut, so it has one question or none.
LEMMA Cut ==
    ASSUME Bare, NEW start \in Links
    PROVE  ~Endless(start) /\ Members(start) \subseteq Questions
<1>1. PICK s : Chain(s, start, next)
  <2>1. CASE start = Null
    <3>1. Chain(<<>>, start, next)
      BY <2>1 DEF Chain, Once
    <3> QED BY <3>1
  <2>2. CASE start \in Questions
    BY <2>2, Single DEF Bare
  <2> QED BY <2>1, <2>2 DEF Links
<1> QED BY <1>1, ChainMembers DEF Chain, Elements

\* The list of hidden questions when GO begins.
LEMMA Hidden ==
    ASSUME LInv, fate = "runs", at \in {"module", "going"}
    PROVE  /\ Members(questions_noninteractive) \subseteq Questions
           /\ Endless(questions_noninteractive) => Twice /\ at = "module"
<1>1. CASE "switch" \in mishaps
  <2>1. Bare /\ questions_noninteractive \in Links
    BY <1>1 DEF LInv, Listed, ListTypes
  <2> QED BY <2>1, Cut
<1>2. CASE "switch" \notin mishaps
  <2>1. at = "module" /\ Asked \subseteq Questions
    BY <1>2 DEF LInv, Noted, ListTypes, Asked
  <2> QED BY <1>2, <2>1, Endings
<1> QED BY <1>1, <1>2

\* The frontend is replaced.
LEMMA SwitchStep ==
    ASSUME LInv, switch_frontend PROVE LInv'
<1>1. /\ fate = "runs" /\ at = "module" /\ at' = "going" /\ unlink /\ mishaps' = {"switch"}
      /\ UNCHANGED <<fate, questions, questions_noninteractive, hidden, valid, inputs, skipped>>
  BY DEF switch_frontend, working
<1>2. /\ Bare' /\ Converse'
      /\ next' \in [Questions -> Links] /\ prev' \in [Questions -> Links]
  BY <1>1, Unlinking
<1>3. ListTypes'
  BY <1>1, <1>2 DEF LInv, ListTypes, Asked
<1> QED BY <1>1, <1>2, <1>3 DEF LInv, Listed, Noted, ToCome, Between, AnsweredValid

\* GO: what is hidden gets a value, then the first question is shown.
LEMMA GoStep ==
    ASSUME LInv, Go PROVE LInv'
<1>1. /\ fate = "runs" /\ at \in {"module", "going"} /\ UNCHANGED <<hidden, inputs, skipped>>
      /\ ListTypes /\ Converse
  BY DEF Go, LInv
<1>2. Asked' = Asked /\ (Twice' <=> Twice) /\ Asked \subseteq Questions
  BY <1>1 DEF Asked, Twice, ListTypes
<1>3. CASE fate' = "hangs"
  <2>1. Endless(questions_noninteractive) /\ UNCHANGED <<at, lists, valid, mishaps>>
    BY <1>1, <1>3 DEF Go
  <2>2. Twice /\ at = "module"
    BY <1>1, <2>1, Hidden
  <2> QED BY <1>1, <1>2, <1>3, <2>1, <2>2
       DEF LInv, ListTypes, Converse, Listed, Noted, ToCome, Between, AnsweredValid, lists
<1>4. CASE fate' # "hangs"
  <2>1. go_noninteractive /\ UNCHANGED fate
    BY <1>4 DEF Go
  <2>2. /\ valid' \subseteq Questions /\ mishaps \subseteq mishaps'
        /\ "switch" \in mishaps' => "switch" \in mishaps
        /\ mishaps' = {} => /\ mishaps = {} /\ ~Endless(questions_noninteractive)
                            /\ valid' = valid \cup Members(questions_noninteractive)
    <3>1. \A k \in 0..N : Passed(questions_noninteractive, k) \subseteq Members(questions_noninteractive)
      BY Many DEF Passed, Members
    <3>2. Members(questions_noninteractive) \subseteq Questions /\ valid \subseteq Questions
      BY <1>1, Hidden DEF ListTypes
    <3> QED BY <2>1, <3>1, <3>2 DEF go_noninteractive
  <2>3. ASSUME mishaps' = {}
        PROVE  \E shown \in Seq(Questions) : /\ Chain(shown, questions, next)
                                             /\ Asked \subseteq valid' \cup Elements(shown)
    <3>1. ~Endless(questions_noninteractive) /\ mishaps = {}
      BY <2>2, <2>3
    <3>2. PICK shown \in Seq(Questions), quiet \in Seq(Questions) : Chains(shown, quiet)
      BY <1>1, <3>1, LoopMembers DEF LInv, Listed, Looped
    <3>3. /\ Chain(shown, questions, next) /\ Chain(quiet, questions_noninteractive, next)
          /\ Asked = Elements(shown) \cup Elements(quiet)
      BY <3>2 DEF Chains
    <3>4. valid' = valid \cup Elements(quiet)
      BY <2>2, <2>3, <3>3, ChainMembers
    <3> QED BY <3>3, <3>4
  <2>4. CASE questions # Null
    <3>1. at' = "asking" /\ cursor' = questions /\ UNCHANGED lists
      BY <1>4, <2>4 DEF Go
    <3>2. cursor' \in Questions
      BY <1>1, <2>4, <3>1 DEF ListTypes, Links
    <3>3. ToCome'
      <4>1. ASSUME NEW shown, Chain(shown, questions, next) PROVE shown # <<>>
        BY <2>4, <4>1 DEF Chain
      <4> QED BY <1>2, <2>3, <3>1, <3>2, <4>1 DEF ToCome, lists
    <3> QED BY <1>1, <2>1, <2>2, <3>1, <3>3, StillAsking
  <2>5. CASE questions = Null
    <3>1. at' = "replied" /\ frontend_clear
      BY <1>4, <2>5 DEF Go
    <3>2. ASSUME NEW shown \in Seq(Questions), Chain(shown, questions, next) PROVE Elements(shown) = {}
      <4>1. ASSUME shown # <<>> PROVE FALSE
        <5>1. questions = shown[1] /\ shown[1] \in Questions
          BY <3>2, <4>1 DEF Chain
        <5> QED BY <2>5, <5>1, ConstantsAssumption
      <4> QED BY <4>1 DEF Elements
    <3>3. mishaps' = {} => Asked \subseteq valid'
      BY <2>3, <3>2
    <3> QED BY <1>1, <2>1, <2>2, <3>1, <3>3, AfterGo
  <2> QED BY <2>4, <2>5
<1> QED BY <1>3, <1>4

\* The user answers.
LEMMA AnswerStep ==
    ASSUME LInv, frontend_answer PROVE LInv'
<1>1. /\ at = "asking" /\ fate = "runs" /\ UNCHANGED <<fate, hidden, inputs, skipped, mishaps>>
      /\ valid' = valid \cup {cursor} /\ cursor' = next[cursor]
  BY DEF frontend_answer
<1>2. cursor \in Questions /\ next[cursor] \in Links /\ valid' \subseteq Questions
  BY <1>1 DEF LInv, ToCome, ListTypes
<1>3. ASSUME mishaps = {}
      PROVE  \E rest \in Seq(Questions) : /\ Chain(rest, next[cursor], next)
                                          /\ rest = <<>> <=> next[cursor] = Null
                                          /\ Asked \subseteq valid' \cup Elements(rest)
  <2>1. PICK rest \in Seq(Questions) : /\ Chain(rest, cursor, next) /\ rest # <<>>
                                       /\ Asked \subseteq valid \cup Elements(rest)
    BY <1>1, <1>3 DEF LInv, ToCome
  <2>2. /\ Tail(rest) \in Seq(Questions)
        /\ Chain(Tail(rest), next[cursor], next)
        /\ Elements(rest) \subseteq Elements(Tail(rest)) \cup {cursor}
        /\ Tail(rest) = <<>> <=> next[cursor] = Null
    BY <2>1, ChainTail
  <2> QED BY <1>1, <2>1, <2>2
<1>4. CASE cursor' = Null
  <2>1. at' = "replied" /\ frontend_clear
    BY <1>4 DEF frontend_answer
  <2>2. mishaps = {} => Asked \subseteq valid'
    BY <1>1, <1>3, <1>4 DEF Elements
  <2> QED BY <1>1, <1>2, <2>1, <2>2, AfterGo
<1>5. CASE cursor' # Null
  <2>1. UNCHANGED <<at, lists>>
    BY <1>5 DEF frontend_answer
  <2>2. Asked' = Asked /\ cursor' \in Questions
    BY <1>1, <1>2, <1>5 DEF Asked, Links
  <2>3. ToCome'
    BY <1>1, <1>3, <1>5, <2>1, <2>2 DEF ToCome, lists
  <2> QED BY <1>1, <1>2, <2>1, <2>3, StillAsking
<1> QED BY <1>4, <1>5

\* The user goes back: on the list, or from its first question.
LEMMA BackStep ==
    ASSUME LInv, frontend_back PROVE LInv'
<1>1. /\ at = "asking" /\ fate = "runs" /\ UNCHANGED <<fate, hidden, inputs, skipped, valid, mishaps>>
      /\ cursor' = prev[cursor] /\ ListTypes /\ Converse
  BY DEF frontend_back, LInv
<1>2. cursor \in Questions /\ valid' \subseteq Questions
  BY <1>1 DEF LInv, ToCome, ListTypes
<1>3. CASE cursor' = Null
  <2>1. at' = "replied" /\ frontend_clear /\ reply' = "back"
    BY <1>3 DEF frontend_back, command_go
  <2> QED BY <1>1, <1>2, <2>1, AfterGo
<1>4. CASE cursor' # Null
  <2>1. UNCHANGED <<at, lists>>
    BY <1>4 DEF frontend_back
  <2>2. cursor' \in Questions /\ next[cursor'] = cursor
    BY <1>1, <1>2, <1>4 DEF ListTypes, Links, Converse
  <2>3. PICK p \in Questions : p = cursor' /\ next[p] = cursor
    BY <2>2
  <2>4. ASSUME mishaps = {}
        PROVE  \E more \in Seq(Questions) : /\ Chain(more, p, next) /\ more # <<>>
                                            /\ Asked \subseteq valid \cup Elements(more)
    <3>1. PICK rest \in Seq(Questions) : /\ Chain(rest, cursor, next) /\ rest # <<>>
                                         /\ Asked \subseteq valid \cup Elements(rest)
      BY <1>1, <2>4 DEF LInv, ToCome
    <3> DEFINE more == <<p>> \o rest
    <3>2. /\ more \in Seq(Questions) /\ more # <<>> /\ Chain(more, p, next)
          /\ Elements(rest) \subseteq Elements(more)
      BY <2>3, <3>1, ChainBack
    <3> HIDE DEF more
    <3> QED BY <3>1, <3>2
  <2>5. Asked' = Asked
    BY <1>1 DEF Asked
  <2>6. ToCome'
    BY <1>1, <2>1, <2>3, <2>4, <2>5 DEF ToCome, lists
  <2> QED BY <1>1, <1>2, <2>1, <2>6, StillAsking
<1> QED BY <1>3, <1>4

\* Something fails, or there is no handler.
LEMMA ErrorStep ==
    ASSUME LInv, frontend_error \/ frontend_notimpl PROVE LInv'
<1>1. /\ at = "asking" /\ fate = "runs" /\ UNCHANGED <<fate, hidden, inputs, skipped, valid>>
      /\ at' = "replied" /\ frontend_clear /\ (reply' # "ok" \/ mishaps' # {})
  BY DEF frontend_error, frontend_notimpl, command_go, settings
<1> QED BY <1>1, AfterGo DEF LInv, ListTypes

\* The other commands and the module itself.
LEMMA OtherSteps ==
    ASSUME LInv, command_set \/ command_reset \/ command_capb \/ Dead \/ UNCHANGED vars
    PROVE  LInv'
<1>1. UNCHANGED <<at, fate, lists, inputs, skipped, cursor, reply, mishaps>>
  BY DEF command_set, command_reset, command_capb, Dead, vars, history
<1>2. hidden' \subseteq Questions /\ valid' \subseteq Questions
  BY DEF command_set, command_reset, command_capb, Dead, vars, settings, LInv, ListTypes
<1>3. at = "module" \/ valid' = valid
  BY DEF command_set, command_reset, command_capb, Dead, vars, settings, working
<1>4. Asked' = Asked /\ (Twice' <=> Twice)
  BY <1>1 DEF Asked, Twice
<1>5. ListTypes' /\ Converse' /\ (Unlinked => Unlinked') /\ (Empty => Empty') /\ (Bare => Bare')
  BY <1>1, <1>2, <1>4 DEF LInv, ListTypes, Converse, Unlinked, Linked, Empty, Bare, lists
<1>6. \A s, t : (Chains(s, t) => Chains(s, t)') /\ (Looped(s) => Looped(s)')
  BY <1>1, <1>4 DEF Chains, Looped, InOrder, lists
<1>7. Listed'
  BY <1>1, <1>4, <1>5, <1>6 DEF LInv, Noted, Listed
<1>8. ToCome' /\ Between' /\ AnsweredValid' /\ Noted'
  BY <1>1, <1>3, <1>4 DEF LInv, Noted, ToCome, Between, AnsweredValid, lists
<1> QED BY <1>5, <1>7, <1>8 DEF LInv

\* Nothing put, nothing listed.
LEMMA Afresh ==
    ListTypes /\ Empty /\ inputs = <<>> => Asked = {} /\ ~Twice /\ Unlinked /\ Chains(<<>>, <<>>)
<1> SUFFICES ASSUME ListTypes, Empty, inputs = <<>>
             PROVE  Asked = {} /\ ~Twice /\ Unlinked /\ Chains(<<>>, <<>>)
  OBVIOUS
<1>1. Asked = {} /\ ~Twice
  BY FS_EmptySet DEF Asked, Twice
<1>2. Elements(<<>>) = {} /\ skipped = {} /\ <<>> \in Seq(Questions)
  BY <1>1 DEF Elements, ListTypes
<1>3. Chain(<<>>, Null, next)
  BY DEF Chain, Once
<1> QED BY <1>1, <1>2, <1>3 DEF Empty, Unlinked, Linked, Chains, InOrder, Elements

\* CLEAR, the next step and the next module begin with empty lists.
LEMMA FreshSteps ==
    ASSUME LInv, command_clear \/ Proceed \/ NextModule
    PROVE  LInv'
<1>1. inputs' = <<>> /\ skipped' \subseteq skipped /\ UNCHANGED <<fate, hidden, valid>> /\ fate = "runs"
      /\ at' \in {"module", "ended"} /\ mishaps' = {}
  BY DEF command_clear, Proceed, NextModule, LInv, Noted, Listed, Between, settings, working
<1>2. /\ Empty' /\ Converse'
      /\ questions' \in Links /\ questions_noninteractive' \in Links
      /\ next' \in [Questions -> Links] /\ prev' \in [Questions -> Links]
  <2>1. CASE command_clear
    BY <2>1, Clearing DEF command_clear, working
  <2>2. CASE Proceed \/ NextModule
    <3>1. Empty /\ Converse /\ ListTypes /\ UNCHANGED lists
      BY <2>2 DEF Proceed, NextModule, LInv, Noted, Listed
    <3> QED BY <3>1 DEF Empty, Converse, ListTypes, lists
  <2> QED BY <2>1, <2>2
<1>3. skipped' \subseteq Asked'
  <2>1. CASE command_clear \/ Proceed
    BY <2>1 DEF command_clear, Proceed
  <2>2. CASE NextModule
    BY <2>2 DEF NextModule, LInv, ListTypes, Asked
  <2> QED BY <2>1, <2>2
<1>4. ListTypes'
  BY <1>1, <1>2, <1>3 DEF LInv, ListTypes
<1>5. Asked' = {} /\ ~Twice' /\ Unlinked' /\ Chains(<<>>, <<>>)' /\ <<>> \in Seq(Questions)
  <2>1. (ListTypes /\ Empty /\ inputs = <<>>)' => (Asked = {} /\ ~Twice /\ Unlinked /\ Chains(<<>>, <<>>))'
    BY Afresh, PTL
  <2> QED BY <1>1, <1>2, <1>4, <2>1
<1> QED BY <1>1, <1>2, <1>4, <1>5 DEF LInv, Noted, Listed, ToCome, Between, AnsweredValid


-----------------------------------------------------------------------------
\* The way through the steps.

\* Commands leave the way alone, but for backed_up and what is to be asked.
LEMMA WayInput ==
    ASSUME ListTypes, Way, Input PROVE Way'
<1>1. /\ working /\ at = "module" /\ UNCHANGED <<at, step, from, erred, reply>>
      /\ step \in DOMAIN Steps
  BY DEF Input, working, Way
<1>2. PICK q \in Steps[step] : (~Linked(q) /\ command_input(q)) \/ input_fails(q)
  BY DEF Input
<1>3. q # Null
  BY <1>1, <1>2, ConstantsAssumption
<1>4. \/ questions' = questions /\ backed_up' = backed_up
      \/ questions' # Null /\ backed_up' = FALSE
  BY <1>2, <1>3 DEF command_input, input_fails, frontend_add, frontend_add_noninteractive, lists
<1>5. CASE questions' = questions /\ backed_up' = backed_up
  BY <1>1, <1>5 DEF Way
<1>6. CASE questions' # Null /\ backed_up' = FALSE
  BY <1>1, <1>6 DEF Way
<1> QED BY <1>4, <1>5, <1>6

\* A GO ends, or the user is asked.
LEMMA WayGo ==
    ASSUME ListTypes, Way, Go PROVE Way'
<1>1. at \in {"module", "going"} /\ UNCHANGED <<step, from, erred>> /\ step \in DOMAIN Steps
  BY DEF Go, Way
<1>2. CASE at' = at /\ UNCHANGED <<questions, backed_up>>
  BY <1>1, <1>2 DEF Way
<1>3. CASE at' = "asking" /\ UNCHANGED <<questions, backed_up>> /\ questions # Null
  BY <1>1, <1>3 DEF Way
<1>4. CASE at' = "replied" /\ questions = Null /\ command_go("ok")
  <2>1. backed_up' = (reply' = "back") /\ reply' = (IF backed_up THEN "back" ELSE "ok")
    BY <1>4 DEF command_go
  <2>2. from # 0 => step < from /\ backed_up
    BY <1>1, <1>4 DEF Way
  <2>3. backed_up => from # 0 \/ erred
    BY <1>1 DEF Way
  <2>4. step \in Nat /\ from \in Nat /\ backed_up \in BOOLEAN
    BY DEF Way
  <2> QED BY <1>1, <1>4, <2>1, <2>2, <2>3, <2>4 DEF Way
<1> QED BY <1>1, <1>2, <1>3, <1>4 DEF Go, lists

\* The frontend is replaced, and the first questions stay.
LEMMA WaySwitch ==
    ASSUME Way, switch_frontend PROVE Way'
<1>1. /\ at = "module" /\ at' = "going"
      /\ UNCHANGED <<questions, backed_up, reply, step, from, erred>>
  BY DEF switch_frontend, working
<1> QED BY <1>1 DEF Way

\* The user's answers.
LEMMA WayFrontend ==
    ASSUME Way, frontend_answer \/ frontend_back \/ frontend_error \/ frontend_notimpl
    PROVE  Way'
<1>1. /\ at = "asking" /\ step' = step /\ step \in DOMAIN Steps /\ ~backed_up /\ questions # Null
      /\ step \in Nat /\ from \in Nat /\ step # 0
  <2>1. at = "asking" /\ step' = step
    BY DEF frontend_answer, frontend_back, frontend_error, frontend_notimpl
  <2> QED BY <2>1, ConstantsAssumption DEF Way
<1>2. CASE UNCHANGED <<at, backed_up, reply, lists, from>> /\ erred' = erred
  BY <1>1, <1>2 DEF Way, lists
<1>3. CASE at' = "replied" /\ command_go("ok") /\ from' = 0
  BY <1>1, <1>3 DEF Way, command_go
<1>4. CASE at' = "replied" /\ command_go("back") /\ from' = step
  BY <1>1, <1>4 DEF Way, command_go
<1>5. CASE at' = "replied" /\ command_go("error") /\ from' = 0 /\ erred' = TRUE
  BY <1>1, <1>5 DEF Way, command_go
<1> QED BY <1>2, <1>3, <1>4, <1>5 DEF frontend_answer, frontend_back, frontend_error, frontend_notimpl

\* The module goes on or back.
LEMMA WayProceed ==
    ASSUME Way, Empty, Proceed PROVE Way'
<1>1. /\ at = "replied" /\ step \in DOMAIN Steps /\ step \in Nat /\ from \in Nat
      /\ backed_up \in BOOLEAN
      /\ UNCHANGED <<questions, backed_up, from, erred>> /\ questions = Null
  BY DEF Proceed, Way, Empty, lists
<1>2. step' = (IF reply = "ok" THEN step + 1 ELSE step - 1)
      /\ at' = (IF step' \in DOMAIN Steps THEN "module" ELSE "ended")
  BY DEF Proceed
<1>3. DOMAIN Steps = 1..Len(Steps) /\ Len(Steps) \in Nat
  BY ConstantsAssumption
<1>4. /\ step <= from \/ from = 0
      /\ reply = "ok" => from = 0
      /\ reply # "ok" => from # 0 \/ erred
      /\ backed_up = (reply = "back")
      /\ from # 0 => reply = "back"
  BY <1>1 DEF Way
<1>5. step' \in Nat
  BY <1>1, <1>2, <1>3
<1>6. CASE reply = "ok"
  <2>a. ~backed_up
    BY <1>1, <1>4, <1>6, Zenon
  <2>b. step + 1 # 0
    BY <1>1
  <2>1. from' = 0 /\ ~backed_up' /\ step' # 0
    BY <1>1, <1>2, <1>4, <1>6, <2>a, <2>b
  <2>2. at' \in {"module", "ended"} /\ (at' = "module" => step' \in DOMAIN Steps)
    BY <1>2
  <2> QED BY <1>1, <1>5, <2>1, <2>2 DEF Way
<1>7. CASE reply # "ok"
  <2>1. step' = step - 1 /\ (at' = "ended" => step' = 0) /\ (at' = "module" => step' \in DOMAIN Steps)
    BY <1>1, <1>2, <1>3, <1>7
  <2>a. from # 0 => backed_up
    BY <1>1, <1>4, Zenon
  <2>b. from # 0 => step - 1 < from
    BY <1>1, <1>4
  <2>2. from' # 0 => step' < from' /\ backed_up'
    BY <1>1, <2>1, <2>a, <2>b
  <2>3. from' # 0 \/ erred'
    BY <1>1, <1>4, <1>7
  <2>4. at' \in {"module", "ended"}
    BY <1>2
  <2> QED BY <1>1, <1>5, <2>1, <2>2, <2>3, <2>4 DEF Way
<1> QED BY <1>6, <1>7

\* Everything else.
LEMMA WayOthers ==
    ASSUME Way, Listed,
           command_set \/ command_reset \/ command_capb \/ command_clear \/ NextModule
           \/ Dead \/ UNCHANGED vars
    PROVE  Way'
<1>1. CASE command_set \/ command_reset \/ command_capb \/ Dead \/ UNCHANGED vars
  <2>1. UNCHANGED <<at, questions, backed_up, reply, step, from, erred>>
    BY <1>1 DEF command_set, command_reset, command_capb, Dead, vars, lists, history
  <2> QED BY <2>1 DEF Way
<1>2. CASE command_clear
  <2>1. /\ UNCHANGED <<at, backed_up, reply, step, erred>> /\ questions' = Null /\ at = "module"
        /\ from' = IF questions = Null THEN from ELSE 0
    BY <1>2 DEF command_clear, frontend_clear, working
  <2> QED BY <2>1 DEF Way
<1>3. CASE NextModule
  <2>1. /\ at = "ended" /\ at' = "module" /\ step' = 1 /\ from' = 0 /\ erred' = FALSE
        /\ backed_up' = (IF step = 0 THEN FALSE ELSE backed_up)
        /\ UNCHANGED lists
    BY <1>3 DEF NextModule
  <2>2. backed_up' = FALSE
    BY <2>1 DEF Way
  <2>3. step' \in DOMAIN Steps /\ step' \in Nat
    <3>1. Steps \in Seq(SUBSET Questions) /\ Steps # <<>>
      BY ConstantsAssumption
    <3>2. 1 \in DOMAIN Steps
      BY <3>1
    <3> QED BY <2>1, <3>2
  <2> QED BY <2>1, <2>2, <2>3 DEF Way
<1> QED BY <1>1, <1>2, <1>3

-----------------------------------------------------------------------------
\* The invariant holds at the start,
LEMMA InitInv == Init => IInv
<1> SUFFICES ASSUME Init PROVE IInv
  OBVIOUS
<1>1. ListTypes /\ Empty /\ Converse
  BY ConstantsAssumption DEF Init, ListTypes, Links, Asked, Empty, Converse
<1>a. <<>> \in Seq(Questions)
  OBVIOUS
<1>2. LInv
  BY <1>1, <1>a, Afresh DEF Init, LInv, Noted, Listed, ToCome, Between, AnsweredValid
<1>3. 1 \in DOMAIN Steps
  <2>1. Steps \in Seq(SUBSET Questions) /\ Steps # <<>>
    BY ConstantsAssumption
  <2> QED BY <2>1
<1>4. Way
  BY <1>3 DEF Init, Way
<1> QED BY <1>2, <1>4 DEF IInv

\* and every step keeps it.
LEMMA StepInv == IInv /\ [Next]_vars => IInv'
<1> SUFFICES ASSUME LInv, Way, [Next]_vars PROVE LInv' /\ Way'
  BY DEF IInv
<1>1. CASE command_set \/ command_reset \/ command_capb \/ Dead \/ UNCHANGED vars
  BY <1>1, OtherSteps, WayOthers DEF LInv
<1>2. CASE Input
  BY <1>2, InputStep, WayInput DEF LInv
<1>3. CASE command_clear \/ NextModule
  BY <1>3, FreshSteps, WayOthers DEF LInv
<1>4. CASE switch_frontend \/ Go
  BY <1>4, SwitchStep, WaySwitch, GoStep, WayGo DEF LInv
<1>5. CASE frontend_answer \/ frontend_back \/ frontend_error \/ frontend_notimpl
  BY <1>5, AnswerStep, BackStep, ErrorStep, WayFrontend
<1>6. CASE Proceed
  <2>1. Empty
    BY <1>6 DEF Proceed, LInv, Noted, Listed
  <2> QED BY <1>6, <2>1, FreshSteps, WayProceed
<1> QED BY <1>1, <1>2, <1>3, <1>4, <1>5, <1>6 DEF Next

\* The invariant holds of every behaviour.
THEOREM Invariance == Spec => []IInv
<1>1. QED BY InitInv, StepInv, PTL DEF Spec

\* INPUT and GO neither loop nor die of an assertion, for any module that puts
\* no question twice before GO.
THEOREM FatalOnlyTwice == Spec => []OnlyTwiceFatal
<1>1. IInv => OnlyTwiceFatal
  BY DEF IInv, LInv, Noted, Listed, ListTypes, OnlyTwiceFatal
<1> QED BY <1>1, Invariance, PTL

\* The linked lists hold what the module put, in its order: INPUT loses nothing
\* and frontend_clear leaves nothing.  A GO that replaces the frontend is the exception.
THEOREM ListsHoldInputs == Spec => []ListsAreInputs
<1>1. IInv => ListsAreInputs
  <2> SUFFICES ASSUME IInv, at \in {"module", "asking"}, ~Twice, "switch" \notin mishaps
               PROVE  /\ InOrder(ListFrom(questions), Asked \ skipped)
                      /\ InOrder(ListFrom(questions_noninteractive), skipped)
    BY DEF ListsAreInputs
  <2>1. PICK shown \in Seq(Questions), quiet \in Seq(Questions) : Chains(shown, quiet)
    BY DEF IInv, LInv, Noted, Listed, Looped
  <2>2. ListFrom(questions) = shown /\ ListFrom(questions_noninteractive) = quiet
    BY <2>1, ChainMembers DEF Chains
  <2> QED BY <2>1, <2>2 DEF Chains
<1> QED BY <1>1, Invariance, PTL

\* A GO that succeeds leaves a value in every question that was put, also in one
\* that was put twice, on both lists; unless it replaced the frontend, or had no handler
\* or no choices for one of them.
THEOREM AllAnswered == Spec => []AnsweredValid
<1>1. IInv => AnsweredValid
  BY DEF IInv, LInv
<1> QED BY <1>1, Invariance, PTL

\* However many steps without a visible question lie between, and whatever is
\* hidden on the way, a backup reaches an earlier step.
THEOREM BackupReachesBack == Spec => []BackupGoesBack
<1>1. IInv => BackupGoesBack
  BY DEF IInv, Way, BackupGoesBack
<1> QED BY <1>1, Invariance, PTL

\* A module is backed out of only after a backup or a failure in that very module:
\* backed_up does not outlive the module it was set in.
THEOREM ModuleEndsByWish == Spec => []EndsByWish
<1>1. IInv => EndsByWish
  BY DEF IInv, Way, EndsByWish
<1> QED BY <1>1, Invariance, PTL
=============================================================================
