---------------------------- MODULE RouterProofs ----------------------------
(***************************************************************************)
(* Proofs about the two routers, for every set of patterns, subjects and   *)
(* sessions and every matching relation, and about the relations between   *)
(* the three matchers, for patterns and subjects of any length over any    *)
(* set of segments.                                                        *)
(***************************************************************************)
EXTENDS RouterPair, SubjectMatch, FiniteSetTheorems, FunctionTheorems, WellFoundedInduction, TLAPS

-----------------------------------------------------------------------------
(* Induction *)

\* A set of numbers that is not empty has a least one.
LEMMA Least ==
  ASSUME NEW T, T \subseteq Nat, T # {}
  PROVE  \E x \in T : \A y \in T : x <= y
<1> DEFINE Less == OpToRel(<, Nat)
<1>1. IsWellFoundedOn(Less, Nat)
  BY NatLessThanWellFounded
<1>2. Less = {ss \in Nat \X Nat : ss[1] < ss[2]}
  BY Zenon DEF OpToRel
<1> HIDE DEF Less
<1>3. PICK x \in T : \A y \in T : ~ (<<y, x>> \in Less)
  BY <1>1, WFMin
<1>4. ASSUME NEW y \in T PROVE x <= y
  <2>1. x \in Nat /\ y \in Nat
    OBVIOUS
  <2>2. y < x => <<y, x>> \in Less
    BY <1>2, <2>1, SMT
  <2>3. ~ (y < x)
    BY <1>3, <2>2, Zenon
  <2>4. QED
    BY <2>1, <2>3
<1>5. QED
  BY <1>4

\* Induction over the numbers in a set, for the loops over a list.
LEMMA SetInduction ==
  ASSUME NEW T, 0 \in T, \A n \in Nat : n \in T => n + 1 \in T
  PROVE  Nat \subseteq T
<1> SUFFICES ASSUME Nat \ T # {} PROVE FALSE
  OBVIOUS
<1>1. PICK x \in Nat \ T : \A y \in Nat \ T : x <= y
  BY Least
<1>2. x # 0 /\ x - 1 \in Nat /\ x - 1 \notin Nat \ T
  BY <1>1
<1>3. QED
  BY <1>1, <1>2

-----------------------------------------------------------------------------
(* Lists of sessions *)

\* What the list holds, and that it holds nothing twice.
Members(list) == {list[i] : i \in 1..Len(list)}
NoRepeats(list) == \A i, j \in 1..Len(list) : list[i] = list[j] => i = j

\* f[n] is what the loop of Router.Unsubscribe has kept of the first n
\* sessions, for n up to i.
Loop(f, list, s, i) ==
  f = [n \in 0..i |->
         IF n = 0 THEN <<>>
         ELSE IF list[n] # s THEN Append(f[n - 1], list[n]) ELSE f[n - 1]]

\* The loop computes a result for every list.
LEMMA LoopIsDefined ==
  ASSUME NEW list, NEW s, NEW k \in Nat
  PROVE  \E f : Loop(f, list, s, k)
<1> DEFINE Is(f, i) == f = [n \in 0..i |->
                    IF n = 0 THEN <<>>
                    ELSE IF list[n] # s THEN Append(f[n - 1], list[n]) ELSE f[n - 1]]
           T == {i \in Nat : \E f : Is(f, i)}
<1>1. 0 \in T
  <2>1. Is([n \in 0..0 |-> <<>>], 0)
    OBVIOUS
  <2>2. QED
    BY <2>1
<1>2. ASSUME NEW i \in Nat, i \in T PROVE i + 1 \in T
  <2>1. PICK f : Is(f, i)
    BY <1>2
  <2> DEFINE g == [n \in 0..i + 1 |->
                     IF n <= i THEN f[n]
                     ELSE IF list[n] # s THEN Append(f[n - 1], list[n]) ELSE f[n - 1]]
  <2>2. \A n \in 0..i : g[n] = f[n]
    OBVIOUS
  <2>3. \A n \in 1..i + 1 : n - 1 \in 0..i
    OBVIOUS
  <2>4. ASSUME NEW n \in 0..i + 1
        PROVE  g[n] = IF n = 0 THEN <<>>
                      ELSE IF list[n] # s THEN Append(g[n - 1], list[n]) ELSE g[n - 1]
    <3>1. CASE n <= i
      <4>1. n \in 0..i /\ (n # 0 => n - 1 \in 0..i)
        BY <3>1
      <4>2. g[n] = f[n] /\ (n # 0 => g[n - 1] = f[n - 1])
        BY <2>2, <4>1
      <4> HIDE DEF g
      <4>3. QED
        BY <2>1, <4>1, <4>2
    <3>2. CASE ~ (n <= i)
      <4>1. n # 0 /\ n - 1 \in 0..i
        BY <3>2
      <4>2. g[n] = IF list[n] # s THEN Append(f[n - 1], list[n]) ELSE f[n - 1]
        BY <3>2
      <4>3. QED
        BY <2>2, <4>1, <4>2
    <3>3. QED
      BY <3>1, <3>2
  <2>5. Is(g, i + 1)
    BY <2>4
  <2> HIDE DEF g, Is
  <2>6. \E h : Is(h, i + 1)
    BY <2>5
  <2>7. QED
    BY <2>6
<1>3. Nat \subseteq T
  <2> HIDE DEF T
  <2>1. QED
    BY <1>1, <1>2, SetInduction
<1>4. QED
  BY <1>3 DEF Loop

\* append(sessions, session)
LEMMA AppendFacts ==
  ASSUME NEW list \in Seq(Session), NoRepeats(list), NEW s \in Session
  PROVE  /\ Append(list, s) \in Seq(Session)
         /\ Members(Append(list, s)) = Members(list) \cup {s}
         /\ s \notin Members(list) => NoRepeats(Append(list, s))
<1>1. Len(list) \in Nat /\ Len(Append(list, s)) = Len(list) + 1
  OBVIOUS
<1>2. \A i \in 1..Len(list) + 1 :
        Append(list, s)[i] = IF i = Len(list) + 1 THEN s ELSE list[i]
  OBVIOUS
<1>3. \A i \in 1..Len(list) + 1 : i = Len(list) + 1 \/ i \in 1..Len(list)
  BY <1>1
<1>4. \A i \in 1..Len(list) : i \in 1..Len(list) + 1 /\ i # Len(list) + 1
  BY <1>1
<1>5. Len(list) + 1 \in 1..Len(list) + 1
  BY <1>1
<1>6. s \notin Members(list) => NoRepeats(Append(list, s))
  BY <1>1, <1>2, <1>3, Zenon DEF NoRepeats, Members
<1>7. Members(Append(list, s)) = Members(list) \cup {s}
  BY <1>1, <1>2, <1>3, <1>4, <1>5 DEF Members
<1>8. QED
  BY <1>6, <1>7

\* The loop of Router.Unsubscribe keeps the other sessions, each once.
LEMMA FilteredFacts ==
  ASSUME NEW list \in Seq(Session), NoRepeats(list), NEW s
  PROVE  /\ R!Filtered(list, s) \in Seq(Session) /\ NoRepeats(R!Filtered(list, s))
         /\ Members(R!Filtered(list, s)) = Members(list) \ {s}
<1> DEFINE f == CHOOSE g : Loop(g, list, s, Len(list))
           Seen(n) == {list[i] : i \in 1..n}
           Good(n) == f[n] \in Seq(Session) /\ NoRepeats(f[n]) /\ Members(f[n]) = Seen(n) \ {s}
           T == {n \in Nat : n <= Len(list) => Good(n)}
<1>0. Len(list) \in Nat
  OBVIOUS
<1>1. Loop(f, list, s, Len(list))
  <2>1. \E g : Loop(g, list, s, Len(list))
    BY <1>0, LoopIsDefined
  <2>2. QED
    BY <2>1
<1>2. R!Filtered(list, s) = f[Len(list)]
  BY DEF R!Filtered, Loop
<1> HIDE DEF f
<1>3. 0 \in T
  <2>1. f[0] = <<>>
    BY <1>0, <1>1 DEF Loop
  <2>2. Good(0)
    BY <2>1 DEF NoRepeats, Members
  <2>3. QED
    BY <2>2
<1>4. ASSUME NEW n \in Nat, n \in T PROVE n + 1 \in T
  <2> SUFFICES ASSUME n + 1 <= Len(list) PROVE Good(n + 1)
    OBVIOUS
  <2>1. Good(n) /\ n + 1 \in 1..Len(list) /\ list[n + 1] \in Session
    BY <1>4
  <2>2. f[n + 1] = IF list[n + 1] # s THEN Append(f[n], list[n + 1]) ELSE f[n]
    <3>1. n + 1 \in 0..Len(list) /\ n + 1 # 0 /\ n + 1 - 1 = n
      BY <2>1
    <3>2. \A m \in 0..Len(list) :
            f[m] = IF m = 0 THEN <<>>
                   ELSE IF list[m] # s THEN Append(f[m - 1], list[m]) ELSE f[m - 1]
      BY <1>1, Zenon DEF Loop
    <3>3. QED
      BY <3>1, <3>2
  <2>3. Seen(n + 1) = Seen(n) \cup {list[n + 1]}
    <3>1. 1..n + 1 = (1..n) \cup {n + 1}
      OBVIOUS
    <3>2. QED
      BY <3>1
  <2>4. list[n + 1] \notin Seen(n)
    BY <2>1 DEF NoRepeats
  <2> HIDE DEF Seen
  <2>5. CASE list[n + 1] = s
    BY <2>1, <2>2, <2>3, <2>5
  <2>6. CASE list[n + 1] # s
    <3>1. f[n + 1] = Append(f[n], list[n + 1]) /\ list[n + 1] \notin Members(f[n])
      BY <2>1, <2>2, <2>4, <2>6
    <3>2. QED
      BY <2>1, <2>3, <2>6, <3>1, AppendFacts
  <2>7. QED
    BY <2>5, <2>6
<1>5. Nat \subseteq T
  <2> HIDE DEF T
  <2>1. QED
    BY <1>3, <1>4, SetInduction
<1>6. Good(Len(list))
  <2>1. Len(list) \in T /\ Len(list) <= Len(list)
    BY <1>0, <1>5
  <2>2. QED
    BY <2>1
<1>7. QED
  BY <1>2, <1>6 DEF Members

\* Closing a list around its first occurrence of a session keeps the others,
\* each once.
LEMMA WithoutFacts ==
  ASSUME NEW list \in Seq(Session), NoRepeats(list), NEW s
  PROVE  /\ O!Without(list, s) \in Seq(Session) /\ NoRepeats(O!Without(list, s))
         /\ Members(O!Without(list, s)) = Members(list) \ {s}
<1>0. O!Range(list) = Members(list)
  BY DEF O!Range, Members
<1>1. CASE s \notin Members(list)
  BY <1>0, <1>1 DEF O!Without
<1>2. CASE s \in Members(list)
  <2> DEFINE i == O!First(list, s)
             rest == SubSeq(list, 1, i - 1) \o SubSeq(list, i + 1, Len(list))
             n == Len(list)
  <2>1. i \in 1..Len(list) /\ list[i] = s
    <3>1. PICK k \in 1..Len(list) : list[k] = s
      BY <1>2 DEF Members
    <3>2. k \in DOMAIN list /\ \A j \in 1..k - 1 : list[j] # s
      BY <3>1 DEF NoRepeats
    <3>3. \E m \in DOMAIN list : list[m] = s /\ \A j \in 1..m - 1 : list[j] # s
      BY <3>1, <3>2
    <3>4. QED
      BY <3>3 DEF O!First
  <2>2. O!Without(list, s) = rest
    BY <1>0, <1>2 DEF O!Without
  <2> HIDE DEF i
  <2> DEFINE a == SubSeq(list, 1, i - 1)
             b == SubSeq(list, i + 1, n)
  <2>a. a \in Seq(Session) /\ Len(a) = i - 1 /\ \A j \in 1..i - 1 : a[j] = list[j]
    BY <2>1
  <2>b. b \in Seq(Session) /\ Len(b) = n - i /\ \A j \in 1..n - i : b[j] = list[i + j]
    BY <2>1
  <2>c. rest = a \o b
    OBVIOUS
  <2> HIDE DEF a, b, rest
  <2>3. rest \in Seq(Session) /\ Len(rest) = n - 1
    BY <2>1, <2>a, <2>b, <2>c
  <2>4. \A j \in 1..n - 1 : rest[j] = IF j < i THEN list[j] ELSE list[j + 1]
    BY <2>1, <2>a, <2>b, <2>c
  <2>5. n \in Nat /\ i \in 1..n
    BY <2>1
  <2>6. ASSUME NEW j \in 1..n - 1
        PROVE  (IF j < i THEN j ELSE j + 1) \in 1..n /\ (IF j < i THEN j ELSE j + 1) # i
    BY <2>5
  <2>7. NoRepeats(rest)
    <3> SUFFICES ASSUME NEW j \in 1..n - 1, NEW k \in 1..n - 1, rest[j] = rest[k]
                 PROVE  j = k
      BY <2>3 DEF NoRepeats
    <3>1. list[IF j < i THEN j ELSE j + 1] = list[IF k < i THEN k ELSE k + 1]
      BY <2>4
    <3>2. (IF j < i THEN j ELSE j + 1) = (IF k < i THEN k ELSE k + 1)
      BY <2>6, <3>1, Zenon DEF NoRepeats
    <3>3. QED
      BY <2>5, <3>2
  <2>8. ASSUME NEW j \in 1..n - 1 PROVE rest[j] \in Members(list) \ {s}
    <3>1. rest[j] = list[IF j < i THEN j ELSE j + 1]
      BY <2>4
    <3>2. QED
      BY <2>1, <2>6, <3>1, Zenon DEF Members, NoRepeats
  <2>9. ASSUME NEW k \in 1..n, list[k] # s PROVE list[k] \in Members(rest)
    <3> DEFINE j == IF k < i THEN k ELSE k - 1
    <3>1. k # i
      BY <2>1, <2>9
    <3>2. j \in 1..n - 1 /\ k = IF j < i THEN j ELSE j + 1
      BY <2>5, <3>1
    <3>3. rest[j] = list[k]
      BY <2>4, <3>2
    <3> HIDE DEF j
    <3>4. QED
      BY <2>3, <3>2, <3>3 DEF Members
  <2>10. Members(rest) = Members(list) \ {s}
    <3>1. Members(rest) \subseteq Members(list) \ {s}
      BY <2>3, <2>8 DEF Members
    <3>2. Members(list) \ {s} \subseteq Members(rest)
      <4> SUFFICES ASSUME NEW x \in Members(list), x # s PROVE x \in Members(rest)
        OBVIOUS
      <4>1. PICK k \in 1..n : x = list[k]
        BY DEF Members
      <4>2. QED
        BY <2>9, <4>1
    <3>3. QED
      BY <3>1, <3>2
  <2>11. QED
    BY <2>2, <2>3, <2>7, <2>10
<1>3. QED
  BY <1>1, <1>2

-----------------------------------------------------------------------------
(* The lists of both routers *)

\* A list per pattern, and with no session twice.
Table(t) == t \in [Pattern -> Seq(Session)]
Lists(t) == Table(t) /\ \A p \in Pattern : NoRepeats(t[p])

\* The pairs that lists stand for.
PairsOf(t) == {ps \in Pattern \X Session : ps[2] \in Members(t[ps[1]])}

\* The pairs of each router are those of its lists.
LEMMA PairsFacts ==
  /\ Table(subscriptions) => R!Pairs = PairsOf(subscriptions)
  /\ Table(subscriptions') => R!Pairs' = PairsOf(subscriptions')
  /\ Table(table) => O!Pairs = PairsOf(table)
  /\ Table(table') => O!Pairs' = PairsOf(table')
<1>1. ASSUME NEW t, Table(t), NEW p \in Pattern PROVE DOMAIN t[p] = 1..Len(t[p])
  BY <1>1 DEF Table
<1>2. QED
  BY <1>1 DEF R!Pairs, O!Pairs, R!Range, O!Range, PairsOf, Members

\* What a lookup of x collects, and what it is to find.
Collected(t, M, x) == UNION {Members(t[p]) : p \in {q \in Pattern : <<q, x>> \in M}}
Subscribed(t, M, x) ==
  {s \in Session : \E p \in Pattern : <<p, s>> \in PairsOf(t) /\ <<p, x>> \in M}

\* The list of p gets a session; the lists of the patterns in P lose one.
Gains(t, u, p, s) == u = [t EXCEPT ![p] = Append(@, s)]
Loses(t, u, P, s) ==
  /\ u \in [Pattern -> Seq(Session)]
  /\ \A q \in Pattern \ P : u[q] = t[q]
  /\ \A q \in P : NoRepeats(u[q]) /\ Members(u[q]) = Members(t[q]) \ {s}

\* A lookup that collects the sessions of all matching lists finds the
\* sessions that have a matching pattern.
LEMMA FoundFacts ==
  ASSUME NEW t, Lists(t), NEW M, NEW x
  PROVE  Collected(t, M, x) = Subscribed(t, M, x)
<1>1. \A p \in Pattern : Members(t[p]) \subseteq Session
  BY DEF Lists, Table, Members
<1>2. \A p \in Pattern, s \in Session : <<p, s>> \in PairsOf(t) <=> s \in Members(t[p])
  BY DEF PairsOf
<1>3. QED
  BY <1>1, <1>2 DEF Collected, Subscribed

\* A list that gets a session gives its pair, and stays without repetition if
\* it did not hold the session.
LEMMA AddedPair ==
  ASSUME NEW t, NEW u, Lists(t), NEW p \in Pattern, NEW s \in Session, Gains(t, u, p, s)
  PROVE  /\ Table(u) /\ PairsOf(u) = PairsOf(t) \cup {<<p, s>>}
         /\ s \notin Members(t[p]) => Lists(u)
<1>1. /\ Append(t[p], s) \in Seq(Session)
      /\ Members(Append(t[p], s)) = Members(t[p]) \cup {s}
      /\ s \notin Members(t[p]) => NoRepeats(Append(t[p], s))
  BY AppendFacts DEF Lists, Table
<1>2. u[p] = Append(t[p], s) /\ \A q \in Pattern \ {p} : u[q] = t[q]
  BY DEF Lists, Table, Gains
<1>3. Table(u) /\ (s \notin Members(t[p]) => Lists(u))
  BY <1>1, <1>2 DEF Lists, Table, Gains
<1>4. /\ Members(u[p]) = Members(t[p]) \cup {s}
      /\ \A q \in Pattern \ {p} : Members(u[q]) = Members(t[q])
  BY <1>1, <1>2
<1>5. QED
  BY <1>3, <1>4 DEF PairsOf

\* Lists that lose a session at the patterns of P lose those pairs.
LEMMA RemovedPairs ==
  ASSUME NEW t, NEW u, Lists(t), NEW s, NEW P, P \subseteq Pattern, Loses(t, u, P, s)
  PROVE  Lists(u) /\ PairsOf(u) = PairsOf(t) \ (P \X {s})
<1>1. Lists(u)
  BY DEF Lists, Table, Loses
<1>2. /\ \A q \in P : Members(u[q]) = Members(t[q]) \ {s}
      /\ \A q \in Pattern \ P : Members(u[q]) = Members(t[q])
  BY DEF Loses
<1>3. QED
  BY <1>1, <1>2 DEF PairsOf

\* Each call on Router does to the pairs what RouterSpec says.
LEMMA RouterCalls ==
  ASSUME Lists(subscriptions)
  PROVE  /\ \A p \in Pattern, s \in Session :
              /\ R!Subscribe(p, s) => Lists(subscriptions)' /\ R!Abstract!Subscribe(p, s)
              /\ R!Unsubscribe(p, s) => Lists(subscriptions)' /\ R!Abstract!Unsubscribe(p, s)
         /\ \A s \in Session :
              R!RemoveSession(s) => Lists(subscriptions)' /\ R!Abstract!RemoveSession(s)
         /\ \A x \in Subject :
              R!FindSubscribers(x) => Lists(subscriptions)' /\ R!Abstract!FindSubscribers(x)
<1>0. \A p \in Pattern : R!Range(subscriptions[p]) = Members(subscriptions[p])
  BY DEF R!Range, Members, Lists, Table
<1>1. ASSUME NEW p \in Pattern, NEW s \in Session, R!Subscribe(p, s)
      PROVE  Lists(subscriptions)' /\ R!Abstract!Subscribe(p, s)
  <2>1. CASE s \in Members(subscriptions[p])
    <3>1. subscriptions' = subscriptions
      BY <1>0, <1>1, <2>1 DEF R!Subscribe, Lists, Table
    <3>2. <<p, s>> \in PairsOf(subscriptions)
      BY <2>1 DEF PairsOf
    <3>3. QED
      BY <1>1, <3>1, <3>2, PairsFacts DEF Lists, R!Subscribe, R!Abstract!Subscribe
  <2>2. CASE s \notin Members(subscriptions[p])
    <3>1. Gains(subscriptions, subscriptions', p, s)
      BY <1>0, <1>1, <2>2 DEF R!Subscribe, Gains
    <3>2. /\ Table(subscriptions')
          /\ PairsOf(subscriptions') = PairsOf(subscriptions) \cup {<<p, s>>}
          /\ s \notin Members(subscriptions[p]) => Lists(subscriptions')
      BY <3>1, AddedPair
    <3>3. QED
      BY <1>1, <2>2, <3>2, PairsFacts DEF Lists, R!Subscribe, R!Abstract!Subscribe
  <2>3. QED
    BY <2>1, <2>2
<1>2. ASSUME NEW p \in Pattern, NEW s \in Session, R!Unsubscribe(p, s)
      PROVE  Lists(subscriptions)' /\ R!Abstract!Unsubscribe(p, s)
  <2>1. /\ \A q \in Pattern : subscriptions'[q] =
               IF q = p THEN R!Filtered(subscriptions[p], s) ELSE subscriptions[q]
        /\ subscriptions' = [q \in Pattern |-> subscriptions'[q]]
    BY <1>2 DEF R!Unsubscribe, Lists, Table
  <2>2. /\ subscriptions' \in [Pattern -> Seq(Session)] /\ NoRepeats(subscriptions'[p])
        /\ Members(subscriptions'[p]) = Members(subscriptions[p]) \ {s}
    BY <2>1, FilteredFacts DEF Lists, Table
  <2>3. /\ Lists(subscriptions')
        /\ PairsOf(subscriptions') = PairsOf(subscriptions) \ ({p} \X {s})
    <3>1. Loses(subscriptions, subscriptions', {p}, s)
      BY <2>1, <2>2 DEF Loses
    <3>2. QED
      BY <3>1, RemovedPairs
  <2>4. {p} \X {s} = {<<p, s>>}
    OBVIOUS
  <2>5. QED
    BY <1>2, <2>3, <2>4, PairsFacts DEF Lists, R!Unsubscribe, R!Abstract!Unsubscribe
<1>3. ASSUME NEW s \in Session, R!RemoveSession(s)
      PROVE  Lists(subscriptions)' /\ R!Abstract!RemoveSession(s)
  <2>1. /\ \A q \in Pattern : subscriptions'[q] = R!Filtered(subscriptions[q], s)
        /\ subscriptions' = [q \in Pattern |-> subscriptions'[q]]
    BY <1>3 DEF R!RemoveSession
  <2>2. /\ subscriptions' \in [Pattern -> Seq(Session)]
        /\ \A q \in Pattern : /\ NoRepeats(subscriptions'[q])
                              /\ Members(subscriptions'[q]) = Members(subscriptions[q]) \ {s}
    BY <2>1, FilteredFacts DEF Lists, Table
  <2>3. /\ Lists(subscriptions')
        /\ PairsOf(subscriptions') = PairsOf(subscriptions) \ (Pattern \X {s})
    <3>1. Loses(subscriptions, subscriptions', Pattern, s)
      BY <2>2 DEF Loses
    <3>2. QED
      BY <3>1, RemovedPairs
  <2>4. QED
    BY <1>3, <2>3, PairsFacts DEF Lists, R!RemoveSession, R!Abstract!RemoveSession
<1>4. ASSUME NEW x \in Subject, R!FindSubscribers(x)
      PROVE  Lists(subscriptions)' /\ R!Abstract!FindSubscribers(x)
  <2>1. subscriptions' = subscriptions
    BY <1>4 DEF R!FindSubscribers
  <2>2. found' = Collected(subscriptions, RouterMatching, x)
    BY <1>0, <1>4 DEF R!FindSubscribers, Collected
  <2>3. found' = Subscribed(subscriptions, RouterMatching, x)
    BY <2>2, FoundFacts
  <2>4. QED
    BY <2>1, <2>3, PairsFacts DEF Lists, R!Abstract!FindSubscribers, Subscribed
<1>5. QED
  BY <1>1, <1>2, <1>3, <1>4

\* So does each call on OptimizedRouter; its lists stay without repetition if
\* no session subscribes twice.
LEMMA OptimizedCalls ==
  ASSUME Lists(table)
  PROVE  /\ \A p \in Pattern, s \in Session :
              /\ O!Subscribe(p, s) =>
                   /\ O!Abstract!Subscribe(p, s)
                   /\ s \notin Members(table[p]) => Lists(table)'
              /\ O!Unsubscribe(p, s) => Lists(table)' /\ O!Abstract!Unsubscribe(p, s)
         /\ \A s \in Session :
              O!RemoveSession(s) => Lists(table)' /\ O!Abstract!RemoveSession(s)
         /\ \A x \in Subject :
              O!FindSubscribers(x) => Lists(table)' /\ O!Abstract!FindSubscribers(x)
<1>0. \A p \in Pattern : O!Range(table[p]) = Members(table[p])
  BY DEF O!Range, Members, Lists, Table
<1>1. ASSUME NEW p \in Pattern, NEW s \in Session, O!Subscribe(p, s)
      PROVE  O!Abstract!Subscribe(p, s) /\ (s \notin Members(table[p]) => Lists(table'))
  <2>1. Gains(table, table', p, s)
    BY <1>1 DEF O!Subscribe, Gains
  <2>2. /\ Table(table') /\ PairsOf(table') = PairsOf(table) \cup {<<p, s>>}
        /\ s \notin Members(table[p]) => Lists(table')
    BY <2>1, AddedPair, Zenon
  <2>3. QED
    BY <1>1, <2>2, PairsFacts DEF Lists, O!Subscribe, O!Abstract!Subscribe
<1>2. ASSUME NEW p \in Pattern, NEW s \in Session, O!Unsubscribe(p, s)
      PROVE  Lists(table)' /\ O!Abstract!Unsubscribe(p, s)
  <2>1. /\ \A q \in Pattern : table'[q] = IF q = p THEN O!Without(table[p], s) ELSE table[q]
        /\ table' = [q \in Pattern |-> table'[q]]
    BY <1>2 DEF O!Unsubscribe, Lists, Table
  <2>2. /\ table' \in [Pattern -> Seq(Session)] /\ NoRepeats(table'[p])
        /\ Members(table'[p]) = Members(table[p]) \ {s}
    BY <2>1, WithoutFacts DEF Lists, Table
  <2>3. Loses(table, table', {p}, s)
    BY <2>1, <2>2 DEF Loses
  <2>4. Lists(table') /\ PairsOf(table') = PairsOf(table) \ ({p} \X {s})
    BY <2>3, RemovedPairs
  <2>5. {p} \X {s} = {<<p, s>>}
    OBVIOUS
  <2>6. QED
    BY <1>2, <2>4, <2>5, PairsFacts DEF Lists, O!Unsubscribe, O!Abstract!Unsubscribe
<1>3. ASSUME NEW s \in Session, O!RemoveSession(s)
      PROVE  Lists(table)' /\ O!Abstract!RemoveSession(s)
  <2>1. /\ \A q \in Pattern : table'[q] = O!Without(table[q], s)
        /\ table' = [q \in Pattern |-> table'[q]]
    BY <1>3 DEF O!RemoveSession
  <2>2. /\ table' \in [Pattern -> Seq(Session)]
        /\ \A q \in Pattern : /\ NoRepeats(table'[q])
                              /\ Members(table'[q]) = Members(table[q]) \ {s}
    BY <2>1, WithoutFacts DEF Lists, Table
  <2>3. Loses(table, table', Pattern, s)
    BY <2>2 DEF Loses
  <2>4. Lists(table') /\ PairsOf(table') = PairsOf(table) \ (Pattern \X {s})
    BY <2>3, RemovedPairs
  <2>5. QED
    BY <1>3, <2>4, PairsFacts DEF Lists, O!RemoveSession, O!Abstract!RemoveSession
<1>4. ASSUME NEW x \in Subject, O!FindSubscribers(x)
      PROVE  Lists(table)' /\ O!Abstract!FindSubscribers(x)
  <2>1. table' = table
    BY <1>4 DEF O!FindSubscribers
  <2>2. optFound' = Collected(table, OptimizedMatching, x)
    BY <1>0, <1>4 DEF O!FindSubscribers, Collected
  <2>3. optFound' = Subscribed(table, OptimizedMatching, x)
    BY <2>2, FoundFacts
  <2>4. QED
    BY <2>1, <2>3, PairsFacts DEF Lists, O!Abstract!FindSubscribers, Subscribed
<1>5. QED
  BY <1>1, <1>2, <1>3, <1>4

-----------------------------------------------------------------------------
(* The routers called alike *)

PairInv ==
  /\ Lists(subscriptions) /\ IsFiniteSet(PairsOf(subscriptions))
  /\ Lists(table) /\ IsFiniteSet(PairsOf(table))

\* A call on Router is a call on the set of pairs, and keeps the lists.
LEMMA RouterStep ==
  ASSUME Lists(subscriptions), [Next]_vars
  PROVE  Lists(subscriptions)' /\ [R!Abstract!Next]_(R!Abstract!vars)
<1>1. CASE UNCHANGED vars
  BY <1>1, PairsFacts DEF vars, R!Abstract!vars, Lists, Table
<1>2. ASSUME NEW p \in Pattern, NEW s \in Session, Subscribe(p, s) \/ Unsubscribe(p, s)
      PROVE  /\ Lists(subscriptions)'
             /\ R!Abstract!Subscribe(p, s) \/ R!Abstract!Unsubscribe(p, s)
  BY <1>2, RouterCalls DEF Subscribe, Unsubscribe
<1>3. ASSUME NEW s \in Session, RemoveSession(s)
      PROVE  Lists(subscriptions)' /\ R!Abstract!RemoveSession(s)
  BY <1>3, RouterCalls DEF RemoveSession
<1>4. ASSUME NEW x \in Subject, FindSubscribers(x)
      PROVE  Lists(subscriptions)' /\ R!Abstract!FindSubscribers(x)
  BY <1>4, RouterCalls DEF FindSubscribers
<1>5. QED
  BY <1>1, <1>2, <1>3, <1>4 DEF Next, R!Abstract!Next

\* A call on OptimizedRouter is a call on the set of pairs or, for a repeated
\* SUB, none.
LEMMA OptimizedStep ==
  ASSUME Lists(table), [Next]_vars
  PROVE  Lists(table)' /\ [O!Abstract!Next]_(O!Abstract!vars)
<1>0. UNCHANGED <<table, optFound>> => Lists(table)' /\ UNCHANGED O!Abstract!vars
  BY PairsFacts DEF O!Abstract!vars, Lists, Table
<1>1. CASE UNCHANGED vars
  BY <1>0, <1>1 DEF vars
<1>2. ASSUME NEW p \in Pattern, NEW s \in Session, Subscribe(p, s)
      PROVE  /\ Lists(table)'
             /\ O!Abstract!Subscribe(p, s) \/ UNCHANGED O!Abstract!vars
  <2>1. Range(table[p]) = Members(table[p])
    BY DEF Range, Members, Lists, Table
  <2>2. UNCHANGED <<table, optFound>> \/ (s \notin Members(table[p]) /\ O!Subscribe(p, s))
    BY <1>2, <2>1 DEF Subscribe
  <2>3. QED
    BY <1>0, <2>2, OptimizedCalls
<1>3. ASSUME NEW p \in Pattern, NEW s \in Session, Unsubscribe(p, s)
      PROVE  Lists(table)' /\ O!Abstract!Unsubscribe(p, s)
  BY <1>3, OptimizedCalls DEF Unsubscribe
<1>4. ASSUME NEW s \in Session, RemoveSession(s)
      PROVE  Lists(table)' /\ O!Abstract!RemoveSession(s)
  BY <1>4, OptimizedCalls DEF RemoveSession
<1>5. ASSUME NEW x \in Subject, FindSubscribers(x)
      PROVE  Lists(table)' /\ O!Abstract!FindSubscribers(x)
  BY <1>5, OptimizedCalls DEF FindSubscribers
<1>6. QED
  BY <1>1, <1>2, <1>3, <1>4, <1>5 DEF Next, O!Abstract!Next

\* A call adds at most one pair, so there are finitely many at any time.
LEMMA FinitelyMany ==
  ASSUME PairInv, [Next]_vars
  PROVE  IsFiniteSet(PairsOf(subscriptions')) /\ IsFiniteSet(PairsOf(table'))
<1>0. /\ Lists(subscriptions) /\ Lists(subscriptions') /\ [R!Abstract!Next]_(R!Abstract!vars)
      /\ Lists(table) /\ Lists(table') /\ [O!Abstract!Next]_(O!Abstract!vars)
  BY RouterStep, OptimizedStep DEF PairInv
<1>1. /\ R!Pairs = PairsOf(subscriptions) /\ R!Pairs' = PairsOf(subscriptions')
      /\ O!Pairs = PairsOf(table) /\ O!Pairs' = PairsOf(table')
  BY <1>0, PairsFacts DEF Lists
<1>2. \E ps : R!Pairs' \subseteq R!Pairs \cup {ps}
  BY <1>0 DEF R!Abstract!Next, R!Abstract!vars, R!Abstract!Subscribe, R!Abstract!Unsubscribe,
              R!Abstract!RemoveSession, R!Abstract!FindSubscribers
<1>3. \E ps : O!Pairs' \subseteq O!Pairs \cup {ps}
  BY <1>0 DEF O!Abstract!Next, O!Abstract!vars, O!Abstract!Subscribe, O!Abstract!Unsubscribe,
              O!Abstract!RemoveSession, O!Abstract!FindSubscribers
<1>4. ASSUME NEW S, NEW T, NEW x, IsFiniteSet(S), T \subseteq S \cup {x}
      PROVE  IsFiniteSet(T)
  BY <1>4, FS_AddElement, FS_Subset
<1>5. QED
  BY <1>1, <1>2, <1>3, <1>4 DEF PairInv

\* The lists hold no session twice and finitely many in all.
THEOREM PairInvariant == Spec => []PairInv
<1>1. Init => PairInv
  <2> SUFFICES ASSUME Init PROVE PairInv
    OBVIOUS
  <2>1. \A p \in Pattern : subscriptions[p] = <<>> /\ table[p] = <<>>
    BY DEF Init, R!Init, O!Init
  <2>2. Table(subscriptions) /\ Table(table)
    BY DEF Init, R!Init, O!Init, Table
  <2>3. Members(<<>>) = {} /\ NoRepeats(<<>>)
    BY DEF Members, NoRepeats
  <2>4. PairsOf(subscriptions) = {} /\ PairsOf(table) = {}
    BY <2>1, <2>3 DEF PairsOf
  <2>5. QED
    BY <2>1, <2>2, <2>3, <2>4, FS_EmptySet DEF PairInv, Lists
<1>2. PairInv /\ [Next]_vars => PairInv'
  BY RouterStep, OptimizedStep, FinitelyMany DEF PairInv
<1>3. QED
  BY <1>1, <1>2, PTL DEF Spec

\* The lists of router.go implement the set of pairs: a lookup returns exactly
\* the sessions subscribed to a matching pattern, each call changes the pairs
\* as its name says, and RemoveSession leaves none of a session's
\* subscriptions.
THEOREM RouterRefinement == Spec => RouterImplementsSpec
<1>1. Init => R!Abstract!Init
  <2> SUFFICES ASSUME Init PROVE R!Abstract!Init
    OBVIOUS
  <2>1. R!Pairs = {}
    BY DEF Init, R!Init, R!Pairs, R!Range
  <2>2. QED
    BY <2>1 DEF Init, R!Init, R!Abstract!Init
<1>2. PairInv /\ [Next]_vars => [R!Abstract!Next]_(R!Abstract!vars)
  BY RouterStep DEF PairInv
<1>3. PairInv /\ [Next]_vars => [R!CallByCall]_vars
  BY RouterCalls DEF PairInv, R!CallByCall
<1>4. QED
  BY <1>1, <1>2, <1>3, PairInvariant, PTL DEF Spec, RouterImplementsSpec, R!Abstract!Spec

\* So do the lists of router_optimized.go, whose loops stop at the first
\* occurrence and whose Subscribe does not look, when a session does not call
\* it twice for a pattern.
THEOREM OptimizedRefinement == Spec => OptimizedImplementsSpec
<1>1. Init => O!Abstract!Init
  <2> SUFFICES ASSUME Init PROVE O!Abstract!Init
    OBVIOUS
  <2>1. O!Pairs = {}
    BY DEF Init, O!Init, O!Pairs, O!Range
  <2>2. QED
    BY <2>1 DEF Init, O!Init, O!Abstract!Init
<1>2. PairInv /\ [Next]_vars => [O!Abstract!Next]_(O!Abstract!vars)
  BY OptimizedStep DEF PairInv
<1>3. PairInv /\ [Next]_vars => [O!CallByCall]_vars
  BY OptimizedCalls DEF PairInv, O!CallByCall
<1>4. QED
  BY <1>1, <1>2, <1>3, PairInvariant, PTL DEF Spec, OptimizedImplementsSpec, O!Abstract!Spec

-----------------------------------------------------------------------------
(* The counts *)

\* The cells of the lists.
Cells(t) == UNION {{p} \X DOMAIN t[p] : p \in Pattern}

\* There are as many cells as pairs.
LEMMA CellsArePairs ==
  ASSUME NEW t, Lists(t), IsFiniteSet(PairsOf(t))
  PROVE  Cardinality(Cells(t)) = Cardinality(PairsOf(t))
<1> DEFINE f == [c \in Cells(t) |-> <<c[1], t[c[1]][c[2]]>>]
<1>0. \A p \in Pattern : t[p] \in Seq(Session) /\ DOMAIN t[p] = 1..Len(t[p]) /\ NoRepeats(t[p])
  BY DEF Lists, Table
<1>1. ASSUME NEW c
      PROVE  c \in Cells(t) <=> \E p \in Pattern : \E i \in 1..Len(t[p]) : c = <<p, i>>
  BY <1>0 DEF Cells
<1>2. \A c \in Cells(t) : c[1] \in Pattern /\ c[2] \in 1..Len(t[c[1]]) /\ c = <<c[1], c[2]>>
  BY <1>1
<1>3. f \in [Cells(t) -> PairsOf(t)]
  <2> SUFFICES ASSUME NEW c \in Cells(t) PROVE <<c[1], t[c[1]][c[2]]>> \in PairsOf(t)
    OBVIOUS
  <2>1. t[c[1]][c[2]] \in Session /\ t[c[1]][c[2]] \in Members(t[c[1]])
    BY <1>0, <1>2 DEF Members
  <2>2. QED
    BY <1>2, <2>1 DEF PairsOf
<1>4. ASSUME NEW c \in Cells(t), NEW d \in Cells(t), f[c] = f[d] PROVE c = d
  <2>1. c[1] = d[1] /\ t[c[1]][c[2]] = t[d[1]][d[2]]
    BY <1>4
  <2>2. c[2] = d[2]
    BY <1>0, <1>2, <2>1 DEF NoRepeats
  <2>3. QED
    BY <1>2, <2>1, <2>2
<1>5. ASSUME NEW ps \in PairsOf(t) PROVE \E c \in Cells(t) : f[c] = ps
  <2>1. ps[1] \in Pattern /\ ps = <<ps[1], ps[2]>> /\ ps[2] \in Members(t[ps[1]])
    BY DEF PairsOf
  <2>2. PICK i \in 1..Len(t[ps[1]]) : ps[2] = t[ps[1]][i]
    BY <2>1 DEF Members
  <2>3. <<ps[1], i>> \in Cells(t)
    BY <1>1, <2>1
  <2>4. f[<<ps[1], i>>] = ps
    BY <2>1, <2>2, <2>3
  <2>5. QED
    BY <2>3, <2>4
<1> HIDE DEF f
<1>6. f \in Bijection(Cells(t), PairsOf(t))
  BY <1>3, <1>4, <1>5, Fun_IsBij
<1>7. ExistsBijection(Cells(t), PairsOf(t))
  BY <1>6 DEF ExistsBijection
<1>8. ExistsBijection(PairsOf(t), Cells(t))
  BY <1>7, Fun_ExistsBijSymmetric
<1>9. QED
  BY <1>8, FS_Bijection

\* The patterns with a list that is not empty are those of the pairs.
LEMMA ListedPatterns ==
  ASSUME NEW t, Lists(t)
  PROVE  {p \in Pattern : t[p] # <<>>} = {ps[1] : ps \in PairsOf(t)}
<1>1. ASSUME NEW p \in Pattern, t[p] # <<>> PROVE \E ps \in PairsOf(t) : p = ps[1]
  <2>1. t[p] \in Seq(Session) /\ 1 \in 1..Len(t[p])
    BY <1>1 DEF Lists, Table
  <2>2. t[p][1] \in Session /\ t[p][1] \in Members(t[p])
    BY <2>1 DEF Members
  <2>3. <<p, t[p][1]>> \in PairsOf(t) /\ p = <<p, t[p][1]>>[1]
    BY <2>2 DEF PairsOf
  <2>4. QED
    BY <2>3
<1>2. ASSUME NEW ps \in PairsOf(t) PROVE ps[1] \in Pattern /\ t[ps[1]] # <<>>
  BY DEF PairsOf, Members
<1>3. QED
  BY <1>1, <1>2

\* The counts that Server.GetStats reports are numbers of pairs and of
\* patterns with a subscriber: a session is never listed twice, and no pattern
\* stays behind when its last subscriber leaves.
THEOREM ExactCounts == Spec => []CountsAreExact
<1>1. PairInv => CountsAreExact
  <2> SUFFICES ASSUME PairInv PROVE CountsAreExact
    OBVIOUS
  <2>1. \A S : R!Cardinality(S) = Cardinality(S) /\ O!Cardinality(S) = Cardinality(S)
    BY Zenon DEF R!Cardinality, O!Cardinality, Cardinality
  <2>2. /\ R!Pairs = PairsOf(subscriptions) /\ O!Pairs = PairsOf(table)
        /\ Lists(subscriptions) /\ Lists(table)
    BY PairsFacts DEF PairInv, Lists
  <2>3. /\ R!GetTotalSubscriptions = Cardinality(Cells(subscriptions))
        /\ O!GetTotalSubscriptions = Cardinality(Cells(table))
    BY <2>1 DEF R!GetTotalSubscriptions, O!GetTotalSubscriptions, Cells
  <2>4. /\ R!GetTotalSubscriptions = Cardinality(R!Pairs)
        /\ O!GetTotalSubscriptions = Cardinality(O!Pairs)
    BY <2>2, <2>3, CellsArePairs DEF PairInv
  <2>5. /\ R!GetSubjectCount = Cardinality({ps[1] : ps \in R!Pairs})
        /\ O!GetSubjectCount = Cardinality({ps[1] : ps \in O!Pairs})
    BY <2>1, <2>2, ListedPatterns DEF R!GetSubjectCount, O!GetSubjectCount
  <2>6. QED
    BY <2>1, <2>4, <2>5 DEF CountsAreExact, R!CountsAreExact, O!CountsAreExact
<1>2. QED
  BY <1>1, PairInvariant, PTL

-----------------------------------------------------------------------------
(* The three matchers *)

\* The server's matcher implies the client's.
LEMMA MatchImpliesMatchSubject ==
  ASSUME NEW p, NEW s, Match(p, s)
  PROVE  matchSubject(p, s)
BY SegmentConstants DEF Match, matchSubject, Mentions

\* A pattern in which no segment is "*" matches, segment by segment, only
\* itself.
LEMMA NoStarIsEqual ==
  ASSUME NEW p \in Seq(Segment), NEW s \in Seq(Segment), Len(p) = Len(s),
         ~Mentions(p, {"*"}), SegmentsMatch(p, s)
  PROVE  p = s
BY DEF Mentions, SegmentsMatch

\* The client's matcher implies the server's for subjects without ">".
LEMMA MatchSubjectImpliesMatch ==
  ASSUME NEW p \in Seq(Segment), NEW s \in Seq(Segment),
         matchSubject(p, s), ~Mentions(s, {">"})
  PROVE  Match(p, s)
<1>1. CASE p = s \/ (HasMultiSuffix(p) /\ StartsWith(s, Front(p)))
  BY <1>1 DEF Match
<1>2. CASE Mentions(p, Starred) /\ Len(p) = Len(s) /\ SegmentsMatch(p, s)
  <2>1. CASE HasMultiSuffix(p)
    <3>1. Len(p) \in 1..Len(p) /\ Len(p) \in 1..Len(s) /\ p[Len(p)] = ">"
      BY <1>2, <2>1 DEF HasMultiSuffix, Last
    <3>2. s[Len(p)] = ">"
      BY <1>2, <3>1 DEF SegmentsMatch
    <3>3. QED
      BY <3>1, <3>2 DEF Mentions
  <2>2. CASE ~HasMultiSuffix(p) /\ Mentions(p, {"*"})
    BY <1>2, <2>2 DEF Match
  <2>3. CASE ~Mentions(p, {"*"})
    BY <1>2, <2>3, NoStarIsEqual DEF Match
  <2>4. QED
    BY <2>1, <2>2, <2>3
<1>3. QED
  BY <1>1, <1>2 DEF matchSubject

\* A pattern without the characters of the wildcards has neither wildcard.
LEMMA LiteralMentions ==
  ASSUME NEW p \in Seq(Segment), ~isWildcardPattern(p)
  PROVE  ~Mentions(p, {"*"}) /\ ~Mentions(p, {">"}) /\ ~Mentions(p, Starred)
BY SegmentConstants DEF isWildcardPattern, Mentions

\* A literal pattern matches itself only.
LEMMA LiteralMatches ==
  ASSUME NEW p \in Seq(Segment), NEW s \in Seq(Segment), ~isWildcardPattern(p)
  PROVE  /\ Match(p, s) <=> p = s
         /\ matchSubject(p, s) <=> p = s
         /\ OptimizedMatch(p, s) <=> p = s
<1>1. ~Mentions(p, {"*"}) /\ ~Mentions(p, {">"}) /\ ~Mentions(p, Starred)
  BY LiteralMentions
<1>2. ~HasMultiSuffix(p)
  BY <1>1 DEF HasMultiSuffix, Last, Mentions
<1>3. QED
  BY <1>1, <1>2 DEF Match, matchSubject, OptimizedMatch

\* On patterns that end in ">" and have no "*" the routers differ only where
\* the subject is the pattern without its last segment.
LEMMA ArrowAgrees ==
  ASSUME NEW p \in Seq(Segment), NEW s \in Seq(Segment), p # <<>>,
         Plain(p), Mentions(p, {">"})
  PROVE  \/ Match(p, s) <=> OptimizedMatch(p, s)
         \/ HasMultiSuffix(p) /\ s = Front(p) /\ Match(p, s) /\ ~OptimizedMatch(p, s)
<1>1. HasMultiSuffix(p) /\ ~Mentions(p, {"*"})
  BY DEF Plain, Mentions, HasMultiSuffix, Last
<1>2. {i \in 1..Len(p) : p[i] = ">"} = {Len(p)}
  BY <1>1 DEF Plain, HasMultiSuffix, Last
<1>3. OptimizedMatch(p, s) <=> Len(s) >= Len(p) /\ SegmentsMatch(Front(p), s)
  <2>1. isWildcardPattern(p) /\ Mentions(p, {"*", ">"})
    BY SegmentConstants DEF isWildcardPattern, Mentions
  <2>2. QED
    BY <1>2, <2>1 DEF OptimizedMatch, matches, matchesSegments
<1>4. /\ Front(p) \in Seq(Segment) /\ Len(Front(p)) = Len(p) - 1
      /\ \A i \in 1..(Len(p) - 1) : Front(p)[i] = p[i] /\ p[i] # "*"
  <2>1. Len(p) >= 2
    BY <1>1 DEF HasMultiSuffix
  <2>2. /\ Front(p) \in Seq(Segment) /\ Len(Front(p)) = Len(p) - 1
        /\ \A i \in 1..(Len(p) - 1) : Front(p)[i] = p[i]
    BY <2>1 DEF Front
  <2>3. \A i \in 1..(Len(p) - 1) : p[i] # "*"
    BY <1>1, <2>1 DEF Mentions
  <2>4. QED
    BY <2>2, <2>3
<1>5. Match(p, s) <=> StartsWith(s, Front(p))
  <2>1. p = s => StartsWith(s, Front(p))
    BY <1>4 DEF StartsWith
  <2>2. QED
    BY <1>1, <2>1 DEF Match
<1>6. Len(s) >= Len(p) => (SegmentsMatch(Front(p), s) <=> StartsWith(s, Front(p)))
  BY <1>4 DEF SegmentsMatch, StartsWith
<1>7. CASE Len(s) >= Len(p)
  BY <1>3, <1>5, <1>6, <1>7
<1>8. CASE ~(Len(s) >= Len(p))
  <2>1. StartsWith(s, Front(p)) => s = Front(p)
    BY <1>4, <1>8 DEF StartsWith
  <2>2. QED
    BY <1>1, <1>3, <1>5, <1>8, <2>1
<1>9. QED
  BY <1>7, <1>8

\* On patterns with "*" and without ">" the routers agree.
LEMMA StarAgrees ==
  ASSUME NEW p \in Seq(Segment), NEW s \in Seq(Segment),
         Mentions(p, {"*"}), ~Mentions(p, {">"})
  PROVE  Match(p, s) <=> OptimizedMatch(p, s)
<1>1. ~HasMultiSuffix(p) /\ {i \in 1..Len(p) : p[i] = ">"} = {}
  BY DEF Mentions, HasMultiSuffix, Last
<1>2. isWildcardPattern(p) /\ Mentions(p, {"*", ">"})
  BY SegmentConstants DEF isWildcardPattern, Mentions
<1>3. OptimizedMatch(p, s) <=> Len(s) = Len(p) /\ SegmentsMatch(p, s)
  BY <1>1, <1>2 DEF OptimizedMatch, matches, matchesSegments
<1>4. p = s => SegmentsMatch(p, s)
  BY DEF SegmentsMatch
<1>5. QED
  BY <1>1, <1>3, <1>4 DEF Match

\* The pairs that the runs enumerate are pairs of nonempty sequences.
LEMMA PairsType == PairSpec => []PairTypeOK
<1> DEFINE T == Seq(Segment) \ {<<>>}
<1>1. \A x \in Segment : <<x>> \in T
  OBVIOUS
<1>2. \A t \in T, x \in Segment : Append(t, x) \in T
  OBVIOUS
<1>3. PairInit => PairTypeOK
  BY <1>1, Zenon DEF PairInit, PairTypeOK
<1>4. PairTypeOK /\ [PairNext]_pairVars => PairTypeOK'
  BY <1>2, Zenon DEF PairTypeOK, PairNext, ExtendPattern, ExtendSubject, pairVars
<1>5. QED
  BY <1>3, <1>4, PTL DEF PairSpec

-----------------------------------------------------------------------------
(* The theorems *)

\* Whatever the server routes for a subscription, the client dispatches to
\* it: for all patterns and subjects, not only those of the run.
THEOREM ServerWithinClient == PairSpec => []DeliveredIsDispatched
<1>1. DeliveredIsDispatched
  BY MatchImpliesMatchSubject DEF DeliveredIsDispatched
<1>2. QED
  BY <1>1, PTL

\* Whatever the client dispatches to a subscription, the server routes for
\* it, unless ">" is a segment of the subject.
THEOREM ClientWithinServer == PairSpec => []DispatchedIsSubscribed
<1>1. PairTypeOK => DispatchedIsSubscribed
  BY MatchSubjectImpliesMatch DEF PairTypeOK, DispatchedIsSubscribed
<1>2. QED
  BY <1>1, PairsType, PTL

\* The three matchers compare literal patterns for equality.
THEOREM LiteralsExact == PairSpec => []LiteralIsExact
<1>1. PairTypeOK => LiteralIsExact
  BY LiteralMatches DEF PairTypeOK, LiteralIsExact
<1>2. QED
  BY <1>1, PairsType, PTL

\* Router and OptimizedRouter route alike on all plain patterns, except that
\* only Router takes foo for a match of foo.>.
THEOREM RoutersDifferOnlyAtPrefix == PairSpec => []RoutersAgree
<1>1. PairTypeOK => RoutersAgree
  <2> SUFFICES ASSUME PairTypeOK, Plain(pattern) PROVE RoutersAgree
    BY DEF RoutersAgree
  <2>1. CASE Mentions(pattern, {">"})
    BY <2>1, ArrowAgrees DEF PairTypeOK, RoutersAgree
  <2>2. CASE Mentions(pattern, {"*"}) /\ ~Mentions(pattern, {">"})
    BY <2>2, StarAgrees DEF PairTypeOK, RoutersAgree
  <2>3. CASE ~Mentions(pattern, {"*"}) /\ ~Mentions(pattern, {">"})
    <3>1. ~isWildcardPattern(pattern)
      BY <2>3 DEF Plain, isWildcardPattern, Mentions
    <3>2. QED
      BY <3>1, LiteralMatches DEF PairTypeOK, RoutersAgree
  <2>4. QED
    BY <2>1, <2>2, <2>3
<1>2. QED
  BY <1>1, PairsType, PTL
=============================================================================
