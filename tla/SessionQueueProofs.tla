------------------------- MODULE SessionQueueProofs -------------------------
(***************************************************************************)
(* Proofs about SessionQueue for every set of calls, every message size,   *)
(* every budget and every channel capacity.                                *)
(***************************************************************************)
EXTENDS SessionQueue, TLAPS, FiniteSetTheorems

-----------------------------------------------------------------------------
(* The inductive invariant *)

\* The writer holds a message exactly from its receive to its write.
WriterShape ==
  /\ writer = "select" => data = <<>>
  /\ writer \in {"account", "write"} => data # <<>>

\* A call that passed the check of the budget reserves no more than it
\* checked for.
CheckedBudget ==
  \A m \in Call : pc[m] = "cas" => current[m] + Size[m] <= MaxQueuedBytes

\* ByteAccounting speaks of a cardinality, which means something for finite
\* sets only.
FiniteBytes == IsFiniteSet(BytesOf(Held))

IInv ==
  /\ TypeOK
  /\ WriterShape
  /\ CheckedBudget
  /\ AcceptedExactlyOnce
  /\ FiniteBytes
  /\ ByteAccounting
  /\ BudgetRespected

-----------------------------------------------------------------------------
(* The bytes of sets of messages *)

\* One message has as many bytes as its size says.
LEMMA BytesOfOne ==
  ASSUME NEW m \in Call
  PROVE  /\ IsFiniteSet({m} \X (1..Size[m]))
         /\ Cardinality({m} \X (1..Size[m])) = Size[m]
<1>1. Size[m] \in Nat
  BY QueueConstants
<1>2. IsFiniteSet({m}) /\ Cardinality({m}) = 1
  BY FS_Singleton
<1>3. IsFiniteSet(1..Size[m]) /\ Cardinality(1..Size[m]) = Size[m]
  BY <1>1, FS_Interval, SMTT(30)
<1>4. /\ IsFiniteSet({m} \X (1..Size[m]))
      /\ Cardinality({m} \X (1..Size[m])) = Cardinality({m}) * Cardinality(1..Size[m])
  BY <1>2, <1>3, FS_Product, Zenon
<1>5. QED
  BY <1>1, <1>2, <1>3, <1>4

\* Charging one more message adds its size.
LEMMA AddBytes ==
  ASSUME NEW M, NEW m \in Call, m \notin M, IsFiniteSet(BytesOf(M))
  PROVE  /\ IsFiniteSet(BytesOf(M \cup {m}))
         /\ Cardinality(BytesOf(M \cup {m})) = Cardinality(BytesOf(M)) + Size[m]
<1> DEFINE B == {m} \X (1..Size[m])
<1>1. BytesOf(M \cup {m}) = BytesOf(M) \cup B
  BY DEF BytesOf
<1>2. BytesOf(M) \cap B = {}
  BY DEF BytesOf
<1>3. IsFiniteSet(B) /\ Cardinality(B) = Size[m]
  BY BytesOfOne
<1>4. Cardinality(BytesOf(M) \cap B) = 0
  BY <1>2, FS_EmptySet, Zenon
<1>5. Cardinality(BytesOf(M)) \in Nat /\ Size[m] \in Nat
  BY FS_CardinalityType, QueueConstants
<1> HIDE DEF B
<1>6. /\ IsFiniteSet(BytesOf(M) \cup B)
      /\ Cardinality(BytesOf(M) \cup B)
           = Cardinality(BytesOf(M)) + Cardinality(B) - Cardinality(BytesOf(M) \cap B)
  BY <1>3, FS_Union, Zenon
<1>7. Cardinality(BytesOf(M) \cup B) = Cardinality(BytesOf(M)) + Size[m]
  BY <1>3, <1>4, <1>5, <1>6
<1>8. QED
  BY <1>1, <1>6, <1>7, Zenon

\* Releasing a charged message subtracts its size.
LEMMA RemoveBytes ==
  ASSUME NEW M, NEW m \in Call, m \in M, IsFiniteSet(BytesOf(M))
  PROVE  /\ IsFiniteSet(BytesOf(M \ {m}))
         /\ Cardinality(BytesOf(M \ {m})) = Cardinality(BytesOf(M)) - Size[m]
<1>1. BytesOf(M \ {m}) \subseteq BytesOf(M)
  BY DEF BytesOf
<1>2. IsFiniteSet(BytesOf(M \ {m}))
  BY <1>1, FS_Subset
<1>3. (M \ {m}) \cup {m} = M
  OBVIOUS
<1>4. Cardinality(BytesOf(M)) = Cardinality(BytesOf(M \ {m})) + Size[m]
  <2>1. m \notin M \ {m}
    OBVIOUS
  <2>2. Cardinality(BytesOf((M \ {m}) \cup {m})) = Cardinality(BytesOf(M \ {m})) + Size[m]
    BY <1>2, <2>1, AddBytes, Zenon
  <2>3. QED
    BY <1>3, <2>2, Zenon
<1>5. Cardinality(BytesOf(M \ {m})) \in Nat /\ Size[m] \in Nat
  BY <1>2, FS_CardinalityType, QueueConstants
<1>6. QED
  BY <1>2, <1>3, <1>4, <1>5

-----------------------------------------------------------------------------
(* The messages on their way: wire \o data \o outChan *)

\* Append adds one element.
LEMMA AppendElements ==
  ASSUME NEW S, NEW s \in Seq(S), NEW e \in S
  PROVE  Elements(Append(s, e)) = Elements(s) \cup {e}
<1>1. Len(s) \in Nat /\ Len(Append(s, e)) = Len(s) + 1
  OBVIOUS
<1>2. \A i \in 1..Len(s) : i \in 1..Len(Append(s, e)) /\ Append(s, e)[i] = s[i]
  BY <1>1
<1>3. Len(s) + 1 \in 1..Len(Append(s, e)) /\ Append(s, e)[Len(s) + 1] = e
  BY <1>1
<1>4. \A i \in 1..Len(Append(s, e)) : i \in 1..Len(s) \/ i = Len(s) + 1
  BY <1>1
<1>5. QED
  BY <1>2, <1>3, <1>4, Zenon DEF Elements

\* Appending a new element keeps a sequence free of duplicates.
LEMMA AppendDistinct ==
  ASSUME NEW S, NEW s \in Seq(S), NEW e \in S, e \notin Elements(s),
         \A i, j \in 1..Len(s) : s[i] = s[j] => i = j
  PROVE  /\ Elements(Append(s, e)) = Elements(s) \cup {e}
         /\ \A i, j \in 1..Len(Append(s, e)) :
               Append(s, e)[i] = Append(s, e)[j] => i = j
<1>1. Elements(Append(s, e)) = Elements(s) \cup {e}
  BY AppendElements
<1>2. \A i \in 1..Len(s) : s[i] # e
  BY DEF Elements
<1>3. \A i, j \in 1..Len(Append(s, e)) : Append(s, e)[i] = Append(s, e)[j] => i = j
  BY <1>2
<1>4. QED
  BY <1>1, <1>3

\* Taking the head leaves the elements of the tail.
LEMMA TailElements ==
  ASSUME NEW S, NEW s \in Seq(S), s # <<>>
  PROVE  Elements(s) = Elements(Tail(s)) \cup {Head(s)}
<1>1. \A i \in 1..Len(s) :
        IF i = 1 THEN s[i] = Head(s)
        ELSE i - 1 \in 1..Len(Tail(s)) /\ s[i] = Tail(s)[i - 1]
  OBVIOUS
<1>2. \A i \in 1..Len(Tail(s)) : i + 1 \in 1..Len(s) /\ s[i + 1] = Tail(s)[i]
  OBVIOUS
<1>3. 1 \in 1..Len(s)
  OBVIOUS
<1>4. QED
  BY <1>1, <1>2, <1>3 DEF Elements

\* A sequence of length one has one element.
LEMMA SingletonElements ==
  ASSUME NEW e
  PROVE  Elements(<<e>>) = {e}
BY DEF Elements

\* Elements of a concatenation.
LEMMA ConcatElements ==
  ASSUME NEW S, NEW s \in Seq(S), NEW t \in Seq(S)
  PROVE  Elements(s \o t) = Elements(s) \cup Elements(t)
<1>1. Elements(s \o t) \subseteq Elements(s) \cup Elements(t)
  BY DEF Elements
<1>2. Elements(s) \subseteq Elements(s \o t)
  BY DEF Elements
<1>3. Elements(t) \subseteq Elements(s \o t)
  <2>1. \A i \in 1..Len(t) : /\ i + Len(s) \in 1..Len(s \o t)
                             /\ (s \o t)[i + Len(s)] = t[i]
    OBVIOUS
  <2>2. QED
    BY <2>1 DEF Elements
<1>4. QED
  BY <1>1, <1>2, <1>3

-----------------------------------------------------------------------------
(* Consequences of the invariant *)

\* The writer's hand as a sequence.
LEMMA DataSeq ==
  ASSUME TypeOK
  PROVE  /\ data \in Seq(Call)
         /\ data # <<>> => data = <<data[1]>> /\ data[1] \in Call
<1>1. CASE data = <<>>
  BY <1>1
<1>2. CASE \E m \in Call : data = <<m>>
  <2>1. PICK m \in Call : data = <<m>>
    BY <1>2
  <2>2. QED
    BY <2>1
<1>3. QED
  BY <1>1, <1>2 DEF TypeOK

\* Messages in the channel and in the writer's hand belong to calls that
\* returned nil, and the two are disjoint.
LEMMA TransitFacts ==
  ASSUME TypeOK, AcceptedExactlyOnce
  PROVE  /\ InTransit \in Seq(Call)
         /\ \A m \in Elements(outChan) \cup Elements(data) \cup Elements(wire) :
               m \in Call /\ pc[m] = "ok"
         /\ Elements(data) \cap Elements(outChan) = {}
<1>1. wire \in Seq(Call) /\ data \in Seq(Call) /\ outChan \in Seq(Call)
  BY DataSeq DEF TypeOK
<1>2. wire \o data \in Seq(Call) /\ InTransit \in Seq(Call)
  BY <1>1 DEF InTransit
<1>3. Elements(InTransit) = Elements(wire) \cup Elements(data) \cup Elements(outChan)
  <2>1. Elements(wire \o data) = Elements(wire) \cup Elements(data)
    BY <1>1, ConcatElements
  <2>2. Elements((wire \o data) \o outChan) = Elements(wire \o data) \cup Elements(outChan)
    BY <1>1, <1>2, ConcatElements, ZenonT(30)
  <2>3. QED
    BY <2>1, <2>2 DEF InTransit
<1>4. ASSUME NEW i \in 1..Len(data), NEW j \in 1..Len(outChan), data[i] = outChan[j]
      PROVE  FALSE
  <2> DEFINE p == Len(wire) + i
             q == Len(wire) + Len(data) + j
  <2>1. p \in 1..Len(InTransit) /\ q \in 1..Len(InTransit) /\ p # q
    BY <1>1 DEF InTransit
  <2>2. InTransit[p] = data[i] /\ InTransit[q] = outChan[j]
    BY <1>1, SMTT(30) DEF InTransit
  <2>3. QED
    BY <1>4, <2>1, <2>2 DEF AcceptedExactlyOnce
<1>5. Elements(data) \cap Elements(outChan) = {}
  BY <1>4 DEF Elements
<1>6. QED
  BY <1>2, <1>3, <1>5 DEF AcceptedExactlyOnce

\* What is held are messages of calls.
LEMMA HeldType ==
  ASSUME TypeOK, AcceptedExactlyOnce
  PROVE  Held \subseteq Call
BY TransitFacts DEF Held

-----------------------------------------------------------------------------
(* Each part of the invariant is preserved *)

\* Every step keeps the variables in their types.
LEMMA TypeStep ==
  ASSUME TypeOK, WriterShape, [Next]_vars
  PROVE  TypeOK'
<1> USE QueueConstants DEF TypeOK
<1>1. CASE \E m \in Call : CallStep(m)
  <2>1. PICK m \in Call : CallStep(m)
    BY <1>1
  <2>2. CASE Send(m)
    BY <2>2 DEF Send
  <2>3. CASE CheckClosed(m)
    BY <2>3 DEF CheckClosed
  <2>4. CASE Load(m)
    BY <2>4 DEF Load
  <2>5. CASE CompareAndSwap(m)
    <3>1. queuedBytes' \in Int /\ current' \in [Call -> Int]
      BY <2>5 DEF CompareAndSwap
    <3>2. QED
      BY <2>5, <3>1 DEF CompareAndSwap
  <2>6. CASE Enqueue(m)
    <3>1. outChan' \in Seq(Call)
      <4>1. outChan' \in {outChan, Append(outChan, m)}
        BY <2>6 DEF Enqueue
      <4>2. Append(outChan, m) \in Seq(Call)
        OBVIOUS
      <4>3. QED
        BY <4>1, <4>2, Zenon
    <3>2. QED
      BY <2>6, <3>1 DEF Enqueue
  <2>7. CASE Rollback(m)
    BY <2>7 DEF Rollback
  <2>8. QED
    BY <2>1, <2>2, <2>3, <2>4, <2>5, <2>6, <2>7 DEF CallStep
<1>2. CASE WriterReceive
  BY <1>2 DEF WriterReceive
<1>3. CASE WriterAccount
  <2>1. data[1] \in Call
    BY <1>3 DEF WriterAccount, WriterShape
  <2>2. QED
    BY <1>3, <2>1 DEF WriterAccount
<1>4. CASE WriterWrite
  <2>1. wire' \in Seq(Call)
    BY <1>4, DataSeq DEF WriterWrite
  <2>2. QED
    BY <1>4, <2>1 DEF WriterWrite
<1>5. CASE WriterFail
  BY <1>5 DEF WriterFail
<1>6. CASE WriterDone
  BY <1>6 DEF WriterDone
<1>7. CASE CallClose
  BY <1>7 DEF CallClose
<1>8. CASE CloseStep
  BY <1>8 DEF CloseStep
<1>9. CASE UNCHANGED vars
  BY <1>9 DEF vars
<1>10. QED
  BY <1>1, <1>2, <1>3, <1>4, <1>5, <1>6, <1>7, <1>8, <1>9 DEF Next, WriterStep

\* The writer's program counter and its hand agree after every step.
LEMMA ShapeStep ==
  ASSUME TypeOK, WriterShape, [Next]_vars
  PROVE  WriterShape'
<1> USE DEF WriterShape
<1>1. CASE \E m \in Call : CallStep(m)
  BY <1>1 DEF CallStep, Send, CheckClosed, Load, CompareAndSwap, Enqueue, Rollback
<1>2. CASE WriterReceive
  BY <1>2 DEF WriterReceive
<1>3. CASE WriterAccount \/ WriterWrite \/ WriterFail \/ WriterDone
  BY <1>3 DEF WriterAccount, WriterWrite, WriterFail, WriterDone
<1>4. CASE CallClose \/ CloseStep
  BY <1>4 DEF CallClose, CloseStep
<1>5. CASE UNCHANGED vars
  BY <1>5 DEF vars
<1>6. QED
  BY <1>1, <1>2, <1>3, <1>4, <1>5 DEF Next, WriterStep

\* Only Load brings a call to its compare-and-swap, with a checked budget.
LEMMA CheckedStep ==
  ASSUME TypeOK, CheckedBudget, [Next]_vars
  PROVE  CheckedBudget'
<1> USE QueueConstants DEF TypeOK, CheckedBudget
<1>1. CASE \E m \in Call : CallStep(m)
  <2>1. PICK m \in Call : CallStep(m)
    BY <1>1
  <2>2. CASE Send(m) \/ CheckClosed(m)
    BY <2>2 DEF Send, CheckClosed
  <2>3. CASE Load(m)
    BY <2>3 DEF Load
  <2>4. CASE CompareAndSwap(m)
    BY <2>4 DEF CompareAndSwap
  <2>5. CASE Enqueue(m)
    BY <2>5 DEF Enqueue
  <2>6. CASE Rollback(m)
    BY <2>6 DEF Rollback
  <2>7. QED
    BY <2>1, <2>2, <2>3, <2>4, <2>5, <2>6 DEF CallStep
<1>2. CASE WriterStep \/ CallClose \/ CloseStep
  BY <1>2 DEF WriterStep, WriterReceive, WriterAccount, WriterWrite, WriterFail,
              WriterDone, CallClose, CloseStep
<1>3. CASE UNCHANGED vars
  BY <1>3 DEF vars
<1>4. QED
  BY <1>1, <1>2, <1>3 DEF Next

\* Only a successful channel send accepts a message, and no step of the
\* writer loses, repeats or reorders one.
LEMMA TransitStep ==
  ASSUME TypeOK, WriterShape, AcceptedExactlyOnce, [Next]_vars
  PROVE  AcceptedExactlyOnce'
<1>1. CASE /\ InTransit' = InTransit
           /\ {m \in Call : pc'[m] = "ok"} = {m \in Call : pc[m] = "ok"}
  BY <1>1 DEF AcceptedExactlyOnce, Elements
<1>2. ASSUME NEW m \in Call, Enqueue(m)
      PROVE  AcceptedExactlyOnce'
  <2>1. CASE Len(outChan) < OutCap
    <3>1. InTransit' = Append(InTransit, m)
      <4>1. /\ wire \o data \in Seq(Call) /\ outChan \in Seq(Call)
            /\ outChan' = Append(outChan, m) /\ wire' = wire /\ data' = data
        BY <1>2, <2>1, DataSeq DEF Enqueue, TypeOK
      <4>2. QED
        BY <4>1 DEF InTransit
    <3>2. {k \in Call : pc'[k] = "ok"} = {k \in Call : pc[k] = "ok"} \cup {m}
      BY <1>2, <2>1 DEF Enqueue, TypeOK
    <3>3. m \notin Elements(InTransit) /\ InTransit \in Seq(Call)
      BY <1>2, TransitFacts DEF Enqueue, AcceptedExactlyOnce
    <3>4. /\ Elements(Append(InTransit, m)) = Elements(InTransit) \cup {m}
          /\ \A i, j \in 1..Len(Append(InTransit, m)) :
                Append(InTransit, m)[i] = Append(InTransit, m)[j] => i = j
      BY <3>3, AppendDistinct DEF AcceptedExactlyOnce
    <3>5. Elements(InTransit)' = Elements(Append(InTransit, m))
      BY <3>1 DEF Elements
    <3>6. QED
      BY <3>1, <3>2, <3>4, <3>5 DEF AcceptedExactlyOnce
  <2>2. CASE ~(Len(outChan) < OutCap)
    <3>1. {k \in Call : pc'[k] = "ok"} = {k \in Call : pc[k] = "ok"}
      BY <1>2, <2>2 DEF Enqueue, TypeOK
    <3>2. InTransit' = InTransit
      BY <1>2, <2>2 DEF Enqueue, InTransit
    <3>3. QED
      BY <1>1, <3>1, <3>2
  <2>3. QED
    BY <2>1, <2>2
<1>3. ASSUME NEW m \in Call,
             Send(m) \/ CheckClosed(m) \/ Load(m) \/ CompareAndSwap(m) \/ Rollback(m)
      PROVE  AcceptedExactlyOnce'
  <2>1. InTransit' = InTransit
    BY <1>3 DEF Send, CheckClosed, Load, CompareAndSwap, Rollback, InTransit
  <2>2. {k \in Call : pc'[k] = "ok"} = {k \in Call : pc[k] = "ok"}
    BY <1>3 DEF Send, CheckClosed, Load, CompareAndSwap, Rollback, TypeOK
  <2>3. QED
    BY <1>1, <2>1, <2>2
<1>4. CASE WriterReceive
  <2>1. /\ wire \in Seq(Call) /\ outChan \in Seq(Call) /\ outChan # <<>> /\ data = <<>>
        /\ wire' = wire /\ data' = <<Head(outChan)>> /\ outChan' = Tail(outChan)
        /\ pc' = pc
    BY <1>4 DEF WriterReceive, WriterShape, TypeOK
  <2>2. (wire \o <<Head(outChan)>>) \o Tail(outChan) = (wire \o <<>>) \o outChan
    BY <2>1
  <2>3. QED
    BY <1>1, <2>1, <2>2 DEF InTransit
<1>5. CASE WriterWrite
  <2>1. /\ wire \o data \in Seq(Call)
        /\ wire' = wire \o data /\ data' = <<>> /\ outChan' = outChan /\ pc' = pc
    BY <1>5, DataSeq DEF WriterWrite, TypeOK
  <2>2. (wire \o data) \o <<>> = wire \o data
    BY <2>1
  <2>3. QED
    BY <1>1, <2>1, <2>2 DEF InTransit
<1>6. CASE WriterAccount \/ WriterFail \/ WriterDone \/ CallClose \/ CloseStep
             \/ UNCHANGED vars
  <2>1. wire' = wire /\ data' = data /\ outChan' = outChan /\ pc' = pc
    BY <1>6 DEF WriterAccount, WriterFail, WriterDone, CallClose, CloseStep, vars
  <2>2. QED
    BY <1>1, <2>1 DEF InTransit
<1>7. QED
  BY <1>2, <1>3, <1>4, <1>5, <1>6 DEF Next, CallStep, WriterStep

\* What each step does to the set of messages charged to queuedBytes.
LEMMA HeldStep ==
  ASSUME TypeOK, WriterShape, AcceptedExactlyOnce, [Next]_vars
  PROVE  \/ Held' = Held /\ queuedBytes' = queuedBytes
         \/ \E m \in Call : /\ CompareAndSwap(m) /\ queuedBytes = current[m]
                            /\ m \notin Held /\ Held' = Held \cup {m}
                            /\ queuedBytes' = queuedBytes + Size[m]
         \/ \E m \in Call : /\ m \in Held /\ Held' = Held \ {m}
                            /\ queuedBytes' = queuedBytes - Size[m]
<1> USE TransitFacts DEF TypeOK
<1>1. ASSUME NEW m \in Call, Send(m) \/ CheckClosed(m) \/ Load(m)
      PROVE  Held' = Held /\ queuedBytes' = queuedBytes
  BY <1>1 DEF Send, CheckClosed, Load, Held, Elements
<1>2. ASSUME NEW m \in Call, CompareAndSwap(m), queuedBytes = current[m]
      PROVE  /\ m \notin Held /\ Held' = Held \cup {m}
             /\ queuedBytes' = queuedBytes + Size[m]
  <2>1. m \notin Elements(outChan) /\ m \notin Elements(data)
    BY <1>2 DEF CompareAndSwap
  <2>2. {k \in Call : pc'[k] \in {"send", "full"}}
          = {k \in Call : pc[k] \in {"send", "full"}} \cup {m}
    BY <1>2 DEF CompareAndSwap
  <2>3. Elements(outChan)' = Elements(outChan) /\ Elements(data)' = Elements(data)
        /\ writer' = writer
    BY <1>2 DEF CompareAndSwap, Elements
  <2>4. QED
    BY <1>2, <2>1, <2>2, <2>3 DEF CompareAndSwap, Held
<1>3. ASSUME NEW m \in Call, CompareAndSwap(m), queuedBytes # current[m]
      PROVE  Held' = Held /\ queuedBytes' = queuedBytes
  BY <1>3 DEF CompareAndSwap, Held, Elements
<1>4. ASSUME NEW m \in Call, Enqueue(m), Len(outChan) < OutCap
      PROVE  Held' = Held /\ queuedBytes' = queuedBytes
  <2>1. Elements(Append(outChan, m)) = Elements(outChan) \cup {m}
    BY AppendElements
  <2>2. Elements(outChan)' = Elements(outChan) \cup {m}
    <3>1. outChan' = Append(outChan, m)
      BY <1>4 DEF Enqueue
    <3>2. QED
      BY <2>1, <3>1
  <2>3. {k \in Call : pc'[k] \in {"send", "full"}}
          = {k \in Call : pc[k] \in {"send", "full"}} \ {m}
    BY <1>4 DEF Enqueue
  <2>4. Elements(data)' = Elements(data) /\ writer' = writer
    BY <1>4 DEF Enqueue, Elements
  <2>5. QED
    BY <1>4, <2>2, <2>3, <2>4 DEF Enqueue, Held
<1>5. ASSUME NEW m \in Call, Enqueue(m), ~(Len(outChan) < OutCap)
      PROVE  Held' = Held /\ queuedBytes' = queuedBytes
  BY <1>5 DEF Enqueue, Held, Elements
<1>6. ASSUME NEW m \in Call, Rollback(m)
      PROVE  m \in Held /\ Held' = Held \ {m} /\ queuedBytes' = queuedBytes - Size[m]
  <2>1. m \notin Elements(outChan) /\ m \notin Elements(data)
    BY <1>6 DEF Rollback
  <2>2. {k \in Call : pc'[k] \in {"send", "full"}}
          = {k \in Call : pc[k] \in {"send", "full"}} \ {m}
    BY <1>6 DEF Rollback
  <2>3. Elements(outChan)' = Elements(outChan) /\ Elements(data)' = Elements(data)
        /\ writer' = writer
    BY <1>6 DEF Rollback, Elements
  <2>4. QED
    BY <1>6, <2>1, <2>2, <2>3 DEF Rollback, Held
<1>7. CASE WriterReceive
  <2>1. Elements(outChan) = Elements(Tail(outChan)) \cup {Head(outChan)}
    BY <1>7, TailElements DEF WriterReceive
  <2>2. Elements(outChan)' = Elements(Tail(outChan)) /\ Elements(data)' = {Head(outChan)}
    <3>1. outChan' = Tail(outChan) /\ data' = <<Head(outChan)>>
      BY <1>7 DEF WriterReceive
    <3>2. QED
      BY <3>1, SingletonElements
  <2>3. QED
    BY <1>7, <2>1, <2>2 DEF WriterReceive, Held
<1>8. CASE WriterAccount
  <2>1. data = <<data[1]>> /\ data[1] \in Call
    BY <1>8, DataSeq DEF WriterAccount, WriterShape
  <2>2. Elements(data) = {data[1]}
    BY <2>1, SingletonElements
  <2>3. data[1] \notin Elements(outChan) /\ pc[data[1]] = "ok"
    BY <2>2
  <2>4. Elements(outChan)' = Elements(outChan) /\ pc' = pc
    BY <1>8 DEF WriterAccount, Elements
  <2>5. data[1] \in Held /\ Held' = Held \ {data[1]}
    BY <1>8, <2>2, <2>3, <2>4 DEF WriterAccount, Held
  <2>6. QED
    BY <1>8, <2>1, <2>5 DEF WriterAccount
<1>9. CASE WriterWrite \/ WriterFail \/ WriterDone \/ CallClose \/ CloseStep
             \/ UNCHANGED vars
  BY <1>9, SMTT(30) DEF WriterWrite, WriterFail, WriterDone, CallClose, CloseStep, vars, Held, Elements
<1>10. QED
  BY <1>1, <1>2, <1>3, <1>4, <1>5, <1>6, <1>7, <1>8, <1>9
     DEF Next, CallStep, WriterStep

\* Reservation, rollback and the writer's subtraction keep the counter equal
\* to the bytes held, and within the budget.
LEMMA BytesStep ==
  ASSUME IInv, [Next]_vars
  PROVE  FiniteBytes' /\ ByteAccounting' /\ BudgetRespected'
<1> DEFINE card == Cardinality(BytesOf(Held))
<1>1. /\ TypeOK /\ WriterShape /\ AcceptedExactlyOnce
      /\ IsFiniteSet(BytesOf(Held)) /\ queuedBytes = card
      /\ queuedBytes \in 0..MaxQueuedBytes /\ MaxQueuedBytes \in Nat
  BY QueueConstants DEF IInv, FiniteBytes, ByteAccounting, BudgetRespected
<1>2. CASE Held' = Held /\ queuedBytes' = queuedBytes
  <2>1. BytesOf(Held)' = BytesOf(Held)
    BY <1>2 DEF BytesOf
  <2>2. QED
    BY <1>1, <1>2, <2>1 DEF FiniteBytes, ByteAccounting, BudgetRespected
<1>3. ASSUME NEW m \in Call, CompareAndSwap(m), queuedBytes = current[m],
             m \notin Held, Held' = Held \cup {m}, queuedBytes' = queuedBytes + Size[m]
      PROVE  FiniteBytes' /\ ByteAccounting' /\ BudgetRespected'
  <2>1. BytesOf(Held)' = BytesOf(Held \cup {m})
    BY <1>3 DEF BytesOf
  <2>2. /\ IsFiniteSet(BytesOf(Held \cup {m}))
        /\ Cardinality(BytesOf(Held \cup {m})) = card + Size[m]
    BY <1>1, <1>3, AddBytes
  <2>3. current[m] + Size[m] <= MaxQueuedBytes /\ Size[m] \in Nat
    BY <1>3, QueueConstants DEF IInv, CheckedBudget, CompareAndSwap
  <2>4. BudgetRespected'
    BY <1>1, <1>3, <2>3 DEF BudgetRespected
  <2>5. QED
    BY <1>1, <1>3, <2>1, <2>2, <2>4 DEF FiniteBytes, ByteAccounting
<1>4. ASSUME NEW m \in Call, m \in Held, Held' = Held \ {m},
             queuedBytes' = queuedBytes - Size[m]
      PROVE  FiniteBytes' /\ ByteAccounting' /\ BudgetRespected'
  <2>1. BytesOf(Held)' = BytesOf(Held \ {m})
    BY <1>4 DEF BytesOf
  <2>2. /\ IsFiniteSet(BytesOf(Held \ {m}))
        /\ Cardinality(BytesOf(Held \ {m})) = card - Size[m]
    BY <1>1, <1>4, RemoveBytes
  <2>3. card - Size[m] \in Nat /\ Size[m] \in Nat
    BY <2>2, FS_CardinalityType, QueueConstants
  <2>4. BudgetRespected'
    BY <1>1, <1>4, <2>3 DEF BudgetRespected
  <2>5. QED
    BY <1>1, <1>4, <2>1, <2>2, <2>4 DEF FiniteBytes, ByteAccounting
<1>5. QED
  BY <1>1, <1>2, <1>3, <1>4, HeldStep

\* The invariant holds initially: nothing is held.
LEMMA InitInv == Init => IInv
<1> SUFFICES ASSUME Init PROVE IInv
  OBVIOUS
<1>1. TypeOK /\ WriterShape /\ CheckedBudget
  <2>1. <<>> \in Seq(Call) /\ 0 \in Int
    OBVIOUS
  <2>2. TypeOK
    BY <2>1 DEF Init, TypeOK
  <2>3. QED
    BY <2>2 DEF Init, WriterShape, CheckedBudget
<1>2. InTransit = <<>>
  BY DEF Init, InTransit
<1>3. AcceptedExactlyOnce
  BY <1>2 DEF Init, AcceptedExactlyOnce, Elements
<1>4. BytesOf(Held) = {}
  <2>1. Held = {}
    BY DEF Init, Held, Elements
  <2>2. QED
    BY <2>1 DEF BytesOf
<1>5. FiniteBytes /\ ByteAccounting /\ BudgetRespected
  <2>1. IsFiniteSet(BytesOf(Held)) /\ Cardinality(BytesOf(Held)) = 0
    BY <1>4, FS_EmptySet, Zenon
  <2>2. QED
    BY <2>1, QueueConstants DEF Init, FiniteBytes, ByteAccounting, BudgetRespected
<1>6. QED
  BY <1>1, <1>3, <1>5 DEF IInv

-----------------------------------------------------------------------------
(* The theorems *)

\* The conjunction above is an invariant of every session's queue.
THEOREM QueueInvariant == Spec => []IInv
<1>1. IInv /\ [Next]_vars => IInv'
  BY TypeStep, ShapeStep, CheckedStep, TransitStep, BytesStep DEF IInv
<1>2. QED
  BY InitInv, <1>1, PTL DEF Spec

\* The variables of the queue keep their types.
THEOREM QueueTypeOK == Spec => []TypeOK
BY QueueInvariant, PTL DEF IInv

\* queuedBytes is exact whatever the number of senders, the sizes and the
\* limits: session.go:325-349 never loses or invents a byte.
THEOREM QueueAccounting == Spec => []ByteAccounting
BY QueueInvariant, PTL DEF IInv

\* The budget of session.go:333 is never exceeded and the counter never
\* becomes negative, although check and reservation are separate steps.
THEOREM QueueBudget == Spec => []BudgetRespected
BY QueueInvariant, PTL DEF IInv

\* A message is on its way exactly when its call returned nil, and once.
THEOREM QueueExactlyOnce == Spec => []AcceptedExactlyOnce
BY QueueInvariant, PTL DEF IInv

-----------------------------------------------------------------------------
(* The queue implements OutQueue *)

\* The calls that have begun.
Begun == {m \in Call : pc[m] # "new"}

\* What the contract needs beyond IInv: the channel keeps its capacity, a
\* message that passed the first checks is not too large, and at every moment
\* finitely many calls have begun.
Reasons ==
  /\ Len(outChan) <= OutCap
  /\ \A m \in Call : pc[m] \notin {"new", "err"} => Size[m] <= MaxEncoded
  /\ IsFiniteSet(BytesOf(Begun))

\* A step of call m from one label to another shows as a change of its status.
LEMMA StatusStep ==
  ASSUME TypeOK, NEW m \in Call, NEW label, pc' = [pc EXCEPT ![m] = label]
  PROVE  Status' = [Status EXCEPT ![m] = Outcome(label)]
<1>1. pc \in [Call -> {"new", "enqueue", "load", "cas", "send", "full", "ok", "err"}]
  BY DEF TypeOK
<1>2. \A k \in Call : Outcome(pc'[k]) = IF k = m THEN Outcome(label) ELSE Outcome(pc[k])
  BY <1>1, Zenon
<1>3. QED
  BY <1>2 DEF Status

\* A call that begins adds its bytes, every other step adds none.
LEMMA BegunStep ==
  ASSUME TypeOK, IsFiniteSet(BytesOf(Begun)), NEW m \in Call, NEW label,
         pc' = [pc EXCEPT ![m] = label], label # "new"
  PROVE  IsFiniteSet(BytesOf(Begun)')
<1>1. Begun' = Begun \cup {m}
  BY DEF TypeOK, Begun
<1>2. BytesOf(Begun)' = BytesOf(Begun \cup {m})
  BY <1>1 DEF BytesOf
<1>3. CASE m \in Begun
  <2>1. Begun \cup {m} = Begun
    BY <1>3
  <2>2. QED
    BY <1>2, <2>1
<1>4. CASE m \notin Begun
  <2>1. IsFiniteSet(BytesOf(Begun \cup {m}))
    BY <1>4, AddBytes
  <2>2. QED
    BY <1>2, <2>1
<1>5. QED
  BY <1>3, <1>4

\* Every step keeps the reasons.
LEMMA ReasonsStep ==
  ASSUME TypeOK, Reasons, [Next]_vars
  PROVE  Reasons'
<1> DEFINE Fits == \A m \in Call : pc[m] \notin {"new", "err"} => Size[m] <= MaxEncoded
<1>1. Len(outChan') <= OutCap
  <2>1. CASE \E m \in Call : Enqueue(m)
    BY <2>1, QueueConstants DEF Enqueue, TypeOK, Reasons
  <2>2. CASE WriterReceive
    BY <2>2, QueueConstants DEF WriterReceive, TypeOK, Reasons
  <2>3. CASE outChan' = outChan
    BY <2>3 DEF Reasons
  <2>4. QED
    BY <2>1, <2>2, <2>3
       DEF Next, CallStep, Send, CheckClosed, Load, CompareAndSwap, Rollback, WriterStep,
           WriterAccount, WriterWrite, WriterFail, WriterDone, CallClose, CloseStep, vars
<1>2. ASSUME NEW m \in Call, CallStep(m)
      PROVE  \E label \in {"enqueue", "load", "cas", "send", "full", "ok", "err"} :
               /\ pc' = [pc EXCEPT ![m] = label]
               /\ label = "err" \/ Size[m] <= MaxEncoded
  <2>1. pc[m] \notin {"new", "err"} => Size[m] <= MaxEncoded
    BY DEF Reasons
  <2>2. CASE Send(m)
    <3>1. CASE closed \/ Size[m] > MaxEncoded
      BY <2>2, <3>1 DEF Send
    <3>2. CASE ~(closed \/ Size[m] > MaxEncoded)
      <4>1. Size[m] <= MaxEncoded
        BY <3>2, QueueConstants
      <4>2. QED
        BY <2>2, <3>2, <4>1 DEF Send
    <3>3. QED
      BY <3>1, <3>2
  <2>3. CASE CheckClosed(m) \/ Load(m) \/ CompareAndSwap(m) \/ Enqueue(m) \/ Rollback(m)
    BY <2>1, <2>3 DEF CheckClosed, Load, CompareAndSwap, Enqueue, Rollback
  <2>4. QED
    BY <1>2, <2>2, <2>3 DEF CallStep
<1>3. ASSUME NEW m \in Call, CallStep(m)
      PROVE  Fits' /\ IsFiniteSet(BytesOf(Begun)')
  <2>1. PICK label \in {"enqueue", "load", "cas", "send", "full", "ok", "err"} :
               /\ pc' = [pc EXCEPT ![m] = label]
               /\ label = "err" \/ Size[m] <= MaxEncoded
    BY <1>2, <1>3
  <2>2. IsFiniteSet(BytesOf(Begun)')
    BY <2>1, BegunStep DEF Reasons
  <2>3. Fits'
    BY <2>1 DEF TypeOK, Reasons
  <2>4. QED
    BY <2>2, <2>3
<1>4. ASSUME pc' = pc
      PROVE  Fits' /\ IsFiniteSet(BytesOf(Begun)')
  BY <1>4 DEF Reasons, Begun, BytesOf
<1>5. Fits' /\ IsFiniteSet(BytesOf(Begun)')
  BY <1>3, <1>4 DEF Reasons, Next, WriterStep, WriterReceive, WriterAccount, WriterWrite,
                    WriterFail, WriterDone, CallClose, CloseStep, vars
<1>6. QED
  BY <1>1, <1>5 DEF Reasons

\* The bytes of a smaller set of messages are no more.
LEMMA FewerBytes ==
  ASSUME NEW M, NEW N, M \subseteq N, IsFiniteSet(BytesOf(N))
  PROVE  Cardinality(BytesOf(M)) <= Cardinality(BytesOf(N))
<1>1. BytesOf(M) \subseteq BytesOf(N)
  BY DEF BytesOf
<1>2. QED
  BY <1>1, FS_Subset

\* A message the channel takes fits into the budget with all that is queued
\* before it: the reservations of others are counted in queuedBytes.
LEMMA AcceptedFits ==
  ASSUME IInv, NEW m \in Call, pc[m] = "send"
  PROVE  Cardinality(BytesOf(Elements(outChan) \cup {m})) <= MaxQueuedBytes
<1>1. Elements(outChan) \cup {m} \subseteq Held
  BY DEF Held
<1>2. Cardinality(BytesOf(Elements(outChan) \cup {m})) <= Cardinality(BytesOf(Held))
  BY <1>1, FewerBytes DEF IInv, FiniteBytes
<1>3. Cardinality(BytesOf(Held)) \in 0..MaxQueuedBytes
  BY DEF IInv, ByteAccounting, BudgetRespected
<1>4. IsFiniteSet(BytesOf(Elements(outChan) \cup {m}))
  BY <1>1, FS_Subset DEF IInv, FiniteBytes, BytesOf
<1>5. QED
  BY <1>2, <1>3, <1>4, FS_CardinalityType, QueueConstants

\* A message refused by the budget would exceed it together with what is
\* queued, in the writer's hand or under way, unless a call was refused before.
LEMMA RefusedDoesNotFit ==
  ASSUME IInv, Reasons, NEW m \in Call, pc[m] = "load",
         queuedBytes + Size[m] > MaxQueuedBytes
  PROVE  \/ \E k \in Call : Status[k] = "err" /\ Size[k] <= MaxEncoded
         \/ Cardinality(BytesOf(Elements(outChan) \cup Elements(data)
                                  \cup {k \in Call : Status[k] = "pending"} \cup {m}))
              > MaxQueuedBytes
<1> DEFINE Pend == {k \in Call : Status[k] = "pending"}
           All == Elements(outChan) \cup Elements(data) \cup Pend \cup {m}
<1> SUFFICES ASSUME \A k \in Call : ~(Status[k] = "err" /\ Size[k] <= MaxEncoded)
             PROVE  Cardinality(BytesOf(All)) > MaxQueuedBytes
  OBVIOUS
<1>1. TypeOK /\ AcceptedExactlyOnce
  BY DEF IInv
<1>2. \A k \in Call : pc[k] # "full"
  BY DEF Status, Outcome, Reasons
<1>3. Held \cup {m} \subseteq All
  BY <1>2 DEF Held, Status, Outcome
<1>4. All \subseteq Begun
  <2>1. Elements(outChan) \cup Elements(data) \subseteq Begun
    BY <1>1, TransitFacts DEF Begun
  <2>2. Pend \subseteq Begun
    BY DEF Status, Outcome, Begun
  <2>3. QED
    BY <2>1, <2>2 DEF Begun
<1>5. IsFiniteSet(BytesOf(All))
  <2>1. BytesOf(All) \subseteq BytesOf(Begun)
    BY <1>4 DEF BytesOf
  <2>2. QED
    BY <2>1, FS_Subset DEF Reasons
<1>6. m \notin Held
  BY <1>1, TransitFacts DEF Held
<1>7. Cardinality(BytesOf(Held \cup {m})) = queuedBytes + Size[m]
  BY <1>6, AddBytes DEF IInv, FiniteBytes, ByteAccounting
<1>8. Cardinality(BytesOf(Held \cup {m})) <= Cardinality(BytesOf(All))
  BY <1>3, <1>5, FewerBytes
<1>9. queuedBytes \in Int /\ Size[m] \in Int /\ Cardinality(BytesOf(All)) \in Int
  BY <1>1, <1>5, FS_CardinalityType, QueueConstants DEF TypeOK
<1> HIDE DEF All
<1>10. QED
  BY <1>7, <1>8, <1>9, QueueConstants

\* A step of a call is a step of the contract, or none: acceptance and refusal
\* happen at the send into the channel or at the check that fails.
LEMMA CallSimulates ==
  ASSUME IInv, Reasons, NEW m \in Call, CallStep(m)
  PROVE  \/ Contract!Offer(m) \/ Contract!Accept(m) \/ Contract!Refuse(m)
         \/ UNCHANGED Contract!vars
<1>1. TypeOK /\ AcceptedExactlyOnce
  BY DEF IInv
<1> DEFINE Still == data' = data /\ wire' = wire /\ closing' = closing
<1>0. /\ \A S : Contract!Cardinality(S) = Cardinality(S)
         /\ \A M : Contract!BytesOf(M) = BytesOf(M)
         /\ \A s : Contract!Elements(s) = Elements(s)
  <2>1. \A S : Contract!Cardinality(S) = Cardinality(S)
    BY Zenon DEF Contract!Cardinality, Cardinality
  <2>2. QED
    BY <2>1 DEF Contract!BytesOf, Contract!Elements, BytesOf, Elements
<1>2. ASSUME NEW label, pc' = [pc EXCEPT ![m] = label]
      PROVE  Status' = [Status EXCEPT ![m] = Outcome(label)]
  BY <1>1, <1>2, StatusStep, Zenon
<1>3. ASSUME NEW label, pc' = [pc EXCEPT ![m] = label], Outcome(label) = Status[m]
      PROVE  Status' = Status
  BY <1>2, <1>3 DEF Status
<1>4. CASE Send(m)
  <2>1. Status[m] = "new" /\ Still /\ outChan' = outChan
    BY <1>4 DEF Send, Status, Outcome
  <2>2. CASE closed \/ Size[m] > MaxEncoded
    <3>1. Status' = [Status EXCEPT ![m] = "err"]
      BY <1>2, <1>4, <2>2, Zenon DEF Send, Outcome
    <3>2. QED
      BY <2>1, <2>2, <3>1 DEF Contract!Refuse, closed
  <2>3. CASE ~(closed \/ Size[m] > MaxEncoded)
    <3>1. Status' = [Status EXCEPT ![m] = "pending"]
      BY <1>2, <1>4, <2>3, Zenon DEF Send, Outcome
    <3>2. QED
      BY <2>1, <3>1 DEF Contract!Offer, closed
  <2>4. QED
    BY <2>2, <2>3
<1>5. CASE CheckClosed(m)
  <2>1. Status[m] = "pending" /\ Still /\ outChan' = outChan
    BY <1>5 DEF CheckClosed, Status, Outcome
  <2>2. CASE closed
    <3>1. Status' = [Status EXCEPT ![m] = "err"]
      BY <1>2, <1>5, <2>2, Zenon DEF CheckClosed, Outcome
    <3>2. QED
      BY <2>1, <2>2, <3>1 DEF Contract!Refuse, closed
  <2>3. CASE ~closed
    <3>1. Status' = Status
      BY <1>3, <1>5, <2>1, <2>3, Zenon DEF CheckClosed, Outcome
    <3>2. QED
      BY <2>1, <3>1 DEF Contract!vars, closed
  <2>4. QED
    BY <2>2, <2>3
<1>6. CASE Load(m)
  <2>1. Status[m] = "pending" /\ Still /\ outChan' = outChan
    BY <1>6 DEF Load, Status, Outcome
  <2>2. CASE queuedBytes + Size[m] > MaxQueuedBytes
    <3>1. Status' = [Status EXCEPT ![m] = "err"]
      BY <1>2, <1>6, <2>2 DEF Load, Outcome
    <3>2. \/ \E k \in Call : Status[k] = "err" /\ Size[k] <= MaxEncoded
          \/ Cardinality(BytesOf(Elements(outChan) \cup Elements(data)
                                   \cup {k \in Call : Status[k] = "pending"} \cup {m}))
               > MaxQueuedBytes
      BY <1>6, <2>2, RefusedDoesNotFit DEF Load
    <3>3. \/ \E k \in Call : Status[k] = "err" /\ Size[k] <= MaxEncoded
          \/ Contract!Cardinality(Contract!BytesOf(
               Contract!Elements(outChan) \cup Contract!Elements(data)
                 \cup Contract!Pending \cup {m})) > MaxQueuedBytes
      <4> DEFINE here == Elements(outChan) \cup Elements(data)
                           \cup {k \in Call : Status[k] = "pending"} \cup {m}
      <4>1. Contract!Elements(outChan) \cup Contract!Elements(data)
              \cup Contract!Pending \cup {m} = here
        BY <1>0 DEF Contract!Pending
      <4>2. \/ \E k \in Call : Status[k] = "err" /\ Size[k] <= MaxEncoded
            \/ Cardinality(BytesOf(here)) > MaxQueuedBytes
        BY <3>2
      <4> HIDE DEF here
      <4>3. Contract!Cardinality(Contract!BytesOf(here)) = Cardinality(BytesOf(here))
        BY <1>0, Zenon
      <4> QED
        BY <4>1, <4>2, <4>3
    <3>4. QED
      BY <2>1, <3>1, <3>3 DEF Contract!Refuse, closed
  <2>3. CASE ~(queuedBytes + Size[m] > MaxQueuedBytes)
    <3>1. Status' = Status
      BY <1>3, <1>6, <2>1, <2>3 DEF Load, Outcome
    <3>2. QED
      BY <2>1, <3>1 DEF Contract!vars, closed
  <2>4. QED
    BY <2>2, <2>3
<1>7. CASE CompareAndSwap(m)
  <2>1. Status[m] = "pending" /\ Still /\ outChan' = outChan
    BY <1>7 DEF CompareAndSwap, Status, Outcome
  <2>2. Status' = Status
    BY <1>3, <1>7, <2>1 DEF CompareAndSwap, Outcome
  <2>3. QED
    BY <2>1, <2>2 DEF Contract!vars, closed
<1>8. CASE Enqueue(m)
  <2>1. Status[m] = "pending" /\ Still
    BY <1>8 DEF Enqueue, Status, Outcome
  <2>2. CASE Len(outChan) < OutCap
    <3>1. Status' = [Status EXCEPT ![m] = "ok"] /\ outChan' = Append(outChan, m)
      BY <1>2, <1>8, <2>2, Zenon DEF Enqueue, Outcome
    <3>2. Cardinality(BytesOf(Elements(outChan) \cup {m})) <= MaxQueuedBytes
      BY <1>8, AcceptedFits DEF Enqueue
    <3>3. QED
      BY <1>0, <2>1, <2>2, <3>1, <3>2, Zenon DEF Contract!Accept, closed
  <2>3. CASE ~(Len(outChan) < OutCap)
    <3>1. Status' = [Status EXCEPT ![m] = "err"] /\ outChan' = outChan
      BY <1>2, <1>8, <2>3 DEF Enqueue, Outcome
    <3>2. Len(outChan) = OutCap
      BY <1>1, <2>3, QueueConstants DEF Reasons, TypeOK
    <3>3. QED
      BY <2>1, <3>1, <3>2 DEF Contract!Refuse, closed
  <2>4. QED
    BY <2>2, <2>3
<1>9. CASE Rollback(m)
  <2>1. Status[m] = "err" /\ Still /\ outChan' = outChan
    BY <1>9 DEF Rollback, Status, Outcome
  <2>2. Status' = Status
    BY <1>3, <1>9, <2>1, Zenon DEF Rollback, Outcome
  <2>3. QED
    BY <2>1, <2>2 DEF Contract!vars, closed
<1>10. QED
  BY <1>4, <1>5, <1>6, <1>7, <1>8, <1>9 DEF CallStep

\* So is every step of the writer and of Close.
LEMMA OtherSimulates ==
  ASSUME IInv, WriterStep \/ CallClose \/ CloseStep \/ UNCHANGED vars
  PROVE  Contract!Take \/ Contract!Deliver \/ Contract!Close \/ UNCHANGED Contract!vars
<1>1. TypeOK /\ WriterShape
  BY DEF IInv
<1>2. Status' = Status
  BY DEF Status, WriterStep, WriterReceive, WriterAccount, WriterWrite, WriterFail,
         WriterDone, CallClose, CloseStep, vars
<1>3. CASE WriterReceive
  BY <1>1, <1>2, <1>3 DEF WriterReceive, WriterShape, Contract!Take, closed
<1>4. CASE WriterWrite
  BY <1>1, <1>2, <1>4 DEF WriterWrite, WriterShape, Contract!Deliver, closed
<1>5. CASE WriterAccount \/ WriterFail \/ WriterDone \/ CallClose \/ UNCHANGED vars
  BY <1>2, <1>5 DEF WriterAccount, WriterFail, WriterDone, CallClose, vars, Contract!vars,
                    closed
<1>6. CASE CloseStep
  BY <1>2, <1>6 DEF CloseStep, Contract!Close, Contract!vars, closed
<1>7. QED
  BY <1>3, <1>4, <1>5, <1>6 DEF WriterStep

\* Session.enqueueEncoded, the writer and Session.Close implement the contract
\* of OutQueue: whatever the interleaving, a message is accepted or refused at
\* one moment, a refusal has one of the contract's reasons, and the accepted
\* messages leave in the order of their acceptance.
THEOREM QueueRefinement == Spec => ImplementsOutQueue
<1>1. Init => Reasons
  <2> SUFFICES ASSUME Init PROVE Reasons
    OBVIOUS
  <2>1. BytesOf(Begun) = {}
    BY DEF Init, Begun, BytesOf
  <2>2. IsFiniteSet(BytesOf(Begun))
    BY <2>1, FS_EmptySet, Zenon
  <2>3. QED
    BY <2>2, QueueConstants DEF Init, Reasons
<1>2. IInv /\ Reasons /\ [Next]_vars => Reasons'
  BY ReasonsStep DEF IInv
<1>3. Init => Contract!Init
  BY DEF Init, Contract!Init, Status, Outcome, closed
<1>4. IInv /\ Reasons /\ [Next]_vars => [Contract!Next]_(Contract!vars)
  BY CallSimulates, OtherSimulates DEF Next, Contract!Next
<1>5. QED
  BY QueueInvariant, <1>1, <1>2, <1>3, <1>4, PTL DEF Spec, ImplementsOutQueue, Contract!Spec
=============================================================================
