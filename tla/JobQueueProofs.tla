--------------------------- MODULE JobQueueProofs ---------------------------
(***************************************************************************)
(* Proofs about JobQueue, for every finite set of messages, every number   *)
(* of processes and every number of goroutines in a pool. The invariants   *)
(* build on each other:                                                    *)
(*   TypeInv      types, and what the consumer has in its hand when;       *)
(*   PlaceInv     each message pushed is in exactly one of nine places;    *)
(*   StartInv     a message whose job was started is not under way;        *)
(*   ReadableInv  the channels hold readable messages;                     *)
(*   OrderInv     what is held, and was started, in the order of the       *)
(*                pushes.                                                  *)
(***************************************************************************)
EXTENDS JobQueue, FiniteSetTheorems, SequenceTheorems, TLAPS

-----------------------------------------------------------------------------
(* Sequences of messages, no two of them the same.                         *)

\* s repeats no message.
Distinct(s) == \A i, j \in DOMAIN s : s[i] = s[j] => i = j

\* A new message at the left end.
LEMMA PushDistinct ==
  ASSUME NEW S, NEW s \in Seq(S), NEW m \in S
  PROVE  /\ <<m>> \o s \in Seq(S)
         /\ Elements(<<m>> \o s) = {m} \cup Elements(s)
         /\ Distinct(s) /\ m \notin Elements(s) => Distinct(<<m>> \o s)
<1> DEFINE t == <<m>> \o s
<1>1. <<m>> \in Seq(S) /\ Len(<<m>>) = 1 /\ <<m>>[1] = m
  OBVIOUS
<1>2. t \in Seq(S) /\ Len(t) = Len(s) + 1 /\ Len(s) \in Nat
  BY <1>1, ConcatProperties, LenProperties
<1>3. t[1] = m /\ \A i \in 1 .. Len(s) : t[i + 1] = s[i]
  BY <1>1, <1>2, ConcatProperties
<1>4. DOMAIN t = 1 .. Len(s) + 1 /\ DOMAIN s = 1 .. Len(s)
  BY <1>2, LenProperties
<1> HIDE DEF t
<1>5. \A i \in DOMAIN t : i = 1 \/ (i - 1 \in DOMAIN s /\ t[i] = s[i - 1])
  BY <1>2, <1>3, <1>4
<1>6. Elements(t) = {m} \cup Elements(s)
  <2>1. \A i \in DOMAIN s : i + 1 \in DOMAIN t /\ t[i + 1] = s[i]
    BY <1>2, <1>3, <1>4
  <2>2. 1 \in DOMAIN t
    BY <1>2, <1>4
  <2> QED
    BY <1>3, <1>5, <2>1, <2>2 DEF Elements
<1>7. ASSUME Distinct(s), m \notin Elements(s),
             NEW i \in DOMAIN t, NEW j \in DOMAIN t, t[i] = t[j]
      PROVE  i = j
  <2>1. \A k \in DOMAIN s : s[k] # m
    BY <1>7 DEF Elements
  <2>2. i \in Nat /\ j \in Nat
    BY <1>2, <1>4
  <2> QED
    BY <1>3, <1>5, <1>7, <2>1, <2>2 DEF Distinct
<1>8. Distinct(s) /\ m \notin Elements(s) => Distinct(t)
  BY <1>7 DEF Distinct
<1> QED
  BY <1>2, <1>6, <1>8 DEF t

\* A new message at the right end.
LEMMA AppendDistinct ==
  ASSUME NEW S, NEW s \in Seq(S), NEW m \in S
  PROVE  /\ Append(s, m) \in Seq(S)
         /\ Len(Append(s, m)) = Len(s) + 1
         /\ Elements(Append(s, m)) = Elements(s) \cup {m}
         /\ Distinct(s) /\ m \notin Elements(s) => Distinct(Append(s, m))
<1> DEFINE t == Append(s, m)
<1>1. /\ t \in Seq(S) /\ Len(t) = Len(s) + 1 /\ Len(s) \in Nat
      /\ \A i \in 1 .. Len(s) : t[i] = s[i]
      /\ t[Len(s) + 1] = m
  BY AppendProperties, LenProperties
<1>2. DOMAIN t = 1 .. Len(s) + 1 /\ DOMAIN s = 1 .. Len(s)
  BY <1>1, LenProperties
<1> HIDE DEF t
<1>3. \A i \in DOMAIN t : i = Len(s) + 1 \/ (i \in DOMAIN s /\ t[i] = s[i])
  BY <1>1, <1>2
<1>4. Elements(t) = Elements(s) \cup {m}
  <2>1. \A i \in DOMAIN s : i \in DOMAIN t /\ t[i] = s[i]
    BY <1>1, <1>2
  <2>2. Len(s) + 1 \in DOMAIN t
    BY <1>1, <1>2
  <2> QED
    BY <1>1, <1>3, <2>1, <2>2 DEF Elements
<1>5. Distinct(s) /\ m \notin Elements(s) => Distinct(t)
  BY <1>1, <1>3 DEF Distinct, Elements
<1> QED
  BY <1>1, <1>4, <1>5 DEF t

\* The right end is taken off.
LEMMA PopDistinct ==
  ASSUME NEW S, NEW s \in Seq(S), s # <<>>, Distinct(s)
  PROVE  /\ s[Len(s)] \in Elements(s)
         /\ SubSeq(s, 1, Len(s) - 1) \in Seq(S)
         /\ Distinct(SubSeq(s, 1, Len(s) - 1))
         /\ Elements(SubSeq(s, 1, Len(s) - 1)) = Elements(s) \ {s[Len(s)]}
<1> DEFINE t == SubSeq(s, 1, Len(s) - 1)
<1>1. Len(s) \in Nat \ {0} /\ DOMAIN s = 1 .. Len(s)
  BY EmptySeq, LenProperties
<1>2. \A i \in 1 .. Len(s) - 1 : s[i] \in S
  BY <1>1, ElementOfSeq
<1>3. /\ t \in Seq(S) /\ Len(t) = Len(s) - 1
      /\ \A i \in 1 .. Len(s) - 1 : t[i] = s[i]
  BY <1>1, <1>2, SubSeqProperties
<1>4. DOMAIN t = 1 .. Len(s) - 1
  BY <1>3, LenProperties
<1> HIDE DEF t
<1>5. Distinct(t)
  BY <1>1, <1>3, <1>4 DEF Distinct
<1>6. Elements(t) = Elements(s) \ {s[Len(s)]}
  <2>1. \A i \in DOMAIN t : i \in DOMAIN s /\ t[i] = s[i] /\ i # Len(s)
    BY <1>1, <1>3, <1>4
  <2>2. \A i \in DOMAIN s : i # Len(s) => i \in DOMAIN t /\ t[i] = s[i]
    BY <1>1, <1>3, <1>4
  <2>3. Len(s) \in DOMAIN s
    BY <1>1
  <2> QED
    BY <2>1, <2>2, <2>3 DEF Elements, Distinct
<1>7. s[Len(s)] \in Elements(s)
  BY <1>1 DEF Elements
<1> QED
  BY <1>3, <1>5, <1>6, <1>7 DEF t

\* The left end is taken off.
LEMMA TailDistinct ==
  ASSUME NEW S, NEW s \in Seq(S), s # <<>>
  PROVE  /\ Head(s) \in S
         /\ Head(s) \in Elements(s)
         /\ Tail(s) \in Seq(S)
         /\ Len(Tail(s)) = Len(s) - 1
         /\ Distinct(s) => /\ Distinct(Tail(s))
                           /\ Elements(Tail(s)) = Elements(s) \ {Head(s)}
<1> DEFINE t == Tail(s)
<1>1. Len(s) \in Nat \ {0} /\ DOMAIN s = 1 .. Len(s)
  BY EmptySeq, LenProperties
<1>2. /\ Head(s) \in S /\ Head(s) = s[1]
      /\ t \in Seq(S) /\ Len(t) = Len(s) - 1
      /\ \A i \in 1 .. Len(s) - 1 : t[i] = s[i + 1]
  BY HeadTailProperties
<1>3. DOMAIN t = 1 .. Len(s) - 1
  BY <1>2, LenProperties
<1> HIDE DEF t
<1>4. ASSUME Distinct(s)
      PROVE  Distinct(t) /\ Elements(t) = Elements(s) \ {Head(s)}
  <2>1. \A i \in DOMAIN t : i + 1 \in DOMAIN s /\ t[i] = s[i + 1] /\ i + 1 # 1
    BY <1>1, <1>2, <1>3
  <2>2. \A i \in DOMAIN s : i # 1 => i - 1 \in DOMAIN t /\ t[i - 1] = s[i]
    BY <1>1, <1>2, <1>3
  <2>3. 1 \in DOMAIN s
    BY <1>1
  <2>4. Distinct(t)
    <3> SUFFICES ASSUME NEW i \in DOMAIN t, NEW j \in DOMAIN t, t[i] = t[j]
                 PROVE  i = j
      BY DEF Distinct
    <3>1. i + 1 = j + 1
      BY <1>4, <2>1 DEF Distinct
    <3> QED
      BY <1>1, <1>3, <3>1
  <2>5. ASSUME NEW i \in DOMAIN t PROVE t[i] \in Elements(s) \ {Head(s)}
    <3>1. i + 1 \in DOMAIN s /\ t[i] = s[i + 1] /\ i + 1 # 1
      BY <2>1
    <3>2. s[i + 1] # s[1]
      BY <1>4, <2>3, <3>1 DEF Distinct
    <3> QED
      BY <1>2, <3>1, <3>2 DEF Elements
  <2>6. ASSUME NEW i \in DOMAIN s, s[i] # Head(s) PROVE s[i] \in Elements(t)
    <3>1. i - 1 \in DOMAIN t /\ t[i - 1] = s[i]
      BY <1>2, <2>2, <2>6
    <3> QED
      BY <3>1 DEF Elements
  <2>7. Elements(t) = Elements(s) \ {Head(s)}
    BY <2>5, <2>6 DEF Elements
  <2> QED
    BY <2>4, <2>7
<1>5. Head(s) \in Elements(s)
  BY <1>1, <1>2 DEF Elements
<1> QED
  BY <1>2, <1>4, <1>5 DEF t

\* What a sequence holds.
LEMMA ElementsType ==
  ASSUME NEW S, NEW s \in Seq(S)
  PROVE  Elements(s) \subseteq S /\ Elements(<<>>) = {}
BY ElementOfSeq, LenProperties, EmptySeq DEF Elements

-----------------------------------------------------------------------------
(* Sets of messages, one for each process, and the places a message may be *)
(* in.                                                                     *)

\* What any process has, and that no two processes have the same.
AllOf(f) == UNION {f[p] : p \in Processes}
Apart(f) == \A p, q \in Processes : p # q => f[p] \cap f[q] = {}

\* Process p alone gets, or loses, the elements of D.
Gains(f, g, p, D) ==
  \A q \in Processes : g[q] = IF q = p THEN f[p] \cup D ELSE f[q]
Loses(f, g, p, D) ==
  \A q \in Processes : g[q] = IF q = p THEN f[p] \ D ELSE f[q]

\* Process p gets what no process had.
LEMMA OneMore ==
  ASSUME NEW f, NEW g, NEW p \in Processes, NEW D, Gains(f, g, p, D),
         Apart(f), D \cap AllOf(f) = {}
  PROVE  AllOf(g) = AllOf(f) \cup D /\ Apart(g)
<1>1. g[p] = f[p] \cup D /\ \A q \in Processes \ {p} : g[q] = f[q]
  BY DEF Gains
<1> QED
  BY <1>1 DEF AllOf, Apart

\* Process p loses some of what it alone had.
LEMMA OneLess ==
  ASSUME NEW f, NEW g, NEW p \in Processes, NEW D, Loses(f, g, p, D),
         Apart(f), D \subseteq f[p]
  PROVE  AllOf(g) = AllOf(f) \ D /\ Apart(g)
<1>0. g[p] = f[p] \ D /\ \A q \in Processes \ {p} : g[q] = f[q]
  BY DEF Loses
<1>1. \A q \in Processes \ {p} : f[q] \cap D = {}
  BY DEF Apart
<1>2. Apart(g)
  BY <1>0 DEF Apart
<1>3. \A q \in Processes : g[q] = f[q] \ D
  BY <1>0, <1>1
<1>4. AllOf(g) = AllOf(f) \ D
  BY <1>3 DEF AllOf
<1> QED
  BY <1>2, <1>4

\* Every element of S is in exactly one of nine sets, and nothing else is.
Partition(P, S) ==
  /\ \A i, j \in 1 .. 9 : i # j => P[i] \cap P[j] = {}
  /\ \A x : x \in S <=> \E i \in 1 .. 9 : x \in P[i]

\* The elements of D go from the set a to the set b.
Moves(P, Q, D, a, b) ==
  /\ D \subseteq P[a]
  /\ Q[a] = P[a] \ D
  /\ Q[b] = P[b] \cup D
  /\ \A i \in (1 .. 9) \ {a, b} : Q[i] = P[i]

\* A move leaves every element in one place.
LEMMA Move ==
  ASSUME NEW P, NEW Q, NEW S, NEW D, NEW a \in 1 .. 9, NEW b \in 1 .. 9,
         Partition(P, S), a # b, Moves(P, Q, D, a, b)
  PROVE  Partition(Q, S)
<1> USE DEF Moves
<1>1. ASSUME NEW i \in 1 .. 9, NEW j \in 1 .. 9, i # j
      PROVE  Q[i] \cap Q[j] = {}
  <2>1. \A k \in (1 .. 9) \ {b} : Q[k] \subseteq P[k] /\ Q[k] \cap D = {}
    BY DEF Partition
  <2>2. P[i] \cap P[j] = {}
    BY <1>1 DEF Partition
  <2> QED
    BY <1>1, <2>1, <2>2
<1>2. ASSUME NEW x
      PROVE  (\E i \in 1 .. 9 : x \in P[i]) <=> \E i \in 1 .. 9 : x \in Q[i]
  <2>1. ASSUME NEW i \in 1 .. 9, x \in P[i] PROVE \E k \in 1 .. 9 : x \in Q[k]
    BY <2>1
  <2>2. ASSUME NEW i \in 1 .. 9, x \in Q[i] PROVE \E k \in 1 .. 9 : x \in P[k]
    BY <2>2
  <2> QED
    BY <2>1, <2>2
<1> QED
  BY <1>1, <1>2 DEF Partition

\* A new element comes into the set b.
Enters(P, Q, x, b) ==
  /\ Q[b] = P[b] \cup {x}
  /\ \A i \in (1 .. 9) \ {b} : Q[i] = P[i]

\* So does a new element.
LEMMA Grow ==
  ASSUME NEW P, NEW Q, NEW S, NEW x, x \notin S, NEW b \in 1 .. 9,
         Partition(P, S), Enters(P, Q, x, b)
  PROVE  Partition(Q, S \cup {x})
<1> USE DEF Enters
<1>1. \A i \in 1 .. 9 : x \notin P[i]
  BY DEF Partition
<1>2. ASSUME NEW i \in 1 .. 9, NEW j \in 1 .. 9, i # j
      PROVE  Q[i] \cap Q[j] = {}
  BY <1>1, <1>2 DEF Partition
<1>3. ASSUME NEW y
      PROVE  y \in S \cup {x} <=> \E i \in 1 .. 9 : y \in Q[i]
  <2>1. \A i \in 1 .. 9 : y \in Q[i] => y = x \/ y \in P[i]
    OBVIOUS
  <2>2. \A i \in 1 .. 9 : y \in P[i] => y \in Q[i]
    OBVIOUS
  <2> QED
    BY <2>1, <2>2 DEF Partition
<1> QED
  BY <1>2, <1>3 DEF Partition

-----------------------------------------------------------------------------
(* The types, and the consumer's hand, which holds a message exactly while *)
(* handleMessage or MoveToDLQ is about to use it.                          *)

HandInv ==
  \A p \in Processes : hand[p] # None <=> consumer[p] \in {"handle", "bury"}

\* The inductive invariant behind TypeOK: a hand about to be used holds a
\* message.
TypeInv == TypeOK /\ HandInv

\* BRPOP takes one of the list's messages.
LEMMA PopType ==
  ASSUME NEW S, NEW s \in Seq(S), s # <<>>
  PROVE  s[Len(s)] \in S /\ SubSeq(s, 1, Len(s) - 1) \in Seq(S)
<1>1. Len(s) \in Nat \ {0}
  BY EmptySeq, LenProperties
<1>2. \A i \in 1 .. Len(s) : s[i] \in S
  BY <1>1, ElementOfSeq
<1> QED
  BY <1>1, <1>2, SubSeqProperties

\* The jobs a pool runs are finitely many.
LEMMA RunningFinite ==
  ASSUME TypeOK, NEW p \in Processes
  PROVE  IsFiniteSet(running[p]) /\ Cardinality(running[p]) \in Nat
BY QueueAssumption, FS_Subset, FS_CardinalityType DEF TypeOK

\* A job more is one goroutine more at most, a job less none.
LEMMA OneMoreRuns ==
  ASSUME NEW R, NEW x, IsFiniteSet(R)
  PROVE  /\ Cardinality(R) \in Nat
         /\ Cardinality(R \cup {x}) \in Nat
         /\ Cardinality(R \cup {x}) <= Cardinality(R) + 1
         /\ Cardinality(R \ {x}) \in Nat
         /\ Cardinality(R \ {x}) <= Cardinality(R)
<1>1. Cardinality(R) \in Nat
  BY FS_CardinalityType
<1>2. /\ IsFiniteSet(R \cup {x})
      /\ Cardinality(R \cup {x})
           = IF x \in R THEN Cardinality(R) ELSE Cardinality(R) + 1
  BY FS_AddElement
<1>3. IsFiniteSet(R \ {x}) /\ R \ {x} \in SUBSET R
  BY FS_RemoveElement
<1>4. Cardinality(R \ {x}) <= Cardinality(R)
  BY <1>3, FS_Subset
<1>5. Cardinality(R \ {x}) \in Nat /\ Cardinality(R \cup {x}) \in Nat
  BY <1>2, <1>3, FS_CardinalityType
<1> QED
  BY <1>1, <1>2, <1>4, <1>5

\* The end of a process leaves its memory empty.
LEMMA EndsType ==
  ASSUME TypeInv, NEW p \in Processes, NEW how \in Stopped, Ends(p, how)
  PROVE  TypeInv'
<1>1. Inside(p) \subseteq Msgs
  BY ElementsType DEF TypeInv, TypeOK, Inside
<1>2. Cardinality({}) = 0
  BY FS_EmptySet
<1>3. <<>> \in Seq(Msgs) /\ Len(<<>>) = 0 /\ Cap \in Nat
  BY QueueAssumption DEF Cap
<1>4. TypeOK'
  BY <1>1, <1>2, <1>3, QueueAssumption
  DEF TypeInv, TypeOK, Ends, redis, Mains, Consumers, Stopped
<1>5. HandInv'
  BY DEF TypeInv, TypeOK, HandInv, Ends
<1> QED
  BY <1>4, <1>5 DEF TypeInv

\* The consumer and the list.
LEMMA ConsumeType ==
  ASSUME TypeInv, NEW p \in Processes, Consume(p) \/ Deliver(p)
  PROVE  TypeInv'
<1> USE DEF TypeInv
<1>1. CASE Select(p)
  <2>1. CASE Ends(p, "fatal")
    BY <2>1, EndsType DEF Stopped
  <2>2. CASE consumer' = [consumer EXCEPT ![p] = "brpop"]
             /\ UNCHANGED <<redis, main, hand, pool, sent, started, ends>>
    BY <1>1, <2>2
    DEF Select, TypeOK, HandInv, redis, pool, ends, Consumers
  <2> QED
    BY <1>1, <2>1, <2>2 DEF Select
<1>2. queue # <<>>
        => Popped \in Msgs /\ SubSeq(queue, 1, Len(queue) - 1) \in Seq(Msgs)
  BY PopType DEF TypeOK, Popped
<1>3. CASE Deliver(p)
  BY <1>2, <1>3, QueueAssumption
  DEF Deliver, PopQueue, TypeOK, HandInv, pool, ends, Consumers
<1>4. CASE PopFails(p)
  BY <1>2, <1>4 DEF PopFails, PopQueue, TypeOK, HandInv, pool, Consumers
<1>5. CASE HandleMessage(p)
  <2>1. hand[p] \in Msgs /\ consumer[p] = "handle"
    BY <1>5 DEF HandleMessage, TypeOK, HandInv
  <2>2. CASE /\ consumer' = [consumer EXCEPT ![p] = "bury"]
             /\ UNCHANGED <<redis, main, hand, pool, sent, started, ends>>
    BY <2>1, <2>2, QueueAssumption
    DEF TypeOK, HandInv, redis, pool, ends, Consumers
  <2>3. CASE Ends(p, "panicked")
    BY <2>3, EndsType DEF Stopped
  <2>4. CASE /\ Len(jobChan[p]) < Cap
             /\ jobChan' = [jobChan EXCEPT ![p] = Append(@, hand[p])]
             /\ Handled(p)
             /\ UNCHANGED <<redis, main, running, returned, sent, started,
                            ends>>
    <3>1. /\ Append(jobChan[p], hand[p]) \in Seq(Msgs)
          /\ Len(Append(jobChan[p], hand[p])) <= Cap
      BY <2>1, <2>4, AppendProperties, QueueAssumption, LenProperties
      DEF TypeOK, Cap
    <3> QED
      BY <2>4, <3>1 DEF Handled, TypeOK, HandInv, redis, ends, Consumers
  <2>5. CASE /\ dropped' = dropped \cup {hand[p]}
             /\ Handled(p)
             /\ UNCHANGED <<redis, main, pool, sent, started, done, failed,
                            lost>>
    BY <2>1, <2>5 DEF Handled, TypeOK, HandInv, redis, pool, Consumers
  <2> QED
    BY <1>5, <2>2, <2>3, <2>4, <2>5 DEF HandleMessage, Submit
<1>6. CASE MoveToDLQ(p)
  <2>1. hand[p] \in Msgs
    BY <1>6 DEF MoveToDLQ, TypeOK, HandInv
  <2> QED
    BY <1>6, <2>1 DEF MoveToDLQ, Handled, TypeOK, HandInv, pool, Consumers
<1> QED
  BY <1>1, <1>3, <1>4, <1>5, <1>6 DEF Consume

\* The pool.
LEMMA WorkType ==
  ASSUME TypeInv, NEW p \in Processes, Work(p)
  PROVE  TypeInv'
<1> USE DEF TypeInv
<1>1. /\ IsFiniteSet(running[p]) /\ Cardinality(running[p]) \in Nat
      /\ returned[p] \in Nat /\ Count \in Nat
  BY RunningFinite, QueueAssumption DEF TypeOK
<1>2. CASE TakeJob(p)
  <2>1. /\ Head(jobChan[p]) \in Msgs
        /\ Tail(jobChan[p]) \in Seq(Msgs)
        /\ Len(Tail(jobChan[p])) = Len(jobChan[p]) - 1
        /\ Len(jobChan[p]) \in Nat /\ Cap \in Nat
    BY <1>1, <1>2, TailDistinct, LenProperties DEF TakeJob, TypeOK, Cap
  <2>4. Cardinality(running[p] \cup {Head(jobChan[p])}) + returned[p] <= Count
    <3> DEFINE c == Cardinality(running[p] \cup {Head(jobChan[p])})
    <3>1. c \in Nat /\ c <= Cardinality(running[p]) + 1
      BY <1>1, OneMoreRuns
    <3>2. Cardinality(running[p]) + returned[p] < Count
      BY <1>2 DEF TakeJob, Free
    <3> HIDE DEF c
    <3>3. c + returned[p] <= Count
      BY <1>1, <3>1, <3>2
    <3> QED
      BY <3>3 DEF c
  <2>5. started' \in Seq(Msgs)
    BY <1>2, <2>1 DEF TakeJob, TypeOK
  <2>6. \A q \in Processes : Len(jobChan'[q]) <= Cap
    BY <1>2, <2>1 DEF TakeJob, TypeOK
  <2>7. \A q \in Processes : Cardinality(running'[q]) + returned'[q] <= Count
    BY <1>2, <2>4 DEF TakeJob, TypeOK
  <2> QED
    BY <1>2, <2>1, <2>5, <2>6, <2>7 DEF TakeJob, TypeOK, HandInv, redis, ends
<1>3. CASE FinishJob(p)
  <2>1. PICK m \in running[p] :
          /\ running' = [running EXCEPT ![p] = @ \ {m}]
          /\ \/ done' = done \cup {m} /\ UNCHANGED failed
             \/ failed' = failed \cup {m} /\ UNCHANGED done
    BY <1>3 DEF FinishJob
  <2>2. Cardinality(running[p] \ {m}) + returned[p] <= Count
    <3> DEFINE c == Cardinality(running[p] \ {m})
    <3>1. c \in Nat /\ c <= Cardinality(running[p])
      BY <1>1, OneMoreRuns
    <3>2. Cardinality(running[p]) + returned[p] <= Count
      BY DEF TypeOK
    <3> HIDE DEF c
    <3>3. c + returned[p] <= Count
      BY <1>1, <3>1, <3>2
    <3> QED
      BY <3>3 DEF c
  <2>3. m \in Msgs
    BY DEF TypeOK
  <2>4. \A q \in Processes : Cardinality(running'[q]) + returned'[q] <= Count
    BY <1>3, <2>1, <2>2 DEF FinishJob, TypeOK
  <2> QED
    BY <1>3, <2>1, <2>3, <2>4 DEF FinishJob, TypeOK, HandInv, redis
<1>4. CASE WorkerReturns(p)
  <2>1. /\ returned[p] + 1 \in 0 .. Count
        /\ Cardinality(running[p]) + (returned[p] + 1) <= Count
    BY <1>1, <1>4 DEF WorkerReturns, Free
  <2> QED
    BY <1>4, <2>1 DEF WorkerReturns, TypeOK, HandInv, redis, ends
<1> QED
  BY <1>2, <1>3, <1>4 DEF Work

\* The main goroutine, and who kills and starts a process.
LEMMA MainType ==
  ASSUME TypeInv, NEW p \in Processes, Main(p) \/ Kill(p) \/ Start(p)
  PROVE  TypeInv'
<1>1. CASE Signal(p) \/ CloseChan(p) \/ Start(p)
  BY <1>1
  DEF TypeInv, Signal, CloseChan, Start, TypeOK, HandInv, redis, pool, ends,
      Mains, Serving
<1>2. CASE Exit(p) \/ Kill(p)
  BY <1>2, EndsType DEF Exit, Kill, Stopped
<1> QED
  BY <1>1, <1>2 DEF Main

\* Every step keeps the types.
LEMMA TypeStep == TypeInv /\ [Next]_vars => TypeInv'
<1> SUFFICES ASSUME TypeInv, [Next]_vars PROVE TypeInv'
  OBVIOUS
<1>1. ASSUME NEW m \in Msgs, Enqueue(m) PROVE TypeInv'
  BY <1>1, PushDistinct, AppendProperties
  DEF TypeInv, Enqueue, TypeOK, HandInv, pool, ends
<1>2. ASSUME NEW p \in Processes, Consume(p) \/ Deliver(p) PROVE TypeInv'
  BY <1>2, ConsumeType
<1>3. ASSUME NEW p \in Processes, Work(p) PROVE TypeInv'
  BY <1>3, WorkType
<1>4. ASSUME NEW p \in Processes, Main(p) \/ Kill(p) \/ Start(p) PROVE TypeInv'
  BY <1>4, MainType
<1>5. CASE UNCHANGED vars
  BY <1>5 DEF TypeInv, TypeOK, HandInv, vars
<1> QED
  BY <1>1, <1>2, <1>3, <1>4, <1>5 DEF Next

\* Nothing is anywhere at first.
LEMMA InitType == Init => TypeInv
<1> SUFFICES ASSUME Init PROVE TypeInv
  OBVIOUS
<1>1. Cardinality({}) = 0 /\ <<>> \in Seq(Msgs) /\ Len(<<>>) = 0 /\ Cap \in Nat
  BY FS_EmptySet, QueueAssumption DEF Cap
<1>2. TypeOK
  BY <1>1, QueueAssumption DEF Init, TypeOK, Mains, Consumers, Serving
<1>3. HandInv
  BY DEF Init, HandInv
<1> QED
  BY <1>2, <1>3 DEF TypeInv

\* The types hold at every moment.
LEMMA TypeAlways == Spec => []TypeInv
BY InitType, TypeStep, PTL DEF Spec

(* The list, the channels and the hands hold messages, a channel holds at  *)
(* most twice as many as the pool has goroutines, and no more goroutines   *)
(* run jobs or have returned than the pool has (pool.go:18-41).            *)
THEOREM QueueTypeCorrect == Spec => []TypeOK
<1>1. TypeInv => TypeOK
  BY DEF TypeInv
<1> QED
  BY <1>1, TypeAlways, PTL

(* When main returns, no goroutine of the pool runs a job: wg.Wait has     *)
(* seen every one of them return, and none returns with a job in hand.     *)
THEOREM QuietExit == Spec => ExitIsQuiet
<1>1. ASSUME TypeOK, [Next]_vars
      PROVE  [\A p \in Processes :
                main[p] # "exited" /\ main'[p] = "exited" => running[p] = {}]_vars
  <2>1. SUFFICES ASSUME Next, NEW p \in Processes,
                        main[p] # "exited", main'[p] = "exited"
                 PROVE  running[p] = {}
    BY <1>1
  <2>2. main'[p] # main[p]
    BY <2>1
  <2>3. \A q \in Processes, how \in Stopped :
          Ends(q, how) => (how = "exited" /\ q = p) \/ main'[p] # "exited"
    BY <1>1, <2>1 DEF TypeOK, Ends
  <2>4. Exit(p)
    <3>1. \A m \in Msgs : ~Enqueue(m)
      BY <2>2 DEF Enqueue
    <3>2. ASSUME NEW q \in Processes,
                 \/ Consume(q) \/ Deliver(q) \/ Work(q)
                 \/ Kill(q) \/ Start(q)
          PROVE  FALSE
      BY <1>1, <2>1, <2>2, <3>2
      DEF Consume, Select, PopFails, HandleMessage, Submit, MoveToDLQ, Deliver,
          Work, TakeJob, FinishJob, WorkerReturns, Kill, Start, Ends, Serving,
          TypeOK
    <3>3. ASSUME NEW q \in Processes, Main(q) PROVE Exit(p)
      BY <1>1, <2>1, <2>2, <3>3
      DEF Main, Signal, CloseChan, Exit, Ends, TypeOK, Serving
    <3> QED
      BY <2>1, <3>1, <3>2, <3>3 DEF Next
  <2>5. Cardinality(running[p]) \in Nat /\ IsFiniteSet(running[p])
    BY <1>1, RunningFinite
  <2>6. Cardinality(running[p]) = 0
    BY <1>1, <2>4, <2>5, QueueAssumption DEF Exit, TypeOK
  <2> QED
    BY <2>5, <2>6, FS_EmptySet
<1> QED
  BY <1>1, QueueTypeCorrect, PTL DEF Spec, ExitIsQuiet

-----------------------------------------------------------------------------
(* Every message pushed is in exactly one place.                           *)

\* What each process holds in its channel and in its consumer's hand.
chanOf == [p \in Processes |-> Elements(jobChan[p])]
handOf == [p \in Processes |-> {hand[p]} \ {None}]

\* Where messages are, the failed jobs and the dead-letter list told apart.
Place ==
  <<Elements(queue), dlq, done, failed, dropped, lost, AllOf(chanOf),
    AllOf(running), AllOf(handOf)>>

\* No message is twice on the list, twice in a channel, or pushed twice, and
\* no two processes hold the same one.
OnceInv ==
  /\ Distinct(queue) /\ Distinct(sent)
  /\ \A p \in Processes : Distinct(jobChan[p])
  /\ Apart(chanOf) /\ Apart(running) /\ Apart(handOf)

\* Every message pushed is in exactly one of the nine places, and no other is.
PlaceInv == OnceInv /\ Partition(Place, Elements(sent))

\* The nine places before and after a step.
LEMMA NinePlaces ==
  /\ Place[1] = Elements(queue) /\ Place[2] = dlq /\ Place[3] = done
  /\ Place[4] = failed /\ Place[5] = dropped /\ Place[6] = lost
  /\ Place[7] = AllOf(chanOf) /\ Place[8] = AllOf(running)
  /\ Place[9] = AllOf(handOf)
  /\ Place'[1] = Elements(queue') /\ Place'[2] = dlq' /\ Place'[3] = done'
  /\ Place'[4] = failed' /\ Place'[5] = dropped' /\ Place'[6] = lost'
  /\ Place'[7] = AllOf(chanOf') /\ Place'[8] = AllOf(running')
  /\ Place'[9] = AllOf(handOf')
BY DEF Place, AllOf, Elements

\* PlaceInv after a step, said of the values after it.
LEMMA PlaceAfter ==
  ASSUME Distinct(queue'), Distinct(sent'),
         \A p \in Processes : Distinct(jobChan'[p]),
         Apart(chanOf'), Apart(running'), Apart(handOf'),
         Partition(Place', Elements(sent'))
  PROVE  PlaceInv'
BY DEF PlaceInv, OnceInv, Distinct, Apart, Partition, Elements

\* What may still reach a goroutine is on the list, in a channel, or in a
\* hand.
LEMMA UnderWayPlaces ==
  /\ UnderWay = (Place[1] \cup Place[7]) \cup Place[9]
  /\ UnderWay' = (Place'[1] \cup Place'[7]) \cup Place'[9]
<1>1. UnderWay = (Elements(queue) \cup AllOf(chanOf)) \cup AllOf(handOf)
  BY DEF UnderWay, AllOf, chanOf, handOf
<1>2. UnderWay' = (Elements(queue') \cup AllOf(chanOf')) \cup AllOf(handOf')
  BY DEF UnderWay, AllOf, chanOf, handOf, Elements
<1> QED
  BY <1>1, <1>2, NinePlaces

\* Nothing is under way that was not, unless it comes from elsewhere.
LEMMA MoveUnderWay ==
  ASSUME NEW D, NEW a \in 1 .. 9, NEW b \in 1 .. 9, Moves(Place, Place', D, a, b),
         b \in {1, 7, 9} => a \in {1, 7, 9}
  PROVE  UnderWay' \subseteq UnderWay
<1>1. \A i \in (1 .. 9) \ {b} : Place'[i] \subseteq Place[i]
  BY DEF Moves
<1>2. Place'[b] \subseteq Place[b] \cup Place[a]
  BY DEF Moves
<1> QED
  BY <1>1, <1>2, UnderWayPlaces

\* The message in the hand of process p.
LEMMA InHand ==
  ASSUME TypeInv, NEW p \in Processes, consumer[p] \in {"handle", "bury"}
  PROVE  hand[p] \in Msgs /\ handOf[p] = {hand[p]}
BY QueueAssumption DEF TypeInv, TypeOK, HandInv, handOf

\* The consumer pops a message.
LEMMA DeliverPlace ==
  ASSUME TypeInv, PlaceInv, NEW p \in Processes, Deliver(p)
  PROVE  PlaceInv' /\ UnderWay' \subseteq UnderWay
<1> DEFINE D == {Popped}
<1>1. /\ Popped \in Msgs /\ Popped \in Elements(queue)
      /\ Distinct(queue') /\ Elements(queue') = Elements(queue) \ D
  BY PopDistinct, PopType
  DEF Deliver, PopQueue, Popped, TypeInv, TypeOK, PlaceInv, OnceInv
<1>2. handOf[p] = {}
  BY DEF Deliver, TypeInv, HandInv, handOf
<1>3. Gains(handOf, handOf', p, D)
  BY <1>1, <1>2, QueueAssumption DEF Deliver, TypeInv, TypeOK, handOf, Gains
<1>4. UNCHANGED <<dlq, done, failed, dropped, lost, jobChan, running, sent>>
  BY DEF Deliver, pool, ends
<1>5. chanOf' = chanOf
  BY <1>4 DEF chanOf
<1>6. D \cap AllOf(handOf) = {}
  BY <1>1, NinePlaces DEF PlaceInv, Partition
<1> HIDE DEF D
<1>7. AllOf(handOf') = AllOf(handOf) \cup D /\ Apart(handOf')
  BY <1>3, <1>6, OneMore DEF PlaceInv, OnceInv
<1>8. Moves(Place, Place', D, 1, 9)
  BY <1>1, <1>4, <1>5, <1>7, NinePlaces DEF Moves, D
<1>9. Partition(Place', Elements(sent))
  BY <1>8, Move DEF PlaceInv
<1>10. PlaceInv'
  BY <1>1, <1>4, <1>5, <1>7, <1>9, PlaceAfter DEF PlaceInv, OnceInv
<1> QED
  BY <1>8, <1>10, MoveUnderWay

\* A process that ends takes its channel, its jobs and its hand with it.
LEMMA EndsPlace ==
  ASSUME TypeInv, PlaceInv, NEW p \in Processes, NEW how, Ends(p, how)
  PROVE  PlaceInv' /\ UnderWay' \subseteq UnderWay
<1> DEFINE C == chanOf[p]
           R == running[p]
           H == handOf[p]
           P1 == <<Elements(queue), dlq, done, failed, dropped, lost \cup C,
                   AllOf(chanOf) \ C, AllOf(running), AllOf(handOf)>>
           P2 == <<Elements(queue), dlq, done, failed, dropped, (lost \cup C) \cup R,
                   AllOf(chanOf) \ C, AllOf(running) \ R, AllOf(handOf)>>
<1>1. /\ C = Elements(jobChan[p]) /\ H = {hand[p]} \ {None}
      /\ chanOf'[p] = {} /\ running'[p] = {} /\ handOf'[p] = {}
  BY ElementsType DEF TypeInv, TypeOK, Ends, chanOf, handOf
<1>2. lost' = ((lost \cup C) \cup R) \cup H
  BY <1>1 DEF Ends, Inside
<1>3. UNCHANGED <<queue, dlq, done, failed, dropped, sent>>
  BY DEF Ends, redis
<1>4. /\ Loses(chanOf, chanOf', p, C) /\ Loses(running, running', p, R)
      /\ Loses(handOf, handOf', p, H)
  BY <1>1 DEF Ends, TypeInv, TypeOK, chanOf, handOf, Loses
<1>5. \A q \in Processes : Distinct(jobChan'[q])
  BY DEF Ends, PlaceInv, OnceInv, TypeInv, TypeOK, Distinct
<1> HIDE DEF C, R, H
<1>6. /\ AllOf(chanOf') = AllOf(chanOf) \ C /\ Apart(chanOf')
      /\ AllOf(running') = AllOf(running) \ R /\ Apart(running')
      /\ AllOf(handOf') = AllOf(handOf) \ H /\ Apart(handOf')
  <2>1. C \subseteq chanOf[p] /\ R \subseteq running[p] /\ H \subseteq handOf[p]
    BY DEF C, R, H
  <2> QED
    BY <1>4, <2>1, OneLess DEF PlaceInv, OnceInv
<1>7. /\ C \subseteq AllOf(chanOf)
      /\ R \subseteq AllOf(running)
      /\ H \subseteq AllOf(handOf)
  BY DEF C, R, H, AllOf
<1>8. /\ Moves(Place, P1, C, 7, 6) /\ Moves(P1, P2, R, 8, 6)
      /\ Moves(P2, Place', H, 9, 6)
  <2>1. Moves(Place, P1, C, 7, 6)
    BY <1>7, NinePlaces DEF Moves
  <2>2. Moves(P1, P2, R, 8, 6)
    BY <1>7 DEF Moves
  <2>3. Moves(P2, Place', H, 9, 6)
    <3>1. /\ P2[1] = Elements(queue) /\ P2[2] = dlq /\ P2[3] = done
          /\ P2[4] = failed /\ P2[5] = dropped /\ P2[6] = (lost \cup C) \cup R
          /\ P2[7] = AllOf(chanOf) \ C /\ P2[8] = AllOf(running) \ R
          /\ P2[9] = AllOf(handOf)
      OBVIOUS
    <3> HIDE DEF P1, P2
    <3>2. H \subseteq P2[9] /\ Place'[9] = P2[9] \ H
      BY <1>6, <1>7, <3>1, NinePlaces
    <3>3. Place'[6] = P2[6] \cup H
      BY <1>2, <3>1, NinePlaces
    <3>4. \A i \in (1 .. 9) \ {9, 6} : Place'[i] = P2[i]
      <4>1. /\ Place'[1] = P2[1] /\ Place'[2] = P2[2] /\ Place'[3] = P2[3]
            /\ Place'[4] = P2[4] /\ Place'[5] = P2[5]
        BY <1>3, <3>1, NinePlaces
      <4>2. Place'[7] = P2[7] /\ Place'[8] = P2[8]
        BY <1>6, <3>1, NinePlaces
      <4> QED
        BY <4>1, <4>2
    <3> QED
      BY <3>2, <3>3, <3>4 DEF Moves
  <2> QED
    BY <2>1, <2>2, <2>3
<1> HIDE DEF P1, P2
<1>9. Partition(P1, Elements(sent))
  BY <1>8, Move DEF PlaceInv
<1>10. Partition(P2, Elements(sent))
  BY <1>8, <1>9, Move
<1>11. Partition(Place', Elements(sent))
  BY <1>8, <1>10, Move
<1>12. UnderWay' \subseteq UnderWay
  BY <1>3, <1>6, NinePlaces, UnderWayPlaces
<1> QED
  BY <1>3, <1>5, <1>6, <1>11, <1>12, PlaceAfter DEF PlaceInv, OnceInv

\* BRPOP fails; the message it may have popped is lost.
LEMMA PopFailsPlace ==
  ASSUME TypeInv, PlaceInv, NEW p \in Processes, PopFails(p)
  PROVE  PlaceInv' /\ UnderWay' \subseteq UnderWay
<1>1. UNCHANGED <<dlq, done, failed, dropped, hand, jobChan, running, sent>>
  BY DEF PopFails, pool
<1>2. chanOf' = chanOf /\ handOf' = handOf
  BY <1>1 DEF chanOf, handOf
<1>3. CASE UNCHANGED <<queue, lost>>
  BY <1>1, <1>2, <1>3, UnderWayPlaces DEF PlaceInv, OnceInv, Place
<1>4. CASE queue # <<>> /\ PopQueue /\ lost' = lost \cup {Popped}
  <2>1. /\ Popped \in Elements(queue)
        /\ Distinct(queue') /\ Elements(queue') = Elements(queue) \ {Popped}
    BY <1>4, PopDistinct
    DEF PopQueue, Popped, TypeInv, TypeOK, PlaceInv, OnceInv
  <2>2. Moves(Place, Place', {Popped}, 1, 6)
    BY <1>1, <1>2, <1>4, <2>1, NinePlaces DEF Moves
  <2>3. Partition(Place', Elements(sent))
    BY <2>2, Move DEF PlaceInv
  <2>4. PlaceInv'
    BY <1>1, <1>2, <2>1, <2>3, PlaceAfter DEF PlaceInv, OnceInv
  <2> QED
    BY <2>2, <2>4, MoveUnderWay
<1> QED
  BY <1>3, <1>4 DEF PopFails

\* The consumer's message goes into the channel.
LEMMA SubmitPlace ==
  ASSUME TypeInv, PlaceInv, NEW p \in Processes, consumer[p] = "handle",
         jobChan' = [jobChan EXCEPT ![p] = Append(@, hand[p])],
         Handled(p),
         UNCHANGED <<queue, dlq, running, sent, done, failed, dropped, lost>>
  PROVE  PlaceInv' /\ UnderWay' \subseteq UnderWay
<1> DEFINE D == {hand[p]}
<1>1. hand[p] \in Msgs /\ handOf[p] = D
  BY InHand
<1>2. D \subseteq AllOf(handOf)
  BY <1>1 DEF AllOf
<1>3. D \cap AllOf(chanOf) = {}
  BY <1>2, NinePlaces DEF PlaceInv, Partition
<1>4. hand[p] \notin Elements(jobChan[p])
  BY <1>3 DEF AllOf, chanOf
<1>5. /\ Elements(Append(jobChan[p], hand[p])) = Elements(jobChan[p]) \cup D
      /\ Distinct(Append(jobChan[p], hand[p]))
  BY <1>1, <1>4, AppendDistinct DEF TypeInv, TypeOK, PlaceInv, OnceInv
<1>6. Gains(chanOf, chanOf', p, D)
  BY <1>5 DEF TypeInv, TypeOK, chanOf, Gains
<1>7. Loses(handOf, handOf', p, D)
  BY <1>1 DEF Handled, TypeInv, TypeOK, handOf, Loses
<1>8. \A q \in Processes : Distinct(jobChan'[q])
  BY <1>5 DEF TypeInv, TypeOK, PlaceInv, OnceInv
<1> HIDE DEF D
<1>9. AllOf(chanOf') = AllOf(chanOf) \cup D /\ Apart(chanOf')
  BY <1>3, <1>6, OneMore DEF PlaceInv, OnceInv
<1>10. AllOf(handOf') = AllOf(handOf) \ D /\ Apart(handOf')
  <2>1. D \subseteq handOf[p] /\ Apart(handOf)
    BY <1>1 DEF PlaceInv, OnceInv
  <2> QED
    BY <1>7, <2>1, OneLess
<1>11. Moves(Place, Place', D, 9, 7)
  BY <1>2, <1>9, <1>10, NinePlaces DEF Moves
<1>12. Partition(Place', Elements(sent))
  BY <1>11, Move DEF PlaceInv
<1>13. PlaceInv'
  BY <1>8, <1>9, <1>10, <1>12, PlaceAfter DEF PlaceInv, OnceInv
<1> QED
  BY <1>11, <1>13, MoveUnderWay

\* The consumer's message goes to the dead-letter list, or it is dropped or
\* lost: to the place b.
LEMMA LeavesHandPlace ==
  ASSUME TypeInv, PlaceInv, NEW p \in Processes,
         consumer[p] \in {"handle", "bury"}, Handled(p),
         UNCHANGED <<queue, jobChan, running, sent>>,
         NEW b \in {2, 5, 6}, Place'[b] = Place[b] \cup {hand[p]},
         \A i \in {2, 3, 4, 5, 6} \ {b} : Place'[i] = Place[i]
  PROVE  PlaceInv' /\ UnderWay' \subseteq UnderWay
<1> DEFINE D == {hand[p]}
<1>1. hand[p] \in Msgs /\ handOf[p] = D
  BY InHand
<1>2. D \subseteq AllOf(handOf)
  BY <1>1 DEF AllOf
<1>3. chanOf' = chanOf
  BY DEF chanOf
<1>4. Loses(handOf, handOf', p, D)
  BY <1>1 DEF Handled, TypeInv, TypeOK, handOf, Loses
<1> HIDE DEF D
<1>5. AllOf(handOf') = AllOf(handOf) \ D /\ Apart(handOf')
  BY <1>1, <1>4, OneLess DEF PlaceInv, OnceInv
<1>6. \A i \in {1, 7, 8} : Place'[i] = Place[i]
  BY <1>3, NinePlaces
<1>7. Moves(Place, Place', D, 9, b)
  <2>1. Place'[9] = Place[9] \ D /\ D \subseteq Place[9]
    BY <1>2, <1>5, NinePlaces
  <2> QED
    BY <1>6, <2>1 DEF Moves, D
<1>8. Partition(Place', Elements(sent))
  BY <1>7, Move DEF PlaceInv
<1>9. PlaceInv'
  BY <1>3, <1>5, <1>8, PlaceAfter DEF PlaceInv, OnceInv
<1> QED
  BY <1>7, <1>9, MoveUnderWay

\* A message is pushed.
LEMMA EnqueuePlace ==
  ASSUME TypeInv, PlaceInv, NEW m \in Msgs, Enqueue(m)
  PROVE  PlaceInv' /\ UnderWay' = UnderWay \cup {m}
<1>1. \A i \in 1 .. 9 : m \notin Place[i]
  BY DEF Enqueue, PlaceInv, Partition
<1>2. /\ Distinct(queue') /\ Elements(queue') = Elements(queue) \cup {m}
      /\ Distinct(sent') /\ Elements(sent') = Elements(sent) \cup {m}
  BY <1>1, PushDistinct, AppendDistinct, NinePlaces
  DEF Enqueue, TypeInv, TypeOK, PlaceInv, OnceInv
<1>3. UNCHANGED <<dlq, done, failed, dropped, lost, hand, jobChan, running>>
  BY DEF Enqueue, pool, ends
<1>4. chanOf' = chanOf /\ handOf' = handOf
  BY <1>3 DEF chanOf, handOf
<1>5. Enters(Place, Place', m, 1)
  BY <1>2, <1>3, <1>4, NinePlaces DEF Enters
<1>6. Partition(Place', Elements(sent'))
  BY <1>2, <1>5, Grow DEF PlaceInv, Enqueue
<1>7. UnderWay' = UnderWay \cup {m}
  BY <1>2, <1>3, <1>4, NinePlaces, UnderWayPlaces
<1> QED
  BY <1>2, <1>3, <1>4, <1>6, <1>7, PlaceAfter DEF PlaceInv, OnceInv

\* A goroutine takes the job at the head of its channel.
LEMMA TakeJobPlace ==
  ASSUME TypeInv, PlaceInv, NEW p \in Processes, TakeJob(p)
  PROVE  /\ PlaceInv'
         /\ Head(jobChan[p]) \in Elements(jobChan[p])
         /\ UnderWay' = UnderWay \ {Head(jobChan[p])}
<1> DEFINE D == {Head(jobChan[p])}
<1>1. /\ Head(jobChan[p]) \in Elements(jobChan[p])
      /\ Distinct(Tail(jobChan[p]))
      /\ Elements(Tail(jobChan[p])) = Elements(jobChan[p]) \ D
  BY TailDistinct DEF TakeJob, TypeInv, TypeOK, PlaceInv, OnceInv
<1>2. UNCHANGED <<queue, dlq, done, failed, dropped, lost, hand, sent>>
  BY DEF TakeJob, redis, ends
<1>3. handOf' = handOf
  BY <1>2 DEF handOf
<1>4. D \subseteq chanOf[p]
  BY <1>1 DEF chanOf
<1>5. D \subseteq AllOf(chanOf)
  BY <1>4 DEF AllOf
<1>6. D \cap AllOf(running) = {} /\ D \cap (Place[1] \cup Place[9]) = {}
  BY <1>5, NinePlaces DEF PlaceInv, Partition
<1>7. Loses(chanOf, chanOf', p, D)
  BY <1>1 DEF TakeJob, TypeInv, TypeOK, chanOf, Loses
<1>8. Gains(running, running', p, D)
  BY DEF TakeJob, TypeInv, TypeOK, Gains
<1>9. \A q \in Processes : Distinct(jobChan'[q])
  BY <1>1 DEF TakeJob, TypeInv, TypeOK, PlaceInv, OnceInv
<1> HIDE DEF D
<1>10. AllOf(chanOf') = AllOf(chanOf) \ D /\ Apart(chanOf')
  BY <1>4, <1>7, OneLess DEF PlaceInv, OnceInv
<1>11. AllOf(running') = AllOf(running) \cup D /\ Apart(running')
  BY <1>6, <1>8, OneMore DEF PlaceInv, OnceInv
<1>12. Moves(Place, Place', D, 7, 8)
  BY <1>2, <1>3, <1>5, <1>10, <1>11, NinePlaces DEF Moves
<1>13. Partition(Place', Elements(sent))
  BY <1>12, Move DEF PlaceInv
<1>14. UnderWay' = UnderWay \ D
  <2>1. Place'[1] = Place[1] /\ Place'[9] = Place[9] /\ Place'[7] = Place[7] \ D
    BY <1>12 DEF Moves
  <2> QED
    BY <1>6, <2>1, UnderWayPlaces
<1>15. PlaceInv'
  BY <1>2, <1>3, <1>9, <1>10, <1>11, <1>13, PlaceAfter DEF PlaceInv, OnceInv
<1> QED
  BY <1>1, <1>14, <1>15 DEF D

\* A job returns.
LEMMA FinishJobPlace ==
  ASSUME TypeInv, PlaceInv, NEW p \in Processes, FinishJob(p)
  PROVE  PlaceInv' /\ UnderWay' \subseteq UnderWay
<1>1. PICK m \in running[p] :
        /\ running' = [running EXCEPT ![p] = @ \ {m}]
        /\ \/ done' = done \cup {m} /\ UNCHANGED failed
           \/ failed' = failed \cup {m} /\ UNCHANGED done
  BY DEF FinishJob
<1>2. UNCHANGED <<queue, dlq, dropped, lost, hand, jobChan, sent>>
  BY DEF FinishJob, redis
<1>3. handOf' = handOf /\ chanOf' = chanOf
  BY <1>2 DEF handOf, chanOf
<1>4. Loses(running, running', p, {m})
  BY <1>1 DEF TypeInv, TypeOK, Loses
<1>5. AllOf(running') = AllOf(running) \ {m} /\ Apart(running')
  <2>1. {m} \subseteq running[p] /\ Apart(running)
    BY DEF PlaceInv, OnceInv
  <2> DEFINE D == {m}
  <2> HIDE DEF D
  <2>2. Loses(running, running', p, D) /\ D \subseteq running[p]
    BY <1>4, <2>1 DEF D
  <2>3. AllOf(running') = AllOf(running) \ D /\ Apart(running')
    BY <2>1, <2>2, OneLess
  <2> QED
    BY <2>3 DEF D
<1>6. m \in AllOf(running)
  BY DEF AllOf
<1>7. Moves(Place, Place', {m}, 8, 3) \/ Moves(Place, Place', {m}, 8, 4)
  BY <1>1, <1>2, <1>3, <1>5, <1>6, NinePlaces DEF Moves
<1>8. Partition(Place', Elements(sent))
  BY <1>7, Move DEF PlaceInv
<1>9. PlaceInv'
  BY <1>2, <1>3, <1>5, <1>8, PlaceAfter DEF PlaceInv, OnceInv
<1> QED
  BY <1>7, <1>9, MoveUnderWay

\* Nothing is moved.
LEMMA IdlePlace ==
  ASSUME PlaceInv, UNCHANGED <<queue, dlq, done, failed, dropped, lost, hand,
                               jobChan, running, sent>>
  PROVE  PlaceInv' /\ UnderWay' \subseteq UnderWay
BY DEF PlaceInv, OnceInv, Place, chanOf, handOf, UnderWay

\* Every other step keeps each message in one place, and nothing new comes
\* under way with it.
LEMMA OtherPlace ==
  ASSUME TypeInv, PlaceInv, NEW p \in Processes,
         \/ Consume(p) \/ Deliver(p) \/ FinishJob(p) \/ WorkerReturns(p)
         \/ Main(p) \/ Kill(p) \/ Start(p)
  PROVE  /\ PlaceInv' /\ UnderWay' \subseteq UnderWay
         /\ UNCHANGED <<sent, started>>
<1>1. UNCHANGED <<sent, started>>
  BY DEF Consume, Select, PopFails, HandleMessage, Submit, MoveToDLQ, Deliver,
         FinishJob, WorkerReturns, Main, Signal, CloseChan, Exit, Kill, Start,
         Ends
<1>2. CASE \E how : Ends(p, how)
  BY <1>1, <1>2, EndsPlace
<1>3. CASE Deliver(p) \/ PopFails(p) \/ FinishJob(p)
  BY <1>1, <1>3, DeliverPlace, PopFailsPlace, FinishJobPlace
<1>4. CASE UNCHANGED <<redis, hand, jobChan, running, ends>>
  BY <1>1, <1>4, IdlePlace DEF redis, ends
<1>5. CASE HandleMessage(p)
  <2>1. consumer[p] = "handle"
    BY <1>5 DEF HandleMessage
  <2>2. CASE /\ consumer' = [consumer EXCEPT ![p] = "bury"]
             /\ UNCHANGED <<redis, main, hand, pool, sent, started, ends>>
    BY <1>4, <2>2 DEF pool
  <2>3. CASE Ends(p, "panicked")
    BY <1>2, <2>3
  <2>4. CASE /\ jobChan' = [jobChan EXCEPT ![p] = Append(@, hand[p])]
             /\ Handled(p)
             /\ UNCHANGED <<redis, main, running, returned, sent, started,
                            ends>>
    BY <1>1, <2>1, <2>4, SubmitPlace DEF redis, ends
  <2>5. CASE /\ dropped' = dropped \cup {hand[p]}
             /\ Handled(p)
             /\ UNCHANGED <<redis, main, pool, sent, started, done, failed,
                            lost>>
    <3>1. /\ Place'[5] = Place[5] \cup {hand[p]}
          /\ \A i \in {2, 3, 4, 5, 6} \ {5} : Place'[i] = Place[i]
      BY <2>5, NinePlaces DEF redis
    <3>2. UNCHANGED <<queue, jobChan, running, sent>>
      BY <2>5 DEF redis, pool
    <3> QED
      BY <1>1, <2>1, <2>5, <3>1, <3>2, LeavesHandPlace
  <2> QED
    BY <1>5, <2>2, <2>3, <2>4, <2>5 DEF HandleMessage, Submit
<1>6. CASE MoveToDLQ(p)
  <2>1. PICK b \in {2, 6} :
          /\ Place'[b] = Place[b] \cup {hand[p]}
          /\ \A i \in {2, 3, 4, 5, 6} \ {b} : Place'[i] = Place[i]
    BY <1>6, NinePlaces DEF MoveToDLQ
  <2>2. /\ consumer[p] = "bury" /\ Handled(p)
        /\ UNCHANGED <<queue, jobChan, running, sent>>
    BY <1>6 DEF MoveToDLQ, pool
  <2> QED
    BY <1>1, <2>1, <2>2, LeavesHandPlace
<1>7. CASE Select(p) \/ WorkerReturns(p) \/ Signal(p) \/ CloseChan(p) \/ Start(p)
  BY <1>2, <1>4, <1>7
  DEF Select, WorkerReturns, Signal, CloseChan, Start, pool
<1>8. CASE Exit(p) \/ Kill(p)
  BY <1>2, <1>8 DEF Exit, Kill
<1> QED
  BY <1>3, <1>5, <1>6, <1>7, <1>8 DEF Consume, Main

\* What a step does with what is under way.
Flow ==
  \/ \E m \in Msgs : Enqueue(m) /\ UnderWay' = UnderWay \cup {m}
  \/ \E p \in Processes : /\ TakeJob(p)
                          /\ Head(jobChan[p]) \in Elements(jobChan[p])
                          /\ UnderWay' = UnderWay \ {Head(jobChan[p])}
  \/ UnderWay' \subseteq UnderWay /\ UNCHANGED <<sent, started>>

\* Every step keeps each message in one place.
LEMMA PlaceStep == TypeInv /\ PlaceInv /\ [Next]_vars => PlaceInv' /\ Flow
<1> SUFFICES ASSUME TypeInv, PlaceInv, [Next]_vars PROVE PlaceInv' /\ Flow
  OBVIOUS
<1>1. ASSUME NEW m \in Msgs, Enqueue(m) PROVE PlaceInv' /\ Flow
  BY <1>1, EnqueuePlace DEF Flow
<1>2. ASSUME NEW p \in Processes, TakeJob(p) PROVE PlaceInv' /\ Flow
  BY <1>2, TakeJobPlace DEF Flow
<1>3. ASSUME NEW p \in Processes,
             \/ Consume(p) \/ Deliver(p) \/ FinishJob(p) \/ WorkerReturns(p)
             \/ Main(p) \/ Kill(p) \/ Start(p)
      PROVE  PlaceInv' /\ Flow
  BY <1>3, OtherPlace DEF Flow
<1>4. CASE UNCHANGED vars
  BY <1>4, IdlePlace DEF vars, Flow
<1> QED
  BY <1>1, <1>2, <1>3, <1>4 DEF Next, Work

\* No message is anywhere at first, and none has been pushed.
LEMMA InitPlace == Init => PlaceInv
<1> SUFFICES ASSUME Init PROVE PlaceInv
  OBVIOUS
<1>1. /\ Elements(queue) = {} /\ Elements(sent) = {}
      /\ \A p \in Processes : chanOf[p] = {} /\ running[p] = {} /\ handOf[p] = {}
  BY DEF Init, chanOf, handOf, Elements
<1>2. OnceInv
  BY <1>1 DEF OnceInv, Init, Distinct, Apart
<1>3. \A i \in 1 .. 9 : Place[i] = {}
  <2>1. AllOf(chanOf) = {} /\ AllOf(running) = {} /\ AllOf(handOf) = {}
    BY <1>1 DEF AllOf
  <2> QED
    BY <1>1, <2>1, NinePlaces DEF Init
<1> QED
  BY <1>1, <1>2, <1>3 DEF PlaceInv, Partition

\* Each message is in one place at every moment.
LEMMA PlaceAlways == Spec => []PlaceInv
BY InitPlace, PlaceStep, TypeAlways, PTL DEF Spec

(* Every message pushed is in exactly one place, or its fate is known:     *)
(* whatever the consumers, the pools, the Redis calls and the crashes do,  *)
(* in however many processes (consumer.go:38-68, pool.go:43-49).           *)
THEOREM AlwaysAccounted == Spec => []Accounted
<1>1. TypeInv /\ PlaceInv => Accounted
  <2> DEFINE At(m) == {k \in DOMAIN Whereabouts : m \in Whereabouts[k]}
  <2> SUFFICES ASSUME TypeInv, PlaceInv, NEW m \in Msgs
               PROVE  Cardinality(At(m)) = IF m \in Elements(sent) THEN 1 ELSE 0
    BY DEF Accounted
  <2>1. /\ m \in AllOf(chanOf) <=> \E p \in Processes : m \in Elements(jobChan[p])
        /\ m \in AllOf(running) <=> \E p \in Processes : m \in running[p]
        /\ m \in AllOf(handOf) <=> \E p \in Processes : m = hand[p]
    BY QueueAssumption DEF AllOf, chanOf, handOf
  <2>2. \A k : k \in At(m) <=>
          \/ k = "list" /\ m \in Place[1]
          \/ k = "setAside" /\ (m \in Place[2] \/ m \in Place[4])
          \/ k = "ended" /\ m \in Place[3]
          \/ k = "dropped" /\ m \in Place[5]
          \/ k = "lost" /\ m \in Place[6]
          \/ k = "channel" /\ m \in Place[7]
          \/ k = "running" /\ m \in Place[8]
          \/ k = "hand" /\ m \in Place[9]
    <3>1. m # None
      BY QueueAssumption
    <3>2. /\ m \in Whereabouts.channel <=> m \in Place[7]
          /\ m \in Whereabouts.running <=> m \in Place[8]
          /\ m \in Whereabouts.hand <=> m \in Place[9]
      BY <2>1, <3>1, NinePlaces DEF Whereabouts
    <3>3. /\ m \in Whereabouts.list <=> m \in Place[1]
          /\ m \in Whereabouts.setAside <=> m \in Place[2] \/ m \in Place[4]
          /\ m \in Whereabouts.ended <=> m \in Place[3]
          /\ m \in Whereabouts.dropped <=> m \in Place[5]
          /\ m \in Whereabouts.lost <=> m \in Place[6]
      BY NinePlaces DEF Whereabouts
    <3>4. DOMAIN Whereabouts = {"list", "hand", "channel", "running", "ended",
                                "setAside", "dropped", "lost"}
      BY DEF Whereabouts
    <3> QED
      BY <3>2, <3>3, <3>4
  <2> HIDE DEF At
  <2>3. CASE m \in Elements(sent)
    <3>1. PICK i \in 1 .. 9 : m \in Place[i] /\ \A j \in 1 .. 9 : m \in Place[j] => j = i
      BY <2>3 DEF PlaceInv, Partition
    <3> DEFINE OnlyIn(k) == \A l : l \in At(m) <=> l = k
    <3>2. \E k : OnlyIn(k)
      <4>1. ASSUME i = 1 PROVE OnlyIn("list")
        BY <2>2, <3>1, <4>1
      <4>2. ASSUME i \in {2, 4} PROVE OnlyIn("setAside")
        BY <2>2, <3>1, <4>2
      <4>3. ASSUME i = 3 PROVE OnlyIn("ended")
        BY <2>2, <3>1, <4>3
      <4>4. ASSUME i = 5 PROVE OnlyIn("dropped")
        BY <2>2, <3>1, <4>4
      <4>5. ASSUME i = 6 PROVE OnlyIn("lost")
        BY <2>2, <3>1, <4>5
      <4>6. ASSUME i = 7 PROVE OnlyIn("channel")
        BY <2>2, <3>1, <4>6
      <4>7. ASSUME i = 8 PROVE OnlyIn("running")
        BY <2>2, <3>1, <4>7
      <4>8. ASSUME i = 9 PROVE OnlyIn("hand")
        BY <2>2, <3>1, <4>8
      <4> HIDE DEF OnlyIn
      <4> QED
        BY <3>1, <4>1, <4>2, <4>3, <4>4, <4>5, <4>6, <4>7, <4>8
    <3>3. PICK k : At(m) = {k}
      BY <3>2
    <3> QED
      BY <2>3, <3>3, FS_Singleton
  <2>4. CASE m \notin Elements(sent)
    <3>1. \A i \in 1 .. 9 : m \notin Place[i]
      BY <2>4 DEF PlaceInv, Partition
    <3>2. At(m) = {}
      BY <2>2, <3>1
    <3> QED
      BY <2>4, <3>2, FS_EmptySet
  <2> QED
    BY <2>3, <2>4
<1> QED
  BY <1>1, TypeAlways, PlaceAlways, PTL

-----------------------------------------------------------------------------
(* A job that has been started is out of every goroutine's reach.          *)

\* What has been started was pushed, once, and is not under way.
StartInv ==
  /\ Distinct(started)
  /\ Elements(started) \subseteq Elements(sent)
  /\ Elements(started) \cap UnderWay = {}

\* What is under way has been pushed.
LEMMA UnderWaySent == PlaceInv => UnderWay \subseteq Elements(sent)
BY UnderWayPlaces DEF PlaceInv, Partition

\* A job is started out of a channel, and what has been started stays gone.
LEMMA StartStep ==
  ASSUME TypeInv, PlaceInv, StartInv, [Next]_vars
  PROVE  StartInv'
<1>1. Flow
  BY PlaceStep
<1>2. ASSUME NEW m \in Msgs, Enqueue(m), UnderWay' = UnderWay \cup {m}
      PROVE  StartInv'
  <2>1. Elements(sent') = Elements(sent) \cup {m} /\ m \notin Elements(sent)
    BY <1>2, AppendDistinct DEF Enqueue, TypeInv, TypeOK
  <2>2. started' = started
    BY <1>2 DEF Enqueue
  <2> QED
    BY <1>2, <2>1, <2>2 DEF StartInv, Elements, Distinct
<1>3. ASSUME NEW p \in Processes, TakeJob(p),
             Head(jobChan[p]) \in Elements(jobChan[p]),
             UnderWay' = UnderWay \ {Head(jobChan[p])}
      PROVE  StartInv'
  <2>1. Head(jobChan[p]) \in UnderWay
    BY <1>3 DEF UnderWay
  <2>2. Head(jobChan[p]) \in Msgs
    BY <1>3, TailDistinct DEF TakeJob, TypeInv, TypeOK
  <2>3. /\ Distinct(started')
        /\ Elements(started') = Elements(started) \cup {Head(jobChan[p])}
    BY <1>3, <2>1, <2>2, AppendDistinct DEF TakeJob, TypeInv, TypeOK, StartInv
  <2>4. sent' = sent
    BY <1>3 DEF TakeJob
  <2> QED
    BY <1>3, <2>1, <2>3, <2>4, UnderWaySent DEF StartInv, Elements, Distinct
<1>4. CASE UnderWay' \subseteq UnderWay /\ UNCHANGED <<sent, started>>
  BY <1>4 DEF StartInv, Elements, Distinct
<1> QED
  BY <1>1, <1>2, <1>3, <1>4 DEF Flow

\* What has been started is gone at every moment.
LEMMA StartAlways == Spec => []StartInv
<1>1. Init => StartInv
  BY ElementsType DEF Init, StartInv, Distinct, Elements
<1> QED
  BY <1>1, StartStep, TypeAlways, PlaceAlways, PTL DEF Spec

(* A job is started at most once: a message that a process has taken from  *)
(* its channel is neither on the list nor in any process's memory, so no   *)
(* restart and no other process brings it again (consumer.go:38-68).       *)
THEOREM NeverStartedTwice == Spec => []StartedOnce
<1>1. StartInv => StartedOnce
  BY DEF StartInv, StartedOnce, Distinct
<1> QED
  BY <1>1, StartAlways, PTL

\* No channel holds a message that cannot be unmarshalled.
ReadableInv == \A p \in Processes : Elements(jobChan[p]) \cap Malformed = {}

\* handleMessage submits only what it could unmarshal.
LEMMA ReadableStep ==
  ASSUME TypeInv, ReadableInv, [Next]_vars
  PROVE  ReadableInv'
<1>1. ASSUME NEW p \in Processes,
             \/ jobChan' = [jobChan EXCEPT ![p] = <<>>]
             \/ TakeJob(p)
             \/ /\ HandleMessage(p) /\ hand[p] \notin Malformed
                /\ jobChan' = [jobChan EXCEPT ![p] = Append(@, hand[p])]
      PROVE  ReadableInv'
  <2>1. jobChan'[p] = <<>> => Elements(jobChan'[p]) = {}
    BY DEF Elements
  <2>2. TakeJob(p) => Elements(jobChan'[p]) \subseteq Elements(jobChan[p])
    <3> SUFFICES ASSUME TakeJob(p)
                 PROVE  Elements(jobChan'[p]) \subseteq Elements(jobChan[p])
      OBVIOUS
    <3>1. /\ jobChan'[p] = Tail(jobChan[p])
          /\ jobChan[p] \in Seq(Msgs)
          /\ jobChan[p] # <<>>
      BY DEF TakeJob, TypeInv, TypeOK
    <3>2. /\ Len(jobChan[p]) \in Nat \ {0}
          /\ DOMAIN jobChan[p] = 1 .. Len(jobChan[p])
          /\ DOMAIN Tail(jobChan[p]) = 1 .. Len(jobChan[p]) - 1
          /\ \A i \in 1 .. Len(jobChan[p]) - 1 :
               Tail(jobChan[p])[i] = jobChan[p][i + 1]
      BY <3>1, EmptySeq, LenProperties, HeadTailProperties
    <3>3. ASSUME NEW i \in 1 .. Len(jobChan[p]) - 1
          PROVE  i + 1 \in 1 .. Len(jobChan[p])
      BY <3>2
    <3> QED
      BY <3>1, <3>2, <3>3 DEF Elements
  <2>3. HandleMessage(p)
          /\ jobChan' = [jobChan EXCEPT ![p] = Append(@, hand[p])]
          => Elements(jobChan'[p]) = Elements(jobChan[p]) \cup {hand[p]}
    BY InHand, AppendDistinct DEF HandleMessage, TypeInv, TypeOK
  <2>4. \A q \in Processes \ {p} : jobChan'[q] = jobChan[q]
    BY <1>1 DEF TakeJob, TypeInv, TypeOK
  <2>5. Elements(jobChan'[p]) \cap Malformed = {}
    BY <1>1, <2>1, <2>2, <2>3 DEF ReadableInv, TypeInv, TypeOK
  <2> QED
    BY <2>4, <2>5 DEF ReadableInv, Elements
<1>2. CASE UNCHANGED jobChan
  BY <1>2 DEF ReadableInv
<1>3. ASSUME NEW p \in Processes, Consume(p) \/ Deliver(p) \/ Work(p) \/ Main(p)
             \/ Kill(p) \/ Start(p)
      PROVE  ReadableInv'
  BY <1>1, <1>2, <1>3
  DEF Consume, Select, PopFails, HandleMessage, Submit, MoveToDLQ, Deliver, Work,
      FinishJob, WorkerReturns, Main, Signal, CloseChan, Exit, Kill, Start, Ends,
      pool
<1>4. ASSUME NEW m \in Msgs, Enqueue(m) PROVE ReadableInv'
  BY <1>2, <1>4 DEF Enqueue, pool
<1>5. CASE UNCHANGED vars
  BY <1>2, <1>5 DEF vars
<1> QED
  BY <1>3, <1>4, <1>5 DEF Next

\* The channels hold readable messages at every moment.
LEMMA ReadableAlways == Spec => []ReadableInv
<1>1. Init => ReadableInv
  BY ElementsType DEF Init, ReadableInv, Elements
<1> QED
  BY <1>1, ReadableStep, TypeAlways, PTL DEF Spec

-----------------------------------------------------------------------------
(* The refinement of JobDelivery.                                          *)

\* Each message takes a step of its own, or none.
LEMMA DeliveryStep ==
  ASSUME TypeInv, PlaceInv, StartInv, ReadableInv, [Next]_vars,
         TypeInv', PlaceInv', StartInv'
  PROVE  Delivery!Next
<1>1. /\ Elements(sent') \subseteq Msgs /\ UnderWay' \subseteq Elements(sent')
      /\ Elements(started') \subseteq Elements(sent')
  <2>1. Elements(sent') \subseteq Msgs
    BY ElementsType DEF TypeInv, TypeOK
  <2>2. UnderWay' \subseteq Elements(sent')
    BY UnderWayPlaces DEF PlaceInv, Partition, Elements
  <2> QED
    BY <2>1, <2>2 DEF StartInv, Elements
<1>2. Flow
  BY PlaceStep
<1>3. \A m \in Msgs : Delivery!Same(m) \/ Delivery!Receive(m)
                        \/ Delivery!BeginJob(m) \/ Delivery!LoseMessage(m)
  <2> SUFFICES ASSUME NEW m \in Msgs
               PROVE  Delivery!Same(m) \/ Delivery!Receive(m)
                        \/ Delivery!BeginJob(m) \/ Delivery!LoseMessage(m)
    OBVIOUS
  <2>1. ASSUME NEW n \in Msgs, Enqueue(n), UnderWay' = UnderWay \cup {n}
        PROVE  Delivery!Same(m) \/ Delivery!Receive(m)
    <3>0. Elements(sent') = Elements(sent) \cup {n} /\ n \notin Elements(sent)
      BY <2>1, AppendDistinct DEF Enqueue, TypeInv, TypeOK
    <3>1. Elements(sent)' = Elements(sent) \cup {n} /\ n \notin Elements(sent)
      BY <3>0 DEF Elements
    <3>2. Elements(started)' = Elements(started)
      <4>1. started' = started
        BY <2>1 DEF Enqueue
      <4> QED
        BY <4>1 DEF Elements
    <3>3. n \notin Elements(started)
      BY <3>0 DEF StartInv
    <3> QED
      BY <2>1, <3>1, <3>2, <3>3 DEF Delivery!Same, Delivery!Receive
  <2>2. ASSUME NEW p \in Processes, TakeJob(p),
               Head(jobChan[p]) \in Elements(jobChan[p]),
               UnderWay' = UnderWay \ {Head(jobChan[p])}
        PROVE  Delivery!Same(m) \/ Delivery!BeginJob(m)
    <3>1. Head(jobChan[p]) \in Msgs /\ Head(jobChan[p]) \notin Malformed
      BY <2>2, TailDistinct DEF TakeJob, TypeInv, TypeOK, ReadableInv
    <3>0. Elements(started') = Elements(started) \cup {Head(jobChan[p])}
      BY <2>2, <3>1, AppendDistinct DEF TakeJob, TypeInv, TypeOK
    <3>2. Elements(started)' = Elements(started) \cup {Head(jobChan[p])}
      BY <3>0 DEF Elements
    <3>3. /\ Head(jobChan[p]) \in UnderWay
          /\ Head(jobChan[p]) \in Elements(sent)
          /\ Head(jobChan[p]) \notin Elements(started)
      BY <2>2, UnderWaySent DEF UnderWay, StartInv
    <3>4. Elements(sent)' = Elements(sent)
      BY <2>2 DEF TakeJob, Elements
    <3> QED
      BY <2>2, <3>1, <3>2, <3>3, <3>4 DEF Delivery!Same, Delivery!BeginJob
  <2>3. ASSUME UnderWay' \subseteq UnderWay, UNCHANGED <<sent, started>>
        PROVE  Delivery!Same(m) \/ Delivery!LoseMessage(m)
    <3>1. /\ Elements(sent)' = Elements(sent)
          /\ Elements(started)' = Elements(started)
      BY <2>3 DEF Elements
    <3>2. m \in UnderWay => m \in Elements(sent) /\ m \notin Elements(started)
      BY UnderWaySent DEF StartInv
    <3> QED
      BY <2>3, <3>1, <3>2 DEF Delivery!Same, Delivery!LoseMessage
  <2> QED
    BY <1>2, <2>1, <2>2, <2>3 DEF Flow
<1> QED
  BY <1>1, <1>3 DEF Delivery!Next, Elements

(* The list, the consumers and the pools implement JobDelivery: a message  *)
(* comes to at most one goroutine, in a readable form, and never back,     *)
(* through crashes, restarts and lost answers (consumer.go:38-68,          *)
(* sync.go:56-75, pool.go:43-72).                                          *)
THEOREM QueueImplementsDelivery == Spec => ImplementsDelivery
<1>1. Init => Delivery!Init
  <2> SUFFICES ASSUME Init PROVE Delivery!Init
    OBVIOUS
  <2>1. /\ Elements(sent) = {} /\ Elements(started) = {} /\ Elements(queue) = {}
        /\ \A p \in Processes : Elements(jobChan[p]) = {} /\ {hand[p]} \ {None} = {}
    BY DEF Init, Elements
  <2>2. UnderWay = {}
    BY <2>1 DEF UnderWay
  <2> QED
    BY <2>1, <2>2 DEF Delivery!Init
<1>2. TypeInv /\ PlaceInv /\ StartInv /\ ReadableInv /\ [Next]_vars
        /\ TypeInv' /\ PlaceInv' /\ StartInv'
        => [Delivery!Next]_Delivery!vars
  BY DeliveryStep
<1> QED
  BY <1>1, <1>2, TypeAlways, PlaceAlways, StartAlways, ReadableAlways, PTL
  DEF Spec, ImplementsDelivery, Delivery!Spec

-----------------------------------------------------------------------------
(* The capacity of the channel.                                            *)

\* A sequence that repeats nothing is no longer than one that holds as much.
LEMMA NoLonger ==
  ASSUME NEW S, NEW s \in Seq(S), NEW t \in Seq(S), Distinct(t),
         Elements(t) \subseteq Elements(s)
  PROVE  Len(t) <= Len(s)
<1>1. /\ Len(s) \in Nat /\ DOMAIN s = 1 .. Len(s)
      /\ Len(t) \in Nat /\ DOMAIN t = 1 .. Len(t)
  BY LenProperties
<1>2. /\ IsFiniteSet(1 .. Len(s)) /\ Cardinality(1 .. Len(s)) = Len(s)
      /\ IsFiniteSet(1 .. Len(t)) /\ Cardinality(1 .. Len(t)) = Len(t)
  <2>1. ASSUME NEW n \in Nat
        PROVE  IsFiniteSet(1 .. n) /\ Cardinality(1 .. n) = n
    <3>1. /\ IsFiniteSet(1 .. n)
          /\ Cardinality(1 .. n) = IF 1 > n THEN 0 ELSE n - 1 + 1
      BY FS_Interval
    <3> QED
      BY <3>1
  <2> QED
    BY <1>1, <2>1
<1> DEFINE f == [i \in 1 .. Len(s) |-> s[i]]
           g == [i \in 1 .. Len(t) |-> t[i]]
<1>3. f \in Surjection(1 .. Len(s), Elements(s))
  BY <1>1 DEF Surjection, Elements
<1>4. g \in Injection(1 .. Len(t), Elements(s))
  BY <1>1 DEF Injection, IsInjective, Elements, Distinct
<1> HIDE DEF f, g
<1>5. /\ IsFiniteSet(Elements(s))
      /\ Cardinality(Elements(s)) <= Cardinality(1 .. Len(s))
  BY <1>2, <1>3, FS_Surjection
<1>6. Cardinality(1 .. Len(t)) <= Cardinality(Elements(s))
  BY <1>4, <1>5, FS_Injection
<1>7. Cardinality(Elements(s)) \in Nat
  BY <1>5, FS_CardinalityType
<1> QED
  BY <1>1, <1>2, <1>5, <1>6, <1>7

\* Submit found the channel full.
LEMMA DropStep ==
  ASSUME TypeInv, PlaceInv, DropsOnlyOverCapacity, [Next]_vars
  PROVE  DropsOnlyOverCapacity'
<1>0. Cap \in Nat /\ Len(sent) \in Nat
  BY QueueAssumption, LenProperties DEF Cap, TypeInv, TypeOK
<1>1. UNCHANGED sent \/ Len(sent') = Len(sent) + 1
  <2>1. ASSUME NEW m \in Msgs, Enqueue(m) PROVE Len(sent') = Len(sent) + 1
    BY <2>1, AppendDistinct DEF Enqueue, TypeInv, TypeOK
  <2>2. ASSUME NEW p \in Processes, TakeJob(p) PROVE UNCHANGED sent
    BY <2>2 DEF TakeJob
  <2> QED
    BY <2>1, <2>2, PlaceStep DEF Flow
<1>2. CASE UNCHANGED dropped
  BY <1>0, <1>1, <1>2 DEF DropsOnlyOverCapacity, Cap
<1>3. ASSUME NEW p \in Processes, HandleMessage(p), Len(jobChan[p]) >= Cap,
             UNCHANGED sent
      PROVE  DropsOnlyOverCapacity'
  <2> DEFINE t == Append(jobChan[p], hand[p])
  <2>1. hand[p] \in Msgs /\ handOf[p] = {hand[p]} /\ jobChan[p] \in Seq(Msgs)
    BY <1>3, InHand DEF HandleMessage, TypeInv, TypeOK
  <2>2. hand[p] \in Place[9] /\ Elements(jobChan[p]) \subseteq Place[7]
    BY <2>1, NinePlaces DEF AllOf, chanOf
  <2>3. /\ hand[p] \notin Elements(jobChan[p])
        /\ hand[p] \in Elements(sent) /\ Elements(jobChan[p]) \subseteq Elements(sent)
    BY <2>2 DEF PlaceInv, Partition
  <2>4. /\ t \in Seq(Msgs) /\ Len(t) = Len(jobChan[p]) + 1
        /\ Elements(t) = Elements(jobChan[p]) \cup {hand[p]} /\ Distinct(t)
    BY <2>1, <2>3, AppendDistinct DEF PlaceInv, OnceInv
  <2> HIDE DEF t
  <2>5. Len(t) <= Len(sent)
    BY <2>3, <2>4, NoLonger DEF TypeInv, TypeOK
  <2>6. Len(jobChan[p]) \in Nat
    BY <2>1, LenProperties
  <2>7. Len(sent) > Cap
    BY <1>0, <1>3, <2>4, <2>5, <2>6
  <2> QED
    BY <1>3, <2>7 DEF DropsOnlyOverCapacity, Cap
<1>4. ASSUME NEW p \in Processes, HandleMessage(p) PROVE DropsOnlyOverCapacity'
  BY <1>2, <1>3, <1>4 DEF HandleMessage, Submit, Ends, ends
<1>5. ASSUME NEW p \in Processes,
             \/ Select(p) \/ PopFails(p) \/ MoveToDLQ(p) \/ Deliver(p) \/ Work(p)
             \/ Main(p) \/ Kill(p) \/ Start(p)
      PROVE  DropsOnlyOverCapacity'
  BY <1>2, <1>5
  DEF Select, PopFails, MoveToDLQ, Deliver, Work, TakeJob, FinishJob,
      WorkerReturns, Main, Signal, CloseChan, Exit, Kill, Start, Ends, ends
<1>6. ASSUME NEW m \in Msgs, Enqueue(m) PROVE DropsOnlyOverCapacity'
  BY <1>2, <1>6 DEF Enqueue, ends
<1>7. CASE UNCHANGED vars
  BY <1>2, <1>7 DEF vars
<1> QED
  BY <1>4, <1>5, <1>6, <1>7 DEF Next, Consume

(* A job is dropped only behind a full channel: as long as no more than    *)
(* its capacity has been pushed none is, however slow the pool and however *)
(* many processes there are (pool.go:22, 43-49).                           *)
THEOREM DroppedOnlyOverCapacity == Spec => []DropsOnlyOverCapacity
<1>1. Init => DropsOnlyOverCapacity
  BY DEF Init, DropsOnlyOverCapacity
<1> QED
  BY <1>1, DropStep, TypeAlways, PlaceAlways, PTL DEF Spec

-----------------------------------------------------------------------------
(* The order in which messages were pushed, and the order in which the     *)
(* list, a channel and the goroutines hold them.                           *)

\* a was pushed before b, s being the messages as they were pushed.
Before(s, a, b) == \E i, j \in DOMAIN s : i < j /\ s[i] = a /\ s[j] = b

\* All of A was pushed before all of B.
AllBefore(s, A, B) == \A a \in A, b \in B : Before(s, a, b)

\* t holds its messages as they were pushed, or the other way round.
Ascending(s, t)  == \A i, j \in DOMAIN t : i < j => Before(s, t[i], t[j])
Descending(s, t) == \A i, j \in DOMAIN t : i < j => Before(s, t[j], t[i])

\* What is pushed later is after what was pushed before it, and disturbs no
\* order.
LEMMA PushBefore ==
  ASSUME NEW S, NEW s \in Seq(S), NEW m \in S
  PROVE  /\ \A a \in Elements(s) : Before(Append(s, m), a, m)
         /\ \A a, b : Before(s, a, b) => Before(Append(s, m), a, b)
<1> DEFINE t == Append(s, m)
<1>1. /\ Len(t) = Len(s) + 1 /\ Len(s) \in Nat
      /\ \A i \in 1 .. Len(s) : t[i] = s[i]
      /\ t[Len(s) + 1] = m /\ t \in Seq(S)
  BY AppendProperties, LenProperties
<1>2. DOMAIN t = 1 .. Len(s) + 1 /\ DOMAIN s = 1 .. Len(s)
  BY <1>1, LenProperties
<1> HIDE DEF t
<1>3. \A i \in DOMAIN s : i \in DOMAIN t /\ t[i] = s[i] /\ i < Len(s) + 1
  BY <1>1, <1>2
<1>4. Len(s) + 1 \in DOMAIN t
  BY <1>1, <1>2
<1>5. \A a \in Elements(s) : Before(t, a, m)
  BY <1>1, <1>3, <1>4 DEF Elements, Before
<1>6. ASSUME NEW a, NEW b, Before(s, a, b) PROVE Before(t, a, b)
  BY <1>3, <1>6 DEF Before
<1> QED
  BY <1>5, <1>6 DEF t

\* A message comes to the right end of an ascending sequence.
LEMMA AppendAscending ==
  ASSUME NEW S, NEW s, NEW t \in Seq(S), NEW m \in S, Ascending(s, t),
         AllBefore(s, Elements(t), {m})
  PROVE  Ascending(s, Append(t, m))
<1> DEFINE u == Append(t, m)
<1>1. /\ Len(u) = Len(t) + 1 /\ Len(t) \in Nat
      /\ \A i \in 1 .. Len(t) : u[i] = t[i]
      /\ u[Len(t) + 1] = m /\ u \in Seq(S)
  BY AppendProperties, LenProperties
<1>2. DOMAIN u = 1 .. Len(t) + 1 /\ DOMAIN t = 1 .. Len(t)
  BY <1>1, LenProperties
<1> HIDE DEF u
<1>3. ASSUME NEW i \in DOMAIN u, NEW j \in DOMAIN u, i < j
      PROVE  Before(s, u[i], u[j])
  <2>1. i \in DOMAIN t /\ u[i] = t[i]
    BY <1>1, <1>2, <1>3
  <2>2. CASE j \in DOMAIN t
    BY <1>1, <1>2, <1>3, <2>1, <2>2 DEF Ascending
  <2>3. CASE j \notin DOMAIN t
    <3>1. u[j] = m
      BY <1>1, <1>2, <2>3
    <3> QED
      BY <2>1, <3>1 DEF AllBefore, Elements
  <2> QED
    BY <2>2, <2>3
<1> QED
  BY <1>3 DEF Ascending, u

\* The left end of an ascending sequence is before the rest of it.
LEMMA TailAscending ==
  ASSUME NEW S, NEW s, NEW t \in Seq(S), t # <<>>, Ascending(s, t)
  PROVE  /\ Ascending(s, Tail(t))
         /\ AllBefore(s, {Head(t)}, Elements(Tail(t)))
<1> DEFINE u == Tail(t)
<1>1. /\ Len(t) \in Nat \ {0} /\ DOMAIN t = 1 .. Len(t)
      /\ Head(t) = t[1] /\ u \in Seq(S) /\ Len(u) = Len(t) - 1
      /\ \A i \in 1 .. Len(t) - 1 : u[i] = t[i + 1]
  BY EmptySeq, LenProperties, HeadTailProperties
<1>2. DOMAIN u = 1 .. Len(t) - 1
  BY <1>1, LenProperties
<1> HIDE DEF u
<1>3. \A i \in DOMAIN u : /\ i + 1 \in DOMAIN t /\ 1 \in DOMAIN t
                         /\ 1 < i + 1 /\ u[i] = t[i + 1]
  BY <1>1, <1>2
<1>4. \A i, j \in DOMAIN u : i < j => i + 1 < j + 1
  BY <1>2
<1>5. Ascending(s, u)
  BY <1>3, <1>4 DEF Ascending
<1>6. AllBefore(s, {Head(t)}, Elements(u))
  BY <1>1, <1>3 DEF Ascending, AllBefore, Elements
<1> QED
  BY <1>5, <1>6 DEF u

\* A message comes to the left end of a descending sequence.
LEMMA PushDescending ==
  ASSUME NEW S, NEW s, NEW t \in Seq(S), NEW m \in S, Descending(s, t),
         AllBefore(s, Elements(t), {m})
  PROVE  Descending(s, <<m>> \o t)
<1> DEFINE u == <<m>> \o t
<1>1. <<m>> \in Seq(S) /\ Len(<<m>>) = 1 /\ <<m>>[1] = m
  OBVIOUS
<1>2. u \in Seq(S) /\ Len(u) = Len(t) + 1 /\ Len(t) \in Nat
  BY <1>1, ConcatProperties, LenProperties
<1>3. u[1] = m /\ \A i \in 1 .. Len(t) : u[i + 1] = t[i]
  BY <1>1, <1>2, ConcatProperties
<1>4. DOMAIN u = 1 .. Len(t) + 1 /\ DOMAIN t = 1 .. Len(t)
  BY <1>2, LenProperties
<1> HIDE DEF u
<1>5. \A i \in DOMAIN u : i = 1 \/ (i > 1 /\ i - 1 \in DOMAIN t /\ u[i] = t[i - 1])
  BY <1>2, <1>3, <1>4
<1>6. ASSUME NEW i \in DOMAIN u, NEW j \in DOMAIN u, i < j
      PROVE  Before(s, u[j], u[i])
  <2>1. j - 1 \in DOMAIN t /\ u[j] = t[j - 1]
    BY <1>2, <1>4, <1>5, <1>6
  <2>2. CASE i = 1
    BY <1>3, <2>1, <2>2 DEF AllBefore, Elements
  <2>3. CASE i # 1
    <3>1. i - 1 \in DOMAIN t /\ u[i] = t[i - 1] /\ i - 1 < j - 1
      BY <1>4, <1>5, <1>6, <2>3
    <3> QED
      BY <2>1, <3>1 DEF Descending
  <2> QED
    BY <2>2, <2>3
<1> QED
  BY <1>6 DEF Descending, u

\* The right end of a descending sequence is before the rest of it.
LEMMA PopDescending ==
  ASSUME NEW S, NEW s, NEW t \in Seq(S), t # <<>>, Descending(s, t)
  PROVE  /\ Descending(s, SubSeq(t, 1, Len(t) - 1))
         /\ AllBefore(s, {t[Len(t)]}, Elements(SubSeq(t, 1, Len(t) - 1)))
<1> DEFINE u == SubSeq(t, 1, Len(t) - 1)
<1>1. Len(t) \in Nat \ {0} /\ DOMAIN t = 1 .. Len(t)
  BY EmptySeq, LenProperties
<1>2. \A i \in 1 .. Len(t) - 1 : t[i] \in S
  BY <1>1, ElementOfSeq
<1>3. /\ u \in Seq(S) /\ Len(u) = Len(t) - 1
      /\ \A i \in 1 .. Len(t) - 1 : u[i] = t[i]
  BY <1>1, <1>2, SubSeqProperties
<1>4. DOMAIN u = 1 .. Len(t) - 1
  BY <1>3, LenProperties
<1> HIDE DEF u
<1>5. \A i \in DOMAIN u : /\ i \in DOMAIN t /\ i < Len(t)
                         /\ u[i] = t[i] /\ Len(t) \in DOMAIN t
  BY <1>1, <1>3, <1>4
<1>6. Descending(s, u)
  BY <1>5 DEF Descending
<1>7. AllBefore(s, {t[Len(t)]}, Elements(u))
  BY <1>5 DEF Descending, AllBefore, Elements
<1> QED
  BY <1>6, <1>7 DEF u

\* With s the messages as they were pushed, q the list, st the messages
\* started, and c and h the channel and the hand of every process: whatever
\* has been popped was pushed before whatever is on the list, a process holds
\* in its channel, and then in its hand, what it popped in this order, and a
\* process that is alone has started what was pushed before that.
Ordered(s, q, st, c, h) ==
  /\ Descending(s, q)
  /\ AllBefore(s, Elements(st), Elements(q))
  /\ \A p \in Processes :
       /\ Ascending(s, c[p])
       /\ AllBefore(s, Elements(c[p]), h[p])
       /\ AllBefore(s, Elements(c[p]) \cup h[p], Elements(q))
  /\ Cardinality(Processes) = 1 =>
       /\ Ascending(s, st)
       /\ \A p \in Processes : AllBefore(s, Elements(st),
                                         Elements(c[p]) \cup h[p])

\* The order of everything that has not come to an end.
OrderInv == Ordered(sent, queue, started, jobChan, handOf)

\* OrderInv after a step, said of the values after it.
LEMMA OrderAfter ==
  ASSUME Ordered(sent', queue', started', jobChan', handOf')
  PROVE  OrderInv'
BY DEF OrderInv, Ordered, Descending, Ascending, AllBefore, Before, Elements

\* Some of what is held goes.
LEMMA FewerOrdered ==
  ASSUME OrderInv, UNCHANGED <<sent, started>>,
         Descending(sent, queue'), Elements(queue') \subseteq Elements(queue),
         \A q \in Processes : /\ Ascending(sent, jobChan'[q])
                              /\ Elements(jobChan'[q]) \subseteq Elements(jobChan[q])
                              /\ handOf'[q] \subseteq handOf[q]
  PROVE  OrderInv'
<1>1. /\ Descending(sent, queue')
      /\ AllBefore(sent, Elements(started), Elements(queue'))
  BY DEF OrderInv, Ordered, AllBefore
<1>2. ASSUME NEW p \in Processes
      PROVE  /\ Ascending(sent, jobChan'[p])
             /\ AllBefore(sent, Elements(jobChan'[p]), handOf'[p])
             /\ AllBefore(sent, Elements(jobChan'[p]) \cup handOf'[p],
                          Elements(queue'))
  BY DEF OrderInv, Ordered, AllBefore
<1>3. ASSUME Cardinality(Processes) = 1
      PROVE  /\ Ascending(sent, started)
             /\ \A p \in Processes :
                  AllBefore(sent, Elements(started),
                            Elements(jobChan'[p]) \cup handOf'[p])
  BY <1>3 DEF OrderInv, Ordered, AllBefore
<1>4. Ordered(sent, queue', started, jobChan', handOf')
  BY <1>1, <1>2, <1>3 DEF Ordered
<1> QED
  BY <1>4, OrderAfter

\* BRPOP takes the oldest message of the list.
LEMMA PopOrder ==
  ASSUME TypeInv, PlaceInv, OrderInv, queue # <<>>, PopQueue
  PROVE  /\ Descending(sent, queue')
         /\ AllBefore(sent, {Popped}, Elements(queue'))
         /\ Popped \in Elements(queue)
         /\ Elements(queue') \subseteq Elements(queue)
BY PopDescending, PopDistinct
DEF PopQueue, Popped, TypeInv, TypeOK, PlaceInv, OnceInv, OrderInv, Ordered

\* A message is pushed.
LEMMA EnqueueOrder ==
  ASSUME TypeInv, PlaceInv, StartInv, OrderInv, NEW m \in Msgs, Enqueue(m)
  PROVE  OrderInv'
<1>1. /\ \A a \in Elements(sent) : Before(sent', a, m)
      /\ \A a, b : Before(sent, a, b) => Before(sent', a, b)
  BY PushBefore DEF Enqueue, TypeInv, TypeOK
<1>2. UNCHANGED <<started, jobChan, hand>> /\ queue' = <<m>> \o queue
  BY DEF Enqueue, pool
<1>3. handOf' = handOf
  BY <1>2 DEF handOf
<1>4. Elements(queue') = {m} \cup Elements(queue) /\ queue \in Seq(Msgs)
  BY <1>2, PushDistinct DEF TypeInv, TypeOK
<1>5. /\ Elements(started) \subseteq Elements(sent)
      /\ Elements(queue) \subseteq Elements(sent)
      /\ \A p \in Processes :
           Elements(jobChan[p]) \cup handOf[p] \subseteq Elements(sent)
  <2>1. UnderWay \subseteq Elements(sent)
    BY UnderWaySent
  <2> QED
    BY <2>1 DEF UnderWay, StartInv, handOf
<1>6. Descending(sent', queue')
  <2>1. Descending(sent', queue) /\ AllBefore(sent', Elements(queue), {m})
    BY <1>1, <1>5 DEF OrderInv, Ordered, Descending, AllBefore
  <2> QED
    BY <1>2, <1>4, <2>1, PushDescending
<1>7. AllBefore(sent', Elements(started), Elements(queue'))
  BY <1>1, <1>4, <1>5 DEF OrderInv, Ordered, AllBefore
<1>8. ASSUME NEW p \in Processes
      PROVE  /\ Ascending(sent', jobChan[p])
             /\ AllBefore(sent', Elements(jobChan[p]), handOf[p])
             /\ AllBefore(sent', Elements(jobChan[p]) \cup handOf[p],
                          Elements(queue'))
  BY <1>1, <1>4, <1>5 DEF OrderInv, Ordered, AllBefore, Ascending
<1>9. ASSUME Cardinality(Processes) = 1
      PROVE  /\ Ascending(sent', started)
             /\ \A p \in Processes :
                  AllBefore(sent', Elements(started),
                            Elements(jobChan[p]) \cup handOf[p])
  BY <1>1, <1>9 DEF OrderInv, Ordered, AllBefore, Ascending
<1>10. Ordered(sent', queue', started, jobChan, handOf)
  BY <1>6, <1>7, <1>8, <1>9 DEF Ordered
<1> QED
  BY <1>2, <1>3, <1>10, OrderAfter

\* The consumer pops a message.
LEMMA DeliverOrder ==
  ASSUME TypeInv, PlaceInv, OrderInv, NEW p \in Processes, Deliver(p)
  PROVE  OrderInv'
<1>1. /\ Descending(sent, queue')
      /\ AllBefore(sent, {Popped}, Elements(queue'))
      /\ Popped \in Elements(queue) /\ Elements(queue') \subseteq Elements(queue)
  BY PopOrder DEF Deliver
<1>2. /\ handOf'[p] \subseteq {Popped}
      /\ \A q \in Processes \ {p} : handOf'[q] = handOf[q]
  BY DEF Deliver, TypeInv, TypeOK, handOf
<1>3. UNCHANGED <<sent, started, jobChan>>
  BY DEF Deliver, pool
<1>4. AllBefore(sent, Elements(started), Elements(queue'))
  BY <1>1 DEF OrderInv, Ordered, AllBefore
<1>5. ASSUME NEW q \in Processes
      PROVE  /\ Ascending(sent, jobChan[q])
             /\ AllBefore(sent, Elements(jobChan[q]), handOf'[q])
             /\ AllBefore(sent, Elements(jobChan[q]) \cup handOf'[q],
                          Elements(queue'))
  BY <1>1, <1>2 DEF OrderInv, Ordered, AllBefore
<1>6. ASSUME Cardinality(Processes) = 1
      PROVE  /\ Ascending(sent, started)
             /\ \A q \in Processes :
                  AllBefore(sent, Elements(started),
                            Elements(jobChan[q]) \cup handOf'[q])
  BY <1>1, <1>2, <1>6 DEF OrderInv, Ordered, AllBefore
<1>7. Ordered(sent, queue', started, jobChan, handOf')
  BY <1>1, <1>4, <1>5, <1>6 DEF Ordered
<1> QED
  BY <1>3, <1>7, OrderAfter

\* The consumer's message goes into the channel.
LEMMA SubmitOrder ==
  ASSUME TypeInv, OrderInv, NEW p \in Processes, consumer[p] = "handle",
         jobChan' = [jobChan EXCEPT ![p] = Append(@, hand[p])],
         Handled(p), UNCHANGED <<queue, sent, started>>
  PROVE  OrderInv'
<1>1. hand[p] \in Msgs /\ handOf[p] = {hand[p]} /\ jobChan[p] \in Seq(Msgs)
  BY InHand DEF TypeInv, TypeOK
<1>2. handOf'[p] = {} /\ \A q \in Processes \ {p} : handOf'[q] = handOf[q]
  BY DEF Handled, TypeInv, TypeOK, handOf
<1>3. /\ Elements(jobChan'[p]) = Elements(jobChan[p]) \cup handOf[p]
      /\ \A q \in Processes \ {p} : jobChan'[q] = jobChan[q]
  BY <1>1, AppendDistinct DEF TypeInv, TypeOK
<1>4. Ascending(sent, jobChan'[p])
  <2>1. /\ Ascending(sent, jobChan[p])
        /\ AllBefore(sent, Elements(jobChan[p]), {hand[p]})
    BY <1>1 DEF OrderInv, Ordered
  <2>2. jobChan'[p] = Append(jobChan[p], hand[p])
    BY DEF TypeInv, TypeOK
  <2> QED
    BY <1>1, <2>1, <2>2, AppendAscending
<1>5. ASSUME NEW q \in Processes
      PROVE  /\ Ascending(sent, jobChan'[q])
             /\ AllBefore(sent, Elements(jobChan'[q]), handOf'[q])
             /\ AllBefore(sent, Elements(jobChan'[q]) \cup handOf'[q],
                          Elements(queue))
  BY <1>2, <1>3, <1>4 DEF OrderInv, Ordered, AllBefore
<1>6. ASSUME Cardinality(Processes) = 1
      PROVE  /\ Ascending(sent, started)
             /\ \A q \in Processes :
                  AllBefore(sent, Elements(started),
                            Elements(jobChan'[q]) \cup handOf'[q])
  BY <1>2, <1>3, <1>6 DEF OrderInv, Ordered, AllBefore
<1>7. Ordered(sent, queue, started, jobChan', handOf')
  BY <1>5, <1>6 DEF OrderInv, Ordered
<1> QED
  BY <1>7, OrderAfter

\* A goroutine takes the job at the head of its channel.
LEMMA TakeJobOrder ==
  ASSUME TypeInv, PlaceInv, OrderInv, NEW p \in Processes, TakeJob(p)
  PROVE  OrderInv'
<1> DEFINE h == Head(jobChan[p])
<1>1. /\ h \in Msgs /\ h \in Elements(jobChan[p])
      /\ Elements(Tail(jobChan[p])) \subseteq Elements(jobChan[p])
      /\ Ascending(sent, Tail(jobChan[p]))
      /\ AllBefore(sent, {h}, Elements(Tail(jobChan[p])))
  BY TailDistinct, TailAscending
  DEF TakeJob, TypeInv, TypeOK, PlaceInv, OnceInv, OrderInv, Ordered
<1>2. /\ jobChan'[p] = Tail(jobChan[p])
      /\ \A q \in Processes \ {p} : jobChan'[q] = jobChan[q]
  BY DEF TakeJob, TypeInv, TypeOK
<1>3. UNCHANGED <<sent, queue, hand>>
  BY DEF TakeJob, redis
<1>4. handOf' = handOf
  BY <1>3 DEF handOf
<1>5. /\ started \in Seq(Msgs) /\ started' = Append(started, h)
      /\ Elements(started') = Elements(started) \cup {h}
  BY <1>1, AppendDistinct DEF TakeJob, TypeInv, TypeOK
<1> HIDE DEF h
<1>6. AllBefore(sent, Elements(started'), Elements(queue))
  BY <1>1, <1>5 DEF OrderInv, Ordered, AllBefore
<1>7. ASSUME NEW q \in Processes
      PROVE  /\ Ascending(sent, jobChan'[q])
             /\ AllBefore(sent, Elements(jobChan'[q]), handOf[q])
             /\ AllBefore(sent, Elements(jobChan'[q]) \cup handOf[q],
                          Elements(queue))
  BY <1>1, <1>2 DEF OrderInv, Ordered, AllBefore
<1>8. ASSUME Cardinality(Processes) = 1
      PROVE  /\ Ascending(sent, started')
             /\ \A q \in Processes :
                  AllBefore(sent, Elements(started'),
                            Elements(jobChan'[q]) \cup handOf[q])
  <2>1. Processes = {p}
    <3>1. PICK q : Processes = {q}
      BY <1>8, QueueAssumption, FS_Singleton
    <3> QED
      BY <3>1
  <2>2. Ascending(sent, started) /\ AllBefore(sent, Elements(started), {h})
    BY <1>1, <1>8 DEF OrderInv, Ordered, AllBefore
  <2>3. Ascending(sent, started')
    BY <1>1, <1>5, <2>2, AppendAscending
  <2>4. AllBefore(sent, Elements(started'),
                  Elements(jobChan'[p]) \cup handOf[p])
    BY <1>1, <1>2, <1>5, <1>8 DEF OrderInv, Ordered, AllBefore
  <2> QED
    BY <2>1, <2>3, <2>4
<1>9. Ordered(sent, queue, started', jobChan', handOf)
  BY <1>6, <1>7, <1>8 DEF OrderInv, Ordered
<1> QED
  BY <1>3, <1>4, <1>9, OrderAfter

\* Every other step only takes messages away.
LEMMA OtherOrder ==
  ASSUME TypeInv, PlaceInv, OrderInv, NEW p \in Processes,
         \/ Consume(p) \/ FinishJob(p) \/ WorkerReturns(p) \/ Main(p)
         \/ Kill(p) \/ Start(p)
  PROVE  OrderInv'
<1>1. /\ UNCHANGED <<sent, started>>
      /\ Descending(sent, queue)
      /\ \A q \in Processes : Ascending(sent, jobChan[q])
  BY OtherPlace DEF OrderInv, Ordered
<1>2. CASE UNCHANGED <<queue, jobChan>>
           /\ \A q \in Processes : handOf'[q] \subseteq handOf[q]
  BY <1>1, <1>2, FewerOrdered
<1>3. CASE UNCHANGED <<queue, hand, jobChan>>
  BY <1>2, <1>3 DEF handOf
<1>4. ASSUME Handled(p), UNCHANGED <<queue, jobChan>> PROVE OrderInv'
  <2>1. \A q \in Processes : handOf'[q] \subseteq handOf[q]
    BY <1>4 DEF Handled, TypeInv, TypeOK, handOf
  <2> QED
    BY <1>2, <1>4, <2>1
<1>5. ASSUME NEW how, Ends(p, how) PROVE OrderInv'
  <2>1. queue' = queue /\ handOf'[p] = {} /\ jobChan'[p] = <<>>
    BY <1>5 DEF Ends, redis, TypeInv, TypeOK, handOf
  <2>2. \A q \in Processes \ {p} :
          handOf'[q] = handOf[q] /\ jobChan'[q] = jobChan[q]
    BY <1>5 DEF Ends, TypeInv, TypeOK, handOf
  <2>3. Ascending(sent, jobChan'[p]) /\ Elements(jobChan'[p]) = {}
    BY <2>1 DEF Ascending, Elements
  <2> QED
    BY <1>1, <2>1, <2>2, <2>3, FewerOrdered
<1>6. CASE PopFails(p)
  <2>1. UNCHANGED <<hand, jobChan>>
    BY <1>6 DEF PopFails, pool
  <2>2. CASE UNCHANGED queue
    BY <1>3, <2>1, <2>2
  <2>3. CASE queue # <<>> /\ PopQueue
    BY <1>1, <2>1, <2>3, PopOrder, FewerOrdered DEF handOf
  <2> QED
    BY <1>6, <2>2, <2>3 DEF PopFails
<1>7. CASE HandleMessage(p)
  <2>1. consumer[p] = "handle"
    BY <1>7 DEF HandleMessage
  <2>2. CASE UNCHANGED <<redis, main, hand, pool, sent, started, ends>>
    BY <1>3, <2>2 DEF redis, pool
  <2>3. CASE Ends(p, "panicked")
    BY <1>5, <2>3
  <2>4. CASE /\ jobChan' = [jobChan EXCEPT ![p] = Append(@, hand[p])]
             /\ Handled(p)
             /\ UNCHANGED <<redis, main, running, returned, sent, started,
                            ends>>
    BY <1>1, <2>1, <2>4, SubmitOrder DEF redis
  <2>5. CASE /\ Handled(p)
             /\ UNCHANGED <<redis, main, pool, sent, started, done, failed,
                            lost>>
    BY <1>4, <2>5 DEF redis, pool
  <2> QED
    BY <1>7, <2>2, <2>3, <2>4, <2>5 DEF HandleMessage, Submit
<1>8. CASE MoveToDLQ(p)
  BY <1>4, <1>8 DEF MoveToDLQ, pool
<1>9. CASE Select(p)
  BY <1>3, <1>5, <1>9 DEF Select, redis, pool
<1>10. CASE \/ FinishJob(p) \/ WorkerReturns(p) \/ Signal(p) \/ CloseChan(p)
            \/ Start(p)
  BY <1>3, <1>10
  DEF FinishJob, WorkerReturns, Signal, CloseChan, Start, redis, pool
<1>11. CASE Exit(p) \/ Kill(p)
  BY <1>5, <1>11 DEF Exit, Kill
<1> QED
  BY <1>6, <1>7, <1>8, <1>9, <1>10, <1>11 DEF Consume, Main

\* Every step keeps the order.
LEMMA OrderStep ==
  ASSUME TypeInv, PlaceInv, StartInv, OrderInv, [Next]_vars
  PROVE  OrderInv'
<1>1. ASSUME NEW m \in Msgs, Enqueue(m) PROVE OrderInv'
  BY <1>1, EnqueueOrder
<1>2. ASSUME NEW p \in Processes, Deliver(p) \/ TakeJob(p) PROVE OrderInv'
  BY <1>2, DeliverOrder, TakeJobOrder
<1>3. ASSUME NEW p \in Processes,
             \/ Consume(p) \/ FinishJob(p) \/ WorkerReturns(p) \/ Main(p)
             \/ Kill(p) \/ Start(p)
      PROVE  OrderInv'
  BY <1>3, OtherOrder
<1>4. CASE UNCHANGED vars
  BY <1>4 DEF vars, OrderInv, handOf
<1> QED
  BY <1>1, <1>2, <1>3, <1>4 DEF Next, Work

\* The order holds at every moment.
LEMMA OrderAlways == Spec => []OrderInv
<1>1. Init => OrderInv
  <2> SUFFICES ASSUME Init PROVE OrderInv
    OBVIOUS
  <2>1. /\ queue = <<>> /\ started = <<>>
        /\ \A p \in Processes : jobChan[p] = <<>> /\ handOf[p] = {}
    BY DEF Init, handOf
  <2>2. Elements(<<>>) = {} /\ \A s : Ascending(s, <<>>) /\ Descending(s, <<>>)
    BY DEF Elements, Ascending, Descending
  <2> QED
    BY <2>1, <2>2 DEF OrderInv, Ordered, AllBefore
<1> QED
  BY <1>1, OrderStep, TypeAlways, PlaceAlways, StartAlways, PTL DEF Spec

\* The place of a message among those pushed.
LEMMA PositionOf ==
  ASSUME TypeInv, PlaceInv, NEW a, NEW b, Before(sent, a, b)
  PROVE  Position(a) < Position(b)
<1>1. PICK i \in DOMAIN sent, j \in DOMAIN sent :
        i < j /\ sent[i] = a /\ sent[j] = b
  BY DEF Before
<1>2. Position(a) = i /\ Position(b) = j
  BY <1>1 DEF Position, PlaceInv, OnceInv, Distinct
<1> QED
  BY <1>1, <1>2

(* A process that is alone starts the jobs in the order in which they were *)
(* pushed, whatever it drops or loses in between and however often it is   *)
(* started again (producer.go:24-41, consumer.go:44, pool.go:51-72).       *)
THEOREM StartedAsPushed == Spec => []StartedInOrder
<1>1. TypeInv /\ PlaceInv /\ OrderInv => StartedInOrder
  <2> SUFFICES ASSUME TypeInv, PlaceInv, OrderInv, Cardinality(Processes) = 1,
                      NEW i \in DOMAIN started, NEW j \in DOMAIN started, i < j
               PROVE  Position(started[i]) < Position(started[j])
    BY DEF StartedInOrder
  <2>1. Before(sent, started[i], started[j])
    BY DEF OrderInv, Ordered, Ascending
  <2> QED
    BY <2>1, PositionOf
<1> QED
  BY <1>1, TypeAlways, PlaceAlways, OrderAlways, PTL
=============================================================================
