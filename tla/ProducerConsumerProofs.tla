----------------------- MODULE ProducerConsumerProofs -----------------------
(***************************************************************************)
(* Theorems about the bounded queue, for every set of threads, capacity,   *)
(* word size and bound: type correctness, the agreement of counter and     *)
(* ring, the absence of lost wakeups; and for one thread in each role the  *)
(* bounds on the counter and on the ring and the bounded counter that the  *)
(* queue implements.                                                       *)
(***************************************************************************)
EXTENDS ProducerConsumer, FiniteSetTheorems, SequenceTheorems, TLAPS

-----------------------------------------------------------------------------
(* Arithmetic modulo N *)

\* Quotient and remainder, and their uniqueness.
LEMMA DivMod ==
    ASSUME NEW N \in Nat \ {0}, NEW a \in Int
    PROVE  /\ a \div N \in Int
           /\ a % N \in 0 .. N-1
           /\ a = N * (a \div N) + (a % N)
OBVIOUS

LEMMA ModUnique ==
    ASSUME NEW N \in Nat \ {0}, NEW q \in Int, NEW r \in 0 .. N-1
    PROVE  (N * q + r) % N = r
OBVIOUS

\* A number already in range is its own remainder.
LEMMA ModSmall ==
    ASSUME NEW N \in Nat \ {0}, NEW a \in 0 .. N-1
    PROVE  a % N = a
OBVIOUS

\* Reducing before adding changes nothing.
LEMMA ModAdd ==
    ASSUME NEW N \in Nat \ {0}, NEW a \in Int, NEW b \in Int
    PROVE  ((a % N) + b) % N = (a + b) % N
<1>1. ASSUME NEW c \in Int
      PROVE  \E q \in Int, r \in 0 .. N-1 : c = N * q + r
  <2>1. /\ c \div N \in Int /\ c % N \in 0 .. N-1
        /\ c = N * (c \div N) + (c % N)
    BY DivMod
  <2> QED BY <2>1
<1>2. PICK q \in Int, r \in 0 .. N-1 : a = N * q + r
  BY <1>1
<1>r. r + b \in Int
  OBVIOUS
<1>3. PICK p \in Int, s \in 0 .. N-1 : r + b = N * p + s
  BY <1>1, <1>r
<1>4. a + b = N * (q + p) + s
  BY <1>2, <1>3
<1>5. a % N = r
  BY <1>2, ModUnique
<1>6. (r + b) % N = s
  BY <1>3, ModUnique
<1>7. (a + b) % N = s
  <2>1. q + p \in Int
    OBVIOUS
  <2>2. (N * (q + p) + s) % N = s
    BY <2>1, ModUnique
  <2> QED BY <2>2, <1>4
<1> QED BY <1>5, <1>6, <1>7

LEMMA ModSub ==
    ASSUME NEW N \in Nat \ {0}, NEW a \in Int, NEW b \in Int
    PROVE  (b - (a % N)) % N = (b - a) % N
<1>1. a \div N \in Int /\ a % N \in 0 .. N-1 /\ a = N * (a \div N) + (a % N)
  BY DivMod
<1>2. PICK q \in Int, r \in 0 .. N-1 : a = N * q + r /\ a % N = r
  BY <1>1
<1>3. b - r \in Int
  OBVIOUS
<1>4. /\ (b - r) \div N \in Int /\ (b - r) % N \in 0 .. N-1
      /\ b - r = N * ((b - r) \div N) + ((b - r) % N)
  BY <1>3, DivMod
<1>5. PICK p \in Int, s \in 0 .. N-1 : b - r = N * p + s /\ (b - r) % N = s
  BY <1>4
<1>6. b - a = N * (p - q) + s
  BY <1>2, <1>5
<1>7. (N * (p - q) + s) % N = s
  <2>1. p - q \in Int
    OBVIOUS
  <2> QED BY <2>1, ModUnique
<1> QED BY <1>2, <1>5, <1>6, <1>7

\* Adding the modulus changes nothing.
LEMMA ModPeriod ==
    ASSUME NEW N \in Nat \ {0}, NEW a \in Int
    PROVE  (a + N) % N = a % N
<1>1. a \div N \in Int /\ a % N \in 0 .. N-1 /\ a = N * (a \div N) + (a % N)
  BY DivMod
<1>2. PICK q \in Int, r \in 0 .. N-1 : a = N * q + r /\ a % N = r
  BY <1>1
<1>3. a + N = N * (q + 1) + r
  BY <1>2
<1>4. (N * (q + 1) + r) % N = r
  <2>1. q + 1 \in Int
    OBVIOUS
  <2> QED BY <2>1, ModUnique
<1> QED BY <1>2, <1>3, <1>4

-----------------------------------------------------------------------------
(* Counting threads by where they are *)

Roles == {Producers, Consumers}

LEMMA RolesFinite ==
    ASSUME NEW S \in Roles
    PROVE  S \in SUBSET Threads /\ IsFiniteSet(S)
BY ThreadsAssumption DEF Roles, Threads

Among(f, S, L) == {t \in S : f[t] \in L}

LEMMA AtIsAmong == \A S, L : At(S, L) = Among(pc, S, L)
BY DEF At, Among

LEMMA AmongCard ==
    ASSUME NEW f, NEW S, IsFiniteSet(S), NEW L
    PROVE  /\ IsFiniteSet(Among(f, S, L))
           /\ Cardinality(Among(f, S, L)) \in 0 .. Cardinality(S)
           /\ Cardinality(Among(f, S, L)) = 0 <=> Among(f, S, L) = {}
<1>1. Among(f, S, L) \subseteq S
  BY DEF Among
<1>2. IsFiniteSet(Among(f, S, L)) /\ Cardinality(Among(f, S, L)) <= Cardinality(S)
  BY <1>1, FS_Subset
<1>3. Cardinality(Among(f, S, L)) \in Nat /\ Cardinality(S) \in Nat
  BY <1>2, FS_CardinalityType
<1> QED BY <1>2, <1>3, FS_EmptySet

\* What one thread's move does to the number of threads at some labels.
Shift(f, S, L, t, l) ==
    IF t \in S /\ f[t] \notin L /\ l \in L THEN 1
    ELSE IF t \in S /\ f[t] \in L /\ l \notin L THEN -1 ELSE 0

MovesTo(f, g, t, l) == g[t] = l /\ \A s \in Threads \ {t} : g[s] = f[s]

LEMMA MoveCard ==
    ASSUME NEW f, NEW g, NEW t \in Threads, NEW l, MovesTo(f, g, t, l),
           NEW S \in Roles, NEW L
    PROVE  Cardinality(Among(g, S, L))
             = Cardinality(Among(f, S, L)) + Shift(f, S, L, t, l)
<1> DEFINE A == Among(f, S, L)
           B == Among(g, S, L)
<1>1. S \in SUBSET Threads /\ IsFiniteSet(S)
  BY RolesFinite
<1>2. IsFiniteSet(A) /\ IsFiniteSet(B) /\ Cardinality(A) \in Nat /\ Cardinality(B) \in Nat
  BY <1>1, AmongCard, FS_CardinalityType
<1>3. CASE t \in S /\ f[t] \notin L /\ l \in L
  <2>1. B = A \cup {t} /\ t \notin A
    BY <1>1, <1>3 DEF Among, MovesTo
  <2> QED BY <2>1, <1>2, <1>3, FS_AddElement DEF Shift
<1>4. CASE t \in S /\ f[t] \in L /\ l \notin L
  <2>1. B = A \ {t} /\ t \in A
    BY <1>1, <1>4 DEF Among, MovesTo
  <2>2. Cardinality(B) = Cardinality(A) - 1
    <3>1. Cardinality(A \ {t}) = Cardinality(A) - 1
      BY <2>1, <1>2, FS_RemoveElement, Zenon
    <3> QED BY <2>1, <3>1
  <2>3. Shift(f, S, L, t, l) = -1
    BY <1>4 DEF Shift
  <2> QED BY <2>2, <2>3, <1>2
<1>5. CASE ~(t \in S /\ f[t] \notin L /\ l \in L) /\ ~(t \in S /\ f[t] \in L /\ l \notin L)
  <2>1. B = A
    BY <1>1, <1>5 DEF Among, MovesTo
  <2> QED BY <2>1, <1>2, <1>5 DEF Shift
<1> QED BY <1>3, <1>4, <1>5

LEMMA MoveTwoCard ==
    ASSUME NEW f, NEW h, NEW t \in Threads, NEW s \in Threads, s # t,
           NEW l, NEW m, h[t] = l, h[s] = m,
           \A x \in Threads \ {t, s} : h[x] = f[x],
           NEW S \in Roles, NEW L
    PROVE  Cardinality(Among(h, S, L))
             = Cardinality(Among(f, S, L)) + Shift(f, S, L, t, l) + Shift(f, S, L, s, m)
<1>1. PICK g : MovesTo(f, g, t, l) /\ MovesTo(g, h, s, m) /\ g[s] = f[s]
  <2> DEFINE g == [x \in Threads |-> IF x = t THEN l ELSE f[x]]
  <2>1. MovesTo(f, g, t, l) /\ MovesTo(g, h, s, m) /\ g[s] = f[s]
    BY DEF MovesTo
  <2> QED BY <2>1
<1>2. Cardinality(Among(g, S, L)) = Cardinality(Among(f, S, L)) + Shift(f, S, L, t, l)
  BY <1>1, MoveCard
<1>3. Cardinality(Among(h, S, L)) = Cardinality(Among(g, S, L)) + Shift(g, S, L, s, m)
  BY <1>1, MoveCard
<1>4. Shift(g, S, L, s, m) = Shift(f, S, L, s, m)
  BY <1>1 DEF Shift
<1> QED
  <2>1. IsFiniteSet(S)
    BY RolesFinite
  <2>2. Cardinality(Among(f, S, L)) \in Nat
    BY <2>1, AmongCard, FS_CardinalityType
  <2>3. Shift(f, S, L, t, l) \in Int /\ Shift(f, S, L, s, m) \in Int
    BY DEF Shift
  <2> QED BY <2>2, <2>3, <1>2, <1>3, <1>4

-----------------------------------------------------------------------------
(* Type correctness *)

LEMMA TypeInit == Init => TypeOK
BY ThreadsAssumption, SizesAssumption DEF Init, TypeOK, Slots, Labels

LEMMA SignalOneType ==
    ASSUME TypeOK, NEW t \in Threads, NEW S \in SUBSET Threads, SignalOne(t, S)
    PROVE  pc' \in [Threads -> Labels]
BY DEF TypeOK, SignalOne, At, Labels

LEMMA TypeNext == TypeOK /\ [Next]_vars => TypeOK'
<1> SUFFICES ASSUME TypeOK, [Next]_vars
             PROVE  TypeOK'
  OBVIOUS
<1> USE ThreadsAssumption, SizesAssumption DEF TypeOK, Labels, Threads
<1>1. ASSUME NEW p \in Producers, Enqueue(p) PROVE TypeOK'
  BY <1>1 DEF Enqueue
<1>2. ASSUME NEW p \in Producers, LockPusher(p) PROVE TypeOK'
  BY <1>2 DEF LockPusher
<1>3. ASSUME NEW p \in Producers, TestFull(p) PROVE TypeOK'
  BY <1>3 DEF TestFull
<1>4. ASSUME NEW p \in Producers, SleepFull(p) PROVE TypeOK'
  BY <1>4 DEF SleepFull
<1>5. ASSUME NEW p \in Producers, CountUp(p) PROVE TypeOK'
  BY <1>5 DEF CountUp, OneMore
<1>6. ASSUME NEW p \in Producers, Store(p) PROVE TypeOK'
  BY <1>6 DEF Store, Slots, NextSlot
<1>7. ASSUME NEW p \in Producers, SignalPopper(p) PROVE TypeOK'
  BY <1>7, SignalOneType DEF SignalPopper
<1>8. ASSUME NEW c \in Consumers, Dequeue(c) PROVE TypeOK'
  BY <1>8 DEF Dequeue
<1>9. ASSUME NEW c \in Consumers, LockPopper(c) PROVE TypeOK'
  BY <1>9 DEF LockPopper
<1>10. ASSUME NEW c \in Consumers, TestEmpty(c) PROVE TypeOK'
  BY <1>10 DEF TestEmpty
<1>11. ASSUME NEW c \in Consumers, SleepEmpty(c) PROVE TypeOK'
  BY <1>11 DEF SleepEmpty
<1>12. ASSUME NEW c \in Consumers, CountDown(c) PROVE TypeOK'
  BY <1>12 DEF CountDown, OneLess
<1>13. ASSUME NEW c \in Consumers, Load(c) PROVE TypeOK'
  BY <1>13 DEF Load, Slots, NextSlot
<1>14. ASSUME NEW c \in Consumers, SignalPusher(c) PROVE TypeOK'
  BY <1>14, SignalOneType DEF SignalPusher
<1>15. ASSUME NEW t \in Threads, SpuriousWakeup(t) PROVE TypeOK'
  BY <1>15 DEF SpuriousWakeup
<1>16. CASE UNCHANGED vars
  BY <1>16 DEF vars
<1> QED
  BY <1>1, <1>2, <1>3, <1>4, <1>5, <1>6, <1>7, <1>8, <1>9, <1>10, <1>11,
     <1>12, <1>13, <1>14, <1>15, <1>16 DEF Next, ProducerStep, ConsumerStep

\* Every variable keeps its type, whatever the threads and the sizes are.
THEOREM Typing == Spec => []TypeOK
<1>1. TypeOK /\ [Next]_vars => TypeOK'
  BY TypeNext
<1> QED BY TypeInit, <1>1, PTL DEF Spec

-----------------------------------------------------------------------------
(* How a step moves threads between labels *)

LEMMA AtCard ==
    ASSUME NEW S \in Roles, NEW L
    PROVE  /\ Cardinality(At(S, L)) \in 0 .. Cardinality(S)
           /\ Cardinality(At(S, L)) = 0 <=> At(S, L) = {}
BY RolesFinite, AmongCard, AtIsAmong

LEMMA OneMoves ==
    ASSUME NEW t \in Threads, NEW l, MovesTo(pc, pc', t, l),
           NEW S \in Roles, NEW L
    PROVE  Cardinality(At(S, L))' = Cardinality(At(S, L)) + Shift(pc, S, L, t, l)
<1>1. Cardinality(Among(pc', S, L)) = Cardinality(Among(pc, S, L)) + Shift(pc, S, L, t, l)
  BY MoveCard
<1>2. At(S, L)' = Among(pc', S, L) /\ At(S, L) = Among(pc, S, L)
  BY DEF At, Among
<1> QED BY <1>1, <1>2

\* A signal moves the signaller and at most one sleeper.
LEMMA SignalMoves ==
    ASSUME TypeOK, NEW t \in Threads, pc[t] = "signal",
           NEW R \in Roles, SignalOne(t, R)
    PROVE  \/ /\ At(R, {"asleep"}) = {}
              /\ \A S \in Roles : \A L :
                    Cardinality(At(S, L))'
                      = Cardinality(At(S, L)) + Shift(pc, S, L, t, "idle")
           \/ \E s \in At(R, {"asleep"}) :
                 \A S \in Roles : \A L :
                    Cardinality(At(S, L))'
                      = Cardinality(At(S, L)) + Shift(pc, S, L, t, "idle")
                                              + Shift(pc, S, L, s, "lock")
<1>1. ASSUME pc' = [pc EXCEPT ![t] = "idle"],
             NEW S \in Roles, NEW L
      PROVE  Cardinality(At(S, L))' = Cardinality(At(S, L)) + Shift(pc, S, L, t, "idle")
  <2>1. MovesTo(pc, pc', t, "idle")
    BY <1>1 DEF TypeOK, MovesTo
  <2> QED BY <2>1, OneMoves
<1>2. ASSUME NEW s \in At(R, {"asleep"}),
             pc' = [pc EXCEPT ![t] = "idle", ![s] = "lock"],
             NEW S \in Roles, NEW L
      PROVE  Cardinality(At(S, L))'
               = Cardinality(At(S, L)) + Shift(pc, S, L, t, "idle")
                                       + Shift(pc, S, L, s, "lock")
  <2>1. s \in Threads /\ pc[s] = "asleep" /\ s # t
    BY RolesFinite DEF At
  <2>2. /\ pc'[t] = "idle" /\ pc'[s] = "lock"
        /\ \A x \in Threads \ {t, s} : pc'[x] = pc[x]
    BY <1>2, <2>1 DEF TypeOK
  <2>3. Cardinality(Among(pc', S, L)) = Cardinality(Among(pc, S, L))
          + Shift(pc, S, L, t, "idle") + Shift(pc, S, L, s, "lock")
    BY <2>1, <2>2, MoveTwoCard
  <2>4. At(S, L)' = Among(pc', S, L) /\ At(S, L) = Among(pc, S, L)
    BY DEF At, Among
  <2> QED BY <2>3, <2>4
<1> QED BY <1>1, <1>2 DEF SignalOne

\* A thread that moves within L, outside L, or in the other role is not seen.
LEMMA Unmoved ==
    ASSUME NEW t \in Threads, NEW l, MovesTo(pc, pc', t, l),
           NEW S \in Roles, NEW L,
           t \in S => (pc[t] \in L <=> l \in L)
    PROVE  Cardinality(At(S, L))' = Cardinality(At(S, L))
<1>1. Shift(pc, S, L, t, l) = 0
  BY DEF Shift
<1>2. Cardinality(At(S, L)) \in Int
  <2>1. IsFiniteSet(S)
    BY RolesFinite
  <2> QED BY <2>1, AmongCard, AtIsAmong, FS_CardinalityType
<1>3. Cardinality(At(S, L))' = Cardinality(At(S, L)) + Shift(pc, S, L, t, l)
  BY OneMoves
<1> QED BY <1>1, <1>2, <1>3

-----------------------------------------------------------------------------
(* Counter and ring *)

InSlot(S) == Cardinality(At(S, {"slot"}))

LEMMA SlotMoves ==
    ASSUME NEW t \in Threads, NEW l, MovesTo(pc, pc', t, l),
           NEW S \in Roles
    PROVE  /\ InSlot(S) \in Nat
           /\ t \notin S => InSlot(S)' = InSlot(S)
           /\ pc[t] # "slot" /\ l # "slot" => InSlot(S)' = InSlot(S)
           /\ t \in S /\ pc[t] # "slot" /\ l = "slot" => InSlot(S)' = InSlot(S) + 1
           /\ t \in S /\ pc[t] = "slot" /\ l # "slot" => InSlot(S)' = InSlot(S) - 1
<1>2. InSlot(S)' = InSlot(S) + Shift(pc, S, {"slot"}, t, l)
  BY OneMoves DEF InSlot
<1>3. InSlot(S) \in Nat
  <2>1. IsFiniteSet(S)
    BY RolesFinite
  <2> QED BY <2>1, AmongCard, AtIsAmong, FS_CardinalityType DEF InSlot
<1> QED BY <1>2, <1>3 DEF Shift

\* A signal never involves a thread at "slot".
LEMMA SlotSignal ==
    ASSUME TypeOK, NEW t \in Threads, pc[t] = "signal",
           NEW R \in Roles, SignalOne(t, R), NEW S \in Roles
    PROVE  InSlot(S)' = InSlot(S)
<1>1. \A s \in At(R, {"asleep"}) : pc[s] = "asleep"
  BY DEF At
<1>2. Shift(pc, S, {"slot"}, t, "idle") = 0
  BY DEF Shift
<1>3. \A s \in At(R, {"asleep"}) : Shift(pc, S, {"slot"}, s, "lock") = 0
  BY <1>1 DEF Shift
<1>4. InSlot(S) \in Int
  <2>1. IsFiniteSet(S)
    BY RolesFinite
  <2> QED BY <2>1, AmongCard, AtIsAmong, FS_CardinalityType DEF InSlot
<1> QED BY <1>2, <1>3, <1>4, SignalMoves DEF InSlot

LEMMA RolesDiffer ==
    /\ Producers \in Roles /\ Consumers \in Roles
    /\ \A p \in Producers : p \in Threads /\ p \notin Consumers
    /\ \A c \in Consumers : c \in Threads /\ c \notin Producers
BY ThreadsAssumption DEF Roles, Threads

SlotsKept == InSlot(Producers)' = InSlot(Producers) /\ InSlot(Consumers)' = InSlot(Consumers)

LEMMA InSlotNat == InSlot(Producers) \in Nat /\ InSlot(Consumers) \in Nat
<1>1. \A S \in Roles : IsFiniteSet(S)
  BY RolesFinite
<1> QED BY <1>1, RolesDiffer, AmongCard, AtIsAmong, FS_CardinalityType DEF InSlot

LEMMA CountIs ==
    /\ Count = lag + InSlot(Producers) - InSlot(Consumers)
    /\ Count' = lag' + InSlot(Producers)' - InSlot(Consumers)'
BY DEF Count, InSlot

LEMMA CountKept ==
    ASSUME TypeOK, CountMatchesRing, SlotsKept,
           UNCHANGED <<current_size, head, tail, lag>>
    PROVE  CountMatchesRing' /\ Count' = Count
BY DEF CountMatchesRing, Count, SlotsKept, InSlot

\* The four steps that touch the counter or the ring.
LEMMA CountUpKeeps ==
    ASSUME TypeOK, CountMatchesRing, NEW p \in Producers, CountUp(p)
    PROVE  CountMatchesRing' /\ Count' = Count + 1
<1>1. /\ InSlot(Producers)' = InSlot(Producers) + 1
      /\ InSlot(Consumers)' = InSlot(Consumers)
  <2>1. p \in Threads /\ pc[p] = "count" /\ MovesTo(pc, pc', p, "slot")
    BY RolesDiffer DEF CountUp, TypeOK, MovesTo
  <2> QED BY <2>1, SlotMoves, RolesDiffer
<1>2. Count \in Int /\ Count' = Count + 1
  BY <1>1, CountIs, InSlotNat DEF TypeOK, CountUp
<1>3. ((Count % WordSize) + 1) % WordSize = (Count + 1) % WordSize
  <2>1. WordSize \in Nat \ {0} /\ Count \in Int /\ 1 \in Int
    BY <1>2, SizesAssumption
  <2> QED BY <2>1, ModAdd, Zenon
<1> QED BY <1>2, <1>3 DEF CountMatchesRing, CountUp, OneMore

LEMMA CountDownKeeps ==
    ASSUME TypeOK, CountMatchesRing, NEW c \in Consumers, CountDown(c)
    PROVE  CountMatchesRing' /\ Count' = Count - 1
<1>1. /\ InSlot(Consumers)' = InSlot(Consumers) + 1
      /\ InSlot(Producers)' = InSlot(Producers)
  <2>1. c \in Threads /\ pc[c] = "count" /\ MovesTo(pc, pc', c, "slot")
    BY RolesDiffer DEF CountDown, TypeOK, MovesTo
  <2> QED BY <2>1, SlotMoves, RolesDiffer
<1>2. Count \in Int /\ Count' = Count - 1
  BY <1>1, CountIs, InSlotNat DEF TypeOK, CountDown
<1>3. WordSize \in Nat \ {0} /\ WordSize - 1 \in Int
  BY SizesAssumption
<1>4. ((Count % WordSize) + (WordSize - 1)) % WordSize = (Count + (WordSize - 1)) % WordSize
  BY <1>2, <1>3, ModAdd, Zenon
<1>5. ((Count - 1) + WordSize) % WordSize = (Count - 1) % WordSize
  <2>1. Count - 1 \in Int
    BY <1>2
  <2> QED BY <2>1, <1>3, ModPeriod, Zenon
<1>6. Count + (WordSize - 1) = (Count - 1) + WordSize
  BY <1>2, <1>3
<1>7. current_size' = (Count - 1) % WordSize
  <2>1. current_size \in Int /\ current_size = Count % WordSize
    BY DEF TypeOK, CountMatchesRing
  <2>2. current_size + WordSize - 1 = current_size + (WordSize - 1)
    BY <2>1, <1>3
  <2> QED BY <2>1, <2>2, <1>4, <1>5, <1>6 DEF CountDown, OneLess
<1> QED BY <1>2, <1>7 DEF CountMatchesRing, CountDown

LEMMA StoreKeeps ==
    ASSUME TypeOK, CountMatchesRing, NEW p \in Producers, Store(p)
    PROVE  CountMatchesRing' /\ Count' = Count
<1>1. /\ InSlot(Producers)' = InSlot(Producers) - 1
      /\ InSlot(Consumers)' = InSlot(Consumers)
  <2>1. p \in Threads /\ pc[p] = "slot" /\ MovesTo(pc, pc', p, "signal")
    BY RolesDiffer DEF Store, TypeOK, MovesTo
  <2> QED BY <2>1, SlotMoves, RolesDiffer
<1>2. Count' = Count
  BY <1>1, CountIs, InSlotNat DEF TypeOK, Store
<1>3. /\ tail \in Int /\ head \in Int /\ lag \in Int /\ Capacity \in Nat \ {0}
      /\ tail' = (tail + 1) % Capacity /\ head' = head /\ lag' = lag + 1
  BY SizesAssumption DEF TypeOK, Slots, Store, NextSlot
<1>4. (((tail + 1) % Capacity) + (-(head + lag + 1))) % Capacity
        = ((tail + 1) + (-(head + lag + 1))) % Capacity
  <2>1. tail + 1 \in Int /\ -(head + lag + 1) \in Int
    BY <1>3
  <2> QED BY <2>1, <1>3, ModAdd, Zenon
<1>5. ((tail + 1) + (-(head + lag + 1))) = tail - head - lag
  BY <1>3
<1>6. tail' - head' - lag' = ((tail + 1) % Capacity) + (-(head + lag + 1))
  <2>1. (tail + 1) % Capacity \in Int
    BY <1>3
  <2> QED BY <2>1, <1>3
<1> QED BY <1>2, <1>4, <1>5, <1>6 DEF CountMatchesRing, Store

LEMMA LoadKeeps ==
    ASSUME TypeOK, CountMatchesRing, NEW c \in Consumers, Load(c)
    PROVE  CountMatchesRing' /\ Count' = Count
<1>1. /\ InSlot(Consumers)' = InSlot(Consumers) - 1
      /\ InSlot(Producers)' = InSlot(Producers)
  <2>1. c \in Threads /\ pc[c] = "slot" /\ MovesTo(pc, pc', c, "signal")
    BY RolesDiffer DEF Load, TypeOK, MovesTo
  <2> QED BY <2>1, SlotMoves, RolesDiffer
<1>2. Count' = Count
  BY <1>1, CountIs, InSlotNat DEF TypeOK, Load
<1>3. /\ tail \in Int /\ head \in Int /\ lag \in Int /\ Capacity \in Nat \ {0}
      /\ head' = (head + 1) % Capacity /\ tail' = tail /\ lag' = lag - 1
  BY SizesAssumption DEF TypeOK, Slots, Load, NextSlot
<1>4. ((tail - lag + 1) - ((head + 1) % Capacity)) % Capacity
        = ((tail - lag + 1) - (head + 1)) % Capacity
  <2>1. tail - lag + 1 \in Int /\ head + 1 \in Int
    BY <1>3
  <2> QED BY <2>1, <1>3, ModSub, Zenon
<1>5. (tail - lag + 1) - (head + 1) = tail - head - lag
  BY <1>3
<1>6. tail' - head' - lag' = (tail - lag + 1) - ((head + 1) % Capacity)
  <2>1. (head + 1) % Capacity \in Int
    BY <1>3
  <2> QED BY <2>1, <1>3
<1> QED BY <1>2, <1>4, <1>5, <1>6 DEF CountMatchesRing, Load

\* Any other move leaves both alone.
LEMMA QuietKeeps ==
    ASSUME TypeOK, CountMatchesRing, NEW t \in Threads, NEW l,
           MovesTo(pc, pc', t, l), pc[t] # "slot", l # "slot",
           UNCHANGED <<current_size, head, tail, lag>>
    PROVE  CountMatchesRing' /\ Count' = Count
<1>1. SlotsKept
  BY SlotMoves, RolesDiffer DEF SlotsKept
<1> QED BY <1>1, CountKept

LEMMA SignalKeeps ==
    ASSUME TypeOK, CountMatchesRing, NEW t \in Threads, pc[t] = "signal",
           NEW R \in Roles, SignalOne(t, R),
           UNCHANGED <<current_size, head, tail, lag>>
    PROVE  CountMatchesRing' /\ Count' = Count
<1>1. SlotsKept
  BY SlotSignal, RolesDiffer DEF SlotsKept
<1> QED BY <1>1, CountKept

\* The moves of one thread that change neither the counter nor the ring.
QuietTo(t, l) ==
    /\ MovesTo(pc, pc', t, l) /\ pc[t] # "slot" /\ l # "slot"
    /\ UNCHANGED <<current_size, head, tail, lag>>

LEMMA QuietSteps ==
    ASSUME TypeOK, NEW t \in Threads
    PROVE  /\ Enqueue(t) => QuietTo(t, "lock")
           /\ LockPusher(t) => QuietTo(t, "test")
           /\ TestFull(t) => QuietTo(t, IF Full THEN "wait" ELSE "count")
           /\ SleepFull(t) => QuietTo(t, "asleep")
           /\ Dequeue(t) => QuietTo(t, "lock")
           /\ LockPopper(t) => QuietTo(t, "test")
           /\ TestEmpty(t) => QuietTo(t, IF Empty THEN "wait" ELSE "count")
           /\ SleepEmpty(t) => QuietTo(t, "asleep")
           /\ SpuriousWakeup(t) => QuietTo(t, "lock")
<1> USE DEF TypeOK, QuietTo, MovesTo
<1>1. Enqueue(t) => QuietTo(t, "lock")
  BY DEF Enqueue
<1>2. LockPusher(t) => QuietTo(t, "test")
  BY DEF LockPusher
<1>3. TestFull(t) => QuietTo(t, IF Full THEN "wait" ELSE "count")
  BY DEF TestFull
<1>4. SleepFull(t) => QuietTo(t, "asleep")
  BY DEF SleepFull
<1>5. Dequeue(t) => QuietTo(t, "lock")
  BY DEF Dequeue
<1>6. LockPopper(t) => QuietTo(t, "test")
  BY DEF LockPopper
<1>7. TestEmpty(t) => QuietTo(t, IF Empty THEN "wait" ELSE "count")
  BY DEF TestEmpty
<1>8. SleepEmpty(t) => QuietTo(t, "asleep")
  BY DEF SleepEmpty
<1>9. SpuriousWakeup(t) => QuietTo(t, "lock")
  BY DEF SpuriousWakeup
<1> QED BY <1>1, <1>2, <1>3, <1>4, <1>5, <1>6, <1>7, <1>8, <1>9

LEMMA CountInit == Init => CountMatchesRing
<1> SUFFICES ASSUME Init PROVE CountMatchesRing
  OBVIOUS
<1>1. \A S \in Roles : At(S, {"slot"}) = {}
  BY RolesFinite DEF Init, At
<1>2. InSlot(Producers) = 0 /\ InSlot(Consumers) = 0
  BY <1>1, RolesDiffer, FS_EmptySet DEF InSlot
<1>3. Count = 0
  BY <1>2, CountIs DEF Init
<1>4. 0 % WordSize = 0 /\ (0 - 0 - 0) % Capacity = 0
  BY SizesAssumption
<1> QED BY <1>3, <1>4 DEF Init, CountMatchesRing

LEMMA CountNext == TypeOK /\ CountMatchesRing /\ [Next]_vars => CountMatchesRing'
<1> SUFFICES ASSUME TypeOK, CountMatchesRing, [Next]_vars
             PROVE  CountMatchesRing'
  OBVIOUS
<1>1. ASSUME NEW t \in Threads, NEW l, QuietTo(t, l)
      PROVE  CountMatchesRing'
  BY <1>1, QuietKeeps DEF QuietTo
<1>2. ASSUME NEW p \in Producers, Enqueue(p) \/ ProducerStep(p)
      PROVE  CountMatchesRing'
  <2>1. p \in Threads
    BY RolesDiffer
  <2>2. CASE Enqueue(p) \/ LockPusher(p) \/ TestFull(p) \/ SleepFull(p)
    BY <2>1, <2>2, <1>1, QuietSteps
  <2>3. CASE SignalPopper(p)
    BY <2>1, <2>3, SignalKeeps, RolesDiffer DEF SignalPopper
  <2> QED BY <1>2, <2>2, <2>3, CountUpKeeps, StoreKeeps DEF ProducerStep
<1>3. ASSUME NEW c \in Consumers, Dequeue(c) \/ ConsumerStep(c)
      PROVE  CountMatchesRing'
  <2>1. c \in Threads
    BY RolesDiffer
  <2>2. CASE Dequeue(c) \/ LockPopper(c) \/ TestEmpty(c) \/ SleepEmpty(c)
    BY <2>1, <2>2, <1>1, QuietSteps
  <2>3. CASE SignalPusher(c)
    BY <2>1, <2>3, SignalKeeps, RolesDiffer DEF SignalPusher
  <2> QED BY <1>3, <2>2, <2>3, CountDownKeeps, LoadKeeps DEF ConsumerStep
<1>4. ASSUME NEW t \in Threads, SpuriousWakeup(t)
      PROVE  CountMatchesRing'
  BY <1>1, <1>4, QuietSteps
<1>5. CASE UNCHANGED vars
  BY <1>5 DEF vars, CountMatchesRing, Count, At
<1> QED BY <1>2, <1>3, <1>4, <1>5 DEF Next

\* Counter and ring account for each other, for any number of threads and
\* whatever the races between them.
THEOREM CounterMatchesRing == Spec => []CountMatchesRing
<1>1. TypeOK /\ CountMatchesRing /\ [Next]_vars => CountMatchesRing'
  BY CountNext
<1> QED BY Typing, CountInit, <1>1, PTL DEF Spec

-----------------------------------------------------------------------------
(* Written slots *)

\* A producer that is in its call carries an element.
CarriesElement == \A p \in Producers : pc[p] # "idle" => elem[p] \in Elements
WrittenInv == ContentsWritten /\ CarriesElement

\* The tail is the slot lag places after the head.
LEMMA TailIs ==
    ASSUME TypeOK, CountMatchesRing
    PROVE  tail = (head + lag) % Capacity
<1> DEFINE d == tail - head - lag
<1>1. /\ Capacity \in Nat \ {0} /\ head \in Int /\ lag \in Int
      /\ tail \in 0 .. Capacity - 1
  BY SizesAssumption DEF TypeOK, Slots
<1>2. d \in Int /\ d % Capacity = 0
  BY <1>1 DEF CountMatchesRing
<1>3. head + lag \in Int
  BY <1>1
<1> HIDE DEF d
<1>4. ((d % Capacity) + (head + lag)) % Capacity = (d + (head + lag)) % Capacity
  BY <1>1, <1>2, <1>3, ModAdd
<1>5. (d % Capacity) + (head + lag) = head + lag
  BY <1>2, <1>3
<1>6. d + (head + lag) = tail
  BY <1>1 DEF d
<1>7. tail % Capacity = tail
  BY <1>1, ModSmall
<1> QED BY <1>4, <1>5, <1>6, <1>7

LEMMA StoreWrites ==
    ASSUME TypeOK, CountMatchesRing, WrittenInv, NEW p \in Producers, Store(p)
    PROVE  ContentsWritten'
<1>1. /\ tail = (head + lag) % Capacity /\ tail \in Slots
      /\ Capacity \in Nat \ {0} /\ head \in Int /\ lag \in Int
  BY TailIs, SizesAssumption DEF TypeOK, Slots
<1>2. elem[p] \in Elements
  BY DEF Store, WrittenInv, CarriesElement
<1>3. /\ buffer' = [buffer EXCEPT ![tail] = elem[p]]
      /\ head' = head /\ lag' = lag + 1
      /\ buffer \in [Slots -> Elements \cup {Garbage}]
  BY DEF Store, TypeOK
<1> SUFFICES ASSUME NEW i \in 0 .. lag' - 1
             PROVE  buffer'[(head' + i) % Capacity] \in Elements
  BY DEF ContentsWritten
<1>i. i \in 0 .. lag
  BY <1>1, <1>3
<1>4. (head + i) % Capacity \in Slots
  BY <1>1, <1>i DEF Slots
<1> DEFINE s == (head + i) % Capacity
<1>5. CASE s = tail
  BY <1>1, <1>2, <1>3, <1>5
<1>6. CASE s # tail
  <2>1. i \in 0 .. lag - 1
    BY <1>1, <1>i, <1>6
  <2>2. buffer[s] \in Elements
    BY <2>1 DEF WrittenInv, ContentsWritten
  <2>3. buffer'[s] = buffer[s]
    BY <1>3, <1>4, <1>6
  <2> QED BY <1>3, <2>2, <2>3
<1> QED BY <1>5, <1>6

LEMMA LoadLeaves ==
    ASSUME TypeOK, WrittenInv, NEW c \in Consumers, Load(c)
    PROVE  ContentsWritten'
<1>1. Capacity \in Nat \ {0} /\ head \in Int /\ lag \in Int
  BY SizesAssumption DEF TypeOK, Slots
<1>2. buffer' = buffer /\ head' = (head + 1) % Capacity /\ lag' = lag - 1
  BY DEF Load, NextSlot
<1> SUFFICES ASSUME NEW i \in 0 .. lag' - 1
             PROVE  buffer'[(head' + i) % Capacity] \in Elements
  BY DEF ContentsWritten
<1>3. head + 1 \in Int /\ i \in Int /\ i \in 0 .. lag - 2
  BY <1>1, <1>2
<1>4. (((head + 1) % Capacity) + i) % Capacity = ((head + 1) + i) % Capacity
  BY <1>1, <1>3, ModAdd
<1>5. i + 1 \in 0 .. lag - 1
  BY <1>1, <1>3
<1>6. (head + 1) + i = head + (i + 1)
  BY <1>1, <1>3
<1>7. buffer[(head + (i + 1)) % Capacity] \in Elements
  BY <1>5 DEF WrittenInv, ContentsWritten
<1> QED BY <1>2, <1>4, <1>6, <1>7

\* The steps that touch neither the ring nor what a producer carries.
LEMMA WrittenKept ==
    ASSUME WrittenInv, UNCHANGED <<head, lag, buffer, elem>>,
           \A p \in Producers : pc'[p] # "idle" => pc[p] # "idle"
    PROVE  WrittenInv'
BY DEF WrittenInv, ContentsWritten, CarriesElement

LEMMA WrittenNext ==
    TypeOK /\ CountMatchesRing /\ WrittenInv /\ [Next]_vars => WrittenInv'
<1> SUFFICES ASSUME TypeOK, CountMatchesRing, WrittenInv, [Next]_vars
             PROVE  WrittenInv'
  OBVIOUS
<1>t. /\ Producers \subseteq Threads /\ Consumers \subseteq Threads
      /\ \A p \in Producers, c \in Consumers : p # c
      /\ pc \in [Threads -> Labels] /\ elem \in [Threads -> Elements \cup {Garbage}]
  BY RolesDiffer DEF TypeOK
<1>1. ASSUME NEW p \in Producers, Enqueue(p) \/ ProducerStep(p)
      PROVE  WrittenInv'
  <2>1. CASE Enqueue(p)
    <3>1. CarriesElement'
      BY <1>t, <2>1 DEF Enqueue, WrittenInv, CarriesElement
    <3>2. ContentsWritten'
      BY <2>1 DEF Enqueue, WrittenInv, ContentsWritten
    <3> QED BY <3>1, <3>2 DEF WrittenInv
  <2>2. CASE LockPusher(p) \/ TestFull(p) \/ SleepFull(p) \/ CountUp(p)
    <3>1. /\ UNCHANGED <<head, lag, buffer, elem>>
          /\ \A q \in Producers : pc'[q] # "idle" => pc[q] # "idle"
      BY <1>t, <2>2 DEF LockPusher, TestFull, SleepFull, CountUp
    <3> QED BY <3>1, WrittenKept
  <2>3. CASE Store(p)
    <3>1. CarriesElement'
      BY <1>t, <2>3 DEF Store, WrittenInv, CarriesElement
    <3> QED BY <2>3, <3>1, StoreWrites DEF WrittenInv
  <2>4. CASE SignalPopper(p)
    <3>1. /\ UNCHANGED <<head, lag, buffer, elem>>
          /\ \A q \in Producers : pc'[q] # "idle" => pc[q] # "idle"
      BY <1>t, <2>4 DEF SignalPopper, SignalOne, At
    <3> QED BY <3>1, WrittenKept
  <2> QED BY <1>1, <2>1, <2>2, <2>3, <2>4 DEF ProducerStep
<1>2. ASSUME NEW c \in Consumers, Dequeue(c) \/ ConsumerStep(c)
      PROVE  WrittenInv'
  <2>1. CASE Dequeue(c) \/ LockPopper(c) \/ TestEmpty(c) \/ SleepEmpty(c) \/ CountDown(c)
    <3>1. /\ UNCHANGED <<head, lag, buffer, elem>>
          /\ \A q \in Producers : pc'[q] # "idle" => pc[q] # "idle"
      BY <1>t, <2>1 DEF Dequeue, LockPopper, TestEmpty, SleepEmpty, CountDown
    <3> QED BY <3>1, WrittenKept
  <2>2. CASE Load(c)
    <3>1. CarriesElement'
      BY <1>t, <2>2 DEF Load, WrittenInv, CarriesElement
    <3> QED BY <2>2, <3>1, LoadLeaves DEF WrittenInv
  <2>3. CASE SignalPusher(c)
    <3>1. /\ UNCHANGED <<head, lag, buffer, elem>>
          /\ \A q \in Producers : pc'[q] # "idle" => pc[q] # "idle"
      BY <1>t, <2>3 DEF SignalPusher, SignalOne, At
    <3> QED BY <3>1, WrittenKept
  <2> QED BY <1>2, <2>1, <2>2, <2>3 DEF ConsumerStep
<1>3. ASSUME NEW t \in Threads, SpuriousWakeup(t)
      PROVE  WrittenInv'
  <2>1. /\ UNCHANGED <<head, lag, buffer, elem>>
        /\ \A q \in Producers : pc'[q] # "idle" => pc[q] # "idle"
    BY <1>t, <1>3 DEF SpuriousWakeup
  <2> QED BY <2>1, WrittenKept
<1>4. CASE UNCHANGED vars
  BY <1>4, WrittenKept DEF vars
<1> QED BY <1>1, <1>2, <1>3, <1>4 DEF Next

\* The slots from head up to tail have been written, for any number of threads
\* and whatever the races between them: only a load that runs ahead of its store
\* reads what malloc left.
THEOREM SlotsAreWritten == Spec => []ContentsWritten
<1>1. Init => WrittenInv
  BY ThreadsAssumption DEF Init, WrittenInv, ContentsWritten, CarriesElement, Threads
<1>2. TypeOK /\ CountMatchesRing /\ WrittenInv /\ [Next]_vars => WrittenInv'
  BY WrittenNext
<1>3. WrittenInv => ContentsWritten
  BY DEF WrittenInv
<1> QED BY Typing, CounterMatchesRing, <1>1, <1>2, <1>3, PTL DEF Spec

-----------------------------------------------------------------------------
(* First in, first out *)

\* Two places less than N apart are two slots.
LEMMA SlotsDiffer ==
    ASSUME NEW N \in Nat \ {0}, NEW a \in Int,
           NEW i \in 0 .. N-1, NEW j \in 0 .. N-1, i # j
    PROVE  (a + i) % N # (a + j) % N
<1>1. ASSUME NEW k \in 0 .. N-1, NEW l \in 0 .. N-1, k < l
      PROVE  (a + k) % N # (a + l) % N
  <2> SUFFICES ASSUME (a + k) % N = (a + l) % N PROVE FALSE
    OBVIOUS
  <2>1. a + k \in Int /\ a + l \in Int
    OBVIOUS
  <2>2. (a + k) % N \in 0 .. N-1 /\ -((a + k) % N) \in Int
    BY <2>1, DivMod
  <2>3. ((a + l) - ((a + k) % N)) % N = ((a + l) - (a + k)) % N
    BY <2>1, ModSub
  <2>4. (((a + l) % N) + (-((a + k) % N))) % N = ((a + l) + (-((a + k) % N))) % N
    BY <2>1, <2>2, ModAdd
  <2>5. ((a + l) % N) + (-((a + k) % N)) = 0
    BY <2>2
  <2>6. (a + l) + (-((a + k) % N)) = (a + l) - ((a + k) % N)
    BY <2>1, <2>2
  <2>7. (a + l) - (a + k) = l - k /\ l - k \in 1 .. N-1
    BY <1>1
  <2>8. (l - k) % N = l - k /\ 0 % N = 0
    BY <2>7, ModSmall
  <2> QED BY <2>3, <2>4, <2>5, <2>6, <2>7, <2>8
<1>2. i < j \/ j < i
  OBVIOUS
<1> QED BY <1>1, <1>2

\* A sequence is another with one element more behind, or in front.
LEMMA OneMoreBehind ==
    ASSUME NEW S, NEW n \in Nat, NEW s \in [1 .. n -> S],
           NEW t \in [1 .. n+1 -> S], \A i \in 1 .. n : t[i] = s[i]
    PROVE  t = Append(s, t[n+1])
<1>1. s \in Seq(S) /\ Len(s) = n /\ t \in Seq(S) /\ Len(t) = n+1
  OBVIOUS
<1>2. t[n+1] \in S
  OBVIOUS
<1>3. /\ Append(s, t[n+1]) \in Seq(S) /\ Len(Append(s, t[n+1])) = n+1
      /\ \A i \in 1 .. n : Append(s, t[n+1])[i] = s[i]
      /\ Append(s, t[n+1])[n+1] = t[n+1]
  BY <1>1, <1>2, AppendProperties
<1>4. \A i \in 1 .. n+1 : t[i] = Append(s, t[n+1])[i]
  BY <1>3
<1> QED BY <1>1, <1>3, <1>4, SeqEqual

LEMMA OneMoreInFront ==
    ASSUME NEW S, NEW n \in Nat, NEW s \in [1 .. n+1 -> S],
           NEW t \in [1 .. n -> S], \A i \in 1 .. n : t[i] = s[i+1]
    PROVE  s = <<s[1]>> \o t
<1>1. s \in Seq(S) /\ Len(s) = n+1 /\ t \in Seq(S) /\ Len(t) = n
  OBVIOUS
<1>2. s[1] \in S
  OBVIOUS
<1>3. <<s[1]>> \in Seq(S) /\ Len(<<s[1]>>) = 1 /\ <<s[1]>>[1] = s[1]
  BY <1>2
<1>4. /\ <<s[1]>> \o t \in Seq(S) /\ Len(<<s[1]>> \o t) = n+1
      /\ \A i \in 1 .. 1+n : (<<s[1]>> \o t)[i] =
            IF i <= 1 THEN <<s[1]>>[i] ELSE t[i-1]
  BY <1>1, <1>3, ConcatProperties
<1>5. ASSUME NEW i \in 1 .. n+1
      PROVE  s[i] = (<<s[1]>> \o t)[i]
  <2>1. CASE i = 1
    BY <1>3, <1>4, <2>1
  <2>2. CASE i # 1
    <3>1. i-1 \in 1 .. n /\ (i-1)+1 = i /\ ~(i <= 1) /\ i \in 1 .. 1+n
      BY <2>2
    <3>2. (<<s[1]>> \o t)[i] = t[i-1]
      BY <1>4, <3>1
    <3>3. t[i-1] = s[(i-1)+1]
      BY <3>1
    <3> QED BY <3>1, <3>2, <3>3
  <2> QED BY <2>1, <2>2
<1> QED BY <1>1, <1>4, <1>5, SeqEqual

\* The type of the ring's contents.
LEMMA ContentsType ==
    ASSUME TypeOK, InRing
    PROVE  Contents \in [1 .. lag -> Elements \cup {Garbage}]
<1>1. Capacity \in Nat \ {0} /\ head \in Int /\ lag \in Int
  BY SizesAssumption DEF TypeOK, Slots
<1>2. ASSUME NEW i \in 1 .. lag
      PROVE  buffer[(head + i - 1) % Capacity] \in Elements \cup {Garbage}
  <2>1. (head + i - 1) % Capacity \in Slots
    BY <1>1 DEF Slots
  <2> QED BY <2>1 DEF TypeOK
<1> QED BY <1>2 DEF Contents

\* A store appends.
LEMMA StoreAppends ==
    ASSUME TypeOK, TypeOK', CountMatchesRing, NEW p \in Producers, Store(p),
           InRing, InRing'
    PROVE  Contents' = Append(Contents, elem[p])
<1>1. /\ tail = (head + lag) % Capacity /\ tail \in Slots
      /\ Capacity \in Nat \ {0} /\ head \in Int /\ lag \in Int
  BY TailIs, SizesAssumption DEF TypeOK, Slots
<1>2. /\ buffer' = [buffer EXCEPT ![tail] = elem[p]]
      /\ head' = head /\ lag' = lag + 1
      /\ buffer \in [Slots -> Elements \cup {Garbage}]
  BY DEF Store, TypeOK
<1>3. lag \in 0 .. Capacity - 1 /\ lag \in Nat
  BY <1>1, <1>2 DEF InRing
<1>4. /\ Contents \in [1 .. lag -> Elements \cup {Garbage}]
      /\ Contents' \in [1 .. lag+1 -> Elements \cup {Garbage}]
  <2>1. Contents' \in [1 .. lag' -> Elements \cup {Garbage}]
    <3>1. (TypeOK /\ InRing => Contents \in [1 .. lag -> Elements \cup {Garbage}])'
      BY ContentsType, PTL
    <3> QED BY <3>1
  <2> QED BY <1>2, <2>1, ContentsType
<1>5. ASSUME NEW i \in 1 .. lag
      PROVE  Contents'[i] = Contents[i]
  <2>1. i-1 \in 0 .. Capacity - 1 /\ i-1 # lag /\ head + (i-1) = head + i - 1
        /\ i \in 1 .. lag'
    BY <1>1, <1>2, <1>3
  <2>2. (head + (i-1)) % Capacity # (head + lag) % Capacity
    BY <1>1, <1>3, <2>1, SlotsDiffer
  <2>3. (head + i - 1) % Capacity # tail
    BY <1>1, <2>1, <2>2
  <2>4. (head + i - 1) % Capacity \in Slots
    BY <1>1 DEF Slots
  <2>5. buffer'[(head + i - 1) % Capacity] = buffer[(head + i - 1) % Capacity]
    BY <1>2, <2>3, <2>4
  <2>6. Contents'[i] = buffer'[(head' + i - 1) % Capacity]
    BY <2>1 DEF Contents
  <2>7. Contents[i] = buffer[(head + i - 1) % Capacity]
    BY DEF Contents
  <2> QED BY <1>2, <2>5, <2>6, <2>7
<1>6. Contents'[lag+1] = elem[p]
  <2>1. lag+1 \in 1 .. lag' /\ head + (lag+1) - 1 = head + lag
    BY <1>1, <1>2, <1>3
  <2>2. Contents'[lag+1] = buffer'[(head' + (lag+1) - 1) % Capacity]
    BY <2>1 DEF Contents
  <2>3. buffer'[tail] = elem[p]
    BY <1>1, <1>2
  <2> QED BY <1>1, <1>2, <2>1, <2>2, <2>3
<1> HIDE DEF Contents
<1>7. Contents' = Append(Contents, Contents'[lag+1])
  BY <1>3, <1>4, <1>5, OneMoreBehind
<1> QED BY <1>6, <1>7

\* A load takes the oldest.
LEMMA LoadTakesOldest ==
    ASSUME TypeOK, TypeOK', NEW c \in Consumers, Load(c), InRing, InRing'
    PROVE  Contents = <<elem'[c]>> \o Contents'
<1>1. Capacity \in Nat \ {0} /\ head \in Int /\ lag \in Int /\ head \in Slots
  BY SizesAssumption DEF TypeOK, Slots
<1>2. /\ buffer' = buffer /\ head' = (head + 1) % Capacity /\ lag' = lag - 1
      /\ elem' = [elem EXCEPT ![c] = buffer[head]]
      /\ c \in Threads /\ elem \in [Threads -> Elements \cup {Garbage}]
  BY RolesDiffer DEF Load, NextSlot, TypeOK
<1>3. lag - 1 \in Nat /\ (lag - 1) + 1 = lag
  BY <1>1, <1>2 DEF InRing
<1>4. /\ Contents \in [1 .. (lag-1)+1 -> Elements \cup {Garbage}]
      /\ Contents' \in [1 .. lag-1 -> Elements \cup {Garbage}]
  <2>1. Contents' \in [1 .. lag' -> Elements \cup {Garbage}]
    <3>1. (TypeOK /\ InRing => Contents \in [1 .. lag -> Elements \cup {Garbage}])'
      BY ContentsType, PTL
    <3> QED BY <3>1
  <2> QED BY <1>2, <1>3, <2>1, ContentsType
<1>5. ASSUME NEW i \in 1 .. lag-1
      PROVE  Contents'[i] = Contents[i+1]
  <2>1. i+1 \in 1 .. lag /\ i \in 1 .. lag' /\ i-1 \in Int /\ head + 1 \in Int
    BY <1>1, <1>2, <1>3
  <2>2. (((head + 1) % Capacity) + (i-1)) % Capacity = ((head + 1) + (i-1)) % Capacity
    BY <1>1, <2>1, ModAdd
  <2>3. (head + 1) % Capacity \in Int
    BY <1>1
  <2>4. /\ (head + 1) + (i-1) = head + (i+1) - 1
        /\ ((head + 1) % Capacity) + (i-1) = ((head + 1) % Capacity) + i - 1
    BY <1>1, <2>3
  <2>5. Contents'[i] = buffer'[(head' + i - 1) % Capacity]
    BY <2>1 DEF Contents
  <2>6. Contents[i+1] = buffer[(head + (i+1) - 1) % Capacity]
    BY <2>1 DEF Contents
  <2> QED BY <1>2, <2>2, <2>4, <2>5, <2>6
<1>6. Contents[1] = elem'[c]
  <2>1. 1 \in 1 .. lag /\ head + 1 - 1 = head
    BY <1>1, <1>3
  <2>2. Contents[1] = buffer[(head + 1 - 1) % Capacity]
    BY <2>1 DEF Contents
  <2>3. head % Capacity = head
    BY <1>1, ModSmall DEF Slots
  <2> QED BY <1>2, <2>1, <2>2, <2>3
<1> HIDE DEF Contents
<1>7. Contents = <<Contents[1]>> \o Contents'
  BY <1>3, <1>4, <1>5, OneMoreInFront
<1> QED BY <1>6, <1>7

\* Every other step leaves the ring alone, and no thread passes its slot.
LEMMA FifoKept ==
    ASSUME UNCHANGED <<head, lag, buffer>>,
           \A t \in Threads : pc[t] = "slot" => pc'[t] # "signal"
    PROVE  FifoStep
BY RolesDiffer DEF FifoStep, Stores, Loads, Contents

LEMMA FifoNext ==
    TypeOK /\ TypeOK' /\ CountMatchesRing /\ [Next]_vars => FifoStep
<1> SUFFICES ASSUME TypeOK, TypeOK', CountMatchesRing, [Next]_vars
             PROVE  FifoStep
  OBVIOUS
<1>t. /\ \A p \in Producers : p \in Threads /\ p \notin Consumers
      /\ \A c \in Consumers : c \in Threads /\ c \notin Producers
      /\ pc \in [Threads -> Labels] /\ lag \in Int
  BY RolesDiffer DEF TypeOK
<1>1. ASSUME NEW p \in Producers, Enqueue(p) \/ ProducerStep(p)
      PROVE  FifoStep
  <2>1. CASE \/ Enqueue(p) \/ LockPusher(p) \/ TestFull(p) \/ SleepFull(p)
             \/ CountUp(p) \/ SignalPopper(p)
    <3>1. UNCHANGED <<head, lag, buffer>>
      BY <2>1 DEF Enqueue, LockPusher, TestFull, SleepFull, CountUp, SignalPopper
    <3>2. \A t \in Threads : pc[t] = "slot" => pc'[t] # "signal"
      BY <1>t, <2>1 DEF Enqueue, LockPusher, TestFull, SleepFull, CountUp,
         SignalPopper, SignalOne, At
    <3> QED BY <3>1, <3>2, FifoKept
  <2>2. CASE Store(p)
    <3>1. \A t \in Threads \ {p} : pc'[t] = pc[t]
      BY <1>t, <2>2 DEF Store
    <3>2. lag' # lag
      BY <1>t, <2>2 DEF Store
    <3>3. \A q \in Producers : Stores(q) => q = p
      BY <1>t, <3>1 DEF Stores
    <3>4. \A c \in Consumers : ~Loads(c)
      BY <1>t, <3>1 DEF Loads
    <3>5. InRing /\ InRing' => Contents' = Append(Contents, elem[p])
      BY <2>2, StoreAppends
    <3> HIDE DEF Contents
    <3> QED BY <3>2, <3>3, <3>4, <3>5 DEF FifoStep
  <2> QED BY <1>1, <2>1, <2>2 DEF ProducerStep
<1>2. ASSUME NEW c \in Consumers, Dequeue(c) \/ ConsumerStep(c)
      PROVE  FifoStep
  <2>1. CASE \/ Dequeue(c) \/ LockPopper(c) \/ TestEmpty(c) \/ SleepEmpty(c)
             \/ CountDown(c) \/ SignalPusher(c)
    <3>1. UNCHANGED <<head, lag, buffer>>
      BY <2>1 DEF Dequeue, LockPopper, TestEmpty, SleepEmpty, CountDown, SignalPusher
    <3>2. \A t \in Threads : pc[t] = "slot" => pc'[t] # "signal"
      BY <1>t, <2>1 DEF Dequeue, LockPopper, TestEmpty, SleepEmpty, CountDown,
         SignalPusher, SignalOne, At
    <3> QED BY <3>1, <3>2, FifoKept
  <2>2. CASE Load(c)
    <3>1. \A t \in Threads \ {c} : pc'[t] = pc[t]
      BY <1>t, <2>2 DEF Load
    <3>2. lag' # lag
      BY <1>t, <2>2 DEF Load
    <3>3. \A d \in Consumers : Loads(d) => d = c
      BY <1>t, <3>1 DEF Loads
    <3>4. \A p \in Producers : ~Stores(p)
      BY <1>t, <3>1 DEF Stores
    <3>5. InRing /\ InRing' => Contents = <<elem'[c]>> \o Contents'
      BY <2>2, LoadTakesOldest
    <3> QED BY <3>2, <3>3, <3>4, <3>5 DEF FifoStep
  <2> QED BY <1>2, <2>1, <2>2 DEF ConsumerStep
<1>3. ASSUME NEW t \in Threads, SpuriousWakeup(t)
      PROVE  FifoStep
  <2>1. \A s \in Threads : pc[s] = "slot" => pc'[s] # "signal"
    BY <1>t, <1>3 DEF SpuriousWakeup
  <2> QED BY <1>3, <2>1, FifoKept DEF SpuriousWakeup
<1>4. CASE UNCHANGED vars
  BY <1>4, FifoKept DEF vars
<1> QED BY <1>1, <1>2, <1>3, <1>4 DEF Next

\* Outside a race the ring is a first-in first-out queue, for any number of
\* threads.
THEOREM RingIsFifo == Spec => FifoOutsideRaces
<1>1. TypeOK /\ TypeOK' /\ CountMatchesRing /\ [Next]_vars => [FifoStep]_vars
  BY FifoNext
<1> QED BY Typing, CounterMatchesRing, <1>1, PTL DEF Spec, FifoOutsideRaces

-----------------------------------------------------------------------------
(* No wakeup is lost *)

AheadLabels == {"slot", "signal"}
BehindLabels == {"lock", "test", "count"}
BusyLabels == {"lock", "test", "wait", "asleep", "count", "slot"}

Ahead(S) == Cardinality(At(S, AheadLabels))
Behind(S) == Cardinality(At(S, BehindLabels))
Busy(S) == Cardinality(At(S, BusyLabels))

\* A thread in the loop holds the mutex of its condition variable.
LockDiscipline ==
    /\ \A p \in Producers : pc[p] \in {"test", "wait"} => pusher_lock = p
    /\ \A c \in Consumers : pc[c] \in {"test", "wait"} => popper_lock = c

\* No more calls are in progress than the bound on calls lets begin.
CallsBounded ==
    /\ lag + Busy(Producers) <= MaxLag + Cardinality(Producers)
    /\ -lag + Busy(Consumers) <= MaxLag + Cardinality(Consumers)

\* The counter is wide enough for that many calls: it never wraps into a value
\* that looks full or empty.
WideEnough ==
    /\ MaxLag + Cardinality(Producers) < WordSize
    /\ MaxLag + Cardinality(Consumers) + Capacity < WordSize

\* The two halves of NoLostWakeup.
ConsumersAwaited ==
    Waiting(Consumers) # {} => Count <= Ahead(Producers) + Behind(Consumers)
ProducersAwaited ==
    Waiting(Producers) # {} => Capacity - Count <= Ahead(Consumers) + Behind(Producers)

LEMMA Halves == NoLostWakeup <=> ConsumersAwaited /\ ProducersAwaited
BY DEF NoLostWakeup, ConsumersAwaited, ProducersAwaited, Ahead, Behind,
       AheadLabels, BehindLabels

LEMMA CardNat ==
    ASSUME NEW S \in Roles
    PROVE  /\ Ahead(S) \in Nat /\ Behind(S) \in Nat /\ InSlot(S) \in Nat
           /\ Busy(S) \in Nat /\ Cardinality(S) \in Nat
           /\ Busy(S) <= Cardinality(S) /\ InSlot(S) <= Busy(S)
           /\ \A t \in S : pc[t] \notin BusyLabels => Busy(S) < Cardinality(S)
<1>1. S \in SUBSET Threads /\ IsFiniteSet(S)
  BY RolesFinite
<1>2. /\ Cardinality(S) \in Nat
      /\ \A L : IsFiniteSet(At(S, L)) /\ Cardinality(At(S, L)) \in Nat
  BY <1>1, AmongCard, AtIsAmong, FS_CardinalityType
<1>3. At(S, {"slot"}) \subseteq At(S, BusyLabels) /\ At(S, BusyLabels) \subseteq S
  BY DEF At, BusyLabels
<1>4. InSlot(S) <= Busy(S) /\ Busy(S) <= Cardinality(S)
  BY <1>1, <1>2, <1>3, FS_Subset DEF InSlot, Busy
<1>5. ASSUME NEW t \in S, pc[t] \notin BusyLabels
      PROVE  Busy(S) < Cardinality(S)
  <2>1. At(S, BusyLabels) \subseteq S \ {t}
    BY <1>5 DEF At
  <2>2. IsFiniteSet(S \ {t}) /\ Cardinality(S \ {t}) = Cardinality(S) - 1
    BY <1>1, FS_RemoveElement
  <2>3. Cardinality(At(S, BusyLabels)) <= Cardinality(S \ {t})
    BY <2>1, <2>2, FS_Subset
  <2> QED BY <1>2, <2>2, <2>3 DEF Busy
<1> QED BY <1>2, <1>4, <1>5 DEF Ahead, Behind, InSlot, Busy

\* What the move of a thread of role R does to the counts of both roles.
LEMMA Deltas ==
    ASSUME NEW R \in Roles, NEW t \in R, NEW l, MovesTo(pc, pc', t, l),
           NEW S \in Roles
    PROVE  /\ Ahead(S)' = Ahead(S) + Shift(pc, S, AheadLabels, t, l)
           /\ Behind(S)' = Behind(S) + Shift(pc, S, BehindLabels, t, l)
           /\ Busy(S)' = Busy(S) + Shift(pc, S, BusyLabels, t, l)
<1>1. t \in Threads
  BY RolesFinite
<1> QED BY <1>1, OneMoves DEF Ahead, Behind, Busy

\* Who waits after the move of a thread.
LEMMA WaitingMoves ==
    ASSUME NEW t \in Threads, NEW l, MovesTo(pc, pc', t, l), NEW S \in Roles
    PROVE  /\ t \notin S => Waiting(S)' = Waiting(S)
           /\ l \notin {"wait", "asleep"} => Waiting(S)' \subseteq Waiting(S)
           /\ pc[t] \in {"wait", "asleep"} /\ l \in {"wait", "asleep"} => Waiting(S)' = Waiting(S)
BY RolesFinite DEF Waiting, At, MovesTo

LEMMA LockNext == TypeOK /\ LockDiscipline /\ [Next]_vars => LockDiscipline'
<1> SUFFICES ASSUME TypeOK, LockDiscipline, [Next]_vars
             PROVE  LockDiscipline'
  OBVIOUS
<1> USE ThreadsAssumption DEF LockDiscipline, TypeOK, Threads
<1>1. ASSUME NEW p \in Producers, Enqueue(p) PROVE LockDiscipline'
  BY <1>1 DEF Enqueue
<1>2. ASSUME NEW p \in Producers, LockPusher(p) PROVE LockDiscipline'
  BY <1>2 DEF LockPusher
<1>3. ASSUME NEW p \in Producers, TestFull(p) PROVE LockDiscipline'
  BY <1>3 DEF TestFull
<1>4. ASSUME NEW p \in Producers, SleepFull(p) PROVE LockDiscipline'
  BY <1>4 DEF SleepFull
<1>5. ASSUME NEW p \in Producers, CountUp(p) PROVE LockDiscipline'
  BY <1>5 DEF CountUp
<1>6. ASSUME NEW p \in Producers, Store(p) PROVE LockDiscipline'
  BY <1>6 DEF Store
<1>7. ASSUME NEW p \in Producers, SignalPopper(p) PROVE LockDiscipline'
  BY <1>7 DEF SignalPopper, SignalOne, At
<1>8. ASSUME NEW c \in Consumers, Dequeue(c) PROVE LockDiscipline'
  BY <1>8 DEF Dequeue
<1>9. ASSUME NEW c \in Consumers, LockPopper(c) PROVE LockDiscipline'
  BY <1>9 DEF LockPopper
<1>10. ASSUME NEW c \in Consumers, TestEmpty(c) PROVE LockDiscipline'
  BY <1>10 DEF TestEmpty
<1>11. ASSUME NEW c \in Consumers, SleepEmpty(c) PROVE LockDiscipline'
  BY <1>11 DEF SleepEmpty
<1>12. ASSUME NEW c \in Consumers, CountDown(c) PROVE LockDiscipline'
  BY <1>12 DEF CountDown
<1>13. ASSUME NEW c \in Consumers, Load(c) PROVE LockDiscipline'
  BY <1>13 DEF Load
<1>14. ASSUME NEW c \in Consumers, SignalPusher(c) PROVE LockDiscipline'
  BY <1>14 DEF SignalPusher, SignalOne, At
<1>15. ASSUME NEW t \in Threads, SpuriousWakeup(t) PROVE LockDiscipline'
  BY <1>15 DEF SpuriousWakeup
<1>16. CASE UNCHANGED vars
  BY <1>16 DEF vars
<1> QED
  BY <1>1, <1>2, <1>3, <1>4, <1>5, <1>6, <1>7, <1>8, <1>9, <1>10, <1>11,
     <1>12, <1>13, <1>14, <1>15, <1>16 DEF Next, ProducerStep, ConsumerStep

\* A signal: the signaller leaves Ahead of its role, a sleeper of the other
\* role, if there is one, enters Behind of its own.
LEMMA SignalDeltas ==
    ASSUME TypeOK, NEW R \in Roles, NEW Q \in Roles, R \cap Q = {},
           NEW t \in R, pc[t] = "signal", SignalOne(t, Q)
    PROVE  /\ Ahead(R)' = Ahead(R) - 1 /\ Ahead(Q)' = Ahead(Q)
           /\ Behind(R)' = Behind(R)
           /\ Behind(Q)' = IF At(Q, {"asleep"}) = {} THEN Behind(Q) ELSE Behind(Q) + 1
           /\ Busy(R)' = Busy(R) /\ Busy(Q)' = Busy(Q)
           /\ Waiting(R)' = Waiting(R) /\ Waiting(Q)' \subseteq Waiting(Q)
<1>1. t \in Threads /\ t \notin Q
  BY RolesFinite
<1>2. \A s \in At(Q, {"asleep"}) : pc[s] = "asleep" /\ s \in Q /\ s \notin R
  BY DEF At
<1>3. /\ Shift(pc, R, AheadLabels, t, "idle") = -1
      /\ Shift(pc, Q, AheadLabels, t, "idle") = 0
      /\ \A S \in {R, Q} : /\ Shift(pc, S, BehindLabels, t, "idle") = 0
                           /\ Shift(pc, S, BusyLabels, t, "idle") = 0
  BY <1>1 DEF Shift, AheadLabels, BehindLabels, BusyLabels
<1>4. ASSUME NEW s \in At(Q, {"asleep"})
      PROVE  /\ \A S \in {R, Q} : /\ Shift(pc, S, AheadLabels, s, "lock") = 0
                                  /\ Shift(pc, S, BusyLabels, s, "lock") = 0
             /\ Shift(pc, R, BehindLabels, s, "lock") = 0
             /\ Shift(pc, Q, BehindLabels, s, "lock") = 1
  BY <1>2 DEF Shift, AheadLabels, BehindLabels, BusyLabels
<1>5. \A S \in {R, Q} : Ahead(S) \in Nat /\ Behind(S) \in Nat /\ Busy(S) \in Nat
  BY CardNat
<1>6. /\ Ahead(R)' = Ahead(R) - 1 /\ Ahead(Q)' = Ahead(Q)
      /\ Behind(R)' = Behind(R)
      /\ Behind(Q)' = IF At(Q, {"asleep"}) = {} THEN Behind(Q) ELSE Behind(Q) + 1
      /\ Busy(R)' = Busy(R) /\ Busy(Q)' = Busy(Q)
  <2>1. CASE /\ At(Q, {"asleep"}) = {}
             /\ \A S \in Roles : \A L :
                    Cardinality(At(S, L))'
                      = Cardinality(At(S, L)) + Shift(pc, S, L, t, "idle")
    BY <2>1, <1>3, <1>5 DEF Ahead, Behind, Busy
  <2>2. ASSUME NEW s \in At(Q, {"asleep"}),
               \A S \in Roles : \A L :
                    Cardinality(At(S, L))'
                      = Cardinality(At(S, L)) + Shift(pc, S, L, t, "idle")
                                              + Shift(pc, S, L, s, "lock")
        PROVE  /\ Ahead(R)' = Ahead(R) - 1 /\ Ahead(Q)' = Ahead(Q)
               /\ Behind(R)' = Behind(R) /\ Behind(Q)' = Behind(Q) + 1
               /\ Busy(R)' = Busy(R) /\ Busy(Q)' = Busy(Q)
    BY <2>2, <1>3, <1>4, <1>5 DEF Ahead, Behind, Busy
  <2> QED BY <1>1, <2>1, <2>2, SignalMoves
<1>7. Waiting(R)' = Waiting(R) /\ Waiting(Q)' \subseteq Waiting(Q)
  <2>1. \A s \in Threads : \/ pc'[s] = pc[s]
                           \/ s = t /\ pc'[s] = "idle"
                           \/ s \in At(Q, {"asleep"}) /\ pc'[s] = "lock"
    BY DEF SignalOne, TypeOK
  <2>2. R \subseteq Threads /\ Q \subseteq Threads
    BY RolesFinite
  <2> QED BY <1>1, <1>2, <2>1, <2>2 DEF Waiting, At
<1> QED BY <1>6, <1>7

\* The four steps that are neither quiet nor a signal, as moves.
LEMMA LoudSteps ==
    ASSUME TypeOK
    PROVE  /\ \A p \in Producers : CountUp(p) =>
                 MovesTo(pc, pc', p, "slot") /\ pc[p] = "count" /\ lag' = lag
           /\ \A p \in Producers : Store(p) =>
                 MovesTo(pc, pc', p, "signal") /\ pc[p] = "slot" /\ lag' = lag + 1
           /\ \A c \in Consumers : CountDown(c) =>
                 MovesTo(pc, pc', c, "slot") /\ pc[c] = "count" /\ lag' = lag
           /\ \A c \in Consumers : Load(c) =>
                 MovesTo(pc, pc', c, "signal") /\ pc[c] = "slot" /\ lag' = lag - 1
BY RolesDiffer DEF TypeOK, MovesTo, CountUp, Store, CountDown, Load

\* The bound on calls bounds the calls in progress.
LEMMA CallsNext == TypeOK /\ CallsBounded /\ [Next]_vars => CallsBounded'
<1> SUFFICES ASSUME TypeOK, CallsBounded, [Next]_vars
             PROVE  CallsBounded'
  OBVIOUS
<1> DEFINE BP == Busy(Producers)
           BC == Busy(Consumers)
           NP == Cardinality(Producers)
           NC == Cardinality(Consumers)
<1>1. /\ BP \in Nat /\ BC \in Nat /\ NP \in Nat /\ NC \in Nat
      /\ lag \in Int /\ MaxLag \in Nat
      /\ lag + BP <= MaxLag + NP /\ -lag + BC <= MaxLag + NC
  BY CardNat, RolesDiffer, SizesAssumption DEF TypeOK, CallsBounded
<1>2. ASSUME lag' + BP' <= MaxLag + NP, -lag' + BC' <= MaxLag + NC
      PROVE  CallsBounded'
  BY <1>2 DEF CallsBounded
\* A move of one thread within the busy labels or outside them.
<1>3. ASSUME NEW R \in Roles, NEW t \in R, NEW l, MovesTo(pc, pc', t, l),
             pc[t] \in BusyLabels <=> l \in BusyLabels
      PROVE  BP' = BP /\ BC' = BC
  <2>1. Shift(pc, Producers, BusyLabels, t, l) = 0 /\ Shift(pc, Consumers, BusyLabels, t, l) = 0
    BY <1>3 DEF Shift
  <2> QED BY <2>1, <1>1, <1>3, Deltas, RolesDiffer
<1>4. ASSUME NEW p \in Producers, Enqueue(p) PROVE CallsBounded'
  <2>1. MovesTo(pc, pc', p, "lock") /\ pc[p] = "idle" /\ lag' = lag /\ lag < MaxLag
    BY <1>4, QuietSteps, RolesDiffer DEF QuietTo, Enqueue
  <2>2. /\ Shift(pc, Producers, BusyLabels, p, "lock") = 1
        /\ Shift(pc, Consumers, BusyLabels, p, "lock") = 0
    BY <2>1, RolesDiffer DEF Shift, BusyLabels
  <2>3. BP' = BP + 1 /\ BC' = BC
    BY <2>1, <2>2, <1>1, Deltas, RolesDiffer
  <2>4. BP < NP
    BY <2>1, CardNat, RolesDiffer DEF BusyLabels
  <2> QED BY <2>1, <2>3, <2>4, <1>1, <1>2
<1>5. ASSUME NEW c \in Consumers, Dequeue(c) PROVE CallsBounded'
  <2>1. MovesTo(pc, pc', c, "lock") /\ pc[c] = "idle" /\ lag' = lag /\ -lag < MaxLag
    BY <1>5, QuietSteps, RolesDiffer DEF QuietTo, Dequeue
  <2>2. /\ Shift(pc, Consumers, BusyLabels, c, "lock") = 1
        /\ Shift(pc, Producers, BusyLabels, c, "lock") = 0
    BY <2>1, RolesDiffer DEF Shift, BusyLabels
  <2>3. BC' = BC + 1 /\ BP' = BP
    BY <2>1, <2>2, <1>1, Deltas, RolesDiffer
  <2>4. BC < NC
    BY <2>1, CardNat, RolesDiffer DEF BusyLabels
  <2> QED BY <2>1, <2>3, <2>4, <1>1, <1>2
<1>6. ASSUME NEW R \in Roles, NEW t \in R, NEW l, QuietTo(t, l),
             pc[t] \in BusyLabels, l \in BusyLabels
      PROVE  CallsBounded'
  BY <1>6, <1>1, <1>2, <1>3 DEF QuietTo
<1>7. ASSUME NEW p \in Producers, LockPusher(p) \/ TestFull(p) \/ SleepFull(p)
      PROVE  CallsBounded'
  <2>1. PICK l \in BusyLabels : QuietTo(p, l)
    BY <1>7, QuietSteps, RolesDiffer DEF BusyLabels
  <2>2. pc[p] \in BusyLabels
    BY <1>7 DEF LockPusher, TestFull, SleepFull, BusyLabels
  <2> QED BY <2>1, <2>2, <1>6, RolesDiffer
<1>8. ASSUME NEW c \in Consumers, LockPopper(c) \/ TestEmpty(c) \/ SleepEmpty(c)
      PROVE  CallsBounded'
  <2>1. PICK l \in BusyLabels : QuietTo(c, l)
    BY <1>8, QuietSteps, RolesDiffer DEF BusyLabels
  <2>2. pc[c] \in BusyLabels
    BY <1>8 DEF LockPopper, TestEmpty, SleepEmpty, BusyLabels
  <2> QED BY <2>1, <2>2, <1>6, RolesDiffer
<1>9. ASSUME NEW t \in Threads, SpuriousWakeup(t) PROVE CallsBounded'
  <2>1. QuietTo(t, "lock") /\ pc[t] \in BusyLabels /\ "lock" \in BusyLabels
    BY <1>9, QuietSteps DEF SpuriousWakeup, BusyLabels
  <2>2. t \in Producers \/ t \in Consumers
    BY DEF Threads
  <2> QED BY <2>1, <2>2, <1>6, RolesDiffer
<1>10. ASSUME NEW p \in Producers, CountUp(p) PROVE CallsBounded'
  <2>1. MovesTo(pc, pc', p, "slot") /\ pc[p] = "count" /\ lag' = lag
    BY <1>10, LoudSteps
  <2>2. BP' = BP /\ BC' = BC
    BY <2>1, <1>3, RolesDiffer DEF BusyLabels
  <2> QED BY <2>1, <2>2, <1>1, <1>2
<1>11. ASSUME NEW c \in Consumers, CountDown(c) PROVE CallsBounded'
  <2>1. MovesTo(pc, pc', c, "slot") /\ pc[c] = "count" /\ lag' = lag
    BY <1>11, LoudSteps
  <2>2. BP' = BP /\ BC' = BC
    BY <2>1, <1>3, RolesDiffer DEF BusyLabels
  <2> QED BY <2>1, <2>2, <1>1, <1>2
<1>12. ASSUME NEW p \in Producers, Store(p) PROVE CallsBounded'
  <2>1. MovesTo(pc, pc', p, "signal") /\ pc[p] = "slot" /\ lag' = lag + 1
    BY <1>12, LoudSteps
  <2>2. /\ Shift(pc, Producers, BusyLabels, p, "signal") = -1
        /\ Shift(pc, Consumers, BusyLabels, p, "signal") = 0
    BY <2>1, RolesDiffer DEF Shift, BusyLabels
  <2>3. BP' = BP - 1 /\ BC' = BC
    BY <2>1, <2>2, <1>1, Deltas, RolesDiffer
  <2> QED BY <2>1, <2>3, <1>1, <1>2
<1>13. ASSUME NEW c \in Consumers, Load(c) PROVE CallsBounded'
  <2>1. MovesTo(pc, pc', c, "signal") /\ pc[c] = "slot" /\ lag' = lag - 1
    BY <1>13, LoudSteps
  <2>2. /\ Shift(pc, Consumers, BusyLabels, c, "signal") = -1
        /\ Shift(pc, Producers, BusyLabels, c, "signal") = 0
    BY <2>1, RolesDiffer DEF Shift, BusyLabels
  <2>3. BC' = BC - 1 /\ BP' = BP
    BY <2>1, <2>2, <1>1, Deltas, RolesDiffer
  <2> QED BY <2>1, <2>3, <1>1, <1>2
<1>14. ASSUME NEW p \in Producers, SignalPopper(p) PROVE CallsBounded'
  <2>1. BP' = BP /\ BC' = BC /\ lag' = lag
    BY <1>14, SignalDeltas, RolesDiffer, ThreadsAssumption DEF SignalPopper
  <2> QED BY <2>1, <1>1, <1>2
<1>15. ASSUME NEW c \in Consumers, SignalPusher(c) PROVE CallsBounded'
  <2>1. BP' = BP /\ BC' = BC /\ lag' = lag
    BY <1>15, SignalDeltas, RolesDiffer, ThreadsAssumption DEF SignalPusher
  <2> QED BY <2>1, <1>1, <1>2
<1>16. CASE UNCHANGED vars
  BY <1>16 DEF vars, CallsBounded, Busy, At
<1> QED
  BY <1>4, <1>5, <1>7, <1>8, <1>9, <1>10, <1>11, <1>12, <1>13, <1>14, <1>15,
     <1>16 DEF Next, ProducerStep, ConsumerStep

\* The counter as an integer: within these bounds it looks full, or empty,
\* only when it is.
LEMMA WordIsWide ==
    ASSUME TypeOK, CountMatchesRing, CallsBounded, WideEnough
    PROVE  /\ Count \in Int
           /\ Full => Count >= Capacity
           /\ Empty => Count <= 0
<1>1. /\ Busy(Producers) \in Nat /\ Busy(Consumers) \in Nat
      /\ Cardinality(Producers) \in Nat /\ Cardinality(Consumers) \in Nat
      /\ InSlot(Producers) \in Nat /\ InSlot(Consumers) \in Nat
      /\ InSlot(Producers) <= Busy(Producers) /\ InSlot(Consumers) <= Busy(Consumers)
  BY CardNat, RolesDiffer
<1>2. /\ lag \in Int /\ MaxLag \in Nat
      /\ WordSize \in Nat \ {0} /\ Capacity \in Nat \ {0} /\ Capacity < WordSize
  BY SizesAssumption DEF TypeOK
<1>3. Count \in Int /\ Count < WordSize /\ Count > Capacity - WordSize
  BY <1>1, <1>2, CountIs DEF CallsBounded, WideEnough
<1>4. current_size = Count % WordSize
  BY DEF CountMatchesRing
<1>5. CASE Count \in 0 .. WordSize - 1
  <2>1. Count % WordSize = Count
    BY <1>2, <1>5, ModSmall, Zenon
  <2> QED BY <2>1, <1>3, <1>4 DEF Full, Empty
<1>6. CASE Count < 0
  <2>1. (Count + WordSize) % WordSize = Count % WordSize
    BY <1>2, <1>3, ModPeriod, Zenon
  <2>2. Count + WordSize \in 0 .. WordSize - 1
    BY <1>2, <1>3, <1>6
  <2>3. (Count + WordSize) % WordSize = Count + WordSize
    BY <1>2, <2>2, ModSmall, Zenon
  <2> QED BY <2>1, <2>3, <1>2, <1>3, <1>4, <1>6 DEF Full, Empty
<1> QED BY <1>2, <1>3, <1>5, <1>6

\* The inductive invariant: the two halves of NoLostWakeup, with what they need
\* of the counter, of the mutexes and of the bound on calls.
WakeInv ==
    /\ TypeOK /\ CountMatchesRing /\ LockDiscipline /\ CallsBounded
    /\ ConsumersAwaited /\ ProducersAwaited

\* Moves that disturb neither half: the counter stays, nobody starts to wait,
\* and no thread leaves Ahead or Behind.
LEMMA HarmlessMove ==
    ASSUME WakeInv, Count' = Count,
           Waiting(Consumers)' \subseteq Waiting(Consumers),
           Waiting(Producers)' \subseteq Waiting(Producers),
           \A S \in Roles : Ahead(S)' >= Ahead(S) /\ Behind(S)' >= Behind(S),
           \A S \in Roles : Ahead(S)' \in Int /\ Behind(S)' \in Int
    PROVE  ConsumersAwaited' /\ ProducersAwaited'
<1>1. /\ Ahead(Producers) \in Nat /\ Ahead(Consumers) \in Nat
      /\ Behind(Producers) \in Nat /\ Behind(Consumers) \in Nat
  BY CardNat, RolesDiffer
<1>2. Count \in Int /\ Capacity \in Int
  <2>1. Count = lag + InSlot(Producers) - InSlot(Consumers)
    BY CountIs
  <2> QED BY <2>1, InSlotNat, SizesAssumption DEF WakeInv, TypeOK
<1>3. /\ Ahead(Producers)' \in Int /\ Ahead(Consumers)' \in Int
      /\ Behind(Producers)' \in Int /\ Behind(Consumers)' \in Int
      /\ Ahead(Producers)' >= Ahead(Producers) /\ Ahead(Consumers)' >= Ahead(Consumers)
      /\ Behind(Producers)' >= Behind(Producers) /\ Behind(Consumers)' >= Behind(Consumers)
  BY RolesDiffer
<1>4. ConsumersAwaited'
  <2> SUFFICES ASSUME Waiting(Consumers)' # {}
               PROVE  Count' <= Ahead(Producers)' + Behind(Consumers)'
    BY DEF ConsumersAwaited
  <2>1. Count <= Ahead(Producers) + Behind(Consumers)
    BY DEF WakeInv, ConsumersAwaited
  <2> QED BY <2>1, <1>1, <1>2, <1>3
<1>5. ProducersAwaited'
  <2> SUFFICES ASSUME Waiting(Producers)' # {}
               PROVE  Capacity - Count' <= Ahead(Consumers)' + Behind(Producers)'
    BY DEF ProducersAwaited
  <2>1. Capacity - Count <= Ahead(Consumers) + Behind(Producers)
    BY DEF WakeInv, ProducersAwaited
  <2> QED BY <2>1, <1>1, <1>2, <1>3
<1> QED BY <1>4, <1>5

\* A quiet move that does not start a wait.
LEMMA QuietAwaited ==
    ASSUME WakeInv, NEW R \in Roles, NEW t \in R, NEW l, QuietTo(t, l),
           \/ l \notin {"wait", "asleep"}
           \/ pc[t] = "wait" /\ l = "asleep",
           pc[t] \in BehindLabels => l \in BehindLabels,
           pc[t] \in AheadLabels => l \in AheadLabels
    PROVE  ConsumersAwaited' /\ ProducersAwaited'
<1>1. t \in Threads
  BY RolesFinite
<1>2. MovesTo(pc, pc', t, l)
  BY DEF QuietTo
<1>3. Count' = Count
  BY <1>1, QuietKeeps DEF WakeInv, QuietTo
<1>4. \A S \in Roles : Waiting(S)' \subseteq Waiting(S)
  BY <1>1, <1>2, WaitingMoves
<1>5. \A S \in Roles : /\ Shift(pc, S, AheadLabels, t, l) \in {0, 1}
                       /\ Shift(pc, S, BehindLabels, t, l) \in {0, 1}
  BY DEF Shift
<1>6. \A S \in Roles : Ahead(S) \in Nat /\ Behind(S) \in Nat
  BY CardNat
<1>7. \A S \in Roles : /\ Ahead(S)' = Ahead(S) + Shift(pc, S, AheadLabels, t, l)
                       /\ Behind(S)' = Behind(S) + Shift(pc, S, BehindLabels, t, l)
  BY <1>2, Deltas
<1>8. \A S \in Roles : /\ Ahead(S)' >= Ahead(S) /\ Behind(S)' >= Behind(S)
                       /\ Ahead(S)' \in Int /\ Behind(S)' \in Int
  BY <1>5, <1>6, <1>7
<1> QED BY <1>3, <1>4, <1>8, HarmlessMove, RolesDiffer

\* What the two halves say in a state with these counts.
LEMMA AwaitedParts ==
    ASSUME WakeInv
    PROVE  /\ Count \in Int /\ Capacity \in Nat
           /\ \A S \in Roles : Ahead(S) \in Nat /\ Behind(S) \in Nat
           /\ Waiting(Consumers) # {} => Count <= Ahead(Producers) + Behind(Consumers)
           /\ Waiting(Producers) # {} => Capacity - Count <= Ahead(Consumers) + Behind(Producers)
<1>1. Count \in Int
  <2>1. Count = lag + InSlot(Producers) - InSlot(Consumers)
    BY CountIs
  <2> QED BY <2>1, InSlotNat DEF WakeInv, TypeOK
<1> QED BY <1>1, CardNat, SizesAssumption DEF WakeInv, ConsumersAwaited, ProducersAwaited

\* A thread that starts to wait saw the counter full, or empty.
LEMMA WaitAwaited ==
    ASSUME WakeInv, WideEnough
    PROVE  /\ \A p \in Producers :
                 QuietTo(p, "wait") /\ pc[p] = "test" /\ Full
                     => ConsumersAwaited' /\ ProducersAwaited'
           /\ \A c \in Consumers :
                 QuietTo(c, "wait") /\ pc[c] = "test" /\ Empty
                     => ConsumersAwaited' /\ ProducersAwaited'
<1>1. /\ Full => Count >= Capacity
      /\ Empty => Count <= 0
  BY WordIsWide DEF WakeInv
<1>2. ASSUME NEW p \in Producers, QuietTo(p, "wait"), pc[p] = "test", Full
      PROVE  ConsumersAwaited' /\ ProducersAwaited'
  <2>1. Count' = Count /\ Waiting(Consumers)' = Waiting(Consumers)
    BY <1>2, QuietKeeps, WaitingMoves, RolesDiffer DEF WakeInv, QuietTo
  <2>2. /\ Shift(pc, Producers, AheadLabels, p, "wait") = 0
        /\ Shift(pc, Consumers, AheadLabels, p, "wait") = 0
        /\ Shift(pc, Producers, BehindLabels, p, "wait") = -1
        /\ Shift(pc, Consumers, BehindLabels, p, "wait") = 0
    BY <1>2, RolesDiffer DEF Shift, AheadLabels, BehindLabels
  <2>3. /\ Ahead(Producers)' = Ahead(Producers) /\ Ahead(Consumers)' = Ahead(Consumers)
        /\ Behind(Producers)' = Behind(Producers) - 1 /\ Behind(Consumers)' = Behind(Consumers)
    BY <1>2, <2>2, Deltas, CardNat, RolesDiffer DEF QuietTo
  <2>4. Behind(Producers) >= 1
    <3>1. p \in At(Producers, BehindLabels)
      BY <1>2 DEF At, BehindLabels
    <3>2. Behind(Producers) # 0
      BY <3>1, AtCard, RolesDiffer DEF Behind
    <3> QED BY <3>2, CardNat, RolesDiffer
  <2>5. ConsumersAwaited'
    BY <2>1, <2>3, AwaitedParts, RolesDiffer DEF ConsumersAwaited
  <2>6. Capacity - Count' <= Ahead(Consumers)' + Behind(Producers)'
    BY <1>1, <1>2, <2>1, <2>3, <2>4, AwaitedParts, RolesDiffer
  <2> QED BY <2>5, <2>6 DEF ProducersAwaited
<1>3. ASSUME NEW c \in Consumers, QuietTo(c, "wait"), pc[c] = "test", Empty
      PROVE  ConsumersAwaited' /\ ProducersAwaited'
  <2>1. Count' = Count /\ Waiting(Producers)' = Waiting(Producers)
    BY <1>3, QuietKeeps, WaitingMoves, RolesDiffer DEF WakeInv, QuietTo
  <2>2. /\ Shift(pc, Producers, AheadLabels, c, "wait") = 0
        /\ Shift(pc, Consumers, AheadLabels, c, "wait") = 0
        /\ Shift(pc, Producers, BehindLabels, c, "wait") = 0
        /\ Shift(pc, Consumers, BehindLabels, c, "wait") = -1
    BY <1>3, RolesDiffer DEF Shift, AheadLabels, BehindLabels
  <2>3. /\ Ahead(Producers)' = Ahead(Producers) /\ Ahead(Consumers)' = Ahead(Consumers)
        /\ Behind(Producers)' = Behind(Producers) /\ Behind(Consumers)' = Behind(Consumers) - 1
    BY <1>3, <2>2, Deltas, CardNat, RolesDiffer DEF QuietTo
  <2>4. Behind(Consumers) >= 1
    <3>1. c \in At(Consumers, BehindLabels)
      BY <1>3 DEF At, BehindLabels
    <3>2. Behind(Consumers) # 0
      BY <3>1, AtCard, RolesDiffer DEF Behind
    <3> QED BY <3>2, CardNat, RolesDiffer
  <2>5. ProducersAwaited'
    BY <2>1, <2>3, AwaitedParts, RolesDiffer DEF ProducersAwaited
  <2>6. Count' <= Ahead(Producers)' + Behind(Consumers)'
    BY <1>1, <1>3, <2>1, <2>3, <2>4, AwaitedParts, RolesDiffer
  <2> QED BY <2>5, <2>6 DEF ConsumersAwaited
<1> QED BY <1>2, <1>3

\* A count step moves its thread from Behind to Ahead as it moves the counter.
LEMMA CountAwaited ==
    ASSUME WakeInv
    PROVE  /\ \A p \in Producers : CountUp(p) => ConsumersAwaited' /\ ProducersAwaited'
           /\ \A c \in Consumers : CountDown(c) => ConsumersAwaited' /\ ProducersAwaited'
<1>1. ASSUME NEW p \in Producers, CountUp(p)
      PROVE  ConsumersAwaited' /\ ProducersAwaited'
  <2>1. MovesTo(pc, pc', p, "slot") /\ pc[p] = "count" /\ Count' = Count + 1
    BY <1>1, LoudSteps, CountUpKeeps DEF WakeInv
  <2>2. /\ Shift(pc, Producers, AheadLabels, p, "slot") = 1
        /\ Shift(pc, Consumers, AheadLabels, p, "slot") = 0
        /\ Shift(pc, Producers, BehindLabels, p, "slot") = -1
        /\ Shift(pc, Consumers, BehindLabels, p, "slot") = 0
    BY <2>1, RolesDiffer DEF Shift, AheadLabels, BehindLabels
  <2>3. /\ Ahead(Producers)' = Ahead(Producers) + 1 /\ Ahead(Consumers)' = Ahead(Consumers)
        /\ Behind(Producers)' = Behind(Producers) - 1 /\ Behind(Consumers)' = Behind(Consumers)
    BY <2>1, <2>2, Deltas, CardNat, RolesDiffer
  <2>4. \A S \in Roles : Waiting(S)' \subseteq Waiting(S)
    BY <2>1, WaitingMoves, RolesDiffer
  <2>5. ConsumersAwaited'
    BY <2>1, <2>3, <2>4, AwaitedParts, RolesDiffer DEF ConsumersAwaited
  <2>6. ProducersAwaited'
    BY <2>1, <2>3, <2>4, AwaitedParts, RolesDiffer DEF ProducersAwaited
  <2> QED BY <2>5, <2>6
<1>2. ASSUME NEW c \in Consumers, CountDown(c)
      PROVE  ConsumersAwaited' /\ ProducersAwaited'
  <2>1. MovesTo(pc, pc', c, "slot") /\ pc[c] = "count" /\ Count' = Count - 1
    BY <1>2, LoudSteps, CountDownKeeps DEF WakeInv
  <2>2. /\ Shift(pc, Producers, AheadLabels, c, "slot") = 0
        /\ Shift(pc, Consumers, AheadLabels, c, "slot") = 1
        /\ Shift(pc, Producers, BehindLabels, c, "slot") = 0
        /\ Shift(pc, Consumers, BehindLabels, c, "slot") = -1
    BY <2>1, RolesDiffer DEF Shift, AheadLabels, BehindLabels
  <2>3. /\ Ahead(Producers)' = Ahead(Producers) /\ Ahead(Consumers)' = Ahead(Consumers) + 1
        /\ Behind(Producers)' = Behind(Producers) /\ Behind(Consumers)' = Behind(Consumers) - 1
    BY <2>1, <2>2, Deltas, CardNat, RolesDiffer
  <2>4. \A S \in Roles : Waiting(S)' \subseteq Waiting(S)
    BY <2>1, WaitingMoves, RolesDiffer
  <2>5. ConsumersAwaited'
    BY <2>1, <2>3, <2>4, AwaitedParts, RolesDiffer DEF ConsumersAwaited
  <2>6. ProducersAwaited'
    BY <2>1, <2>3, <2>4, AwaitedParts, RolesDiffer DEF ProducersAwaited
  <2> QED BY <2>5, <2>6
<1> QED BY <1>1, <1>2

\* A slot step stays within Ahead.
LEMMA SlotAwaited ==
    ASSUME WakeInv
    PROVE  /\ \A p \in Producers : Store(p) => ConsumersAwaited' /\ ProducersAwaited'
           /\ \A c \in Consumers : Load(c) => ConsumersAwaited' /\ ProducersAwaited'
<1>1. ASSUME NEW R \in Roles, NEW t \in R, MovesTo(pc, pc', t, "signal"),
             pc[t] = "slot", Count' = Count
      PROVE  ConsumersAwaited' /\ ProducersAwaited'
  <2>1. \A S \in Roles : /\ Shift(pc, S, AheadLabels, t, "signal") = 0
                         /\ Shift(pc, S, BehindLabels, t, "signal") = 0
    BY <1>1 DEF Shift, AheadLabels, BehindLabels
  <2>2. \A S \in Roles : /\ Ahead(S) \in Nat /\ Behind(S) \in Nat
                         /\ Ahead(S)' = Ahead(S) /\ Behind(S)' = Behind(S)
    BY <1>1, <2>1, Deltas, CardNat
  <2>3. \A S \in Roles : Waiting(S)' \subseteq Waiting(S)
    BY <1>1, WaitingMoves, RolesFinite
  <2> QED BY <1>1, <2>2, <2>3, HarmlessMove, RolesDiffer
<1> QED BY <1>1, LoudSteps, StoreKeeps, LoadKeeps, RolesDiffer DEF WakeInv

\* A signal under the mutex of the other role: whoever waits there is asleep, so
\* the signaller is replaced by the thread it wakes.
LEMMA SignalAwaited ==
    ASSUME WakeInv
    PROVE  /\ \A p \in Producers : SignalPopper(p) => ConsumersAwaited' /\ ProducersAwaited'
           /\ \A c \in Consumers : SignalPusher(c) => ConsumersAwaited' /\ ProducersAwaited'
<1>1. ASSUME NEW p \in Producers, SignalPopper(p)
      PROVE  ConsumersAwaited' /\ ProducersAwaited'
  <2>1. /\ pc[p] = "signal" /\ popper_lock = NoThread /\ SignalOne(p, Consumers)
        /\ UNCHANGED <<current_size, head, tail, lag>>
    BY <1>1 DEF SignalPopper
  <2>2. Count' = Count
    BY <2>1, SignalKeeps, RolesDiffer DEF WakeInv
  <2>3. /\ Ahead(Producers)' = Ahead(Producers) - 1
        /\ Ahead(Consumers)' = Ahead(Consumers)
        /\ Behind(Producers)' = Behind(Producers)
        /\ Behind(Consumers)' = IF At(Consumers, {"asleep"}) = {}
                                THEN Behind(Consumers) ELSE Behind(Consumers) + 1
        /\ Waiting(Producers)' = Waiting(Producers)
        /\ Waiting(Consumers)' \subseteq Waiting(Consumers)
    BY <2>1, SignalDeltas, RolesDiffer, ThreadsAssumption DEF WakeInv
  <2>4. At(Consumers, {"asleep"}) = {} => Waiting(Consumers) = {}
    <3>1. \A c \in Consumers : pc[c] # "wait"
      BY <2>1, RolesDiffer, ThreadsAssumption DEF WakeInv, LockDiscipline
    <3> QED BY <3>1 DEF At, Waiting
  <2>5. ConsumersAwaited'
    BY <2>2, <2>3, <2>4, AwaitedParts, RolesDiffer DEF ConsumersAwaited
  <2>6. ProducersAwaited'
    BY <2>2, <2>3, AwaitedParts, RolesDiffer DEF ProducersAwaited
  <2> QED BY <2>5, <2>6
<1>2. ASSUME NEW c \in Consumers, SignalPusher(c)
      PROVE  ConsumersAwaited' /\ ProducersAwaited'
  <2>1. /\ pc[c] = "signal" /\ pusher_lock = NoThread /\ SignalOne(c, Producers)
        /\ UNCHANGED <<current_size, head, tail, lag>>
    BY <1>2 DEF SignalPusher
  <2>2. Count' = Count
    BY <2>1, SignalKeeps, RolesDiffer DEF WakeInv
  <2>3. /\ Ahead(Consumers)' = Ahead(Consumers) - 1
        /\ Ahead(Producers)' = Ahead(Producers)
        /\ Behind(Consumers)' = Behind(Consumers)
        /\ Behind(Producers)' = IF At(Producers, {"asleep"}) = {}
                                THEN Behind(Producers) ELSE Behind(Producers) + 1
        /\ Waiting(Consumers)' = Waiting(Consumers)
        /\ Waiting(Producers)' \subseteq Waiting(Producers)
    BY <2>1, SignalDeltas, RolesDiffer, ThreadsAssumption DEF WakeInv
  <2>4. At(Producers, {"asleep"}) = {} => Waiting(Producers) = {}
    <3>1. \A p \in Producers : pc[p] # "wait"
      BY <2>1, RolesDiffer, ThreadsAssumption DEF WakeInv, LockDiscipline
    <3> QED BY <3>1 DEF At, Waiting
  <2>5. ProducersAwaited'
    BY <2>2, <2>3, <2>4, AwaitedParts, RolesDiffer DEF ProducersAwaited
  <2>6. ConsumersAwaited'
    BY <2>2, <2>3, AwaitedParts, RolesDiffer DEF ConsumersAwaited
  <2> QED BY <2>5, <2>6
<1> QED BY <1>1, <1>2

LEMMA AwaitedNext ==
    ASSUME WideEnough
    PROVE  WakeInv /\ [Next]_vars => ConsumersAwaited' /\ ProducersAwaited'
<1> SUFFICES ASSUME WakeInv, [Next]_vars
             PROVE  ConsumersAwaited' /\ ProducersAwaited'
  OBVIOUS
<1>1. ASSUME NEW p \in Producers, Enqueue(p) \/ ProducerStep(p)
      PROVE  ConsumersAwaited' /\ ProducersAwaited'
  <2>1. p \in Threads /\ TypeOK
    BY RolesDiffer DEF WakeInv
  <2>2. CASE Enqueue(p)
    <3>1. QuietTo(p, "lock") /\ pc[p] = "idle"
      BY <2>1, <2>2, QuietSteps DEF Enqueue
    <3> QED BY <3>1, QuietAwaited, RolesDiffer DEF BehindLabels, AheadLabels
  <2>3. CASE LockPusher(p)
    <3>1. QuietTo(p, "test") /\ pc[p] = "lock"
      BY <2>1, <2>3, QuietSteps DEF LockPusher
    <3> QED BY <3>1, QuietAwaited, RolesDiffer DEF BehindLabels, AheadLabels
  <2>4. CASE TestFull(p)
    <3>1. QuietTo(p, IF Full THEN "wait" ELSE "count") /\ pc[p] = "test"
      BY <2>1, <2>4, QuietSteps DEF TestFull
    <3>2. CASE Full
      BY <3>1, <3>2, WaitAwaited
    <3>3. CASE ~Full
      BY <3>1, <3>3, QuietAwaited, RolesDiffer DEF BehindLabels, AheadLabels
    <3> QED BY <3>2, <3>3
  <2>5. CASE SleepFull(p)
    <3>1. QuietTo(p, "asleep") /\ pc[p] = "wait"
      BY <2>1, <2>5, QuietSteps DEF SleepFull
    <3> QED BY <3>1, QuietAwaited, RolesDiffer DEF BehindLabels, AheadLabels
  <2> QED BY <1>1, <2>2, <2>3, <2>4, <2>5, CountAwaited, SlotAwaited, SignalAwaited
          DEF ProducerStep
<1>2. ASSUME NEW c \in Consumers, Dequeue(c) \/ ConsumerStep(c)
      PROVE  ConsumersAwaited' /\ ProducersAwaited'
  <2>1. c \in Threads /\ TypeOK
    BY RolesDiffer DEF WakeInv
  <2>2. CASE Dequeue(c)
    <3>1. QuietTo(c, "lock") /\ pc[c] = "idle"
      BY <2>1, <2>2, QuietSteps DEF Dequeue
    <3> QED BY <3>1, QuietAwaited, RolesDiffer DEF BehindLabels, AheadLabels
  <2>3. CASE LockPopper(c)
    <3>1. QuietTo(c, "test") /\ pc[c] = "lock"
      BY <2>1, <2>3, QuietSteps DEF LockPopper
    <3> QED BY <3>1, QuietAwaited, RolesDiffer DEF BehindLabels, AheadLabels
  <2>4. CASE TestEmpty(c)
    <3>1. QuietTo(c, IF Empty THEN "wait" ELSE "count") /\ pc[c] = "test"
      BY <2>1, <2>4, QuietSteps DEF TestEmpty
    <3>2. CASE Empty
      BY <3>1, <3>2, WaitAwaited
    <3>3. CASE ~Empty
      BY <3>1, <3>3, QuietAwaited, RolesDiffer DEF BehindLabels, AheadLabels
    <3> QED BY <3>2, <3>3
  <2>5. CASE SleepEmpty(c)
    <3>1. QuietTo(c, "asleep") /\ pc[c] = "wait"
      BY <2>1, <2>5, QuietSteps DEF SleepEmpty
    <3> QED BY <3>1, QuietAwaited, RolesDiffer DEF BehindLabels, AheadLabels
  <2> QED BY <1>2, <2>2, <2>3, <2>4, <2>5, CountAwaited, SlotAwaited, SignalAwaited
          DEF ConsumerStep
<1>3. ASSUME NEW t \in Threads, SpuriousWakeup(t)
      PROVE  ConsumersAwaited' /\ ProducersAwaited'
  <2>1. QuietTo(t, "lock") /\ pc[t] = "asleep"
    BY <1>3, QuietSteps DEF SpuriousWakeup, WakeInv
  <2>2. t \in Producers \/ t \in Consumers
    BY DEF Threads
  <2> QED BY <2>1, <2>2, QuietAwaited, RolesDiffer DEF BehindLabels, AheadLabels
<1>4. CASE UNCHANGED vars
  BY <1>4 DEF vars, WakeInv, ConsumersAwaited, ProducersAwaited, Waiting, Count,
              Ahead, Behind, At
<1> QED BY <1>1, <1>2, <1>3, <1>4 DEF Next

LEMMA WakeInit == Init => WakeInv
<1> SUFFICES ASSUME Init PROVE WakeInv
  OBVIOUS
<1>1. \A t \in Threads : pc[t] = "idle"
  BY DEF Init
<1>2. LockDiscipline
  BY <1>1, RolesDiffer DEF LockDiscipline
<1>3. \A S \in Roles : At(S, BusyLabels) = {} /\ Waiting(S) = {}
  BY <1>1, RolesFinite DEF At, Waiting, BusyLabels
<1>4. Busy(Producers) = 0 /\ Busy(Consumers) = 0
  BY <1>3, RolesDiffer, FS_EmptySet DEF Busy
<1>5. CallsBounded
  BY <1>4, CardNat, RolesDiffer, SizesAssumption DEF CallsBounded, Init
<1> QED BY <1>2, <1>3, <1>5, TypeInit, CountInit, RolesDiffer
        DEF WakeInv, ConsumersAwaited, ProducersAwaited

\* No wakeup is lost, for any number of producers and consumers, while the
\* counter is wide enough for the calls in progress.
THEOREM NoWakeupIsLost ==
    ASSUME WideEnough
    PROVE  Spec => []NoLostWakeup
<1>1. WakeInv /\ [Next]_vars => WakeInv'
  BY TypeNext, CountNext, LockNext, CallsNext, AwaitedNext DEF WakeInv
<1>2. WakeInv => NoLostWakeup
  BY Halves DEF WakeInv
<1> QED BY WakeInit, <1>1, <1>2, PTL DEF Spec

\* The queue never stops with every thread asleep: the two halves would ask for
\* a counter that is at once full and empty.
THEOREM SomeThreadIsAwake ==
    ASSUME WideEnough, Producers # {}, Consumers # {}
    PROVE  Spec => []NotAllAsleep
<1>1. WakeInv /\ [Next]_vars => WakeInv'
  BY TypeNext, CountNext, LockNext, CallsNext, AwaitedNext DEF WakeInv
<1>2. WakeInv => NotAllAsleep
  <2> SUFFICES ASSUME WakeInv, \A t \in Threads : pc[t] = "asleep"
               PROVE  FALSE
    BY DEF NotAllAsleep
  <2>1. /\ At(Producers, AheadLabels) = {} /\ At(Consumers, AheadLabels) = {}
        /\ At(Producers, BehindLabels) = {} /\ At(Consumers, BehindLabels) = {}
        /\ Waiting(Producers) # {} /\ Waiting(Consumers) # {}
    BY RolesDiffer DEF At, Waiting, AheadLabels, BehindLabels
  <2>2. /\ Ahead(Producers) = 0 /\ Ahead(Consumers) = 0
        /\ Behind(Producers) = 0 /\ Behind(Consumers) = 0
    BY <2>1, FS_EmptySet DEF Ahead, Behind
  <2> QED BY <2>1, <2>2, AwaitedParts, SizesAssumption
<1> QED BY WakeInit, <1>1, <1>2, PTL DEF Spec

-----------------------------------------------------------------------------
(* A role with one thread *)

OneProducer == \A p, q \in Producers : p = q
OneConsumer == \A c, d \in Consumers : c = d

\* The producer that has passed its test still has space for its element ...
RoomInv ==
    /\ TypeOK /\ CountMatchesRing
    /\ Count <= Capacity
    /\ \A p \in Producers : pc[p] = "count" => Count < Capacity

\* ... and the consumer that has passed its own still has an element.
OwedInv ==
    /\ TypeOK /\ CountMatchesRing
    /\ Count >= 0
    /\ \A c \in Consumers : pc[c] = "count" => Count > 0

LEMMA CountTyped ==
    ASSUME TypeOK
    PROVE  Count \in Int
BY CountIs, InSlotNat DEF TypeOK

\* What a step does to the count: it is changed by a thread that has passed its
\* test, or it stays and a thread gets past its test by what it sees there.
CountGrows ==
    /\ Count' = Count + 1
    /\ \E p \in Producers : pc[p] = "count" /\ MovesTo(pc, pc', p, "slot")
CountShrinks ==
    /\ Count' = Count - 1
    /\ \E c \in Consumers : pc[c] = "count" /\ MovesTo(pc, pc', c, "slot")
CountStays ==
    /\ Count' = Count /\ current_size' = current_size
    /\ \A p \in Producers : pc'[p] = "count" => pc[p] = "count" \/ ~Full
    /\ \A c \in Consumers : pc'[c] = "count" => pc[c] = "count" \/ ~Empty

LEMMA CountSteps ==
    ASSUME TypeOK, CountMatchesRing, [Next]_vars
    PROVE  CountGrows \/ CountShrinks \/ CountStays
\* A quiet move.
<1>1. ASSUME NEW t \in Threads, NEW l, QuietTo(t, l),
             t \in Producers /\ l = "count" => ~Full,
             t \in Consumers /\ l = "count" => ~Empty
      PROVE  CountStays
  <2>1. Count' = Count /\ current_size' = current_size
    BY <1>1, QuietKeeps DEF QuietTo
  <2>2. \A s \in Threads : pc'[s] = "count" => pc[s] = "count" \/ (s = t /\ l = "count")
    BY <1>1 DEF QuietTo, MovesTo
  <2> QED BY <1>1, <2>1, <2>2, RolesDiffer DEF CountStays
\* A step that keeps the counter and brings nobody to "count".
<1>2. ASSUME Count' = Count, current_size' = current_size,
             \A t \in Threads : pc'[t] = "count" => pc[t] = "count"
      PROVE  CountStays
  BY <1>2, RolesDiffer DEF CountStays
<1>3. ASSUME NEW R \in Roles, NEW t \in Threads, SignalOne(t, R)
      PROVE  \A s \in Threads : pc'[s] = "count" => pc[s] = "count"
  <2>1. \A s \in At(R, {"asleep"}) : s \in Threads
    BY RolesFinite DEF At
  <2>2. pc \in [Threads -> Labels]
    BY DEF TypeOK
  <2>3. CASE pc' = [pc EXCEPT ![t] = "idle"]
    BY <2>2, <2>3
  <2>4. ASSUME NEW x \in At(R, {"asleep"}), pc' = [pc EXCEPT ![t] = "idle", ![x] = "lock"]
        PROVE  \A s \in Threads : pc'[s] = "count" => pc[s] = "count"
    BY <2>1, <2>2, <2>4
  <2> QED BY <1>3, <2>3, <2>4 DEF SignalOne
<1>4. ASSUME NEW p \in Producers, Enqueue(p) \/ ProducerStep(p)
      PROVE  CountGrows \/ CountStays
  <2>1. p \in Threads /\ p \notin Consumers
    BY RolesDiffer
  <2>2. CASE Enqueue(p) \/ LockPusher(p) \/ SleepFull(p)
    BY <1>1, <2>1, <2>2, QuietSteps
  <2>3. CASE TestFull(p)
    BY <1>1, <2>1, <2>3, QuietSteps
  <2>4. CASE CountUp(p)
    <3>1. Count' = Count + 1 /\ pc[p] = "count"
      BY <2>4, CountUpKeeps DEF CountUp
    <3>2. MovesTo(pc, pc', p, "slot")
      BY <2>4, LoudSteps
    <3> QED BY <3>1, <3>2 DEF CountGrows
  <2>5. CASE Store(p)
    <3>1. Count' = Count /\ current_size' = current_size
      BY <2>5, StoreKeeps DEF Store
    <3>2. \A t \in Threads : pc'[t] = "count" => pc[t] = "count"
      BY <2>1, <2>5, LoudSteps DEF MovesTo
    <3> QED BY <1>2, <3>1, <3>2
  <2>6. CASE SignalPopper(p)
    <3>1. Count' = Count /\ current_size' = current_size
      BY <2>1, <2>6, SignalKeeps, RolesDiffer DEF SignalPopper
    <3> QED BY <1>2, <1>3, <2>1, <2>6, <3>1, RolesDiffer DEF SignalPopper
  <2> QED BY <1>4, <2>2, <2>3, <2>4, <2>5, <2>6 DEF ProducerStep
<1>5. ASSUME NEW c \in Consumers, Dequeue(c) \/ ConsumerStep(c)
      PROVE  CountShrinks \/ CountStays
  <2>1. c \in Threads /\ c \notin Producers
    BY RolesDiffer
  <2>2. CASE Dequeue(c) \/ LockPopper(c) \/ SleepEmpty(c)
    BY <1>1, <2>1, <2>2, QuietSteps
  <2>3. CASE TestEmpty(c)
    BY <1>1, <2>1, <2>3, QuietSteps
  <2>4. CASE CountDown(c)
    <3>1. Count' = Count - 1 /\ pc[c] = "count"
      BY <2>4, CountDownKeeps DEF CountDown
    <3>2. MovesTo(pc, pc', c, "slot")
      BY <2>4, LoudSteps
    <3> QED BY <3>1, <3>2 DEF CountShrinks
  <2>5. CASE Load(c)
    <3>1. Count' = Count /\ current_size' = current_size
      BY <2>5, LoadKeeps DEF Load
    <3>2. \A t \in Threads : pc'[t] = "count" => pc[t] = "count"
      BY <2>1, <2>5, LoudSteps DEF MovesTo
    <3> QED BY <1>2, <3>1, <3>2
  <2>6. CASE SignalPusher(c)
    <3>1. Count' = Count /\ current_size' = current_size
      BY <2>1, <2>6, SignalKeeps, RolesDiffer DEF SignalPusher
    <3> QED BY <1>2, <1>3, <2>1, <2>6, <3>1, RolesDiffer DEF SignalPusher
  <2> QED BY <1>5, <2>2, <2>3, <2>4, <2>5, <2>6 DEF ConsumerStep
<1>6. ASSUME NEW t \in Threads, SpuriousWakeup(t)
      PROVE  CountStays
  BY <1>1, <1>6, QuietSteps
<1>7. CASE UNCHANGED vars
  BY <1>2, <1>7 DEF vars, Count, At
<1> QED BY <1>4, <1>5, <1>6, <1>7 DEF Next

\* What the tests see: a counter that is not at the capacity, or not at zero,
\* means a count that is not.
LEMMA TestsTell ==
    ASSUME TypeOK, CountMatchesRing
    PROVE  /\ Count = Capacity => Full
           /\ Count = 0 => Empty
<1>1. current_size = Count % WordSize
  BY DEF CountMatchesRing
<1>2. /\ WordSize \in Nat \ {0} /\ Capacity \in 0 .. WordSize - 1
      /\ 0 \in 0 .. WordSize - 1
  BY SizesAssumption
<1>3. Capacity % WordSize = Capacity /\ 0 % WordSize = 0
  BY <1>2, ModSmall, Zenon
<1> QED BY <1>1, <1>3 DEF Full, Empty

LEMMA CountZero == Init => TypeOK /\ CountMatchesRing /\ Count = 0
<1> SUFFICES ASSUME Init PROVE TypeOK /\ CountMatchesRing /\ Count = 0
  OBVIOUS
<1>1. TypeOK /\ CountMatchesRing
  BY TypeInit, CountInit
<1>2. \A S \in Roles : At(S, {"slot"}) = {}
  BY RolesFinite DEF Init, At
<1>3. InSlot(Producers) = 0 /\ InSlot(Consumers) = 0
  BY <1>2, RolesDiffer, FS_EmptySet DEF InSlot
<1>4. Count = 0
  BY <1>3, CountIs DEF Init
<1> QED BY <1>1, <1>4

LEMMA RoomInit == Init => RoomInv
BY CountZero, SizesAssumption, RolesDiffer DEF Init, RoomInv

LEMMA OwedInit == Init => OwedInv
BY CountZero, RolesDiffer DEF Init, OwedInv

LEMMA RoomNext ==
    ASSUME OneProducer
    PROVE  RoomInv /\ [Next]_vars => RoomInv'
<1> SUFFICES ASSUME RoomInv, [Next]_vars PROVE RoomInv'
  OBVIOUS
<1>1. TypeOK' /\ CountMatchesRing'
  BY TypeNext, CountNext DEF RoomInv
<1>2. TypeOK /\ CountMatchesRing /\ Count \in Int /\ Capacity \in Nat
  BY CountTyped, SizesAssumption DEF RoomInv
<1>3. CASE CountGrows
  <2>1. PICK p \in Producers : pc[p] = "count" /\ MovesTo(pc, pc', p, "slot")
    BY <1>3 DEF CountGrows
  <2>2. Count < Capacity /\ Count' = Count + 1
    BY <1>3, <2>1 DEF CountGrows, RoomInv
  <2>3. \A q \in Producers : pc'[q] # "count"
    BY <2>1 DEF OneProducer, MovesTo
  <2> QED BY <1>1, <1>2, <2>2, <2>3 DEF RoomInv
<1>4. CASE CountShrinks
  <2>1. PICK c \in Consumers : pc[c] = "count" /\ MovesTo(pc, pc', c, "slot")
    BY <1>4 DEF CountShrinks
  <2>2. Count' = Count - 1 /\ Count <= Capacity
    BY <1>4 DEF CountShrinks, RoomInv
  <2> QED BY <1>1, <1>2, <2>2 DEF RoomInv
<1>5. CASE CountStays
  <2>1. Count' = Count /\ Count <= Capacity
    BY <1>5 DEF CountStays, RoomInv
  <2>2. ~Full => Count # Capacity
    BY <1>2, TestsTell
  <2>3. \A p \in Producers : pc'[p] = "count" => Count < Capacity
    BY <1>2, <1>5, <2>1, <2>2 DEF CountStays, RoomInv
  <2> QED BY <1>1, <2>1, <2>3 DEF RoomInv
<1> QED BY <1>2, <1>3, <1>4, <1>5, CountSteps

LEMMA OwedNext ==
    ASSUME OneConsumer
    PROVE  OwedInv /\ [Next]_vars => OwedInv'
<1> SUFFICES ASSUME OwedInv, [Next]_vars PROVE OwedInv'
  OBVIOUS
<1>1. TypeOK' /\ CountMatchesRing'
  BY TypeNext, CountNext DEF OwedInv
<1>2. TypeOK /\ CountMatchesRing /\ Count \in Int
  BY CountTyped DEF OwedInv
<1>3. CASE CountShrinks
  <2>1. PICK c \in Consumers : pc[c] = "count" /\ MovesTo(pc, pc', c, "slot")
    BY <1>3 DEF CountShrinks
  <2>2. Count > 0 /\ Count' = Count - 1
    BY <1>3, <2>1 DEF CountShrinks, OwedInv
  <2>3. \A d \in Consumers : pc'[d] # "count"
    BY <2>1 DEF OneConsumer, MovesTo
  <2> QED BY <1>1, <1>2, <2>2, <2>3 DEF OwedInv
<1>4. CASE CountGrows
  <2>1. Count' = Count + 1 /\ Count >= 0
    BY <1>4 DEF CountGrows, OwedInv
  <2> QED BY <1>1, <1>2, <2>1 DEF OwedInv
<1>5. CASE CountStays
  <2>1. Count' = Count /\ Count >= 0
    BY <1>5 DEF CountStays, OwedInv
  <2>2. ~Empty => Count # 0
    BY <1>2, TestsTell
  <2>3. \A c \in Consumers : pc'[c] = "count" => Count > 0
    BY <1>2, <1>5, <2>1, <2>2 DEF CountStays, OwedInv
  <2> QED BY <1>1, <2>1, <2>3 DEF OwedInv
<1> QED BY <1>2, <1>3, <1>4, <1>5, CountSteps

\* A single producer never overfills the queue, whatever any number of consumers
\* do to the counter at the same time, and even after it has wrapped below zero.
THEOREM OneProducerKeepsRoom ==
    ASSUME OneProducer
    PROVE  Spec => []NotOverfilled
<1>1. RoomInv /\ [Next]_vars => RoomInv'
  BY RoomNext
<1>2. RoomInv => NotOverfilled
  BY DEF RoomInv, NotOverfilled
<1> QED BY RoomInit, <1>1, <1>2, PTL DEF Spec

\* A single consumer never takes more than producers have counted, even when any
\* number of them have overfilled the queue.
THEOREM OneConsumerIsOwed ==
    ASSUME OneConsumer
    PROVE  Spec => []NotOverdrawn
<1>1. OwedInv /\ [Next]_vars => OwedInv'
  BY OwedNext
<1>2. OwedInv => NotOverdrawn
  BY DEF OwedInv, NotOverdrawn
<1> QED BY OwedInit, <1>1, <1>2, PTL DEF Spec

-----------------------------------------------------------------------------
(* One producer with one consumer *)

OneOfEach == OneProducer /\ OneConsumer

\* The counter is the exact count, within the capacity; the producer about to
\* count has space, the consumer about to discount has an element.
PairInv ==
    /\ TypeOK /\ CountMatchesRing
    /\ current_size = Count
    /\ current_size \in 0 .. Capacity
    /\ \A p \in Producers : pc[p] = "count" => current_size < Capacity
    /\ \A c \in Consumers : pc[c] = "count" => current_size > 0

\* A count that is neither above the capacity nor below zero is the counter's.
LEMMA RoomAndOwed == RoomInv /\ OwedInv <=> PairInv
<1>1. ASSUME RoomInv, OwedInv PROVE PairInv
  <2>1. Count \in 0 .. Capacity /\ current_size = Count % WordSize
    BY <1>1, CountTyped, SizesAssumption DEF RoomInv, OwedInv, CountMatchesRing
  <2>2. WordSize \in Nat \ {0} /\ Count \in 0 .. WordSize - 1
    BY <2>1, SizesAssumption
  <2>3. current_size = Count
    BY <2>1, <2>2, ModSmall, Zenon
  <2> QED BY <1>1, <2>1, <2>3 DEF RoomInv, OwedInv, PairInv
<1>2. ASSUME PairInv PROVE RoomInv /\ OwedInv
  BY <1>2, SizesAssumption DEF RoomInv, OwedInv, PairInv
<1> QED BY <1>1, <1>2

LEMMA PairInit == Init => PairInv
BY RoomInit, OwedInit, RoomAndOwed

LEMMA PairNext ==
    ASSUME OneOfEach
    PROVE  PairInv /\ [Next]_vars => PairInv'
<1>1. RoomInv /\ [Next]_vars => RoomInv'
  BY RoomNext DEF OneOfEach
<1>2. OwedInv /\ [Next]_vars => OwedInv'
  BY OwedNext DEF OneOfEach
<1>3. (RoomInv /\ OwedInv <=> PairInv)'
  BY RoomAndOwed, PTL
<1> QED BY <1>1, <1>2, <1>3, RoomAndOwed

\* With one thread in each role the counter never passes the capacity and never
\* wraps below zero, although its test and its change are separate steps.
THEOREM SizeStaysWithinCapacity ==
    ASSUME OneOfEach
    PROVE  Spec => []SizeWithinCapacity
<1>1. PairInv /\ [Next]_vars => PairInv'
  BY PairNext
<1>2. PairInv => SizeWithinCapacity
  BY DEF PairInv, SizeWithinCapacity
<1> QED BY PairInit, <1>1, <1>2, PTL DEF Spec

LEMMA AtMostOne ==
    ASSUME OneOfEach, NEW S \in Roles
    PROVE  InSlot(S) \in 0 .. 1
<1>1. IsFiniteSet(S)
  BY RolesFinite
<1>2. \A s, t \in S : s = t
  BY DEF OneOfEach, OneProducer, OneConsumer, Roles
<1>3. Cardinality(S) \in 0 .. 1
  <2>1. CASE S = {}
    BY <2>1, FS_EmptySet
  <2>2. ASSUME NEW s \in S PROVE Cardinality(S) = 1
    <3>1. S = {s}
      BY <1>2
    <3> QED BY <3>1, FS_Singleton
  <2> QED BY <2>1, <2>2
<1>4. InSlot(S) <= Cardinality(S) /\ InSlot(S) \in Nat
  <2>1. At(S, {"slot"}) \subseteq S
    BY DEF At
  <2>2. Cardinality(At(S, {"slot"})) <= Cardinality(S) /\ IsFiniteSet(At(S, {"slot"}))
    BY <1>1, <2>1, FS_Subset
  <2> QED BY <2>2, FS_CardinalityType DEF InSlot
<1> QED BY <1>3, <1>4

\* The ring strays from the counter by one slot at most, each way.
THEOREM RingStraysByOne ==
    ASSUME OneOfEach
    PROVE  Spec => []LagWithinOne
<1>1. PairInv /\ [Next]_vars => PairInv'
  BY PairNext
<1>2. PairInv => LagWithinOne
  <2> SUFFICES ASSUME PairInv PROVE LagWithinOne
    OBVIOUS
  <2>1. InSlot(Producers) \in 0 .. 1 /\ InSlot(Consumers) \in 0 .. 1
    BY AtMostOne, RolesDiffer
  <2>2. /\ current_size = lag + InSlot(Producers) - InSlot(Consumers)
        /\ current_size \in 0 .. Capacity /\ lag \in Int
    BY CountIs DEF PairInv, TypeOK
  <2> QED BY <2>1, <2>2, SizesAssumption DEF LagWithinOne
<1> QED BY PairInit, <1>1, <1>2, PTL DEF Spec

EnteringLabels == {"lock", "test", "wait", "asleep", "count"}
Entering == At(Threads, EnteringLabels)

\* The queue implements the bounded counter: every step is a call that enters,
\* an admission within the capacity, or a step the counter does not see.
LEMMA CounterNext ==
    ASSUME OneOfEach
    PROVE  PairInv /\ [Next]_vars => [Counter!BNext]_(Counter!bvars)
<1> SUFFICES ASSUME PairInv, [Next]_vars
             PROVE  [Counter!BNext]_(Counter!bvars)
  OBVIOUS
<1>1. /\ TypeOK /\ pc \in [Threads -> Labels]
      /\ current_size \in 0 .. Capacity /\ Capacity \in Nat /\ WordSize \in Nat \ {0}
      /\ Capacity < WordSize
  BY SizesAssumption DEF PairInv, TypeOK
<1>2. ASSUME current_size' = current_size, Entering' = Entering
      PROVE  [Counter!BNext]_(Counter!bvars)
  BY <1>2 DEF Counter!bvars, Entering, EnteringLabels
<1>3. ASSUME NEW t \in Threads, QuietTo(t, "lock"), pc[t] = "idle"
      PROVE  [Counter!BNext]_(Counter!bvars)
  <2>1. t \notin Entering /\ Entering' = Entering \cup {t}
    BY <1>3 DEF QuietTo, MovesTo, Entering, EnteringLabels, At
  <2>2. current_size' = current_size
    BY <1>3 DEF QuietTo
  <2>3. Counter!Enter(t)
    BY <2>1, <2>2 DEF Counter!Enter, Entering, EnteringLabels
  <2> QED BY <2>3 DEF Counter!BNext, Threads
<1>4. ASSUME NEW t \in Threads, NEW l, QuietTo(t, l),
             pc[t] \in EnteringLabels, l \in EnteringLabels
      PROVE  [Counter!BNext]_(Counter!bvars)
  <2>1. Entering' = Entering
    BY <1>4 DEF QuietTo, MovesTo, Entering, At
  <2> QED BY <1>2, <1>4, <2>1 DEF QuietTo
<1>5. ASSUME NEW t \in Threads, MovesTo(pc, pc', t, "signal"), pc[t] = "slot",
             current_size' = current_size
      PROVE  [Counter!BNext]_(Counter!bvars)
  <2>1. Entering' = Entering
    BY <1>5 DEF MovesTo, Entering, EnteringLabels, At
  <2> QED BY <1>2, <1>5, <2>1
<1>6. ASSUME NEW R \in Roles, NEW t \in Threads, pc[t] = "signal", SignalOne(t, R),
             current_size' = current_size
      PROVE  [Counter!BNext]_(Counter!bvars)
  <2>1. \A s \in At(R, {"asleep"}) : s \in Threads /\ pc[s] = "asleep" /\ s # t
    BY <1>6, RolesFinite DEF At
  <2>2. CASE pc' = [pc EXCEPT ![t] = "idle"]
    <3>1. Entering' = Entering
      BY <1>1, <1>6, <2>2 DEF Entering, EnteringLabels, At
    <3> QED BY <1>2, <1>6, <3>1
  <2>3. ASSUME NEW x \in At(R, {"asleep"}), pc' = [pc EXCEPT ![t] = "idle", ![x] = "lock"]
        PROVE  [Counter!BNext]_(Counter!bvars)
    <3>1. pc'[x] = "lock" /\ pc'[t] = "idle" /\ \A s \in Threads \ {t, x} : pc'[s] = pc[s]
      BY <1>1, <2>1, <2>3
    <3>2. Entering' = Entering
      BY <1>6, <2>1, <3>1 DEF Entering, EnteringLabels, At
    <3> QED BY <1>2, <1>6, <3>2
  <2> QED BY <1>6, <2>2, <2>3 DEF SignalOne
<1>7. ASSUME NEW p \in Producers, CountUp(p)
      PROVE  [Counter!BNext]_(Counter!bvars)
  <2>1. pc[p] = "count" /\ MovesTo(pc, pc', p, "slot") /\ current_size < Capacity
    BY <1>1, <1>7, LoudSteps DEF PairInv
  <2>2. current_size' = current_size + 1
    <3>1. current_size + 1 \in 0 .. WordSize - 1
      BY <1>1, <2>1
    <3>2. (current_size + 1) % WordSize = current_size + 1
      BY <1>1, <3>1, ModSmall, Zenon
    <3> QED BY <1>7, <3>2 DEF CountUp, OneMore
  <2>3. p \in Entering /\ Entering' = Entering \ {p}
    BY <2>1, RolesDiffer DEF MovesTo, Entering, EnteringLabels, At
  <2>4. Counter!Put(p)
    BY <2>1, <2>2, <2>3 DEF Counter!Put, Entering, EnteringLabels
  <2> QED BY <2>4 DEF Counter!BNext
<1>8. ASSUME NEW c \in Consumers, CountDown(c)
      PROVE  [Counter!BNext]_(Counter!bvars)
  <2>1. pc[c] = "count" /\ MovesTo(pc, pc', c, "slot") /\ current_size > 0
    BY <1>1, <1>8, LoudSteps DEF PairInv
  <2>2. current_size' = current_size - 1
    <3>1. current_size - 1 \in 0 .. WordSize - 1 /\ current_size - 1 \in Int
      BY <1>1, <2>1
    <3>2. (current_size - 1) % WordSize = current_size - 1
      BY <1>1, <3>1, ModSmall, Zenon
    <3>3. ((current_size - 1) + WordSize) % WordSize = (current_size - 1) % WordSize
      BY <1>1, <3>1, ModPeriod, Zenon
    <3>4. (current_size - 1) + WordSize = current_size + WordSize - 1
      BY <1>1
    <3> QED BY <1>8, <3>2, <3>3, <3>4 DEF CountDown, OneLess
  <2>3. c \in Entering /\ Entering' = Entering \ {c}
    BY <2>1, RolesDiffer DEF MovesTo, Entering, EnteringLabels, At
  <2>4. Counter!Take(c)
    BY <2>1, <2>2, <2>3 DEF Counter!Take, Entering, EnteringLabels
  <2> QED BY <2>4 DEF Counter!BNext
<1>9. ASSUME NEW p \in Producers, Enqueue(p) \/ ProducerStep(p)
      PROVE  [Counter!BNext]_(Counter!bvars)
  <2>1. p \in Threads
    BY RolesDiffer
  <2>2. CASE Enqueue(p)
    BY <1>1, <1>3, <2>1, <2>2, QuietSteps DEF Enqueue
  <2>3. CASE LockPusher(p) \/ TestFull(p) \/ SleepFull(p)
    <3>1. PICK l \in EnteringLabels : QuietTo(p, l)
      BY <1>1, <2>1, <2>3, QuietSteps DEF EnteringLabels
    <3>2. pc[p] \in EnteringLabels
      BY <2>3 DEF LockPusher, TestFull, SleepFull, EnteringLabels
    <3> QED BY <1>4, <2>1, <3>1, <3>2
  <2>4. CASE Store(p)
    BY <1>1, <1>5, <2>1, <2>4, LoudSteps DEF Store
  <2>5. CASE SignalPopper(p)
    BY <1>6, <2>1, <2>5, RolesDiffer DEF SignalPopper
  <2> QED BY <1>7, <1>9, <2>2, <2>3, <2>4, <2>5 DEF ProducerStep
<1>10. ASSUME NEW c \in Consumers, Dequeue(c) \/ ConsumerStep(c)
      PROVE  [Counter!BNext]_(Counter!bvars)
  <2>1. c \in Threads
    BY RolesDiffer
  <2>2. CASE Dequeue(c)
    BY <1>1, <1>3, <2>1, <2>2, QuietSteps DEF Dequeue
  <2>3. CASE LockPopper(c) \/ TestEmpty(c) \/ SleepEmpty(c)
    <3>1. PICK l \in EnteringLabels : QuietTo(c, l)
      BY <1>1, <2>1, <2>3, QuietSteps DEF EnteringLabels
    <3>2. pc[c] \in EnteringLabels
      BY <2>3 DEF LockPopper, TestEmpty, SleepEmpty, EnteringLabels
    <3> QED BY <1>4, <2>1, <3>1, <3>2
  <2>4. CASE Load(c)
    BY <1>1, <1>5, <2>1, <2>4, LoudSteps DEF Load
  <2>5. CASE SignalPusher(c)
    BY <1>6, <2>1, <2>5, RolesDiffer DEF SignalPusher
  <2> QED BY <1>8, <1>10, <2>2, <2>3, <2>4, <2>5 DEF ConsumerStep
<1>11. ASSUME NEW t \in Threads, SpuriousWakeup(t)
       PROVE  [Counter!BNext]_(Counter!bvars)
  <2>1. QuietTo(t, "lock") /\ pc[t] \in EnteringLabels /\ "lock" \in EnteringLabels
    BY <1>1, <1>11, QuietSteps DEF SpuriousWakeup, EnteringLabels
  <2> QED BY <1>4, <2>1
<1>12. CASE UNCHANGED vars
  BY <1>2, <1>12 DEF vars, Entering, At
<1> QED BY <1>9, <1>10, <1>11, <1>12 DEF Next

\* One producer and one consumer implement the bounded counter of the header.
THEOREM QueueImplementsCounter ==
    ASSUME OneOfEach
    PROVE  Spec => ImplementsCounter
<1>1. Init => Counter!BInit
  BY DEF Init, Counter!BInit, At
<1>2. PairInv /\ [Next]_vars => PairInv'
  BY PairNext
<1>3. PairInv /\ [Next]_vars => [Counter!BNext]_(Counter!bvars)
  BY CounterNext
<1> QED BY PairInit, <1>1, <1>2, <1>3, PTL DEF Spec, ImplementsCounter, Counter!BSpec

=============================================================================
