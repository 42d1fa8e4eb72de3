-------------------------- MODULE EventTable_proofs --------------------------
(***************************************************************************)
(* Proofs about the event scheduler, for a table of any size, any handlers *)
(* and any nesting of calls.                                               *)
(*                                                                         *)
(* TableInv holds of every behaviour: whatever is in progress, each scan   *)
(* has left nothing due behind it, and event2cnt counts the handlers that  *)
(* scans are calling.  TimelyInv adds, for as long as no scan has been     *)
(* restarted, that ev_misc never waits longer than the soonest event.      *)
(* Both speak of the call stack as a chain: what each frame guarantees by  *)
(* itself, what it guarantees to the frame that called it, and what the    *)
(* first frame guarantees.                                                 *)
(***************************************************************************)
EXTENDS EventTable, SequenceTheorems, FiniteSetTheorems, WellFoundedInduction,
        TLAPS

-----------------------------------------------------------------------------
(* The least element of a set.                                             *)

\* A set of natural numbers has a least element.
LEMMA LeastNat ==
    ASSUME NEW S, S \subseteq Nat, S # {}
    PROVE  Least(S) \in S /\ \A x \in S : Least(S) <= x
<1>1. PICK m \in S : \A y \in S : ~(<<y, m>> \in OpToRel(<, Nat))
  <2> HIDE DEF OpToRel
  <2> QED  BY NatLessThanWellFounded, WFMin
<1>2. \A y \in S : m <= y
  <2> TAKE y \in S
  <2>1. y \in Nat /\ m \in Nat  OBVIOUS
  <2>2. ~(y < m)  BY <1>1, <2>1 DEF OpToRel
  <2> QED  BY <2>1, <2>2, SMT
<1> QED  BY <1>2 DEF Least

\* A finite set of integers has one too: a smallest set without would become
\* one with a least element by losing any of its own.
LEMMA LeastFinite ==
    ASSUME NEW S, S \subseteq Int, S # {}, IsFiniteSet(S)
    PROVE  Least(S) \in S /\ \A x \in S : Least(S) <= x
<1> DEFINE HasLeast(T) == \E m \in T : \A x \in T : m <= x
           Bad == {T \in SUBSET S : T # {} /\ ~HasLeast(T)}
           Sizes == {Cardinality(T) : T \in Bad}
<1>1. \A T \in SUBSET S : IsFiniteSet(T) /\ Cardinality(T) \in Nat
  BY FS_Subset, FS_CardinalityType
<1>2. Bad = {}
  <2> SUFFICES ASSUME Bad # {} PROVE FALSE  OBVIOUS
  <2>1. Sizes \subseteq Nat /\ Sizes # {}  BY <1>1
  <2>2. Least(Sizes) \in Sizes /\ \A x \in Sizes : Least(Sizes) <= x
    <3> HIDE DEF Sizes
    <3> QED  BY <2>1, LeastNat
  <2>3. PICK T \in Bad : \A U \in Bad : Cardinality(T) <= Cardinality(U)
    BY <2>2
  <2>4. PICK e \in T : TRUE  OBVIOUS
  <2> DEFINE U == T \ {e}
  <2>5. U \in SUBSET S /\ IsFiniteSet(T) /\ Cardinality(T) \in Nat /\ e \in Int
    BY <1>1
  <2>6. Cardinality(U) = Cardinality(T) - 1  BY <2>4, <2>5, FS_RemoveElement
  <2>7. U \notin Bad
    <3> SUFFICES ASSUME U \in Bad PROVE FALSE  OBVIOUS
    <3>1. Cardinality(T) <= Cardinality(U)  BY <2>3
    <3> QED  BY <3>1, <2>5, <2>6, SMT
  <2>8. CASE U = {}
    <3>1. T = {e}  BY <2>8
    <3>2. HasLeast(T)  BY <3>1, <2>5, SMT
    <3> QED  BY <3>2
  <2>9. CASE U # {}
    <3>1. PICK m \in U : \A x \in U : m <= x  BY <2>5, <2>7, <2>9
    <3>2. m \in Int /\ T \subseteq Int /\ m \in T /\ e \in T  BY <2>4, <2>5
    <3>3. CASE m <= e
      <4>1. \A x \in T : m <= x  BY <3>1, <3>3
      <4> QED  BY <4>1, <3>2
    <3>4. CASE e < m
      <4>1. \A x \in T : e <= x  BY <3>1, <3>2, <3>4, <2>5, SMT
      <4> QED  BY <4>1, <3>2
    <3> QED  BY <3>2, <3>3, <3>4, <2>5, SMT
  <2> QED  BY <2>8, <2>9
<1>3. HasLeast(S)  BY <1>2
<1> QED  BY <1>3 DEF Least

-----------------------------------------------------------------------------
(* Stacks.                                                                 *)

\* A call: the frame is pushed on a chain that may call it.
LEMMA ChainPush ==
    ASSUME NEW F, NEW C, NEW B, NEW s, NEW f,
           ChainOf(s, F, C, B), f \in F,
           s # << >> => <<f, Head(s)>> \in C,
           s = << >> => f \in B
    PROVE  /\ ChainOf(<<f>> \o s, F, C, B)
           /\ <<f>> \o s # << >>
           /\ Head(<<f>> \o s) = f
           /\ Tail(<<f>> \o s) = s
           /\ Len(<<f>> \o s) = Len(s) + 1
<1> DEFINE t == <<f>> \o s
<1>1. s \in Seq(F) /\ <<f>> \in Seq(F) /\ Len(<<f>>) = 1  BY DEF ChainOf
<1>2. /\ t \in Seq(F) /\ Len(t) = Len(s) + 1
      /\ \A i \in 1 .. Len(s) + 1 : t[i] = IF i = 1 THEN f ELSE s[i - 1]
  BY <1>1, SMT
<1>3. Len(s) \in Nat  BY <1>1, LenProperties
<1>4. t # << >> /\ Head(t) = f /\ Tail(t) = s  BY <1>1, SMT
<1>5. ASSUME NEW k \in 1 .. Len(t) - 1 PROVE <<t[k], t[k + 1]>> \in C
  <2>1. CASE k = 1
    <3>1. s # << >> /\ s[1] = Head(s)  BY <1>1, <1>2, <1>3, <2>1, SMT
    <3>2. t[1] = f /\ t[2] = s[1]  BY <1>2, <1>3, <2>1, SMT
    <3> QED  BY <2>1, <3>1, <3>2
  <2>2. CASE k # 1
    <3>1. /\ k - 1 \in 1 .. Len(s) - 1 /\ (k - 1) + 1 = k
          /\ t[k] = s[k - 1] /\ t[k + 1] = s[k]
      BY <1>2, <1>3, <2>2, SMT
    <3> QED  BY <3>1 DEF ChainOf
  <2> QED  BY <2>1, <2>2
<1>6. t[Len(t)] \in B
  <2>1. CASE s = << >>  BY <1>2, <2>1
  <2>2. CASE s # << >>
    <3>1. t[Len(t)] = s[Len(s)]  BY <1>1, <1>2, <1>3, <2>2, EmptySeq, SMT
    <3> QED  BY <2>2, <3>1 DEF ChainOf
  <2> QED  BY <2>1, <2>2
<1> QED  BY <1>2, <1>4, <1>5, <1>6 DEF ChainOf

\* A return: what is known of the frame on top, and the chain below it.
LEMMA ChainPop ==
    ASSUME NEW F, NEW C, NEW B, NEW s, ChainOf(s, F, C, B), s # << >>
    PROVE  /\ Head(s) \in F
           /\ ChainOf(Tail(s), F, C, B)
           /\ Tail(s) # << >> => <<Head(s), Head(Tail(s))>> \in C
           /\ Tail(s) = << >> => Head(s) \in B
           /\ s = <<Head(s)>> \o Tail(s)
           /\ Len(Tail(s)) = Len(s) - 1
<1> DEFINE t == Tail(s)
<1>1. s \in Seq(F)  BY DEF ChainOf
<1>2. /\ Len(s) \in Nat \ {0} /\ Head(s) = s[1] /\ Head(s) \in F
      /\ t \in Seq(F) /\ Len(t) = Len(s) - 1
      /\ \A i \in 1 .. Len(t) : t[i] = s[i + 1]
  BY <1>1, SMT
<1>3. s = <<Head(s)>> \o t  BY <1>1, SMT
<1>4. ASSUME NEW k \in 1 .. Len(t) - 1 PROVE <<t[k], t[k + 1]>> \in C
  <2>1. /\ k + 1 \in 1 .. Len(s) - 1
        /\ t[k] = s[k + 1] /\ t[k + 1] = s[(k + 1) + 1]
    BY <1>2, SMT
  <2> QED  BY <2>1 DEF ChainOf
<1>5. t # << >> => t[Len(t)] = s[Len(s)] /\ Head(t) = s[2] /\ Len(s) > 1
  BY <1>2, SMT
<1>6. t = << >> => Len(s) = 1
  <2>1. t = << >> => Len(t) = 0  BY EmptySeq
  <2> QED  BY <1>2, <2>1, SMT
<1>7. t # << >> => <<Head(s), Head(t)>> \in C
  <2> SUFFICES ASSUME t # << >> PROVE <<s[1], s[1 + 1]>> \in C
    BY <1>2, <1>5
  <2>1. 1 \in 1 .. Len(s) - 1  BY <1>2, <1>5, SMT
  <2> QED  BY <2>1 DEF ChainOf
<1> HIDE DEF t
<1>8. s[Len(s)] \in B  BY DEF ChainOf
<1> QED  BY <1>2, <1>3, <1>4, <1>5, <1>6, <1>7, <1>8 DEF ChainOf, t

\* A chain stays one when every frame of it keeps its guarantees.
LEMMA ChainKept ==
    ASSUME NEW F, NEW C, NEW B, NEW s, ChainOf(s, F, C, B),
           NEW G, NEW D, NEW A, F \subseteq G, C \subseteq D, B \subseteq A
    PROVE  ChainOf(s, G, D, A)
<1>1. s \in Seq(G)  BY SeqMonotonic DEF ChainOf
<1> QED  BY <1>1 DEF ChainOf

LEMMA ChainEmpty ==
    ASSUME NEW F, NEW C, NEW B
    PROVE  ChainOf(<< >>, F, C, B)
BY EmptySeq, SMT DEF ChainOf

-----------------------------------------------------------------------------
(* The handlers that scans are in the middle of calling.                   *)

MiscHandlers(s) == {k \in DOMAIN s : Handler(s[k], "misc")}

Count(s) == Cardinality(MiscHandlers(s))

\* There are finitely many, no more than there are frames.
LEMMA CountBound ==
    ASSUME NEW F, NEW s \in Seq(F)
    PROVE  /\ IsFiniteSet(MiscHandlers(s))
           /\ Count(s) \in 0 .. Len(s)
           /\ \A k \in DOMAIN s : Handler(s[k], "misc") => Count(s) > 0
<1>1. Len(s) \in Nat /\ DOMAIN s = 1 .. Len(s)  BY LenProperties
<1>2. IsFiniteSet(1 .. Len(s)) /\ Cardinality(1 .. Len(s)) = Len(s)
  BY <1>1, FS_Interval, SMT
<1>3. MiscHandlers(s) \in SUBSET (1 .. Len(s))  BY <1>1 DEF MiscHandlers
<1>4. /\ IsFiniteSet(MiscHandlers(s)) /\ Count(s) <= Len(s)
      /\ Count(s) \in Nat
  BY <1>2, <1>3, FS_Subset, FS_CardinalityType DEF Count
<1>5. \A k \in DOMAIN s : Handler(s[k], "misc") => Count(s) # 0
  <2>1. TAKE k \in DOMAIN s
  <2>2. HAVE Handler(s[k], "misc")
  <2>3. k \in MiscHandlers(s)  BY <2>2, Zenon DEF MiscHandlers
  <2>4. MiscHandlers(s) # {}  BY <2>3, Zenon
  <2> QED  BY <1>4, <2>4, FS_EmptySet, Zenon DEF Count
<1>6. Count(s) \in 0 .. Len(s) /\ (Count(s) # 0 => Count(s) > 0)
  <2> PICK n : n = Count(s)  OBVIOUS
  <2>1. n \in Nat /\ n <= Len(s)  BY <1>4
  <2> QED  BY <1>1, <2>1, SMT
<1> QED  BY <1>4, <1>5, <1>6, Zenon

\* A call adds one if it is a scan's call of a handler.
LEMMA CountPush ==
    ASSUME NEW F, NEW s \in Seq(F), NEW f
    PROVE  Count(<<f>> \o s) = Count(s) + (IF Handler(f, "misc") THEN 1 ELSE 0)
<1> DEFINE t == <<f>> \o s
           M == MiscHandlers(s)
           N == {k + 1 : k \in M}
           up == [k \in M |-> k + 1]
<1>1. /\ Len(s) \in Nat /\ DOMAIN s = 1 .. Len(s)
      /\ s \in Seq(F \cup {f}) /\ <<f>> \in Seq(F \cup {f}) /\ Len(<<f>>) = 1
  BY LenProperties, SeqMonotonic
<1>2. /\ t \in Seq(F \cup {f}) /\ Len(t) = Len(s) + 1
      /\ DOMAIN t = 1 .. Len(t)
      /\ \A i \in 1 .. Len(t) : t[i] = IF i = 1 THEN f ELSE s[i - 1]
  BY <1>1, SMT
<1>3. M \subseteq 1 .. Len(s) /\ IsFiniteSet(M) /\ Cardinality(M) \in Nat
  BY <1>1, CountBound, FS_CardinalityType DEF MiscHandlers
<1>4. IsFiniteSet(N) /\ Cardinality(N) = Cardinality(M)
  <2>1. up \in Bijection(M, N)
    <3>1. up \in [M -> N]  OBVIOUS
    <3>2. \A i, j \in M : up[i] = up[j] => i = j  BY <1>3, SMT
    <3>3. \A n \in N : \E k \in M : up[k] = n  OBVIOUS
    <3> QED  BY <3>1, <3>2, <3>3 DEF Bijection, Injection, Surjection, IsInjective
  <2> QED  BY <2>1, <1>3, FS_Bijection DEF ExistsBijection
<1>5. 1 \notin N  BY <1>1, <1>3, SMT
<1>6. MiscHandlers(t) = IF Handler(f, "misc") THEN N \cup {1} ELSE N
  <2>1. \A k \in 1 .. Len(t) : k # 1 => (Handler(t[k], "misc") <=> k \in N)
    <3> TAKE k \in 1 .. Len(t)
    <3> HAVE k # 1
    <3>1. k - 1 \in 1 .. Len(s) /\ t[k] = s[k - 1] /\ (k - 1) + 1 = k
      BY <1>1, <1>2, SMT
    <3>2. k - 1 \in M <=> Handler(t[k], "misc")
      BY <1>1, <3>1 DEF MiscHandlers
    <3>3. k - 1 \in M <=> k \in N
      <4>1. \A j \in M : j + 1 = k => j = k - 1  BY <1>3, SMT
      <4> QED  BY <4>1, <3>1
    <3> QED  BY <3>2, <3>3
  <2>2. 1 \in 1 .. Len(t) /\ t[1] = f /\ N \subseteq 1 .. Len(t)
    BY <1>1, <1>2, <1>3, SMT
  <2> HIDE DEF t, N
  <2> QED  BY <2>1, <2>2, <1>2, <1>5 DEF MiscHandlers
<1> HIDE DEF t, N, M
<1>7. CASE Handler(f, "misc")
  <2>1. Cardinality(MiscHandlers(t)) = Cardinality(N) + 1
    BY <1>4, <1>5, <1>6, <1>7, FS_AddElement
  <2> QED  BY <2>1, <1>3, <1>4, <1>7, SMT DEF Count, t, M
<1>8. CASE ~Handler(f, "misc")
  BY <1>3, <1>4, <1>6, <1>8, SMT DEF Count, t, M
<1> QED  BY <1>7, <1>8

LEMMA CountEmpty == Count(<< >>) = 0
<1>1. MiscHandlers(<< >>) = {}  BY SMT DEF MiscHandlers
<1> QED  BY <1>1, FS_EmptySet DEF Count

-----------------------------------------------------------------------------
(* Slots and times.                                                        *)

LEMMA Sizes ==
    /\ ev2_max \in Nat /\ ev2_max > 1
    /\ Slots = 0 .. ev2_max - 1 /\ MiscSlots = 1 .. ev2_max - 1
    /\ EVT_MAX \in Nat /\ EVT_MAX > 0
    /\ MaxLate \in Nat /\ MaxRestart \in Nat /\ MaxRestart > 0
    /\ PerPeriodic \in Nat /\ PerOneShot \in Nat
    /\ ev_max = 4 /\ LoopHead = 5 /\ ev_sync = 0 /\ ev_misc = 2
BY EventTableAssumption, SMT
   DEF EventTableAssumption, Slots, MiscSlots, ev2_misc, ev_max, LoopHead,
       ev_sync, ev_misc

LEMMA PeriodicEntries ==
    ASSUME NEW i \in Periodic PROVE i \in 0 .. ev_max - 1 /\ i # ev_misc
BY EventTableAssumption, SMT
   DEF EventTableAssumption, ev_misc, ev_sync, ev_cia, ev_audio, ev_max

LEMMA Remainder ==
    ASSUME NEW m \in Nat, m > 0, NEW n \in Int
    PROVE  n % m \in 0 .. m - 1
BY SMT

\* Less than one round on, the remainder is at most one round off.
LEMMA RoundOf ==
    ASSUME NEW m \in Nat, m > 0, NEW n \in Nat, n < 2 * m
    PROVE  n % m = IF n < m THEN n ELSE n - m
<1> DEFINE p == n \div m
           r == n % m
<1>1. p \in Int /\ r \in 0 .. m - 1 /\ n = m * p + r  BY SMT
<1> HIDE DEF p, r
<1>2. CASE p = 0  BY <1>1, <1>2, SMT DEF r
<1>3. CASE p = 1  BY <1>1, <1>3, SMT DEF r
<1>4. CASE p > 1
  <2>1. m * (p - 2) >= 0 /\ m * (p - 2) = m * p - 2 * m  BY <1>1, <1>4, SMT
  <2> QED  BY <2>1, <1>1, SMT
<1>5. CASE p < 0
  <2>1. m * (p + 1) <= 0 /\ m * (p + 1) = m * p + m  BY <1>1, <1>5, SMT
  <2> QED  BY <2>1, <1>1, SMT
<1> QED  BY <1>1, <1>2, <1>3, <1>4, <1>5, SMT

\* A scan reaches slots only, and every slot.
LEMMA ScanCovers ==
    ASSUME NEW f, f.idx2 \in Slots
    PROVE  /\ \A k \in 0 .. ev2_max - 1 : SlotAt(f, k) \in Slots
           /\ \A s \in Slots : \E k \in 0 .. ev2_max - 1 : SlotAt(f, k) = s
<1> DEFINE a == f.idx2
           m == ev2_max
<1>1. m \in Nat /\ m > 0 /\ a \in 0 .. m - 1  BY Sizes, SMT
<1> HIDE DEF a, m
<1>2. \A k \in 0 .. m - 1 : (a + k) % m \in 0 .. m - 1
  BY <1>1, Remainder, SMT
<1>3. ASSUME NEW s \in 0 .. m - 1
      PROVE  \E k \in 0 .. m - 1 : (a + k) % m = s
  <2>1. CASE s >= a
    <3>1. s - a \in 0 .. m - 1 /\ a + (s - a) = s  BY <1>1, <2>1, SMT
    <3>2. s % m = s  BY <1>1, RoundOf, SMT
    <3> QED  BY <3>1, <3>2
  <2>2. CASE s < a
    <3>1. /\ (s - a) + m \in 0 .. m - 1 /\ a + ((s - a) + m) = s + m
          /\ s + m \in Nat /\ ~(s + m < m) /\ s + m < 2 * m /\ (s + m) - m = s
      BY <1>1, <2>2, SMT
    <3>2. (s + m) % m = s  BY <1>1, <3>1, RoundOf
    <3> QED  BY <3>1, <3>2
  <2> QED  BY <1>1, <2>1, <2>2, SMT
<1> QED  BY <1>2, <1>3, Sizes DEF SlotAt, a, m

\* The slot search looks at slots of MISC_handler's events only.
LEMMA SearchStays ==
    ASSUME NEW no \in MiscSlots, next \in MiscSlots
    PROVE  /\ DOMAIN Candidates(no) \subseteq Nat
           /\ \A k \in DOMAIN Candidates(no) : Candidates(no)[k] \in MiscSlots
<1> DEFINE size == ev2_max - ev2_misc
           dist == (next - no) % size
<1>1. /\ size \in Nat /\ size > 0 /\ MiscSlots = 1 .. size /\ ev2_misc = 1
      /\ no \in Int /\ next \in Int
  BY Sizes, SMT DEF ev2_misc
<1>2. dist \in Nat  BY <1>1, Remainder, SMT
<1>3. ASSUME NEW k \in Nat PROVE ev2_misc + ((no - ev2_misc + k) % size) \in MiscSlots
  <2>1. no - ev2_misc + k \in Int  BY <1>1, SMT
  <2>2. (no - ev2_misc + k) % size \in 0 .. size - 1  BY <1>1, <2>1, Remainder
  <2> QED  BY <1>1, <2>2, SMT
<1>4. 0 .. (IF dist = 0 THEN size ELSE dist) - 1 \subseteq Nat
  BY <1>1, <1>2, SMT
<1> QED  BY <1>3, <1>4 DEF Candidates

\* The soonest entry of eventtab.
LEMMA ScheduledIs ==
    ASSUME NEW tab \in [0 .. ev_max - 1 -> Int]
    PROVE  /\ Scheduled(tab) \in Int
           /\ \E i \in DOMAIN tab : Scheduled(tab) = tab[i]
           /\ \A i \in DOMAIN tab : Scheduled(tab) <= tab[i]
<1> DEFINE S == {tab[i] : i \in DOMAIN tab}
<1>1. 0 .. ev_max - 1 = {0, 1, 2, 3}  BY Sizes, SMT
<1>2. S \subseteq Int /\ S # {}  BY <1>1
<1>3. IsFiniteSet(S)
  <2> DEFINE S1 == {} \cup {tab[0]}
             S2 == S1 \cup {tab[1]}
             S3 == S2 \cup {tab[2]}
             S4 == S3 \cup {tab[3]}
  <2>1. S = S4  BY <1>1
  <2>2. IsFiniteSet(S1)  BY FS_EmptySet, FS_AddElement
  <2> HIDE DEF S, S1
  <2>3. IsFiniteSet(S2)  BY <2>2, FS_AddElement
  <2> HIDE DEF S2
  <2>4. IsFiniteSet(S3)  BY <2>3, FS_AddElement
  <2> HIDE DEF S3
  <2>5. IsFiniteSet(S4)  BY <2>4, FS_AddElement
  <2> QED  BY <2>1, <2>5
<1>4. Least(S) \in S /\ \A x \in S : Least(S) <= x
  <2> HIDE DEF S
  <2> QED  BY <1>2, <1>3, LeastFinite
<1> QED  BY <1>2, <1>4 DEF Scheduled

\* The soonest event a scan has met.
LEMMA MintimeIs ==
    ASSUME eventtab2 \in [Slots -> OneShot],
           NEW f, f.idx2 \in Slots, f.i \in Nat, f.mintime \in Int,
           NEW upto \in 0 .. ev2_max
    PROVE  /\ MintimeUpTo(f, upto) \in Int
           /\ MintimeUpTo(f, upto) <= f.mintime
           /\ \A k \in f.i .. upto - 1 :
                 MintimeUpTo(f, upto) <= eventtab2[SlotAt(f, k)].evtime
           /\ \/ MintimeUpTo(f, upto) = f.mintime
              \/ \E k \in f.i .. upto - 1 :
                    MintimeUpTo(f, upto) = eventtab2[SlotAt(f, k)].evtime
<1> DEFINE K == f.i .. upto - 1
           T == {eventtab2[SlotAt(f, k)].evtime : k \in K}
           S == {f.mintime} \cup T
           time == [k \in K |-> eventtab2[SlotAt(f, k)].evtime]
<1>1. K \subseteq 0 .. ev2_max - 1 /\ IsFiniteSet(K)
  <2>1. f.i \in Int /\ upto - 1 \in Int  BY Sizes, SMT
  <2>2. K \subseteq 0 .. ev2_max - 1  BY Sizes, SMT
  <2> QED  BY <2>1, <2>2, FS_Interval
<1>2. \A k \in K : eventtab2[SlotAt(f, k)].evtime \in Int
  BY <1>1, ScanCovers DEF OneShot
<1>3. T \subseteq Int  BY <1>2
<1>4. IsFiniteSet(T)
  <2>1. time \in Surjection(K, T)  BY DEF Surjection
  <2> QED  BY <2>1, <1>1, FS_Surjection
<1>5. IsFiniteSet(S) /\ S \subseteq Int /\ S # {}
  <2>1. S = T \cup {f.mintime}  OBVIOUS
  <2> QED  BY <2>1, <1>3, <1>4, FS_AddElement
<1>6. Least(S) \in S /\ \A x \in S : Least(S) <= x
  <2> HIDE DEF S
  <2> QED  BY <1>5, LeastFinite
<1>7. MintimeUpTo(f, upto) = Least(S)  BY DEF MintimeUpTo
<1> QED  BY <1>5, <1>6, <1>7

-----------------------------------------------------------------------------
(* Frames.                                                                 *)

LEMMA FrameFacts ==
    ASSUME NEW f \in Frame
    PROVE  /\ f.at \in {"cycles", "misc", "handler", "newevent"}
           /\ f.at = "cycles" =>
                  /\ f.left \in Int /\ f.i \in 0 .. LoopHead
                  /\ \A j \in 0 .. LoopHead :
                        /\ [f EXCEPT !.i = j] \in Frame
                        /\ [f EXCEPT !.i = j] = CyclesFrame(f.left, j)
           /\ f.at = "misc" =>
                  f.idx2 \in Slots /\ f.i \in 0 .. ev2_max /\ f.mintime \in Int
           /\ f.at = "handler" =>
                  /\ f.of \in {"event", "misc", "newevent", "direct"}
                  /\ f.left \in Nat
           /\ f.at = "newevent" => f.no \in MiscSlots /\ f.event \in OneShot
<1>1. CASE f \in [at : {"cycles"}, left : Int, i : 0 .. LoopHead]
  BY <1>1, SMT DEF Frame, CyclesFrame
<1>2. CASE f \in [at : {"misc"}, idx2 : Slots, i : 0 .. ev2_max, mintime : Int]
  BY <1>2, SMT
<1>3. CASE f \in [at : {"handler"},
                  of : {"event", "misc", "newevent", "direct"}, left : Nat]
  BY <1>3, SMT
<1>4. CASE f \in [at : {"newevent"}, no : MiscSlots, event : OneShot]
  BY <1>4, SMT
<1> QED  BY <1>1, <1>2, <1>3, <1>4 DEF Frame

\* A scan goes on, from an offset and with a time.
Moved(f, j, m) == [at |-> "misc", idx2 |-> f.idx2, i |-> j, mintime |-> m]

LEMMA MiscFrameMoved ==
    ASSUME NEW f \in Frame, f.at = "misc",
           NEW j \in 0 .. ev2_max, NEW m \in Int
    PROVE  Moved(f, j, m) \in Frame
<1>1. f \in [at : {"misc"}, idx2 : Slots, i : 0 .. ev2_max, mintime : Int]
  BY SMT DEF Frame
<1> QED  BY <1>1, SMT DEF Moved, Frame

\* A handler has scheduled one event more.
LEMMA HandlerFrameCounted ==
    ASSUME NEW f \in Frame, f.at = "handler", f.left > 0,
           NEW g, g = [f EXCEPT !.left = @ - 1]
    PROVE  g \in Frame /\ g.at = "handler" /\ g.of = f.of
<1>1. f \in [at : {"handler"}, of : {"event", "misc", "newevent", "direct"},
             left : Nat]
  BY SMT DEF Frame
<1>2. /\ g \in [at : {"handler"}, of : {"event", "misc", "newevent", "direct"},
                left : Nat]
      /\ g.of = f.of
  BY <1>1, SMT
<1>3. g.at = "handler" /\ g \in Frame  BY <1>2, SMT DEF Frame
<1> QED  BY <1>2, <1>3

LEMMA NewFrames ==
    /\ \A left \in Int, i \in 0 .. LoopHead :
          /\ CyclesFrame(left, i) \in Frame
          /\ CyclesFrame(left, i).at = "cycles"
          /\ CyclesFrame(left, i).left = left /\ CyclesFrame(left, i).i = i
    /\ \A idx \in Slots :
          /\ MiscFrame(idx) \in Frame /\ MiscFrame(idx).at = "misc"
          /\ MiscFrame(idx).idx2 = idx /\ MiscFrame(idx).i = 0
          /\ MiscFrame(idx).mintime = EVT_MAX
    /\ \A of \in {"event", "misc", "newevent", "direct"} :
          /\ HandlerFrame(of) \in Frame /\ HandlerFrame(of).at = "handler"
          /\ HandlerFrame(of).of = of
    /\ \A no \in MiscSlots, e \in OneShot :
          /\ NewEventFrame(no, e) \in Frame
          /\ NewEventFrame(no, e).at = "newevent"
          /\ NewEventFrame(no, e).event = e
<1>1. \A left \in Int, i \in 0 .. LoopHead :
          /\ CyclesFrame(left, i) \in Frame
          /\ CyclesFrame(left, i).at = "cycles"
          /\ CyclesFrame(left, i).left = left /\ CyclesFrame(left, i).i = i
  BY SMT DEF CyclesFrame, Frame
<1>2. \A idx \in Slots :
          /\ MiscFrame(idx) \in Frame /\ MiscFrame(idx).at = "misc"
          /\ MiscFrame(idx).idx2 = idx /\ MiscFrame(idx).i = 0
          /\ MiscFrame(idx).mintime = EVT_MAX
  BY Sizes, SMT DEF MiscFrame, Frame
<1>3. \A of \in {"event", "misc", "newevent", "direct"} :
          /\ HandlerFrame(of) \in Frame /\ HandlerFrame(of).at = "handler"
          /\ HandlerFrame(of).of = of
  BY Sizes, SMT DEF HandlerFrame, Frame
<1>4. \A no \in MiscSlots, e \in OneShot :
          /\ NewEventFrame(no, e) \in Frame
          /\ NewEventFrame(no, e).at = "newevent"
          /\ NewEventFrame(no, e).event = e
  BY SMT DEF NewEventFrame, Frame
<1> QED  BY <1>1, <1>2, <1>3, <1>4

-----------------------------------------------------------------------------
(* Calls and returns, whatever they do to the table.                       *)

\* Nothing becomes due: every frame keeps its guarantees.
LEMMA FramesStay ==
    ASSUME \A s \in Slots :
              eventtab2[s].evtime # 0 => eventtab2'[s].evtime # 0,
           eventtab[ev_sync] # 0 => eventtab'[ev_sync] # 0
    PROVE  StackFrames \subseteq StackFrames' /\ StackCalls \subseteq StackCalls'
<1>1. ASSUME NEW f \in Frame, f.at = "misc", NEW k \in 0 .. ev2_max - 1,
             NotDue(f, k)
      PROVE  NotDue(f, k)'
  <2>1. SlotAt(f, k) \in Slots  BY <1>1, FrameFacts, ScanCovers
  <2>2. SlotAt(f, k)' = SlotAt(f, k)  BY DEF SlotAt
  <2> QED  BY <1>1, <2>1, <2>2 DEF NotDue
<1>2. ASSUME NEW f \in StackFrames PROVE f \in StackFrames'
  <2>1. f \in Frame  BY DEF StackFrames
  <2>2. f.at = "misc" => \A k \in 0 .. f.i - 1 : NotDue(f, k)'
    <3> SUFFICES ASSUME f.at = "misc", NEW k \in 0 .. f.i - 1
                 PROVE  NotDue(f, k)'
      OBVIOUS
    <3>0. f.i \in 0 .. ev2_max  BY <2>1, FrameFacts
    <3>1. k \in 0 .. ev2_max - 1  BY <3>0, Sizes, SMT
    <3>2. NotDue(f, k)  BY DEF StackFrames
    <3> QED  BY <1>1, <2>1, <3>1, <3>2
  <2> QED  BY <2>1, <2>2 DEF StackFrames
<1>3. ASSUME NEW c \in StackCalls PROVE c \in StackCalls'
  <2>1. c \in Frame \X Frame /\ CalledFrom(c[1], c[2])
    BY DEF StackCalls
  <2>2. Handler(c[1], "misc") => NotDue(c[2], c[2].i)'
    <3> SUFFICES ASSUME Handler(c[1], "misc") PROVE NotDue(c[2], c[2].i)'
      OBVIOUS
    <3>1. c[2] \in Frame /\ c[2].at = "misc" /\ c[2].i < ev2_max
      BY <2>1, SMT DEF CalledFrom, Handler
    <3>0. c[2].i \in 0 .. ev2_max  BY <3>1, FrameFacts
    <3>2. c[2].i \in 0 .. ev2_max - 1  BY <3>0, <3>1, Sizes, SMT
    <3>3. NotDue(c[2], c[2].i)  BY DEF StackCalls
    <3> QED  BY <1>1, <3>1, <3>2, <3>3
  <2> QED  BY <2>1, <2>2 DEF StackCalls
<1> QED  BY <1>2, <1>3

\* The parts the steps of all actions have in common.
LEMMA TableInvFrom ==
    ASSUME nextevent' \in Int, eventtab' \in [0 .. ev_max - 1 -> Int],
           eventtab2' \in [Slots -> OneShot], event2idx' \in Slots,
           event2restart' \in 0 .. MaxRestart, next' \in MiscSlots,
           ScansKept', event2cnt' = Count(stack')
    PROVE  TableInv'
<1>1. stack' \in Seq(Frame)
  <2>1. stack' \in Seq(StackFrames')  BY DEF ScansKept, ChainOf
  <2>2. StackFrames' \subseteq Frame  BY DEF StackFrames
  <2> QED  BY <2>1, <2>2, SeqMonotonic
<1>2. Count(stack') \in 0 .. Len(stack')  BY <1>1, CountBound
<1>3. TypeOK'  BY <1>1, <1>2 DEF TypeOK
<1>4. NestingCounted'
  BY DEF NestingCounted, Count, MiscHandlers, Handler
<1> QED  BY <1>3, <1>4 DEF TableInv

\* What TableInv says of the stack.
LEMMA Counted ==
    ASSUME TableInv
    PROVE  /\ event2cnt = Count(stack) /\ stack \in Seq(Frame)
           /\ ChainOf(stack, StackFrames, StackCalls, FirstFrames)
           /\ TypeOK
BY DEF TableInv, ScansKept, TypeOK, NestingCounted, Count, MiscHandlers, Handler

\* A call from a chain that has kept its guarantees.
LEMMA Pushed ==
    ASSUME NEW base, ChainOf(base, StackFrames', StackCalls', FirstFrames),
           NEW f \in StackFrames', stack' = <<f>> \o base,
           base # << >> => <<f, Head(base)>> \in StackCalls',
           base = << >> => f \in FirstFrames
    PROVE  /\ ScansKept'
           /\ Count(stack') = Count(base) +
                                  (IF Handler(f, "misc") THEN 1 ELSE 0)
<1>1. ChainOf(stack', StackFrames', StackCalls', FirstFrames)
  BY ChainPush
<1>2. base \in Seq(StackFrames')  BY DEF ChainOf
<1> QED  BY <1>1, <1>2, CountPush DEF ScansKept

LEMMA TwoFrames ==
    ASSUME NEW F, NEW s \in Seq(F), NEW f, NEW g
    PROVE  <<f, g>> \o s = <<f>> \o (<<g>> \o s)
<1> DEFINE E == F \cup {f, g}
<1>1. s \in Seq(E) /\ <<f>> \in Seq(E) /\ <<g>> \in Seq(E)
  BY SeqMonotonic
<1>2. /\ Len(<<f>>) = 1 /\ Len(<<g>>) = 1 /\ Len(<<f, g>>) = 2
      /\ <<f, g>> \in Seq(E) /\ <<f>>[1] = f /\ <<g>>[1] = g
      /\ <<f, g>>[1] = f /\ <<f, g>>[2] = g
  BY SMT
<1>3. /\ <<f>> \o <<g>> \in Seq(E) /\ Len(<<f>> \o <<g>>) = 2
      /\ \A i \in 1 .. 2 : (<<f>> \o <<g>>)[i] = <<f, g>>[i]
  <2>1. /\ <<f>> \o <<g>> \in Seq(E) /\ Len(<<f>> \o <<g>>) = 1 + 1
        /\ \A i \in 1 .. 1 + 1 : (<<f>> \o <<g>>)[i] =
               IF i <= 1 THEN <<f>>[i] ELSE <<g>>[i - 1]
    BY <1>1, <1>2, ConcatProperties
  <2>2. 1 + 1 = 2 /\ 1 .. 2 = {1, 2} /\ 2 - 1 = 1 /\ 1 <= 1 /\ ~(2 <= 1)
    BY SMT
  <2> QED  BY <2>1, <2>2, <1>2
<1>4. <<f>> \o <<g>> = <<f, g>>  BY <1>2, <1>3, SeqEqual
<1>5. (<<f>> \o <<g>>) \o s = <<f>> \o (<<g>> \o s)
  BY <1>1, ConcatAssociative
<1> QED  BY <1>4, <1>5

\* Calls other than a scan's call of a handler promise nothing.
LEMMA PlainCall ==
    ASSUME NEW f \in Frame, NEW g \in Frame, CalledFrom(f, g),
           ~Handler(f, "misc")
    PROVE  <<f, g>> \in StackCalls'
BY DEF StackCalls

\* A chain that a call is made from, and a table with nothing more due.
Base(b) ==
    ChainOf(b, StackFrames, StackCalls, FirstFrames) /\ Count(b) = event2cnt

CodeCalls(b) == b # << >> => Head(b).at = "handler"

NoneDueNow(tab) ==
    /\ tab \in [Slots -> OneShot]
    /\ \A s \in Slots : eventtab2[s].evtime # 0 => tab[s].evtime # 0

\* A table that has lost events, at most.
Raised(tab) ==
    /\ tab \in [Slots -> OneShot]
    /\ \A s \in Slots : tab[s].evtime \in {eventtab2[s].evtime, EVT_MAX}

LEMMA RaisedNone ==
    ASSUME NEW tab, Raised(tab) PROVE NoneDueNow(tab)
<1>1. EVT_MAX # 0  BY Sizes, SMT
<1> QED  BY <1>1 DEF Raised, NoneDueNow

\* MISC_handler is entered.
LEMMA EnterMiscKeeps ==
    ASSUME TypeOK, NEW base, Base(base), NEW idx \in Slots,
           base # << >> => \/ Head(base).at = "handler"
                           \/ /\ Head(base).at = "cycles"
                              /\ Head(base).i = ev_misc,
           EnterMisc(idx, base), NoneDueNow(eventtab2'), next' \in MiscSlots
    PROVE  TableInv'
<1> DEFINE f == MiscFrame(idx)
<1>1. /\ eventtab' = [eventtab EXCEPT ![ev_misc] = EVT_MAX]
      /\ event2idx' = idx /\ stack' = <<f>> \o base
      /\ nextevent' = nextevent /\ event2cnt' = event2cnt
  BY DEF EnterMisc
<1>2. event2restart' \in 0 .. MaxRestart
  BY Sizes, SMT DEF EnterMisc, TypeOK
<1>3. /\ eventtab' \in [0 .. ev_max - 1 -> Int]
      /\ eventtab'[ev_sync] = eventtab[ev_sync]
  BY <1>1, Sizes, SMT DEF TypeOK
<1>4. StackFrames \subseteq StackFrames' /\ StackCalls \subseteq StackCalls'
  BY <1>3, FramesStay DEF NoneDueNow
<1>5. ChainOf(base, StackFrames', StackCalls', FirstFrames)
  BY <1>4, ChainKept DEF Base
<1>6. /\ f \in Frame /\ f.at = "misc" /\ f.i = 0 /\ ~Handler(f, "misc")
      /\ f \in FirstFrames
  BY NewFrames DEF Handler, FirstFrames
<1> HIDE DEF f
<1>7. f \in StackFrames'
  <2>1. 0 .. f.i - 1 = {}  BY <1>6, SMT
  <2> QED  BY <1>6, <2>1 DEF StackFrames
<1>8. base # << >> => <<f, Head(base)>> \in StackCalls'
  <2> SUFFICES ASSUME base # << >> PROVE <<f, Head(base)>> \in StackCalls'
    OBVIOUS
  <2>1. Head(base) \in StackFrames  BY ChainPop DEF Base
  <2>2. Head(base) \in Frame  BY <2>1 DEF StackFrames
  <2>3. CalledFrom(f, Head(base))  BY <1>6 DEF CalledFrom
  <2> QED  BY <1>6, <2>2, <2>3, PlainCall
<1>9. ScansKept' /\ Count(stack') = Count(base)
  <2>1. /\ ScansKept'
        /\ Count(stack') = Count(base) + (IF Handler(f, "misc") THEN 1 ELSE 0)
    BY <1>1, <1>5, <1>6, <1>7, <1>8, Pushed
  <2>2. Count(base) \in Int  BY SMT DEF Base, TypeOK
  <2> QED  BY <2>1, <2>2, <1>6, SMT
<1> QED  BY <1>1, <1>2, <1>3, <1>9, TableInvFrom DEF TypeOK, Base, NoneDueNow

\* An event gets a slot.
LEMMA PlaceKeeps ==
    ASSUME TypeOK, NEW base, Base(base), CodeCalls(base),
           NEW tab, NoneDueNow(tab), NEW s \in Slots,
           NEW e \in OneShot, e.evtime \in 1 .. EVT_MAX,
           Place(tab, s, e, base), next' \in MiscSlots
    PROVE  TableInv'
<1>1. (s + 1) % ev2_max \in Slots  BY Sizes, Remainder, SMT
<1>2. NoneDueNow(eventtab2')
  <2>1. eventtab2' = [tab EXCEPT ![s] = e] /\ e.evtime # 0  BY SMT DEF Place
  <2> QED  BY <2>1 DEF NoneDueNow
<1>3. EnterMisc((s + 1) % ev2_max, base)  BY DEF Place
<1> QED  BY <1>1, <1>2, <1>3, EnterMiscKeeps DEF CodeCalls

\* Nothing but the table of one-shot events and the stack changes.
OnlyEvents == UNCHANGED <<nextevent, eventtab, event2idx, event2cnt,
                          event2restart, next>>

\* The table loses events, and code calls something that is not a scan's.
CodeCalled(base) ==
    /\ OnlyEvents /\ Raised(eventtab2')
    /\ \/ stack' = base
       \/ stack' = <<HandlerFrame("direct")>> \o base
       \/ \E e \in OneShot :
             /\ e.evtime \in 1 .. EVT_MAX
             /\ stack' = <<HandlerFrame("newevent"), NewEventFrame(next, e)>>
                             \o base

LEMMA CodeCallKeeps ==
    ASSUME TypeOK, NEW base, Base(base), CodeCalls(base), CodeCalled(base)
    PROVE  TableInv'
<1>0. OnlyEvents /\ NoneDueNow(eventtab2')  BY RaisedNone DEF CodeCalled
<1>1. StackFrames \subseteq StackFrames' /\ StackCalls \subseteq StackCalls'
  BY <1>0, FramesStay DEF NoneDueNow, OnlyEvents
<1>2. ChainOf(base, StackFrames', StackCalls', FirstFrames)
  BY <1>1, ChainKept DEF Base
<1>3. base # << >> => Head(base) \in Frame
  <2>1. base # << >> => Head(base) \in StackFrames  BY ChainPop DEF Base
  <2> QED  BY <2>1 DEF StackFrames
<1>4. base \in Seq(Frame)
  <2>1. base \in Seq(StackFrames) /\ StackFrames \subseteq Frame
    BY DEF Base, ChainOf, StackFrames
  <2> QED  BY <2>1, SeqMonotonic
<1>5. Count(base) \in Int  BY SMT DEF Base, TypeOK
<1>6. ScansKept' /\ Count(stack') = Count(base)
  <2>1. CASE stack' = base  BY <1>2, <2>1 DEF ScansKept
  <2>2. CASE stack' = <<HandlerFrame("direct")>> \o base
    <3> DEFINE h == HandlerFrame("direct")
    <3>1. /\ h \in Frame /\ h.at = "handler" /\ h.of = "direct"
          /\ ~Handler(h, "misc") /\ Handler(h, "direct") /\ h \in FirstFrames
      BY NewFrames DEF Handler, FirstFrames
    <3> HIDE DEF h
    <3>2. h \in StackFrames'  BY <3>1 DEF StackFrames
    <3>3. base # << >> => <<h, Head(base)>> \in StackCalls'
      BY <1>3, <3>1, PlainCall DEF CalledFrom, CodeCalls
    <3>4. /\ ScansKept'
          /\ Count(stack') = Count(base) +
                                 (IF Handler(h, "misc") THEN 1 ELSE 0)
      BY <1>2, <2>2, <3>1, <3>2, <3>3, Pushed DEF h
    <3> QED  BY <3>1, <3>4, <1>5, SMT
  <2>3. ASSUME NEW e \in OneShot, e.evtime \in 1 .. EVT_MAX,
               stack' = <<HandlerFrame("newevent"), NewEventFrame(next, e)>>
                            \o base
        PROVE  ScansKept' /\ Count(stack') = Count(base)
    <3> DEFINE h == HandlerFrame("newevent")
               n == NewEventFrame(next, e)
               b == <<n>> \o base
    <3>1. /\ h \in Frame /\ h.at = "handler" /\ h.of = "newevent"
          /\ ~Handler(h, "misc") /\ Handler(h, "newevent")
      BY NewFrames DEF Handler
    <3>2. /\ n \in Frame /\ n.at = "newevent" /\ n.event = e
          /\ ~Handler(n, "misc") /\ n \in FirstFrames
      BY <2>3, NewFrames DEF TypeOK, Handler, FirstFrames
    <3>3. stack' = <<h>> \o b  BY <1>4, <2>3, TwoFrames
    <3> HIDE DEF h, n
    <3>4. h \in StackFrames'  BY <3>1 DEF StackFrames
    <3>5. n \in StackFrames'  BY <2>3, <3>2 DEF StackFrames
    <3>6. base # << >> => <<n, Head(base)>> \in StackCalls'
      BY <1>3, <3>2, PlainCall DEF CalledFrom, CodeCalls
    <3>7. /\ ChainOf(b, StackFrames', StackCalls', FirstFrames)
          /\ b # << >> /\ Head(b) = n
      <4> DEFINE F == StackFrames'
                 C == StackCalls'
      <4>1. /\ ChainOf(base, F, C, FirstFrames) /\ n \in F
            /\ base # << >> => <<n, Head(base)>> \in C
            /\ base = << >> => n \in FirstFrames
        BY <1>2, <3>2, <3>5, <3>6
      <4> HIDE DEF F, C
      <4>2. ChainOf(<<n>> \o base, F, C, FirstFrames)  BY <4>1, ChainPush
      <4>3. <<n>> \o base # << >>  BY <4>1, ChainPush
      <4>4. Head(<<n>> \o base) = n  BY <4>1, ChainPush
      <4> QED  BY <4>2, <4>3, <4>4 DEF F, C
    <3>8. Count(b) = Count(base)
      <4>1. base \in Seq(Frame)
            => Count(b) = Count(base) + (IF Handler(n, "misc") THEN 1 ELSE 0)
        BY CountPush
      <4> QED  BY <4>1, <1>4, <1>5, <3>2, SMT
    <3>9. <<h, n>> \in StackCalls'
      BY <3>1, <3>2, PlainCall DEF CalledFrom
    <3> HIDE DEF b
    <3>10. /\ ScansKept'
           /\ Count(stack') = Count(b) + (IF Handler(h, "misc") THEN 1 ELSE 0)
      BY <3>3, <3>4, <3>7, <3>9, Pushed
    <3> QED  BY <3>1, <3>8, <3>10, <1>5, SMT
  <2> QED  BY <2>1, <2>2, <2>3 DEF CodeCalled
<1> QED  BY <1>0, <1>6, TableInvFrom DEF TypeOK, Base, NoneDueNow, OnlyEvents

-----------------------------------------------------------------------------
(* event2_newevent_xx and its variants.                                    *)

\* Retiring an event leaves a table of events.
LEMMA Retired ==
    ASSUME NEW tab \in [Slots -> OneShot], NEW s \in Slots
    PROVE  /\ [tab EXCEPT ![s] = Idle] \in [Slots -> OneShot]
           /\ Idle \in OneShot /\ Idle.evtime = EVT_MAX
           /\ \A t \in Slots : [tab EXCEPT ![s] = Idle][t].evtime =
                                   IF t = s THEN EVT_MAX ELSE tab[t].evtime
<1>1. Idle \in OneShot /\ Idle.evtime = EVT_MAX
  BY Sizes, EventTableAssumption, SMT
     DEF EventTableAssumption, Idle, OneShot
<1> QED  BY <1>1

LEMMA RetiredRaised ==
    ASSUME NEW tab, Raised(tab), NEW s \in Slots
    PROVE  Raised([tab EXCEPT ![s] = Idle])
BY Retired DEF Raised

\* Merging interrupt bits leaves the times as they are.
LEMMA Merged ==
    ASSUME NEW tab \in [Slots -> OneShot], NEW m \in Slots, NEW e \in OneShot
    PROVE  /\ [tab EXCEPT ![m].data = @ \cup e.data] \in [Slots -> OneShot]
           /\ \A t \in Slots : [tab EXCEPT ![m].data = @ \cup e.data][t].evtime
                                   = tab[t].evtime
<1> DEFINE r == [tab[m] EXCEPT !.data = @ \cup e.data]
<1>1. tab[m] \in [evtime : Int, handler : Handlers, data : SUBSET Bits]
  BY DEF OneShot
<1>2. e.data \subseteq Bits  BY DEF OneShot
<1>3. /\ r \in [evtime : Int, handler : Handlers, data : SUBSET Bits]
      /\ r.evtime = tab[m].evtime
  BY <1>1, <1>2
<1>4. [tab EXCEPT ![m].data = @ \cup e.data] = [tab EXCEPT ![m] = r]
  OBVIOUS
<1> HIDE DEF r
<1> QED  BY <1>3, <1>4 DEF OneShot

\* The soonest event of a full table.
LEMMA SoonestIs ==
    ASSUME NEW tab \in [Slots -> OneShot], NEW soonest,
           soonest = Least({tab[s].evtime : s \in Slots})
    PROVE  Least({s \in Slots : tab[s].evtime = soonest}) \in Slots
<1> DEFINE T == {tab[s].evtime : s \in Slots}
           S == {s \in Slots : tab[s].evtime = soonest}
           time == [s \in Slots |-> tab[s].evtime]
<1>1. 0 \in Slots /\ Slots \subseteq Nat /\ IsFiniteSet(Slots)
  <2>1. 0 \in Slots /\ Slots \subseteq Nat  BY Sizes, SMT
  <2>2. 0 \in Int /\ ev2_max - 1 \in Int  BY Sizes, SMT
  <2> QED  BY <2>1, <2>2, Sizes, FS_Interval
<1>2. T \subseteq Int /\ T # {}  BY <1>1 DEF OneShot
<1>3. IsFiniteSet(T)
  <2>1. time \in Surjection(Slots, T)  BY DEF Surjection
  <2> QED  BY <2>1, <1>1, FS_Surjection
<1>4. Least(T) \in T
  <2> HIDE DEF T
  <2> QED  BY <1>2, <1>3, LeastFinite
<1>5. S \subseteq Nat /\ S # {}  BY <1>1, <1>4
<1>6. Least(S) \in S
  <2> HIDE DEF S
  <2> QED  BY <1>5, LeastNat
<1> QED  BY <1>6

LEMMA OverflowIs ==
    ASSUME TypeOK, NEW base, NEW tab, Raised(tab),
           NEW e \in OneShot, e.evtime \in 1 .. EVT_MAX,
           Overflow(tab, e, base)
    PROVE  CodeCalled(base)
<1>1. CASE Mergeable(tab, e) # {}
  <2> DEFINE m == Least(Mergeable(tab, e))
  <2>1. Mergeable(tab, e) \subseteq Slots /\ Slots \subseteq Nat
    BY Sizes, SMT DEF Mergeable
  <2>2. m \in Slots  BY <1>1, <2>1, LeastNat
  <2>3. /\ eventtab2' = [tab EXCEPT ![m].data = @ \cup e.data]
        /\ stack' = base /\ OnlyEvents
    BY <1>1 DEF Overflow, OnlyEvents
  <2> HIDE DEF m
  <2>4. Raised(eventtab2')  BY <2>2, <2>3, Merged DEF Raised
  <2> QED  BY <2>3, <2>4 DEF CodeCalled
<1>2. CASE Mergeable(tab, e) = {}
  <2> DEFINE soonest == Least({tab[s].evtime : s \in Slots})
             m == Least({s \in Slots : tab[s].evtime = soonest})
  <2>1. /\ eventtab2' = [tab EXCEPT ![m] = Idle]
        /\ stack' = <<HandlerFrame("newevent"), NewEventFrame(next, e)>>
                        \o base
        /\ OnlyEvents
    BY <1>2 DEF Overflow, OnlyEvents
  <2>2. m \in Slots  BY SoonestIs DEF Raised
  <2> HIDE DEF m
  <2>3. Raised(eventtab2')  BY <2>1, <2>2, RetiredRaised
  <2> QED  BY <2>1, <2>3 DEF CodeCalled
<1> QED  BY <1>1, <1>2

\* The slot found by a search.
LEMMA FoundIs ==
    ASSUME NEW tab, NEW no \in MiscSlots, NEW e, next \in MiscSlots,
           NEW found,
           found = {k \in DOMAIN Candidates(no) :
                       Usable(tab, Candidates(no)[k], e)},
           found # {}
    PROVE  /\ Candidates(no)[Least(found)] \in MiscSlots
           /\ Candidates(no)[Least(found)] \in Slots
           /\ Usable(tab, Candidates(no)[Least(found)], e)
<1>1. DOMAIN Candidates(no) \subseteq Nat  BY SearchStays
<1>2. found \subseteq Nat  BY <1>1
<1>3. Least(found) \in found  BY <1>2, LeastNat
<1>4. Candidates(no)[Least(found)] \in MiscSlots  BY <1>3, SearchStays
<1>5. MiscSlots \subseteq Slots  BY Sizes, SMT
<1> QED  BY <1>3, <1>4, <1>5

\* An event is put into a slot of a table that has lost events, at most.
Placed(base) ==
    \E tab \in [Slots -> OneShot], s \in Slots, e \in OneShot :
        /\ Raised(tab) /\ e.evtime \in 1 .. EVT_MAX
        /\ Place(tab, s, e, base) /\ next' \in MiscSlots

LEMMA SearchIs ==
    ASSUME TypeOK, NEW base, NEW tab, Raised(tab),
           NEW e \in OneShot, e.evtime \in 1 .. EVT_MAX,
           NEW no \in MiscSlots, Search(tab, no, e, base)
    PROVE  Placed(base) \/ CodeCalled(base)
<1> DEFINE found == {k \in DOMAIN Candidates(no) :
                        Usable(tab, Candidates(no)[k], e)}
           s == Candidates(no)[Least(found)]
<1>1. CASE found # {}
  <2>1. next' = s /\ Place(tab, s, e, base)  BY <1>1 DEF Search
  <2>2. s \in MiscSlots /\ s \in Slots  BY <1>1, FoundIs DEF TypeOK
  <2> HIDE DEF s
  <2>3. tab \in [Slots -> OneShot]  BY DEF Raised
  <2> QED  BY <2>1, <2>2, <2>3 DEF Placed
<1>2. CASE found = {}
  <2>1. Overflow(tab, e, base)  BY <1>2 DEF Search
  <2> QED  BY <2>1, OverflowIs
<1> QED  BY <1>1, <1>2

LEMMA EventIs ==
    ASSUME NEW h \in Handlers, NEW d \in Delays,
           NEW v \in DataOf(h) \cup {{}}
    PROVE  /\ Event(h, d, v) \in OneShot
           /\ Event(h, d, v).evtime = d
           /\ d \in 1 .. EVT_MAX - 1
<1>1. d \in 1 .. EVT_MAX - 1
  BY EventTableAssumption, SMT DEF EventTableAssumption
<1>2. v \subseteq Bits
  <2>1. v \in DataOf(h) => v \subseteq Bits  BY DEF DataOf
  <2> QED  BY <2>1
<1>3. d \in Int  BY <1>1, SMT
<1> QED  BY <1>1, <1>2, <1>3, SMT DEF Event, OneShot

\* Whichever function schedules, an event is placed or code is called.
LEMMA SchedulesIs ==
    ASSUME TypeOK, NEW base, Schedules(base)
    PROVE  Placed(base) \/ CodeCalled(base)
<1>1. next \in MiscSlots /\ Raised(eventtab2)
  BY DEF TypeOK, Raised
<1>2. Handlers \ (Replaceable \cup {Blitter}) \subseteq Handlers
      /\ Replaceable \subseteq Handlers /\ Blitter \in Handlers
  BY EventTableAssumption DEF EventTableAssumption
<1>3. ASSUME NEW d \in Delays, event2_newevent_blitter(d, base)
      PROVE  Placed(base) \/ CodeCalled(base)
  <2>1. /\ Event(Blitter, d, {}) \in OneShot
        /\ Event(Blitter, d, {}).evtime \in 1 .. EVT_MAX
    <3>1. /\ Event(Blitter, d, {}) \in OneShot
          /\ Event(Blitter, d, {}).evtime = d /\ d \in 1 .. EVT_MAX - 1
      BY <1>2, EventIs
    <3>2. 1 .. EVT_MAX - 1 \subseteq 1 .. EVT_MAX  BY Sizes, SMT
    <3> QED  BY <3>1, <3>2
  <2>2. ev2_blitter \in Slots  BY Sizes, SMT DEF ev2_blitter
  <2>3. /\ next' \in MiscSlots
        /\ Place(eventtab2, ev2_blitter, Event(Blitter, d, {}), base)
    BY <1>1, <1>3 DEF event2_newevent_blitter
  <2> QED  BY <1>1, <2>1, <2>2, <2>3 DEF Placed, Raised
<1>4. ASSUME NEW tab, Raised(tab), NEW h \in Handlers, NEW d \in Delays,
             NEW v \in DataOf(h), event2_newevent_xx(tab, h, d, v, base)
      PROVE  Placed(base) \/ CodeCalled(base)
  <2>1. Event(h, d, v) \in OneShot /\ Event(h, d, v).evtime \in 1 .. EVT_MAX
    <3>1. /\ Event(h, d, v) \in OneShot
          /\ Event(h, d, v).evtime = d /\ d \in 1 .. EVT_MAX - 1
      BY EventIs
    <3>2. 1 .. EVT_MAX - 1 \subseteq 1 .. EVT_MAX  BY Sizes, SMT
    <3> QED  BY <3>1, <3>2
  <2>2. Search(tab, next, Event(h, d, v), base)
    BY <1>4 DEF event2_newevent_xx
  <2> QED  BY <1>1, <1>4, <2>1, <2>2, SearchIs
<1>5. ASSUME NEW tab, Raised(tab), NEW h \in Handlers,
             NEW d \in Delays \cup {0}, NEW v \in DataOf(h),
             ScheduleOrCall(tab, h, d, v, base)
      PROVE  Placed(base) \/ CodeCalled(base)
  <2>1. CASE d <= 0
    <3>1. /\ eventtab2' = tab /\ stack' = <<HandlerFrame("direct")>> \o base
          /\ OnlyEvents
      BY <1>5, <2>1 DEF ScheduleOrCall, CallNow, OnlyEvents
    <3> QED  BY <1>5, <3>1 DEF CodeCalled
  <2>2. CASE ~(d <= 0)
    <3>1. d \in Delays  BY <2>2, SMT
    <3>2. event2_newevent_xx(tab, h, d, v, base)
      BY <1>5, <2>2 DEF ScheduleOrCall
    <3> QED  BY <1>4, <1>5, <3>1, <3>2
  <2> QED  BY <2>1, <2>2
<1>6. ASSUME NEW h \in Replaceable, NEW d \in Delays \cup {0},
             NEW v \in DataOf(h),
             \/ event2_newevent_x_replace(h, d, v, base)
             \/ event2_newevent_x_replace_exists(h, d, v, base)
             \/ event2_newevent_x_add_not_exists(h, d, v, base)
      PROVE  Placed(base) \/ CodeCalled(base)
  <2>1. CASE event2_newevent_x_replace(h, d, v, base)
    <3>1. Raised(Without(h))
      <4>1. EVT_MAX # 0  BY Sizes, SMT
      <4>2. Idle \in OneShot /\ Idle.evtime = EVT_MAX
        <5>1. 0 \in Slots  BY Sizes, SMT
        <5> QED  BY <1>1, <5>1, Retired DEF Raised
      <4> QED  BY <1>1, <4>1, <4>2 DEF Raised, Without
    <3> QED  BY <1>2, <1>5, <2>1, <3>1 DEF event2_newevent_x_replace
  <2>2. CASE event2_newevent_x_replace_exists(h, d, v, base)
    <3> DEFINE S == {t \in Slots : Active(eventtab2[t])
                                   /\ eventtab2[t].handler = h}
               s == Least(S)
    <3>1. S # {} /\ ScheduleOrCall([eventtab2 EXCEPT ![s] = Idle], h, d, v, base)
      BY <2>2 DEF event2_newevent_x_replace_exists, Pending
    <3>2. s \in Slots
      <4>1. S \subseteq Nat  BY Sizes, SMT
      <4>2. s \in S  BY <3>1, <4>1, LeastNat
      <4> QED  BY <4>2
    <3> HIDE DEF s
    <3>3. Raised([eventtab2 EXCEPT ![s] = Idle])
      BY <1>1, <3>2, RetiredRaised
    <3> QED  BY <1>2, <1>5, <3>1, <3>3
  <2>3. CASE event2_newevent_x_add_not_exists(h, d, v, base)
    BY <1>1, <1>2, <1>5, <2>3 DEF event2_newevent_x_add_not_exists
  <2> QED  BY <1>6, <2>1, <2>2, <2>3
<1>7. ASSUME NEW h \in Handlers \ (Replaceable \cup {Blitter}),
             NEW d \in Delays, NEW v \in DataOf(h),
             event2_newevent_xx(eventtab2, h, d, v, base)
      PROVE  Placed(base) \/ CodeCalled(base)
  BY <1>1, <1>2, <1>4, <1>7
<1> QED  BY <1>3, <1>6, <1>7 DEF Schedules

LEMMA ScheduledKeeps ==
    ASSUME TypeOK, NEW base, Base(base), CodeCalls(base),
           Placed(base) \/ CodeCalled(base)
    PROVE  TableInv'
<1>1. CASE Placed(base)
  <2>1. PICK tab \in [Slots -> OneShot], s \in Slots, e \in OneShot :
            /\ Raised(tab) /\ e.evtime \in 1 .. EVT_MAX
            /\ Place(tab, s, e, base) /\ next' \in MiscSlots
    BY <1>1 DEF Placed
  <2> QED  BY <2>1, PlaceKeeps, RaisedNone
<1>2. CASE CodeCalled(base)  BY <1>2, CodeCallKeeps
<1> QED  BY <1>1, <1>2

-----------------------------------------------------------------------------
(* The steps of the calls.                                                 *)

\* What is known of the call on top.
LEMMA TopIs ==
    ASSUME TableInv, stack # << >>
    PROVE  /\ Top \in StackFrames /\ Top \in Frame
           /\ ChainOf(Tail(stack), StackFrames, StackCalls, FirstFrames)
           /\ Tail(stack) # << >> => <<Top, Head(Tail(stack))>> \in StackCalls
           /\ Tail(stack) = << >> => Top \in FirstFrames
           /\ stack = <<Top>> \o Tail(stack)
           /\ Tail(stack) \in Seq(Frame) /\ Count(Tail(stack)) \in Nat
           /\ event2cnt = Count(Tail(stack)) +
                              (IF Handler(Top, "misc") THEN 1 ELSE 0)
<1>1. /\ event2cnt = Count(stack) /\ stack \in Seq(Frame)
      /\ ChainOf(stack, StackFrames, StackCalls, FirstFrames)
  BY Counted
<1>2. /\ Top \in StackFrames
      /\ ChainOf(Tail(stack), StackFrames, StackCalls, FirstFrames)
      /\ Tail(stack) # << >> => <<Top, Head(Tail(stack))>> \in StackCalls
      /\ Tail(stack) = << >> => Top \in FirstFrames
      /\ stack = <<Top>> \o Tail(stack)
  BY <1>1, ChainPop DEF Top
<1>3. Top \in Frame  BY <1>2 DEF StackFrames
<1>4. Tail(stack) \in Seq(Frame)  BY <1>1, HeadTailProperties
<1>5. Len(Tail(stack)) \in Nat /\ Count(Tail(stack)) \in 0 .. Len(Tail(stack))
  BY <1>4, CountBound, LenProperties
<1>6. Count(<<Top>> \o Tail(stack)) =
          Count(Tail(stack)) + (IF Handler(Top, "misc") THEN 1 ELSE 0)
  BY <1>4, CountPush
<1>7. Count(Tail(stack)) \in Nat  BY <1>5, SMT
<1>8. event2cnt = Count(Tail(stack)) + (IF Handler(Top, "misc") THEN 1 ELSE 0)
  BY <1>1, <1>2, <1>6
<1> QED  BY <1>2, <1>3, <1>4, <1>7, <1>8

\* Who calls what.
LEMMA Callers ==
    ASSUME NEW f, NEW g, <<f, g>> \in StackCalls
    PROVE  /\ f \in Frame /\ g \in Frame /\ CalledFrom(f, g)
           /\ f.at # "cycles"
           /\ f.at = "misc" => \/ g.at = "handler"
                               \/ g.at = "cycles" /\ g.i = ev_misc
           /\ f.at = "newevent" => g.at = "handler"
           /\ Handler(f, "misc") =>
                  g.at = "misc" /\ g.i < ev2_max /\ NotDue(g, g.i)
<1>1. /\ f \in Frame /\ g \in Frame /\ CalledFrom(f, g)
      /\ Handler(f, "misc") => NotDue(g, g.i)
  BY DEF StackCalls
<1>2. f.at # "cycles"  BY <1>1, SMT DEF CalledFrom, Handler
<1>3. f.at = "misc" => \/ g.at = "handler"
                       \/ g.at = "cycles" /\ g.i = ev_misc
  BY <1>1, SMT DEF CalledFrom, Handler
<1>4. f.at = "newevent" => g.at = "handler"
  BY <1>1, SMT DEF CalledFrom, Handler
<1>5. Handler(f, "misc") => g.at = "misc" /\ g.i < ev2_max
  BY <1>1, SMT DEF CalledFrom, Handler
<1> QED  BY <1>1, <1>2, <1>3, <1>4, <1>5

\* The clock loop is never called by another call.
LEMMA CyclesAlone ==
    ASSUME TableInv, At("cycles")
    PROVE  /\ stack = <<Top>> /\ Tail(stack) = << >> /\ event2cnt = 0
           /\ Top \in Frame /\ Top.at = "cycles" /\ Top \in StackFrames
<1>1. stack # << >> /\ Top.at = "cycles"  BY DEF At, Top
<1>2. Tail(stack) = << >>  BY <1>1, TopIs, Callers
<1>3. stack = <<Top>>
  <2>1. stack = <<Top>> \o << >>  BY <1>1, <1>2, TopIs
  <2>2. <<Top>> \in Seq({Top})  BY SMT
  <2> QED  BY <2>1, <2>2, ConcatEmptySeq
<1>4. event2cnt = 0
  <2>1. ~Handler(Top, "misc")  BY <1>1 DEF Handler
  <2>2. event2cnt = Count(Tail(stack)) + 0  BY <1>1, <2>1, TopIs
  <2>3. Count(Tail(stack)) = 0  BY <1>2, CountEmpty
  <2> QED  BY <2>2, <2>3, SMT
<1> QED  BY <1>1, <1>2, <1>3, <1>4, TopIs

LEMMA OneFrame ==
    ASSUME NEW F, NEW C, NEW B, NEW f, f \in F, f \in B
    PROVE  ChainOf(<<f>>, F, C, B) /\ Head(<<f>>) = f /\ <<f>> # << >>
<1>1. ChainOf(<< >>, F, C, B)  BY ChainEmpty
<1>2. ChainOf(<<f>> \o << >>, F, C, B)  BY <1>1, ChainPush
<1>3. <<f>> \o << >> = <<f>>
  <2>1. <<f>> \in Seq({f})  BY SMT
  <2> QED  BY <2>1, ConcatEmptySeq
<1>4. Head(<<f>>) = f /\ <<f>> # << >>  BY SMT
<1> QED  BY <1>2, <1>3, <1>4

LEMMA CountOne ==
    ASSUME NEW f, ~Handler(f, "misc")
    PROVE  Count(<<f>>) = 0
<1>1. << >> \in Seq({f}) /\ <<f>> \in Seq({f})  BY SMT
<1>2. Count(<<f>> \o << >>) = Count(<< >>) +
                                  (IF Handler(f, "misc") THEN 1 ELSE 0)
  BY <1>1, CountPush
<1>3. <<f>> \o << >> = <<f>>  BY <1>1, ConcatEmptySeq
<1> QED  BY <1>2, <1>3, CountEmpty, SMT

\* A return from a call that a scan did not make.
LEMMA ReturnKeeps ==
    ASSUME TableInv, stack # << >>, ~Handler(Top, "misc"),
           stack' = Tail(stack),
           nextevent' \in Int, eventtab' \in [0 .. ev_max - 1 -> Int],
           eventtab[ev_sync] # 0 => eventtab'[ev_sync] # 0,
           UNCHANGED <<eventtab2, event2idx, event2cnt, event2restart, next>>
    PROVE  TableInv'
<1>1. StackFrames \subseteq StackFrames' /\ StackCalls \subseteq StackCalls'
  BY FramesStay
<1>2. ScansKept'
  <2>1. ChainOf(Tail(stack), StackFrames', StackCalls', FirstFrames)
    BY <1>1, TopIs, ChainKept
  <2> QED  BY <2>1 DEF ScansKept
<1>3. event2cnt' = Count(stack')
  <2>1. event2cnt = Count(Tail(stack)) + 0 /\ Count(Tail(stack)) \in Nat
    BY TopIs
  <2> QED  BY <2>1, SMT
<1>4. TypeOK  BY Counted
<1> QED  BY <1>2, <1>3, <1>4, TableInvFrom DEF TypeOK

\* The tables change, the calls in progress stay.
LEMMA SameStackKeeps ==
    ASSUME TableInv,
           UNCHANGED <<event2idx, event2cnt, event2restart, next, stack>>,
           nextevent' \in Int, eventtab' \in [0 .. ev_max - 1 -> Int],
           eventtab[ev_sync] # 0 => eventtab'[ev_sync] # 0,
           NoneDueNow(eventtab2')
    PROVE  TableInv'
<1>1. /\ TypeOK /\ event2cnt = Count(stack)
      /\ ChainOf(stack, StackFrames, StackCalls, FirstFrames)
  BY Counted
<1>2. ScansKept'
  <2>1. StackFrames \subseteq StackFrames' /\ StackCalls \subseteq StackCalls'
    BY FramesStay DEF NoneDueNow
  <2> QED  BY <1>1, <2>1, ChainKept DEF ScansKept
<1> QED  BY <1>1, <1>2, TableInvFrom DEF TypeOK, NoneDueNow

\* An entry is armed or stopped: it is not due afterwards.
LEMMA ArmIs ==
    ASSUME TypeOK, NEW i \in 0 .. ev_max - 1,
           NEW p \in Periods \cup {EVT_MAX}, Arm(i, p)
    PROVE  /\ p \in 1 .. EVT_MAX
           /\ eventtab' \in [0 .. ev_max - 1 -> Int] /\ nextevent' \in Int
           /\ \A j \in 0 .. ev_max - 1 :
                 eventtab'[j] = IF j = i THEN p ELSE eventtab[j]
           /\ nextevent' = Scheduled(eventtab')
           /\ eventtab[ev_sync] # 0 => eventtab'[ev_sync] # 0
<1>1. p \in 1 .. EVT_MAX
  BY EventTableAssumption, Sizes, SMT DEF EventTableAssumption
<1>2. /\ eventtab' = [eventtab EXCEPT ![i] = p]
      /\ nextevent' = Scheduled(eventtab')
  BY DEF Arm
<1>3. p \in Int /\ p # 0 /\ ev_sync \in 0 .. ev_max - 1
  BY <1>1, Sizes, SMT
<1>4. /\ eventtab' \in [0 .. ev_max - 1 -> Int]
      /\ \A j \in 0 .. ev_max - 1 :
            eventtab'[j] = IF j = i THEN p ELSE eventtab[j]
  BY <1>2, <1>3 DEF TypeOK
<1> QED  BY <1>1, <1>2, <1>3, <1>4, ScheduledIs

\* The handler of an entry was called by the clock loop.
LEMMA PeriodicIs ==
    ASSUME TableInv, stack # << >>, Handler(Top, "event")
    PROVE  /\ Tail(stack) # << >> /\ stack[2] = Head(Tail(stack))
           /\ stack[2].i \in 0 .. ev_max - 1 /\ stack[2].i # ev_misc
<1>1. Top \notin FirstFrames
  BY SMT DEF FirstFrames, Handler
<1>2. Tail(stack) # << >>  BY <1>1, TopIs
<1>3. stack[2] = Head(Tail(stack))
  <2>1. stack \in Seq(Frame)  BY Counted
  <2> QED  BY <1>2, <2>1, SMT
<1>4. CalledFrom(Top, stack[2])  BY <1>2, <1>3, TopIs, Callers
<1> QED  BY <1>2, <1>3, <1>4, SMT DEF CalledFrom, Handler

LEMMA PeriodicReturnsKeeps ==
    ASSUME TableInv, PeriodicReturns PROVE TableInv'
<1>1. /\ stack # << >> /\ Handler(Top, "event") /\ ~Handler(Top, "misc")
      /\ TypeOK
  BY Counted DEF PeriodicReturns, At, Top, Handler
<1> PICK i : i = stack[2].i  OBVIOUS
<1>2. i \in 0 .. ev_max - 1  BY <1>1, PeriodicIs
<1>3. /\ eventtab' \in [0 .. ev_max - 1 -> Int] /\ nextevent' \in Int
      /\ eventtab[ev_sync] # 0 => eventtab'[ev_sync] # 0
  <2>1. ASSUME NEW p \in Periods \cup {EVT_MAX}, Arm(i, p)
        PROVE  /\ eventtab' \in [0 .. ev_max - 1 -> Int] /\ nextevent' \in Int
               /\ eventtab[ev_sync] # 0 => eventtab'[ev_sync] # 0
    BY <1>1, <1>2, <2>1, ArmIs
  <2>2. ASSUME UNCHANGED <<eventtab, nextevent>>
        PROVE  /\ eventtab' \in [0 .. ev_max - 1 -> Int] /\ nextevent' \in Int
               /\ eventtab[ev_sync] # 0 => eventtab'[ev_sync] # 0
    BY <1>1, <2>2 DEF TypeOK
  <2> QED  BY <2>1, <2>2 DEF PeriodicReturns
<1>4. /\ stack' = Tail(stack)
      /\ UNCHANGED <<eventtab2, event2idx, event2cnt, event2restart, next>>
  BY DEF PeriodicReturns
<1> QED  BY <1>1, <1>3, <1>4, ReturnKeeps

LEMMA MiscDoneKeeps ==
    ASSUME TableInv, MiscDone PROVE TableInv'
<1>1. /\ TypeOK /\ stack # << >> /\ Top.at = "misc" /\ ~Handler(Top, "misc")
      /\ Top.idx2 \in Slots /\ Top.i \in 0 .. ev2_max /\ Top.mintime \in Int
  <2>1. stack # << >> /\ Top.at = "misc"  BY DEF MiscDone, At, Top
  <2>2. Top \in Frame  BY <2>1, TopIs
  <2> QED  BY <2>1, <2>2, FrameFacts, Counted DEF Handler
<1>2. MintimeUpTo(Top, ev2_max) \in Int
  <2>1. ev2_max \in 0 .. ev2_max /\ Top.i \in Nat  BY <1>1, Sizes, SMT
  <2> QED  BY <1>1, <2>1, MintimeIs DEF TypeOK
<1>3. /\ eventtab' \in [0 .. ev_max - 1 -> Int]
      /\ eventtab'[ev_sync] = eventtab[ev_sync] /\ nextevent' \in Int
  <2>1. CASE MintimeUpTo(Top, ev2_max) < EVT_MAX
    <3>1. /\ eventtab' = [eventtab EXCEPT ![ev_misc] = MintimeUpTo(Top, ev2_max)]
          /\ nextevent' = Scheduled(eventtab')
      BY <2>1 DEF MiscDone
    <3>2. /\ eventtab' \in [0 .. ev_max - 1 -> Int]
          /\ eventtab'[ev_sync] = eventtab[ev_sync]
      <4> PICK t : t = MintimeUpTo(Top, ev2_max)  OBVIOUS
      <4>1. eventtab' = [eventtab EXCEPT ![ev_misc] = t] /\ t \in Int
        BY <1>2, <3>1
      <4>2. eventtab \in [0 .. ev_max - 1 -> Int]  BY <1>1 DEF TypeOK
      <4>3. ev_sync # ev_misc /\ ev_sync \in 0 .. ev_max - 1  BY Sizes, SMT
      <4>4. eventtab' \in [0 .. ev_max - 1 -> Int]  BY <4>1, <4>2
      <4> QED  BY <4>1, <4>2, <4>3, <4>4, Zenon
    <3> QED  BY <3>1, <3>2, ScheduledIs
  <2>2. CASE ~(MintimeUpTo(Top, ev2_max) < EVT_MAX)
    BY <1>1, <2>2 DEF MiscDone, TypeOK
  <2> QED  BY <2>1, <2>2
<1> QED  BY <1>1, <1>3, ReturnKeeps DEF MiscDone

LEMMA MiscFireKeeps ==
    ASSUME TableInv, MiscFire PROVE TableInv'
<1> DEFINE D == DueOffsets(Top)
           h == HandlerFrame("misc")
           rest == Tail(stack)
<1> PICK k : k = Least(D)  OBVIOUS
<1> PICK s : s = SlotAt(Top, k)  OBVIOUS
<1> PICK m : m = MintimeUpTo(Top, k)  OBVIOUS
<1> PICK g : g = Moved(Top, k, m)  OBVIOUS
<1>1. /\ TypeOK /\ stack # << >> /\ Top.at = "misc" /\ ~Handler(Top, "misc")
      /\ Top \in Frame /\ Top \in StackFrames
      /\ Top.idx2 \in Slots /\ Top.i \in 0 .. ev2_max /\ Top.mintime \in Int
      /\ eventtab2 \in [Slots -> OneShot]
  <2>1. stack # << >> /\ Top.at = "misc"  BY DEF MiscFire, At, Top
  <2>2. Top \in Frame /\ Top \in StackFrames  BY <2>1, TopIs
  <2> QED  BY <2>1, <2>2, FrameFacts, Counted DEF Handler, TypeOK
<1>2. D # {} /\ D \subseteq Nat /\ D \subseteq 0 .. ev2_max - 1
  <2>1. D # {}  BY DEF MiscFire
  <2>2. Top.i .. ev2_max - 1 \subseteq 0 .. ev2_max - 1  BY <1>1, Sizes, SMT
  <2>3. 0 .. ev2_max - 1 \subseteq Nat  BY SMT
  <2> QED  BY <2>1, <2>2, <2>3 DEF DueOffsets
<1>3. k \in D /\ \A j \in D : k <= j
  <2> HIDE DEF D
  <2> QED  BY <1>2, LeastNat
<1>4. k \in Nat /\ k < ev2_max /\ k \in 0 .. ev2_max /\ Top.i <= k
  BY <1>1, <1>2, <1>3, Sizes, SMT DEF DueOffsets
<1>5. s \in Slots  BY <1>1, <1>2, <1>3, ScanCovers
<1>6. m \in Int
  <2>1. Top.i \in Nat  BY <1>1, SMT
  <2> QED  BY <1>1, <1>4, <2>1, MintimeIs
<1>7. /\ eventtab2' = [eventtab2 EXCEPT ![s] = Idle]
      /\ event2cnt' = event2cnt + 1 /\ stack' = <<h, g>> \o rest
      /\ UNCHANGED <<nextevent, eventtab, event2idx, event2restart, next>>
  <2>1. [Top EXCEPT !.i = k, !.mintime = m] = Moved(Top, k, m)
    <3> PICK f : f = Top  OBVIOUS
    <3> DEFINE e == [f EXCEPT !.i = k]
    <3>1. f \in [at : {"misc"}, idx2 : Slots, i : 0 .. ev2_max, mintime : Int]
      BY <1>1, SMT DEF Frame
    <3>2. e = [at |-> "misc", idx2 |-> f.idx2, i |-> k, mintime |-> f.mintime]
      BY <3>1, SMT
    <3>3. [f EXCEPT !.i = k, !.mintime = m] = [e EXCEPT !.mintime = m]
      OBVIOUS
    <3> HIDE DEF e
    <3> QED  BY <3>2, <3>3, SMT DEF Moved
  <2>2. stack' = <<h, [Top EXCEPT !.i = k, !.mintime = m]>> \o rest
    BY DEF MiscFire
  <2> QED  BY <2>1, <2>2 DEF MiscFire
<1>8. /\ g \in Frame /\ g.at = "misc" /\ g.idx2 = Top.idx2 /\ g.i = k
  <2>1. g \in Frame  BY <1>1, <1>4, <1>6, MiscFrameMoved
  <2> QED  BY <2>1 DEF Moved
<1>9. /\ h \in Frame /\ h.at = "handler" /\ h.of = "misc"
      /\ Handler(h, "misc")
  BY NewFrames DEF Handler
<1>10. ChainOf(rest, StackFrames, StackCalls, FirstFrames)
       /\ (rest # << >> => <<Top, Head(rest)>> \in StackCalls)
       /\ rest \in Seq(Frame) /\ Count(rest) \in Nat /\ event2cnt = Count(rest)
  <2>1. Count(rest) \in Nat /\ event2cnt = Count(rest) + 0  BY <1>1, TopIs
  <2>2. event2cnt = Count(rest)  BY <2>1, SMT
  <2> QED  BY <1>1, <2>1, <2>2, TopIs
<1>11. stack' = <<h>> \o (<<g>> \o rest)  BY <1>7, <1>10, TwoFrames
<1>12. /\ eventtab2' \in [Slots -> OneShot]
       /\ \A t \in Slots : eventtab2'[t].evtime =
                               IF t = s THEN EVT_MAX ELSE eventtab2[t].evtime
  BY <1>1, <1>5, <1>7, Retired
<1> HIDE DEF D, h, rest
<1>13. StackFrames \subseteq StackFrames' /\ StackCalls \subseteq StackCalls'
  <2>1. EVT_MAX # 0  BY Sizes, SMT
  <2> QED  BY <1>7, <1>12, <2>1, FramesStay
<1>14. \A j \in 0 .. k : NotDue(g, j)'
  <2> SUFFICES ASSUME NEW j \in 0 .. k PROVE NotDue(g, j)'  OBVIOUS
  <2>1. j \in 0 .. ev2_max - 1 /\ EVT_MAX # 0 /\ j \in Nat
    BY <1>4, Sizes, SMT
  <2>2. SlotAt(g, j) = SlotAt(Top, j) /\ SlotAt(g, j)' = SlotAt(g, j)
    BY <1>8 DEF SlotAt
  <2>3. SlotAt(Top, j) \in Slots  BY <1>1, <2>1, ScanCovers
  <2>4. CASE j < Top.i
    <3>1. j \in 0 .. Top.i - 1  BY <1>1, <2>1, <2>4, SMT
    <3>2. NotDue(Top, j)  BY <1>1, <3>1 DEF StackFrames
    <3> QED  BY <3>2, <1>12, <2>1, <2>2, <2>3 DEF NotDue
  <2>5. CASE Top.i <= j /\ j < k
    <3>1. j \in Top.i .. ev2_max - 1  BY <1>1, <2>1, <2>5, SMT
    <3>2. j \notin D  BY <1>3, <1>4, <2>1, <2>5, SMT
    <3>3. eventtab2[SlotAt(Top, j)].evtime # 0
      BY <3>1, <3>2 DEF D, DueOffsets
    <3> QED  BY <3>3, <1>12, <2>1, <2>2, <2>3 DEF NotDue
  <2>6. CASE j = k
    BY <1>12, <2>1, <2>2, <2>3, <2>6 DEF NotDue
  <2> QED  BY <1>1, <1>4, <2>1, <2>4, <2>5, <2>6, SMT
<1>15. g \in StackFrames' /\ g \in FirstFrames
  <2>1. 0 .. g.i - 1 \subseteq 0 .. k  BY <1>4, <1>8, SMT
  <2> QED  BY <1>8, <1>14, <2>1 DEF StackFrames, FirstFrames
<1>16. h \in StackFrames'  BY <1>9 DEF StackFrames
<1>17. <<h, g>> \in StackCalls'
  <2>1. g.i \in 0 .. k  BY <1>4, <1>8, SMT
  <2>2. NotDue(g, g.i)'  BY <1>14, <2>1
  <2>3. CalledFrom(h, g)  BY <1>4, <1>8, <1>9 DEF CalledFrom
  <2> QED  BY <1>8, <1>9, <2>2, <2>3 DEF StackCalls
<1>18. rest # << >> => <<g, Head(rest)>> \in StackCalls'
  <2> SUFFICES ASSUME rest # << >> PROVE <<g, Head(rest)>> \in StackCalls'
    OBVIOUS
  <2>1. Head(rest) \in Frame /\ CalledFrom(Top, Head(rest))
    BY <1>10, Callers
  <2>2. CalledFrom(g, Head(rest)) /\ ~Handler(g, "misc")
    BY <1>1, <1>8, <2>1 DEF CalledFrom, Handler
  <2> QED  BY <1>8, <2>1, <2>2, PlainCall
<1>19. ChainOf(rest, StackFrames', StackCalls', FirstFrames)
  BY <1>10, <1>13, ChainKept
<1> DEFINE b == <<g>> \o rest
<1>20. ChainOf(b, StackFrames', StackCalls', FirstFrames)
  BY <1>15, <1>18, <1>19, ChainPush
<1>21. b # << >>  BY <1>15, <1>18, <1>19, ChainPush
<1>22. Head(b) = g  BY <1>15, <1>18, <1>19, ChainPush
<1>23. Count(b) = Count(rest)
  <2>1. Count(b) = Count(rest) + (IF Handler(g, "misc") THEN 1 ELSE 0)
    BY <1>10, CountPush
  <2>2. ~Handler(g, "misc")  BY <1>8 DEF Handler
  <2> QED  BY <2>1, <2>2, <1>10, SMT
<1> HIDE DEF b
<1>24. /\ ScansKept'
       /\ Count(stack') = Count(b) + (IF Handler(h, "misc") THEN 1 ELSE 0)
  BY <1>11, <1>16, <1>17, <1>20, <1>21, <1>22, Pushed DEF b
<1>25. event2cnt' = Count(stack')  BY <1>7, <1>9, <1>10, <1>23, <1>24, SMT
<1> QED  BY <1>1, <1>7, <1>12, <1>24, <1>25, TableInvFrom DEF TypeOK

\* A scan goes on after a handler it called.
LEMMA ScanGoesOn ==
    ASSUME TableInv, stack # << >>, Handler(Top, "misc"),
           NEW f, f = stack[2], NEW j \in 0 .. ev2_max, NEW m \in Int,
           \A k \in 0 .. j - 1 : NotDue(f, k),
           stack' = <<Moved(f, j, m)>> \o Tail(Tail(stack)),
           event2cnt' = event2cnt - 1, event2restart' \in 0 .. MaxRestart,
           UNCHANGED <<nextevent, eventtab, eventtab2, event2idx, next>>
    PROVE  TableInv'
<1> PICK g : g = Moved(f, j, m)  OBVIOUS
<1> DEFINE t == Tail(stack)
           rest == Tail(t)
<1>1. t # << >> /\ Top.at = "handler" /\ Top.of = "misc"
  <2>1. Top \notin FirstFrames  BY DEF FirstFrames, Handler
  <2> QED  BY <2>1, TopIs DEF Handler
<1>2. f = Head(t)
  <2>1. stack \in Seq(Frame)  BY Counted
  <2> QED  BY <1>1, <2>1, SMT
<1>3. /\ <<Top, f>> \in StackCalls /\ t \in Seq(Frame)
      /\ ChainOf(t, StackFrames, StackCalls, FirstFrames)
      /\ event2cnt = Count(t) + 1 /\ Count(t) \in Nat
  BY <1>1, <1>2, TopIs
<1>4. f \in Frame /\ f.at = "misc"  BY <1>1, <1>3, Callers DEF Handler
<1> HIDE DEF t
<1>5. /\ ChainOf(rest, StackFrames, StackCalls, FirstFrames)
      /\ rest # << >> => <<f, Head(rest)>> \in StackCalls
      /\ t = <<f>> \o rest
  <2>1. ChainOf(Tail(t), StackFrames, StackCalls, FirstFrames)
    BY <1>1, <1>3, ChainPop
  <2>2. Tail(t) # << >> => <<Head(t), Head(Tail(t))>> \in StackCalls
    BY <1>1, <1>3, ChainPop
  <2>3. t = <<Head(t)>> \o Tail(t)  BY <1>1, <1>3, ChainPop
  <2> QED  BY <1>2, <2>1, <2>2, <2>3
<1>6. rest \in Seq(Frame)  BY <1>1, <1>3, HeadTailProperties
<1> HIDE DEF rest
<1>7. Count(rest) \in Nat
  <2>1. Len(rest) \in Nat /\ Count(rest) \in 0 .. Len(rest)
    BY <1>6, CountBound, LenProperties
  <2> QED  BY <2>1, SMT
<1>8. Count(t) = Count(rest)
  <2>1. Count(<<f>> \o rest) = Count(rest) +
                                   (IF Handler(f, "misc") THEN 1 ELSE 0)
    BY <1>6, CountPush
  <2>2. ~Handler(f, "misc")  BY <1>4 DEF Handler
  <2> QED  BY <2>1, <2>2, <1>5, <1>7, SMT
<1>9. /\ g \in Frame /\ g.at = "misc" /\ g.idx2 = f.idx2 /\ g.i = j
      /\ ~Handler(g, "misc") /\ g \in FirstFrames
  <2>1. g \in Frame  BY <1>4, MiscFrameMoved
  <2> QED  BY <2>1 DEF Moved, Handler, FirstFrames
<1>10. \A k \in 0 .. j - 1 : NotDue(g, k)'
  BY <1>9 DEF NotDue, SlotAt
<1>11. g \in StackFrames'  BY <1>9, <1>10 DEF StackFrames
<1>12. rest # << >> => <<g, Head(rest)>> \in StackCalls'
  <2> SUFFICES ASSUME rest # << >> PROVE <<g, Head(rest)>> \in StackCalls'
    OBVIOUS
  <2>1. Head(rest) \in Frame /\ CalledFrom(f, Head(rest))
    BY <1>5, Callers
  <2>2. CalledFrom(g, Head(rest))
    BY <1>4, <1>9, <2>1 DEF CalledFrom, Handler
  <2> QED  BY <1>9, <2>1, <2>2, PlainCall
<1>13. ChainOf(rest, StackFrames', StackCalls', FirstFrames)
  <2>1. StackFrames \subseteq StackFrames' /\ StackCalls \subseteq StackCalls'
    BY FramesStay
  <2> QED  BY <2>1, <1>5, ChainKept
<1>14. /\ ScansKept'
       /\ Count(stack') = Count(rest) + (IF Handler(g, "misc") THEN 1 ELSE 0)
  <2>1. stack' = <<g>> \o rest  BY DEF rest, t
  <2> QED  BY <1>9, <1>11, <1>12, <1>13, <2>1, Pushed
<1>15. event2cnt' = Count(stack')
  BY <1>3, <1>7, <1>8, <1>9, <1>14, SMT
<1>16. TypeOK  BY Counted
<1> QED  BY <1>14, <1>15, <1>16, TableInvFrom DEF TypeOK

LEMMA HandlerReturnsKeeps ==
    ASSUME TableInv, HandlerReturns PROVE TableInv'
<1>1. stack # << >> /\ Top.at = "handler" /\ TypeOK
  BY Counted DEF HandlerReturns, At, Top
<1>2. UNCHANGED <<nextevent, eventtab, eventtab2, event2idx, next>>
  BY DEF HandlerReturns
<1>3. CASE Top.of # "misc"
  <2>1. /\ stack' = Tail(stack) /\ UNCHANGED <<event2cnt, event2restart>>
        /\ ~Handler(Top, "misc")
    BY <1>3 DEF HandlerReturns, Handler
  <2> QED  BY <1>1, <1>2, <2>1, ReturnKeeps DEF TypeOK
<1>4. CASE Top.of = "misc"
  <2> PICK f : f = stack[2]  OBVIOUS
  <2>1. Handler(Top, "misc")  BY <1>1, <1>4 DEF Handler
  <2>2. Tail(stack) # << >>
    <3>1. Top \notin FirstFrames  BY <1>1, <1>4 DEF FirstFrames
    <3> QED  BY <1>1, <3>1, TopIs
  <2>3. f = Head(Tail(stack))
    <3>1. stack \in Seq(Frame)  BY Counted
    <3> QED  BY <1>1, <2>2, <3>1, SMT
  <2>4. <<Top, f>> \in StackCalls /\ f \in StackFrames
    <3>1. /\ <<Top, f>> \in StackCalls
          /\ ChainOf(Tail(stack), StackFrames, StackCalls, FirstFrames)
      BY <1>1, <2>2, <2>3, TopIs
    <3>2. Head(Tail(stack)) \in StackFrames  BY <2>2, <3>1, ChainPop
    <3> QED  BY <2>3, <3>1, <3>2
  <2>5. /\ f \in Frame /\ f.at = "misc" /\ f.i < ev2_max /\ NotDue(f, f.i)
    BY <2>1, <2>4, Callers
  <2>6. f \in [at : {"misc"}, idx2 : Slots, i : 0 .. ev2_max, mintime : Int]
    BY <2>5, SMT DEF Frame
  <2>7. \A k \in 0 .. f.i : NotDue(f, k)
    <3> TAKE k \in 0 .. f.i
    <3>1. k = f.i \/ k \in 0 .. f.i - 1  BY <2>6, SMT
    <3>2. \A i \in 0 .. f.i - 1 : NotDue(f, i)
      BY <2>4, <2>5 DEF StackFrames
    <3> QED  BY <3>1, <3>2, <2>5
  <2>8. ReturnToMisc(f)  BY <1>4 DEF HandlerReturns
  <2>9. CASE event2restart > 0
    <3>1. [f EXCEPT !.i = RestartOffset, !.mintime = EVT_MAX]
              = Moved(f, 1, EVT_MAX)
      <4> DEFINE e == [f EXCEPT !.i = RestartOffset]
      <4>1. e = [at |-> "misc", idx2 |-> f.idx2, i |-> 1,
                 mintime |-> f.mintime]
        BY <2>6, SMT DEF RestartOffset
      <4>2. [f EXCEPT !.i = RestartOffset, !.mintime = EVT_MAX]
                = [e EXCEPT !.mintime = EVT_MAX]
        OBVIOUS
      <4> HIDE DEF e
      <4> QED  BY <4>1, <4>2, SMT DEF Moved
    <3>2. /\ event2cnt' = event2cnt - 1
          /\ event2restart' = event2restart - 1
          /\ stack' = <<[f EXCEPT !.i = RestartOffset, !.mintime = EVT_MAX]>>
                          \o Tail(Tail(stack))
      BY <2>8, <2>9 DEF ReturnToMisc
    <3>3. stack' = <<Moved(f, 1, EVT_MAX)>> \o Tail(Tail(stack))
      BY <3>1, <3>2
    <3>4. event2restart' \in 0 .. MaxRestart
      BY <1>1, <2>9, <3>2, Sizes, SMT DEF TypeOK
    <3>5. 1 \in 0 .. ev2_max /\ EVT_MAX \in Int /\ 0 .. 1 - 1 \subseteq 0 .. f.i
      BY <2>6, Sizes, SMT
    <3>6. \A k \in 0 .. 1 - 1 : NotDue(f, k)  BY <2>7, <3>5
    <3> QED  BY <1>1, <1>2, <2>1, <3>2, <3>3, <3>4, <3>5, <3>6, ScanGoesOn
  <2>10. CASE ~(event2restart > 0)
    <3>1. [f EXCEPT !.i = f.i + 1] = Moved(f, f.i + 1, f.mintime)
      BY <2>6, SMT DEF Moved
    <3>2. /\ event2cnt' = event2cnt - 1 /\ event2restart' = event2restart
          /\ stack' = <<[f EXCEPT !.i = f.i + 1]>> \o Tail(Tail(stack))
      BY <2>8, <2>10 DEF ReturnToMisc
    <3>3. stack' = <<Moved(f, f.i + 1, f.mintime)>> \o Tail(Tail(stack))
      BY <3>1, <3>2
    <3>4. event2restart' \in 0 .. MaxRestart  BY <1>1, <3>2 DEF TypeOK
    <3>5. /\ f.i + 1 \in 0 .. ev2_max /\ f.mintime \in Int
          /\ 0 .. (f.i + 1) - 1 \subseteq 0 .. f.i
      BY <2>5, <2>6, Sizes, SMT
    <3>6. \A k \in 0 .. (f.i + 1) - 1 : NotDue(f, k)  BY <2>7, <3>5
    <3> QED  BY <1>1, <1>2, <2>1, <3>2, <3>3, <3>4, <3>5, <3>6, ScanGoesOn
  <2> QED  BY <2>9, <2>10
<1> QED  BY <1>3, <1>4

LEMMA ResumeKeeps ==
    ASSUME TableInv, ResumeNewEvent PROVE TableInv'
<1>1. stack # << >> /\ Top.at = "newevent" /\ ~Handler(Top, "misc")
  BY DEF ResumeNewEvent, At, Top, Handler
<1>2. /\ Top \in Frame /\ Top \in StackFrames /\ TypeOK
      /\ Top.no \in MiscSlots /\ Top.event \in OneShot
      /\ Top.event.evtime \in 1 .. EVT_MAX
  <2>1. Top \in Frame /\ Top \in StackFrames /\ TypeOK  BY <1>1, TopIs, Counted
  <2> QED  BY <1>1, <2>1, FrameFacts DEF StackFrames
<1>3. /\ ChainOf(Tail(stack), StackFrames, StackCalls, FirstFrames)
      /\ Tail(stack) # << >> => <<Top, Head(Tail(stack))>> \in StackCalls
      /\ Count(Tail(stack)) \in Nat /\ event2cnt = Count(Tail(stack)) + 0
  BY <1>1, TopIs
<1>4. Base(Tail(stack))
  <2>1. Count(Tail(stack)) = event2cnt  BY <1>3, SMT
  <2> QED  BY <1>3, <2>1 DEF Base
<1>5. CodeCalls(Tail(stack))  BY <1>1, <1>3, Callers DEF CodeCalls
<1>6. Raised(eventtab2)  BY <1>2 DEF TypeOK, Raised
<1>7. Search(eventtab2, Top.no, Top.event, Tail(stack))  BY DEF ResumeNewEvent
<1>8. Placed(Tail(stack)) \/ CodeCalled(Tail(stack))
  BY <1>2, <1>6, <1>7, SearchIs
<1> QED  BY <1>2, <1>4, <1>5, <1>8, ScheduledKeeps

-----------------------------------------------------------------------------
(* The clock loop and the steps of the CPU.                                *)

LEMMA LaterIs ==
    ASSUME NEW t \in Int, NEW d \in Int
    PROVE  Later(t, d) \in Int
BY Sizes, SMT DEF Later

\* With no call in progress, or the clock loop alone at its head or leaving it,
\* any table will do.
LEMMA AloneKeeps ==
    ASSUME \/ stack' = << >>
           \/ \E left \in Int, i \in {0, LoopHead} :
                 stack' = <<CyclesFrame(left, i)>>,
           nextevent' \in Int, eventtab' \in [0 .. ev_max - 1 -> Int],
           eventtab2' \in [Slots -> OneShot],
           TypeOK, event2cnt = 0,
           UNCHANGED <<event2idx, event2cnt, event2restart, next>>
    PROVE  TableInv'
<1>1. ScansKept' /\ Count(stack') = 0
  <2>1. CASE stack' = << >>
    BY <2>1, ChainEmpty, CountEmpty DEF ScansKept
  <2>2. ASSUME NEW left \in Int, NEW i \in {0, LoopHead},
               stack' = <<CyclesFrame(left, i)>>
        PROVE  ScansKept' /\ Count(stack') = 0
    <3> PICK f : f = CyclesFrame(left, i)  OBVIOUS
    <3>1. i \in 0 .. LoopHead /\ i \notin 1 .. ev_max  BY Sizes, SMT
    <3>2. f \in Frame /\ f.at = "cycles" /\ f.i = i
      BY <3>1, NewFrames
    <3>3. f \in StackFrames' /\ f \in FirstFrames /\ ~Handler(f, "misc")
      BY <3>1, <3>2 DEF StackFrames, FirstFrames, Handler
    <3>4. stack' = <<f>>  BY <2>2
    <3> QED  BY <3>3, <3>4, OneFrame, CountOne DEF ScansKept
  <2> QED  BY <2>1, <2>2
<1> QED  BY <1>1, TableInvFrom DEF TypeOK

LEMMA QuietIs ==
    ASSUME TableInv, Quiet
    PROVE  stack = << >> /\ event2cnt = 0 /\ TypeOK /\ Base(<< >>)
<1>1. stack = << >> /\ TypeOK /\ event2cnt = Count(stack)
  BY Counted DEF Quiet
<1>2. event2cnt = 0  BY <1>1, CountEmpty
<1> QED  BY <1>1, <1>2, CountEmpty, ChainEmpty DEF Base

LEMMA AdvanceTypes ==
    ASSUME TypeOK, NEW d \in Int, AdvanceBy(d)
    PROVE  /\ nextevent' \in Int /\ eventtab' \in [0 .. ev_max - 1 -> Int]
           /\ eventtab2' \in [Slots -> OneShot]
           /\ \A s \in Slots :
                 eventtab2'[s].evtime = Later(eventtab2[s].evtime, d)
           /\ UNCHANGED <<event2idx, event2cnt, event2restart, next>>
<1>1. /\ eventtab' = [i \in DOMAIN eventtab |-> Later(eventtab[i], d)]
      /\ eventtab2' = [s \in Slots |->
                          [eventtab2[s] EXCEPT !.evtime = Later(@, d)]]
      /\ nextevent' = Later(nextevent, d)
      /\ UNCHANGED <<event2idx, event2cnt, event2restart, next>>
  BY DEF AdvanceBy
<1>2. nextevent' \in Int /\ eventtab' \in [0 .. ev_max - 1 -> Int]
  BY <1>1, LaterIs DEF TypeOK
<1>3. ASSUME NEW s \in Slots
      PROVE  /\ eventtab2'[s] \in OneShot
             /\ eventtab2'[s].evtime = Later(eventtab2[s].evtime, d)
  <2>1. eventtab2[s] \in [evtime : Int, handler : Handlers, data : SUBSET Bits]
    BY DEF TypeOK, OneShot
  <2> PICK l : l = Later(eventtab2[s].evtime, d)  OBVIOUS
  <2>2. l \in Int  BY <2>1, LaterIs
  <2>3. eventtab2'[s] = [eventtab2[s] EXCEPT !.evtime = l]  BY <1>1
  <2>4. /\ eventtab2'[s] \in [evtime : Int, handler : Handlers,
                              data : SUBSET Bits]
        /\ eventtab2'[s].evtime = l
    BY <2>1, <2>2, <2>3
  <2> QED  BY <2>4 DEF OneShot
<1>4. eventtab2' \in [Slots -> OneShot]  BY <1>1, <1>3
<1> QED  BY <1>1, <1>2, <1>3, <1>4

LEMMA CyclesStepKeeps ==
    ASSUME TableInv, CyclesToNextEvent \/ CyclesDone \/ CyclesScanned
    PROVE  TableInv'
<1>1. At("cycles")  BY DEF CyclesToNextEvent, CyclesDone, CyclesScanned
<1>2. /\ event2cnt = 0 /\ TypeOK /\ nextevent \in Int /\ Top.left \in Int
      /\ Top \in [at : {"cycles"}, left : Int, i : 0 .. LoopHead]
  <2>1. event2cnt = 0 /\ Top \in Frame /\ Top.at = "cycles" /\ TypeOK
    BY <1>1, CyclesAlone, Counted
  <2>2. Top \in [at : {"cycles"}, left : Int, i : 0 .. LoopHead]
    BY <2>1, SMT DEF Frame
  <2> QED  BY <2>1, <2>2, FrameFacts DEF TypeOK
<1>3. CASE CyclesToNextEvent
  <2>1. /\ AdvanceBy(nextevent)
        /\ stack' = <<CyclesFrame(Top.left - nextevent, 0)>>
        /\ Top.left - nextevent \in Int
    BY <1>2, <1>3, SMT DEF CyclesToNextEvent
  <2> QED  BY <1>2, <2>1, AdvanceTypes, AloneKeeps
<1>4. CASE CyclesDone
  <2>1. AdvanceBy(Top.left) /\ stack' = << >>  BY <1>4 DEF CyclesDone
  <2> QED  BY <1>2, <2>1, AdvanceTypes, AloneKeeps
<1>5. CASE CyclesScanned
  <2>1. /\ nextevent' = Scheduled(eventtab)
        /\ stack' = <<[Top EXCEPT !.i = LoopHead]>>
        /\ UNCHANGED <<eventtab, eventtab2, event2idx, event2cnt,
                       event2restart, next>>
    BY <1>5 DEF CyclesScanned
  <2>2. [Top EXCEPT !.i = LoopHead] = CyclesFrame(Top.left, LoopHead)
    BY <1>2, SMT DEF CyclesFrame
  <2>3. nextevent' \in Int  BY <1>2, <2>1, ScheduledIs DEF TypeOK
  <2> QED  BY <1>2, <2>1, <2>2, <2>3, AloneKeeps DEF TypeOK
<1> QED  BY <1>3, <1>4, <1>5

LEMMA CyclesServeKeeps ==
    ASSUME TableInv, CyclesServe PROVE TableInv'
<1> PICK i : i = Least(DueEntries)  OBVIOUS
<1> PICK c : c = CyclesFrame(Top.left, i)  OBVIOUS
<1>1. At("cycles") /\ DueEntries # {} /\ Top.i <= ev_max  BY DEF CyclesServe
<1>2. /\ event2cnt = 0 /\ TypeOK /\ Top \in StackFrames /\ Top.at = "cycles"
      /\ Top.left \in Int /\ Top.i \in 0 .. LoopHead
      /\ Top \in [at : {"cycles"}, left : Int, i : 0 .. LoopHead]
  <2>1. /\ event2cnt = 0 /\ Top \in Frame /\ Top.at = "cycles" /\ TypeOK
        /\ Top \in StackFrames
    BY <1>1, CyclesAlone, Counted
  <2>2. Top \in [at : {"cycles"}, left : Int, i : 0 .. LoopHead]
    BY <2>1, SMT DEF Frame
  <2> QED  BY <2>1, <2>2, FrameFacts
<1>3. i \in DueEntries /\ \A j \in DueEntries : i <= j
  <2>1. DueEntries \subseteq Nat  BY <1>2, SMT DEF DueEntries
  <2> QED  BY <1>1, <2>1, LeastNat
<1>4. /\ i \in 0 .. ev_max - 1 /\ i \in 0 .. LoopHead
      /\ i # ev_sync => i \in 1 .. ev_max
  BY <1>2, <1>3, Sizes, SMT DEF DueEntries
<1>5. i # ev_sync => eventtab[ev_sync] # 0
  <2>1. CASE Top.i = 0
    <3>1. i # ev_sync => ev_sync \notin DueEntries
      BY <1>3, <1>4, Sizes, SMT
    <3>2. ev_sync \in Top.i .. ev_max - 1  BY <2>1, Sizes, SMT
    <3> QED  BY <3>1, <3>2 DEF DueEntries
  <2>2. CASE Top.i # 0
    <3>1. Top.i \in 1 .. ev_max  BY <1>1, <1>2, <2>2, Sizes, SMT
    <3> QED  BY <1>2, <3>1 DEF StackFrames
  <2> QED  BY <2>1, <2>2
<1>6. [Top EXCEPT !.i = i] = c  BY <1>2, SMT DEF CyclesFrame
<1>7. /\ c \in Frame /\ c.at = "cycles" /\ c.i = i /\ c \in StackFrames
      /\ c \in FirstFrames /\ ~Handler(c, "misc")
  <2>1. c \in Frame /\ c.at = "cycles" /\ c.i = i
    BY <1>2, <1>4, NewFrames
  <2>2. i \in 1 .. ev_max => i # ev_sync  BY Sizes, SMT
  <2> QED  BY <1>5, <2>1, <2>2 DEF FirstFrames, Handler, StackFrames
<1>8. CASE i = ev_misc
  <2>1. /\ EnterMisc(event2idx, <<c>>)
        /\ UNCHANGED <<eventtab2, next>>
    BY <1>6, <1>8 DEF CyclesServe
  <2>3. Base(<<c>>) /\ Head(<<c>>) = c
    BY <1>2, <1>7, OneFrame, CountOne DEF Base
  <2>4. NoneDueNow(eventtab2') /\ next' \in MiscSlots /\ event2idx \in Slots
    BY <1>2, <2>1 DEF TypeOK, NoneDueNow
  <2> QED  BY <1>2, <1>7, <1>8, <2>1, <2>3, <2>4, EnterMiscKeeps
<1>9. CASE i # ev_misc
  <2>1. /\ stack' = <<HandlerFrame("event")>> \o <<c>>
        /\ UNCHANGED <<nextevent, eventtab, eventtab2, event2idx, event2cnt,
                       event2restart, next>>
    BY <1>6, <1>9 DEF CyclesServe
  <2>2. StackFrames \subseteq StackFrames'  BY <2>1, FramesStay
  <2>3. c \in StackFrames'  BY <1>7, <2>2
  <2> PICK h : h = HandlerFrame("event")  OBVIOUS
  <2>4. /\ h \in Frame /\ h.at = "handler" /\ h.of = "event"
        /\ ~Handler(h, "misc") /\ Handler(h, "event")
    BY NewFrames DEF Handler
  <2>5. h \in StackFrames'  BY <2>4 DEF StackFrames
  <2>6. <<h, c>> \in StackCalls'
    BY <1>4, <1>7, <1>9, <2>4, PlainCall DEF CalledFrom
  <2>7. /\ ChainOf(<<c>>, StackFrames', StackCalls', FirstFrames)
        /\ Head(<<c>>) = c /\ <<c>> # << >>
    BY <1>7, <2>3, OneFrame
  <2>8. stack' = <<h>> \o <<c>>  BY <2>1
  <2>9. /\ ScansKept'
        /\ Count(stack') = Count(<<c>>) + (IF Handler(h, "misc") THEN 1 ELSE 0)
    BY <2>5, <2>6, <2>7, <2>8, Pushed
  <2>10. Count(stack') = 0  BY <1>7, <2>4, <2>9, CountOne, SMT
  <2> QED  BY <1>2, <2>1, <2>9, <2>10, TableInvFrom DEF TypeOK
<1> QED  BY <1>8, <1>9

\* A handler that schedules is a base to call from.
LEMMA HandlerBase ==
    ASSUME TableInv, stack # << >>, Top.at = "handler", Top.left > 0,
           NEW b, b = <<[Top EXCEPT !.left = @ - 1]>> \o Tail(stack)
    PROVE  Base(b) /\ CodeCalls(b) /\ b # << >>
<1> PICK g : g = [Top EXCEPT !.left = @ - 1]  OBVIOUS
<1> DEFINE rest == Tail(stack)
<1>1. stack # << >> /\ Top.at = "handler" /\ Top.left > 0 /\ b = <<g>> \o rest
  OBVIOUS
<1>2. /\ Top \in Frame /\ Top \in StackFrames /\ TypeOK
      /\ ChainOf(rest, StackFrames, StackCalls, FirstFrames)
      /\ rest # << >> => <<Top, Head(rest)>> \in StackCalls
      /\ rest = << >> => Top \in FirstFrames
      /\ rest \in Seq(Frame) /\ Count(rest) \in Nat
      /\ event2cnt = Count(rest) + (IF Handler(Top, "misc") THEN 1 ELSE 0)
  BY <1>1, TopIs, Counted
<1>3. g \in Frame /\ g.at = "handler" /\ g.of = Top.of
  <2>1. Top \in [at : {"handler"}, of : {"event", "misc", "newevent", "direct"},
                 left : Nat]
    BY <1>1, <1>2, SMT DEF Frame
  <2>2. g = [at |-> "handler", of |-> Top.of, left |-> Top.left - 1]
    BY <2>1, SMT
  <2>3. g \in [at : {"handler"}, of : {"event", "misc", "newevent", "direct"},
               left : Nat]
    BY <1>1, <2>1, <2>2, SMT
  <2> QED  BY <2>2, <2>3 DEF Frame
<1>4. \A of : Handler(g, of) <=> Handler(Top, of)
  BY <1>1, <1>3 DEF Handler
<1>5. g \in StackFrames /\ (Top \in FirstFrames => g \in FirstFrames)
  BY <1>1, <1>3 DEF StackFrames, FirstFrames
<1> HIDE DEF rest
<1>6. rest # << >> => <<g, Head(rest)>> \in StackCalls
  <2> SUFFICES ASSUME rest # << >> PROVE <<g, Head(rest)>> \in StackCalls
    OBVIOUS
  <2>1. /\ Head(rest) \in Frame /\ CalledFrom(Top, Head(rest))
        /\ Handler(Top, "misc") => NotDue(Head(rest), Head(rest).i)
    BY <1>2, Callers
  <2>2. CalledFrom(g, Head(rest))
    BY <1>1, <1>3, <1>4, <2>1 DEF CalledFrom
  <2> QED  BY <1>3, <1>4, <2>1, <2>2 DEF StackCalls
<1>7. ChainOf(<<g>> \o rest, StackFrames, StackCalls, FirstFrames)
  BY <1>2, <1>5, <1>6, ChainPush
<1>8. Head(<<g>> \o rest) = g  BY <1>2, <1>5, <1>6, ChainPush
<1>9. <<g>> \o rest # << >>  BY <1>2, <1>5, <1>6, ChainPush
<1>10. Count(<<g>> \o rest) = event2cnt
  <2>1. Count(<<g>> \o rest) = Count(rest) +
                                   (IF Handler(g, "misc") THEN 1 ELSE 0)
    BY <1>2, CountPush
  <2> QED  BY <2>1, <1>2, <1>4
<1> QED  BY <1>1, <1>3, <1>7, <1>8, <1>9, <1>10 DEF Base, CodeCalls

LEMMA HandlerSchedulesKeeps ==
    ASSUME TableInv, HandlerSchedules PROVE TableInv'
<1> PICK b : b = <<[Top EXCEPT !.left = @ - 1]>> \o Tail(stack)  OBVIOUS
<1>1. stack # << >> /\ Top.at = "handler" /\ Top.left > 0 /\ Schedules(b)
  BY DEF HandlerSchedules, At, Top
<1>2. TypeOK  BY Counted
<1>3. Base(b) /\ CodeCalls(b)  BY <1>1, HandlerBase
<1>4. Placed(b) \/ CodeCalled(b)  BY <1>1, <1>2, SchedulesIs
<1> QED  BY <1>2, <1>3, <1>4, ScheduledKeeps

LEMMA CpuKeeps ==
    ASSUME TableInv, Emulate \/ CpuSchedules PROVE TableInv'
<1>1. Quiet  BY DEF Emulate, DoCycles, CpuSchedules
<1>2. stack = << >> /\ event2cnt = 0 /\ TypeOK /\ Base(<< >>)
  BY <1>1, QuietIs
<1>3. CASE Emulate
  <2>1. PICK n \in 1 .. MaxCycles : DoCycles(n)  BY <1>3 DEF Emulate
  <2>2. n \in Int  BY SMT
  <2> QED  BY <1>2, <2>1, <2>2, AloneKeeps DEF DoCycles, TypeOK
<1>4. CASE CpuSchedules
  <2>1. Schedules(<< >>) /\ CodeCalls(<< >>)
    BY <1>4 DEF CpuSchedules, CodeCalls
  <2>2. Placed(<< >>) \/ CodeCalled(<< >>)  BY <1>2, <2>1, SchedulesIs
  <2> QED  BY <1>2, <2>1, <2>2, ScheduledKeeps
<1> QED  BY <1>3, <1>4

LEMMA ArmsKeeps ==
    ASSUME TableInv, Arms PROVE TableInv'
<1>1. PICK i \in Periodic, p \in Periods \cup {EVT_MAX} : Arm(i, p)
  BY DEF Arms
<1>2. UNCHANGED <<eventtab2, event2idx, event2cnt, event2restart, next, stack>>
  BY DEF Arms
<1>3. TypeOK  BY Counted
<1>4. i \in 0 .. ev_max - 1  BY PeriodicEntries
<1>5. /\ eventtab' \in [0 .. ev_max - 1 -> Int] /\ nextevent' \in Int
      /\ eventtab[ev_sync] # 0 => eventtab'[ev_sync] # 0
  BY <1>1, <1>3, <1>4, ArmIs
<1>6. NoneDueNow(eventtab2')  BY <1>2, <1>3 DEF NoneDueNow, TypeOK
<1> QED  BY <1>2, <1>5, <1>6, SameStackKeeps

\* All events of all tables are gone.
LEMMA ClearIs ==
    ASSUME TypeOK, ClearEvents
    PROVE  /\ nextevent' = EVT_MAX
           /\ eventtab' \in [0 .. ev_max - 1 -> Int]
           /\ \A i \in 0 .. ev_max - 1 : eventtab'[i] = EVT_MAX
           /\ eventtab2' \in [Slots -> OneShot]
           /\ \A s \in Slots : eventtab2'[s].evtime = EVT_MAX
           /\ UNCHANGED <<event2idx, event2cnt, event2restart, next, stack>>
<1>1. /\ nextevent' = EVT_MAX
      /\ eventtab' = [i \in DOMAIN eventtab |-> EVT_MAX]
      /\ eventtab2' = [s \in Slots |-> Idle]
      /\ UNCHANGED <<event2idx, event2cnt, event2restart, next, stack>>
  BY DEF ClearEvents
<1>2. EVT_MAX \in Int  BY Sizes, SMT
<1>3. Idle \in OneShot /\ Idle.evtime = EVT_MAX
  <2>1. 0 \in Slots  BY Sizes, SMT
  <2> QED  BY <2>1, Retired DEF TypeOK
<1> QED  BY <1>1, <1>2, <1>3 DEF TypeOK

LEMMA ClearEventsKeeps ==
    ASSUME TableInv, ClearEvents PROVE TableInv'
<1>1. TypeOK  BY Counted
<1>2. /\ eventtab' \in [0 .. ev_max - 1 -> Int]
      /\ \A i \in 0 .. ev_max - 1 : eventtab'[i] = EVT_MAX
      /\ eventtab2' \in [Slots -> OneShot] /\ nextevent' = EVT_MAX
      /\ \A s \in Slots : eventtab2'[s].evtime = EVT_MAX
      /\ UNCHANGED <<event2idx, event2cnt, event2restart, next, stack>>
  BY <1>1, ClearIs
<1>3. EVT_MAX # 0 /\ EVT_MAX \in Int /\ ev_sync \in 0 .. ev_max - 1
  BY Sizes, SMT
<1>4. NoneDueNow(eventtab2') /\ eventtab'[ev_sync] # 0
  BY <1>2, <1>3 DEF NoneDueNow
<1> QED  BY <1>2, <1>3, <1>4, SameStackKeeps

LEMMA RemovesRaise ==
    ASSUME TypeOK, Removes PROVE Raised(eventtab2')
<1>1. ev2_blitter \in Slots  BY Sizes, SMT DEF ev2_blitter
<1>2. /\ Idle \in OneShot /\ Idle.evtime = EVT_MAX
      /\ Raised(eventtab2)
  BY <1>1, Retired DEF TypeOK, Raised
<1>3. ASSUME NEW h \in Replaceable, eventtab2' = Without(h)
      PROVE  Raised(eventtab2')
  BY <1>2, <1>3 DEF Raised, Without
<1>4. CASE eventtab2' = [eventtab2 EXCEPT ![ev2_blitter] = Idle]
  <2>1. Raised([eventtab2 EXCEPT ![ev2_blitter] = Idle])
    BY <1>1, <1>2, RetiredRaised
  <2> QED  BY <1>4, <2>1
<1> QED  BY <1>3, <1>4 DEF Removes

LEMMA RemovesKeeps ==
    ASSUME TableInv, Removes PROVE TableInv'
<1>1. UNCHANGED <<nextevent, eventtab, event2idx, event2cnt, event2restart,
                  next, stack>>
  BY DEF Removes
<1>2. TypeOK  BY Counted
<1>3. NoneDueNow(eventtab2')  BY <1>2, RemovesRaise, RaisedNone
<1> QED  BY <1>1, <1>2, <1>3, SameStackKeeps DEF TypeOK

-----------------------------------------------------------------------------
(* TableInv is an invariant.                                               *)

LEMMA InitTable == Init => TableInv
<1> SUFFICES ASSUME Init PROVE TableInv  OBVIOUS
<1>1. Idle \in OneShot
  <2>1. Blitter \in Handlers
    BY EventTableAssumption DEF EventTableAssumption
  <2> QED  BY <2>1, Sizes, SMT DEF Idle, OneShot
<1>2. TypeOK
  <2>1. stack = << >> /\ << >> \in Seq(Frame) /\ Len(<< >>) = 0
    BY EmptySeq DEF Init
  <2>2. /\ 0 \in Slots /\ ev2_misc \in MiscSlots /\ 0 \in 0 .. 0
        /\ 0 \in 0 .. MaxRestart /\ EVT_MAX \in Int
    BY Sizes, SMT DEF ev2_misc
  <2> QED  BY <1>1, <2>1, <2>2 DEF Init, TypeOK
<1>3. NestingCounted
  <2>1. event2cnt = Count(stack)  BY CountEmpty DEF Init
  <2> QED  BY <2>1 DEF NestingCounted, Count, MiscHandlers, Handler
<1>4. ScansKept  BY ChainEmpty DEF ScansKept, Init
<1> QED  BY <1>2, <1>3, <1>4 DEF TableInv

LEMMA StutterTable == TableInv /\ UNCHANGED vars => TableInv'
BY DEF TableInv, TypeOK, NestingCounted, ScansKept, StackFrames, StackCalls,
       NotDue, SlotAt, ChainOf, vars

LEMMA NextTable == TableInv /\ [Next]_vars => TableInv'
<1> SUFFICES ASSUME TableInv, [Next]_vars PROVE TableInv'  OBVIOUS
<1>1. CASE MiscFire  BY <1>1, MiscFireKeeps
<1>2. CASE MiscDone  BY <1>2, MiscDoneKeeps
<1>3. CASE HandlerReturns  BY <1>3, HandlerReturnsKeeps
<1>4. CASE ResumeNewEvent  BY <1>4, ResumeKeeps
<1>5. CASE CyclesToNextEvent \/ CyclesDone \/ CyclesScanned
  BY <1>5, CyclesStepKeeps
<1>6. CASE CyclesServe  BY <1>6, CyclesServeKeeps
<1>7. CASE HandlerSchedules  BY <1>7, HandlerSchedulesKeeps
<1>8. CASE Emulate \/ CpuSchedules  BY <1>8, CpuKeeps
<1>9. CASE Removes  BY <1>9, RemovesKeeps
<1>10. CASE Arms  BY <1>10, ArmsKeeps
<1>11. CASE ClearEvents  BY <1>11, ClearEventsKeeps
<1>12. CASE PeriodicReturns  BY <1>12, PeriodicReturnsKeeps
<1>13. CASE UNCHANGED vars  BY <1>13, StutterTable
<1> QED
  BY <1>1, <1>2, <1>3, <1>4, <1>5, <1>6, <1>7, <1>8, <1>9, <1>10, <1>11,
     <1>12, <1>13
     DEF Next, RunStep

\* Whatever is in progress, no scan of MISC_handler has left an event of the
\* current cycle behind it, and event2cnt counts the handlers called by scans.
THEOREM Inductive == Spec => []TableInv
<1>1. Init => TableInv  BY InitTable
<1>2. TableInv /\ [Next]_vars => TableInv'  BY NextTable
<1> QED  BY <1>1, <1>2, PTL DEF Spec

\* Every variable keeps its type, whatever handlers schedule.
THEOREM TypeCorrect == Spec => []TypeOK
<1>1. TableInv => TypeOK  BY DEF TableInv
<1> QED  BY <1>1, Inductive, PTL

\* event2cnt is the number of handlers that MISC_handler is in the middle of
\* calling, however deeply the calls nest.
THEOREM CountRight == Spec => []NestingCounted
<1>1. TableInv => NestingCounted  BY DEF TableInv
<1> QED  BY <1>1, Inductive, PTL

\* The handler of a horizontal sync due at a cycle is begun before MISC_handler
\* runs a one-shot event of that cycle: while the clock loop runs, a scan meets a
\* due event only when the sync entry is not due any more or the handler is on the
\* stack below it.
THEOREM SyncServedFirst == Spec => []SyncFirst
<1>1. ASSUME TableInv PROVE SyncFirst
  <2> SUFFICES ASSUME At("misc"), stack[Len(stack)].at = "cycles"
               PROVE  eventtab[ev_sync] # 0 \/ Serving(ev_sync)
    BY DEF SyncFirst
  <2> PICK n : n = Len(stack)  OBVIOUS
  <2> DEFINE f == stack[n - 1]
             g == stack[n]
  <2>1. /\ stack \in Seq(Frame) /\ stack # << >> /\ stack[1].at = "misc"
        /\ ChainOf(stack, StackFrames, StackCalls, FirstFrames)
    <3>1. stack \in Seq(Frame) /\ stack # << >>  BY <1>1, Counted DEF At
    <3>2. stack[1] = Head(stack)  BY <3>1, SMT
    <3> QED  BY <3>1, <3>2, <1>1, Counted DEF At
  <2>2. n \in Nat \ {0}  BY <2>1, EmptySeq
  <2>3. n # 1  BY <2>1
  <2>4. /\ n - 1 \in 1 .. Len(stack) - 1 /\ (n - 1) + 1 = n
        /\ n \in 1 .. Len(stack)
    BY <2>2, <2>3, SMT
  <2>5. <<f, g>> \in StackCalls  BY <2>1, <2>4 DEF ChainOf
  <2>6. g \in StackFrames
    <3>1. stack \in Seq(StackFrames)  BY <2>1 DEF ChainOf
    <3> QED  BY <2>4, <3>1, ElementOfSeq
  <2> HIDE DEF f, g
  <2>7. CalledFrom(f, g) /\ g.at = "cycles"  BY <2>5, Callers DEF g
  <2>8. g.i = ev_sync \/ g.i \in 1 .. ev_max
    BY <2>7, Sizes, SMT DEF CalledFrom
  <2>9. CASE g.i = ev_sync
    <3>1. Len(stack) > 1  BY <2>2, <2>3, SMT
    <3> QED  BY <2>7, <2>9, <3>1 DEF Serving, g
  <2>10. CASE g.i \in 1 .. ev_max
    BY <2>6, <2>7, <2>10 DEF StackFrames
  <2> QED  BY <2>8, <2>9, <2>10
<1> QED  BY <1>1, Inductive, PTL

\* However the scans nest and restart, MISC_handler does not return while an
\* event of the current cycle is in the table.
THEOREM ScansComplete == Spec => ScanComplete
<1>1. ASSUME TableInv, MiscDone PROVE \A s \in Slots : eventtab2[s].evtime # 0
  <2> TAKE s \in Slots
  <2>1. stack # << >> /\ Top.at = "misc" /\ DueOffsets(Top) = {}
    BY <1>1 DEF MiscDone, At, Top
  <2>2. Top \in StackFrames /\ Top.idx2 \in Slots /\ Top.i \in 0 .. ev2_max
    <3>1. Top \in StackFrames /\ Top \in Frame  BY <1>1, <2>1, TopIs
    <3> QED  BY <2>1, <3>1, FrameFacts
  <2>3. PICK k \in 0 .. ev2_max - 1 : SlotAt(Top, k) = s
    BY <2>2, ScanCovers
  <2>4. CASE k < Top.i
    <3>1. k \in 0 .. Top.i - 1  BY <2>2, <2>4, SMT
    <3>2. NotDue(Top, k)  BY <2>1, <2>2, <3>1 DEF StackFrames
    <3> QED  BY <2>3, <3>2 DEF NotDue
  <2>5. CASE ~(k < Top.i)
    <3>1. k \in Top.i .. ev2_max - 1  BY <2>2, <2>5, SMT
    <3> QED  BY <2>1, <2>3, <3>1 DEF DueOffsets
  <2> QED  BY <2>4, <2>5
<1>2. TableInv /\ [Next]_vars
          => [MiscDone => \A s \in Slots : eventtab2[s].evtime # 0]_vars
  BY <1>1
<1> QED  BY <1>2, Inductive, PTL DEF Spec, ScanComplete

-----------------------------------------------------------------------------
(* Events on time, until a scan is restarted.                              *)

TimelyBase(b) == ChainOf(b, TimelyFrames, TimelyCalls, TimelyFirst)

\* No scan is in progress, nor a handler that one called.
NoScan(b) ==
    \A k \in 1 .. Len(b) : b[k].at # "misc" /\ ~Handler(b[k], "misc")

LEMMA NoScans ==
    ASSUME NEW b, ChainOf(b, StackFrames, StackCalls, FirstFrames),
           Count(b) = 0, b # << >> => Head(b).at # "misc"
    PROVE  NoScan(b)
<1>1. b \in Seq(StackFrames) /\ Len(b) \in Nat /\ DOMAIN b = 1 .. Len(b)
  BY LenProperties DEF ChainOf
<1>2. \A k \in 1 .. Len(b) : ~Handler(b[k], "misc")
  <2>1. 0 \in Int /\ ~(0 > 0)  BY SMT
  <2> QED  BY <1>1, <2>1, CountBound
<1>3. ASSUME NEW k \in 1 .. Len(b), b[k].at = "misc" PROVE FALSE
  <2>1. b # << >> /\ Head(b) = b[1]
    <3>1. b = << >> => Len(b) = 0  BY EmptySeq
    <3>2. b # << >>  BY <1>1, <3>1, SMT
    <3> QED  BY <1>1, <3>2, SMT
  <2>2. k # 1  BY <1>3, <2>1
  <2>3. k - 1 \in 1 .. Len(b) - 1 /\ (k - 1) + 1 = k /\ k - 1 \in 1 .. Len(b)
    BY <1>1, <2>2, SMT
  <2> PICK f : f = b[k - 1]  OBVIOUS
  <2> PICK g : g = b[k]  OBVIOUS
  <2>4. <<f, g>> \in StackCalls  BY <2>3 DEF ChainOf
  <2>5. CalledFrom(f, g) /\ g.at = "misc"  BY <1>3, <2>4, Callers
  <2>6. Handler(f, "misc")  BY <2>5, SMT DEF CalledFrom
  <2> QED  BY <1>2, <2>3, <2>6
<1> QED  BY <1>2, <1>3 DEF NoScan

LEMMA NotBeforeKept ==
    ASSUME TypeOK, TypeOK', NEW f \in Frame, f.at = "misc",
           NEW k \in 0 .. ev2_max - 1, NotBefore(f, k),
           \A s \in Slots : eventtab2[s].evtime <= eventtab2'[s].evtime
    PROVE  NotBefore(f, k)'
<1> PICK s : s = SlotAt(f, k)  OBVIOUS
<1>1. f.idx2 \in Slots /\ f.mintime \in Int  BY FrameFacts
<1>2. s \in Slots  BY <1>1, ScanCovers
<1>3. eventtab2[s].evtime \in Int /\ eventtab2'[s].evtime \in Int
  BY <1>2 DEF TypeOK, OneShot
<1>4. f.mintime <= eventtab2[s].evtime  BY DEF NotBefore
<1>5. f.mintime <= eventtab2'[s].evtime  BY <1>1, <1>2, <1>3, <1>4, SMT
<1>6. SlotAt(f, k)' = s  BY DEF SlotAt
<1> QED  BY <1>5, <1>6 DEF NotBefore

\* Frames keep their times when the table only loses events, or anything
\* happens to it while no scan is in progress.
LEMMA TimelyKept ==
    ASSUME TypeOK, TypeOK',
           NEW b, ChainOf(b, StackFrames, StackCalls, FirstFrames),
           TimelyBase(b),
           Ahead => Ahead',
           \A i \in 0 .. ev_max - 1 : eventtab[i] > 0 => eventtab'[i] > 0,
           \/ NoScan(b)
           \/ /\ eventtab'[ev_misc] \in {eventtab[ev_misc], EVT_MAX}
              /\ \A s \in Slots : eventtab2[s].evtime <= eventtab2'[s].evtime
    PROVE  ChainOf(b, TimelyFrames', TimelyCalls', TimelyFirst')
<1>1. b \in Seq(TimelyFrames) /\ Len(b) \in Nat /\ DOMAIN b = 1 .. Len(b)
  BY LenProperties DEF TimelyBase, ChainOf
<1>2. /\ DOMAIN eventtab = 0 .. ev_max - 1
      /\ DOMAIN eventtab' = 0 .. ev_max - 1
  BY DEF TypeOK
<1>3. ASSUME NEW k \in 1 .. Len(b) PROVE b[k] \in TimelyFrames'
  <2> PICK f : f = b[k]  OBVIOUS
  <2>1. f \in TimelyFrames  BY <1>1, ElementOfSeq
  <2>2. f \in Frame  BY <2>1 DEF TimelyFrames
  <2>3. CASE f.at = "cycles"
    <3>1. /\ f.left >= 0 /\ (f.i = LoopHead => Ahead)
          /\ \A i \in DOMAIN eventtab : i < f.i => eventtab[i] > 0
      BY <2>1, <2>3 DEF TimelyFrames
    <3>2. /\ f.i = LoopHead => Ahead'
          /\ \A i \in DOMAIN eventtab' : i < f.i => eventtab'[i] > 0
      BY <1>2, <3>1
    <3> QED  BY <2>2, <2>3, <3>1, <3>2 DEF TimelyFrames
  <2>4. CASE f.at = "misc"
    <3>1. /\ eventtab'[ev_misc] \in {eventtab[ev_misc], EVT_MAX}
          /\ \A s \in Slots : eventtab2[s].evtime <= eventtab2'[s].evtime
      BY <2>4 DEF NoScan
    <3>2. /\ eventtab[ev_misc] = EVT_MAX /\ f.mintime \in 1 .. EVT_MAX
          /\ \A j \in 0 .. f.i - 1 : NotBefore(f, j)
      BY <2>1, <2>4 DEF TimelyFrames
    <3>3. \A j \in 0 .. f.i - 1 : NotBefore(f, j)'
      <4> TAKE j \in 0 .. f.i - 1
      <4>1. f.i \in 0 .. ev2_max  BY <2>2, <2>4, FrameFacts
      <4>2. j \in 0 .. ev2_max - 1  BY <4>1, Sizes, SMT
      <4>3. NotBefore(f, j)  BY <3>2
      <4> QED  BY <2>2, <2>4, <3>1, <4>2, <4>3, NotBeforeKept
    <3>4. eventtab'[ev_misc] = EVT_MAX  BY <3>1, <3>2
    <3> QED  BY <2>2, <2>4, <3>2, <3>3, <3>4 DEF TimelyFrames
  <2>5. CASE f.at # "cycles" /\ f.at # "misc"
    BY <2>2, <2>5 DEF TimelyFrames
  <2> QED  BY <2>3, <2>4, <2>5
<1>4. ASSUME NEW k \in 1 .. Len(b) - 1
      PROVE  <<b[k], b[k + 1]>> \in TimelyCalls'
  <2> PICK f : f = b[k]  OBVIOUS
  <2> PICK g : g = b[k + 1]  OBVIOUS
  <2>1. /\ <<f, g>> \in StackCalls /\ <<f, g>> \in TimelyCalls
        /\ k \in 1 .. Len(b)
    BY <1>1, SMT DEF ChainOf, TimelyBase
  <2>2. f \in Frame /\ g \in Frame  BY <2>1, Callers
  <2>3. Handler(f, "misc") => NotBefore(g, g.i)'
    <3> SUFFICES ASSUME Handler(f, "misc") PROVE NotBefore(g, g.i)'  OBVIOUS
    <3>1. g.at = "misc" /\ g.i < ev2_max  BY <2>1, Callers
    <3>2. g.i \in 0 .. ev2_max  BY <2>2, <3>1, FrameFacts
    <3>3. g.i \in 0 .. ev2_max - 1  BY <3>1, <3>2, Sizes, SMT
    <3>4. NotBefore(g, g.i)  BY <2>1 DEF TimelyCalls
    <3>5. \A s \in Slots : eventtab2[s].evtime <= eventtab2'[s].evtime
      BY <2>1 DEF NoScan
    <3> QED  BY <2>2, <3>1, <3>3, <3>4, <3>5, NotBeforeKept
  <2> QED  BY <2>2, <2>3 DEF TimelyCalls
<1>5. b # << >> => b[Len(b)] \in TimelyFirst'
  <2> PICK f : f = b[Len(b)]  OBVIOUS
  <2>1. b # << >> => f \in TimelyFirst  BY DEF TimelyBase, ChainOf
  <2>2. f \in TimelyFirst => f \in TimelyFirst'  BY DEF TimelyFirst
  <2> QED  BY <2>1, <2>2
<1>6. b \in Seq(TimelyFrames')
  <2> DEFINE F == TimelyFrames'
  <2>1. \A k \in 1 .. Len(b) : b[k] \in F  BY <1>3
  <2> HIDE DEF F
  <2>2. b \in Seq(F)  BY <1>1, <2>1, SMT
  <2> QED  BY <2>2 DEF F
<1> QED  BY <1>4, <1>5, <1>6 DEF ChainOf

\* What the clock looks at does not come closer.
LEMMA AheadKept ==
    ASSUME TypeOK, TypeOK', Ahead, nextevent' = nextevent,
           \A i \in 0 .. ev_max - 1 : eventtab[i] <= eventtab'[i]
    PROVE  Ahead'
<1>1. /\ nextevent \in Int /\ DOMAIN eventtab = 0 .. ev_max - 1
      /\ DOMAIN eventtab' = 0 .. ev_max - 1
      /\ \A i \in 0 .. ev_max - 1 : eventtab[i] \in Int /\ eventtab'[i] \in Int
  BY DEF TypeOK
<1>2. \A i \in 0 .. ev_max - 1 : nextevent <= eventtab'[i]
  <2> TAKE i \in 0 .. ev_max - 1
  <2>1. nextevent <= eventtab[i] /\ eventtab[i] <= eventtab'[i]
    BY <1>1 DEF Ahead
  <2> QED  BY <1>1, <2>1, SMT
<1> QED  BY <1>1, <1>2 DEF Ahead

\* A call pushes a frame that is in time.
LEMMA TimelyPushed ==
    ASSUME NEW b, ChainOf(b, TimelyFrames', TimelyCalls', TimelyFirst'),
           NEW f \in TimelyFrames',
           b # << >> => <<f, Head(b)>> \in TimelyCalls',
           b = << >> => f \in TimelyFirst'
    PROVE  /\ ChainOf(<<f>> \o b, TimelyFrames', TimelyCalls', TimelyFirst')
           /\ <<f>> \o b # << >> /\ Head(<<f>> \o b) = f
<1> DEFINE F == TimelyFrames'
           C == TimelyCalls'
           B == TimelyFirst'
<1>1. /\ ChainOf(b, F, C, B) /\ f \in F
      /\ b # << >> => <<f, Head(b)>> \in C
      /\ b = << >> => f \in B
  OBVIOUS
<1> HIDE DEF F, C, B
<1>2. ChainOf(<<f>> \o b, F, C, B)  BY <1>1, ChainPush
<1>3. <<f>> \o b # << >>  BY <1>1, ChainPush
<1>4. Head(<<f>> \o b) = f  BY <1>1, ChainPush
<1> QED  BY <1>2, <1>3, <1>4 DEF F, C, B

\* Calls other than a scan's call of a handler promise no times.
LEMMA PlainTimely ==
    ASSUME NEW f \in Frame, NEW g \in Frame, ~Handler(f, "misc")
    PROVE  <<f, g>> \in TimelyCalls'
BY DEF TimelyCalls

\* MISC_handler is entered while no other scan is in progress.
LEMMA EnterTimely ==
    ASSUME TableInv, TableInv', TimesKept, event2cnt = 0, ~At("misc"),
           NEW base, Base(base), TimelyBase(base),
           base # << >> => Head(base).at # "misc", base = << >> => Ahead,
           NEW idx \in Slots, EnterMisc(idx, base),
           \A s \in Slots : eventtab2'[s].evtime \in 0 .. EVT_MAX
    PROVE  TimesKept'
<1> PICK f : f = MiscFrame(idx)  OBVIOUS
<1>1. TypeOK /\ TypeOK'  BY DEF TableInv
<1>2. /\ eventtab' = [eventtab EXCEPT ![ev_misc] = EVT_MAX]
      /\ stack' = <<f>> \o base
      /\ nextevent' = nextevent /\ event2cnt' = event2cnt
  BY DEF EnterMisc
<1>3. /\ DOMAIN eventtab = 0 .. ev_max - 1 /\ DOMAIN eventtab' = 0 .. ev_max - 1
      /\ ev_misc \in 0 .. ev_max - 1
  BY <1>1, Sizes, SMT DEF TypeOK
<1>4. \A i \in 0 .. ev_max - 1 : eventtab[i] \in 0 .. EVT_MAX
  BY <1>3 DEF TimesKept
<1>5. \A i \in 0 .. ev_max - 1 :
          eventtab'[i] = IF i = ev_misc THEN EVT_MAX ELSE eventtab[i]
  BY <1>1, <1>2, <1>3 DEF TypeOK
<1>6. /\ \A i \in 0 .. ev_max - 1 : eventtab'[i] \in 0 .. EVT_MAX
      /\ \A i \in 0 .. ev_max - 1 : eventtab[i] <= eventtab'[i]
      /\ \A i \in 0 .. ev_max - 1 : eventtab[i] > 0 => eventtab'[i] > 0
  BY <1>4, <1>5, Sizes, SMT
<1>7. Ahead => Ahead'  BY <1>1, <1>2, <1>6, AheadKept
<1>8. NoScan(base)
  <2>1. Count(base) = 0  BY DEF Base
  <2> QED  BY <2>1, NoScans DEF Base
<1>9. ChainOf(base, TimelyFrames', TimelyCalls', TimelyFirst')
  BY <1>1, <1>6, <1>7, <1>8, TimelyKept DEF Base
<1>10. /\ f \in Frame /\ f.at = "misc" /\ f.i = 0 /\ f.mintime = EVT_MAX
       /\ ~Handler(f, "misc")
  BY <1>2, NewFrames DEF Handler
<1>11. f \in TimelyFrames'
  <2>1. 0 .. f.i - 1 = {} /\ f.mintime \in 1 .. EVT_MAX
    BY <1>10, Sizes, SMT
  <2>2. eventtab'[ev_misc] = EVT_MAX  BY <1>3, <1>5
  <2> QED  BY <1>10, <2>1, <2>2 DEF TimelyFrames
<1>12. base # << >> => <<f, Head(base)>> \in TimelyCalls'
  <2>1. base # << >> => Head(base) \in StackFrames  BY ChainPop DEF Base
  <2>2. base # << >> => Head(base) \in Frame  BY <2>1 DEF StackFrames
  <2> QED  BY <1>10, <2>2, PlainTimely
<1>13. base = << >> => f \in TimelyFirst'  BY <1>7, <1>10 DEF TimelyFirst
<1>14. /\ ChainOf(stack', TimelyFrames', TimelyCalls', TimelyFirst')
       /\ stack' # << >> /\ Head(stack') = f
  BY <1>2, <1>9, <1>11, <1>12, <1>13, TimelyPushed
<1>15. ~Quiet' /\ At("misc")'  BY <1>10, <1>14 DEF Quiet, At
<1>16. nextevent' <= EVT_MAX /\ event2cnt' = 0 /\ event2cnt' <= 1
  <2>1. nextevent <= EVT_MAX  BY DEF TimesKept
  <2> QED  BY <1>2, <2>1, SMT
<1> QED  BY <1>3, <1>6, <1>14, <1>15, <1>16 DEF TimesKept

\* A table that has lost events, at most, has none any sooner.
LEMMA RaisedTimes ==
    ASSUME TypeOK, Raised(eventtab2'),
           \A s \in Slots : eventtab2[s].evtime \in 0 .. EVT_MAX
    PROVE  /\ \A s \in Slots : eventtab2'[s].evtime \in 0 .. EVT_MAX
           /\ \A s \in Slots : eventtab2[s].evtime <= eventtab2'[s].evtime
<1>1. \A s \in Slots : eventtab2'[s].evtime \in {eventtab2[s].evtime, EVT_MAX}
  BY DEF Raised
<1> QED  BY <1>1, Sizes, SMT

\* Code is called, or an interrupt event merged, outside the scans.
LEMMA CodeCallTimely ==
    ASSUME TableInv, TableInv', TimesKept, ~At("misc"),
           NEW base, Base(base), TimelyBase(base), CodeCalls(base),
           base = << >> => Ahead, CodeCalled(base)
    PROVE  TimesKept'
<1>1. TypeOK /\ TypeOK'  BY DEF TableInv
<1>2. /\ UNCHANGED <<nextevent, eventtab, event2cnt>> /\ Raised(eventtab2')
  BY DEF CodeCalled, OnlyEvents
<1>3. /\ \A s \in Slots : eventtab2'[s].evtime \in 0 .. EVT_MAX
      /\ \A s \in Slots : eventtab2[s].evtime <= eventtab2'[s].evtime
  BY <1>1, <1>2, RaisedTimes DEF TimesKept
<1>4. Ahead => Ahead'  BY <1>2 DEF Ahead
<1>5. ChainOf(base, TimelyFrames', TimelyCalls', TimelyFirst')
  BY <1>1, <1>2, <1>3, <1>4, TimelyKept DEF Base
<1>6. base # << >> => Head(base) \in Frame /\ Head(base).at = "handler"
  <2>1. base # << >> => Head(base) \in StackFrames  BY ChainPop DEF Base
  <2> QED  BY <2>1 DEF StackFrames, CodeCalls
<1>7. base \in Seq(Frame)
  <2>1. base \in Seq(StackFrames) /\ StackFrames \subseteq Frame
    BY DEF Base, ChainOf, StackFrames
  <2> QED  BY <2>1, SeqMonotonic
<1>8. \A of \in {"direct", "newevent"} :
          /\ HandlerFrame(of) \in Frame /\ HandlerFrame(of).at = "handler"
          /\ ~Handler(HandlerFrame(of), "misc")
  BY NewFrames, SMT DEF Handler
<1>9. /\ ChainOf(stack', TimelyFrames', TimelyCalls', TimelyFirst')
      /\ stack' # << >> => Head(stack').at = "handler"
      /\ stack' = << >> => base = << >>
  <2>1. CASE stack' = base  BY <1>5, <1>6, <2>1
  <2>2. CASE stack' = <<HandlerFrame("direct")>> \o base
    <3> PICK h : h = HandlerFrame("direct")  OBVIOUS
    <3>1. h \in Frame /\ h.at = "handler" /\ ~Handler(h, "misc")  BY <1>8
    <3>2. h \in TimelyFrames'  BY <3>1 DEF TimelyFrames
    <3>3. base # << >> => <<h, Head(base)>> \in TimelyCalls'
      BY <1>6, <3>1, PlainTimely
    <3>4. base = << >> => h \in TimelyFirst'  BY <1>4, <3>1 DEF TimelyFirst
    <3>5. stack' = <<h>> \o base  BY <2>2
    <3>6. /\ ChainOf(stack', TimelyFrames', TimelyCalls', TimelyFirst')
          /\ stack' # << >> /\ Head(stack') = h
      BY <1>5, <3>2, <3>3, <3>4, <3>5, TimelyPushed
    <3> QED  BY <3>1, <3>6
  <2>3. ASSUME NEW e \in OneShot,
               stack' = <<HandlerFrame("newevent"), NewEventFrame(next, e)>>
                            \o base
        PROVE  /\ ChainOf(stack', TimelyFrames', TimelyCalls', TimelyFirst')
               /\ stack' # << >> /\ Head(stack').at = "handler"
    <3> PICK h : h = HandlerFrame("newevent")  OBVIOUS
    <3> PICK n : n = NewEventFrame(next, e)  OBVIOUS
    <3> PICK b : b = <<n>> \o base  OBVIOUS
    <3>1. h \in Frame /\ h.at = "handler" /\ ~Handler(h, "misc")  BY <1>8
    <3>2. n \in Frame /\ n.at = "newevent" /\ ~Handler(n, "misc")
      BY <1>1, NewFrames DEF TypeOK, Handler
    <3>3. h \in TimelyFrames' /\ n \in TimelyFrames'
      BY <3>1, <3>2 DEF TimelyFrames
    <3>4. base # << >> => <<n, Head(base)>> \in TimelyCalls'
      BY <1>6, <3>2, PlainTimely
    <3>5. base = << >> => n \in TimelyFirst'  BY <1>4, <3>2 DEF TimelyFirst
    <3>6. /\ ChainOf(b, TimelyFrames', TimelyCalls', TimelyFirst')
          /\ b # << >> /\ Head(b) = n
      BY <1>5, <3>3, <3>4, <3>5, TimelyPushed
    <3>7. <<h, n>> \in TimelyCalls'  BY <3>1, <3>2, PlainTimely
    <3>8. stack' = <<h>> \o b
      <4>1. stack' = <<h, n>> \o base  BY <2>3
      <4> QED  BY <4>1, <1>7, TwoFrames
    <3>9. /\ ChainOf(stack', TimelyFrames', TimelyCalls', TimelyFirst')
          /\ stack' # << >> /\ Head(stack') = h
      BY <3>3, <3>6, <3>7, <3>8, TimelyPushed
    <3> QED  BY <3>1, <3>9
  <2> QED  BY <2>1, <2>2, <2>3 DEF CodeCalled
<1>10. Quiet' => Ahead'  BY <1>4, <1>9 DEF Quiet
<1>11. ~At("misc")'  BY <1>9 DEF At
<1>12. event2cnt' = 0 =>
           \A s \in Slots : eventtab'[ev_misc] <= eventtab2'[s].evtime
  <2> SUFFICES ASSUME event2cnt' = 0, NEW s \in Slots
               PROVE  eventtab'[ev_misc] <= eventtab2'[s].evtime
    OBVIOUS
  <2>1. event2cnt = 0 /\ eventtab'[ev_misc] = eventtab[ev_misc]  BY <1>2
  <2>2. eventtab[ev_misc] <= eventtab2[s].evtime  BY <2>1 DEF TimesKept
  <2>3. ev_misc \in 0 .. ev_max - 1  BY Sizes, SMT
  <2>4. /\ eventtab[ev_misc] \in Int /\ eventtab2[s].evtime \in Int
        /\ eventtab2'[s].evtime \in Int
    BY <1>1, <2>3 DEF TypeOK, OneShot
  <2> QED  BY <1>3, <2>1, <2>2, <2>4, SMT
<1>13. /\ \A i \in DOMAIN eventtab' : eventtab'[i] \in 0 .. EVT_MAX
       /\ nextevent' <= EVT_MAX /\ event2cnt' <= 1
  BY <1>2 DEF TimesKept
<1> QED  BY <1>3, <1>9, <1>10, <1>11, <1>12, <1>13 DEF TimesKept

LEMMA ScheduledTimely ==
    ASSUME TableInv, TableInv', TimesKept, ~At("misc"),
           event2restart = 0, event2restart' = 0,
           NEW base, Base(base), TimelyBase(base), CodeCalls(base),
           base = << >> => Ahead, Placed(base) \/ CodeCalled(base)
    PROVE  TimesKept'
<1>1. TypeOK  BY DEF TableInv
<1>2. CASE CodeCalled(base)  BY <1>2, CodeCallTimely
<1>3. CASE Placed(base)
  <2>1. PICK tab \in [Slots -> OneShot], s \in Slots, e \in OneShot :
            /\ Raised(tab) /\ e.evtime \in 1 .. EVT_MAX
            /\ Place(tab, s, e, base)
    BY <1>3 DEF Placed
  <2>2. /\ EnterMisc((s + 1) % ev2_max, base)
        /\ eventtab2' = [tab EXCEPT ![s] = e]
    BY <2>1 DEF Place
  <2>3. (s + 1) % ev2_max \in Slots  BY Sizes, Remainder, SMT
  <2>4. event2cnt = 0
    <3>1. event2restart' = IF event2cnt > 0 /\ event2restart < MaxRestart
                           THEN event2restart + 1 ELSE event2restart
      BY <2>2 DEF EnterMisc
    <3>2. event2cnt \in 0 .. Len(stack) /\ Len(stack) \in Nat
      BY <1>1, LenProperties DEF TypeOK
    <3> QED  BY <3>1, <3>2, Sizes, SMT
  <2>5. \A t \in Slots : eventtab2'[t].evtime \in 0 .. EVT_MAX
    <3> TAKE t \in Slots
    <3>1. tab[t].evtime \in {eventtab2[t].evtime, EVT_MAX}
      BY <2>1 DEF Raised
    <3>2. eventtab2[t].evtime \in 0 .. EVT_MAX  BY DEF TimesKept
    <3>3. eventtab2'[t] = IF t = s THEN e ELSE tab[t]  BY <2>2
    <3> QED  BY <2>1, <3>1, <3>2, <3>3, Sizes, SMT
  <2>6. base # << >> => Head(base).at # "misc"  BY DEF CodeCalls
  <2> QED  BY <2>2, <2>3, <2>4, <2>5, <2>6, EnterTimely
<1> QED  BY <1>2, <1>3

LEMMA TimelyTop ==
    ASSUME TimesKept, stack # << >>
    PROVE  /\ Top \in TimelyFrames /\ TimelyBase(Tail(stack))
           /\ Tail(stack) # << >> => <<Top, Head(Tail(stack))>> \in TimelyCalls
           /\ Tail(stack) = << >> => Top \in TimelyFirst
<1>1. ChainOf(stack, TimelyFrames, TimelyCalls, TimelyFirst)
  BY DEF TimesKept
<1> QED  BY <1>1, ChainPop DEF Top, TimelyBase

\* Times of active and inactive entries.
LEMMA TimeTypes ==
    ASSUME TypeOK, TimesKept
    PROVE  /\ \A s \in Slots : eventtab2[s].evtime \in 0 .. EVT_MAX
           /\ \A i \in 0 .. ev_max - 1 : eventtab[i] \in 0 .. EVT_MAX
           /\ DOMAIN eventtab = 0 .. ev_max - 1 /\ ev_misc \in 0 .. ev_max - 1
           /\ nextevent \in Int
BY Sizes, SMT DEF TypeOK, TimesKept

\* The times a scan has met: none sooner than mintime, none of them due.
LEMMA ScanTimes ==
    ASSUME TypeOK, TimesKept, NEW f \in Frame, f.at = "misc",
           f \in TimelyFrames, NEW upto \in 0 .. ev2_max,
           \A k \in f.i .. upto - 1 : NotDue(f, k)
    PROVE  /\ MintimeUpTo(f, upto) \in 1 .. EVT_MAX
           /\ \A k \in 0 .. upto - 1 :
                 MintimeUpTo(f, upto) <= eventtab2[SlotAt(f, k)].evtime
<1> PICK m : m = MintimeUpTo(f, upto)  OBVIOUS
<1>1. /\ f.idx2 \in Slots /\ f.i \in 0 .. ev2_max
      /\ f.mintime \in 1 .. EVT_MAX
      /\ \A k \in 0 .. f.i - 1 : NotBefore(f, k)
  BY FrameFacts DEF TimelyFrames
<1>2. /\ f.i \in Nat /\ f.mintime \in Int
      /\ eventtab2 \in [Slots -> OneShot]
  BY <1>1, SMT DEF TypeOK
<1>3. /\ m \in Int /\ m <= f.mintime
      /\ \A k \in f.i .. upto - 1 : m <= eventtab2[SlotAt(f, k)].evtime
      /\ \/ m = f.mintime
         \/ \E k \in f.i .. upto - 1 : m = eventtab2[SlotAt(f, k)].evtime
  BY <1>1, <1>2, MintimeIs
<1>4. m \in 1 .. EVT_MAX
  <2>1. CASE m = f.mintime  BY <1>1, <2>1
  <2>2. ASSUME NEW k \in f.i .. upto - 1,
               m = eventtab2[SlotAt(f, k)].evtime
        PROVE  m \in 1 .. EVT_MAX
    <3>1. k \in 0 .. ev2_max - 1  BY <1>2, Sizes, SMT
    <3>2. SlotAt(f, k) \in Slots  BY <1>1, <3>1, ScanCovers
    <3>3. m \in 0 .. EVT_MAX  BY <2>2, <3>2, TimeTypes
    <3>4. m # 0  BY <2>2 DEF NotDue
    <3> QED  BY <3>3, <3>4, Sizes, SMT
  <2> QED  BY <1>3, <2>1, <2>2
<1>5. ASSUME NEW k \in 0 .. upto - 1
      PROVE  m <= eventtab2[SlotAt(f, k)].evtime
  <2>1. CASE k < f.i
    <3>1. k \in 0 .. f.i - 1 /\ k \in 0 .. ev2_max - 1
      BY <1>2, <2>1, Sizes, SMT
    <3>2. f.mintime <= eventtab2[SlotAt(f, k)].evtime
      BY <1>1, <3>1 DEF NotBefore
    <3>3. eventtab2[SlotAt(f, k)].evtime \in Int
      BY <1>1, <1>2, <3>1, ScanCovers DEF OneShot
    <3> QED  BY <1>2, <1>3, <3>2, <3>3, SMT
  <2>2. CASE ~(k < f.i)
    <3>1. k \in f.i .. upto - 1  BY <1>2, <2>2, SMT
    <3> QED  BY <1>3, <3>1
  <2> QED  BY <2>1, <2>2
<1> QED  BY <1>4, <1>5

LEMMA MiscFireTimely ==
    ASSUME TableInv, TableInv', TimesKept, MiscFire PROVE TimesKept'
<1> DEFINE D == DueOffsets(Top)
           rest == Tail(stack)
<1> PICK k : k = Least(D)  OBVIOUS
<1> PICK s : s = SlotAt(Top, k)  OBVIOUS
<1> PICK m : m = MintimeUpTo(Top, k)  OBVIOUS
<1> PICK g : g = Moved(Top, k, m)  OBVIOUS
<1> PICK h : h = HandlerFrame("misc")  OBVIOUS
<1> PICK b : b = <<g>> \o rest  OBVIOUS
<1>1. /\ stack # << >> /\ Top.at = "misc" /\ ~Handler(Top, "misc") /\ D # {}
      /\ At("misc")
  BY DEF MiscFire, At, Top, Handler
<1>2. /\ TypeOK /\ TypeOK' /\ Top \in Frame
      /\ Top.idx2 \in Slots /\ Top.i \in 0 .. ev2_max /\ Top.mintime \in Int
      /\ Top \in TimelyFrames /\ TimelyBase(rest)
      /\ rest = << >> => Top \in TimelyFirst
      /\ ChainOf(rest, StackFrames, StackCalls, FirstFrames)
      /\ rest # << >> => <<Top, Head(rest)>> \in StackCalls
      /\ rest \in Seq(Frame)
      /\ Count(rest) \in Nat /\ event2cnt = Count(rest) + 0
  <2>1. Top \in Frame /\ TypeOK  BY <1>1, TopIs, Counted
  <2>2. TypeOK'  BY DEF TableInv
  <2> QED  BY <1>1, <2>1, <2>2, TopIs, FrameFacts, TimelyTop
<1>3. event2cnt = 0  BY <1>1 DEF TimesKept
<1>4. k \in D /\ (\A j \in D : k <= j) /\ D \subseteq Nat
  <2>1. D \subseteq Nat  BY <1>2, SMT DEF DueOffsets
  <2> HIDE DEF D
  <2> QED  BY <1>1, <2>1, LeastNat
<1>5. /\ k \in Nat /\ k < ev2_max /\ k \in 0 .. ev2_max /\ Top.i <= k
      /\ k \in 0 .. ev2_max - 1
  BY <1>2, <1>4, Sizes, SMT DEF DueOffsets
<1>6. s \in Slots  BY <1>2, <1>5, ScanCovers
<1>7. \A j \in Top.i .. k - 1 : NotDue(Top, j)
  <2> TAKE j \in Top.i .. k - 1
  <2>1. j \in Top.i .. ev2_max - 1 /\ ~(k <= j)
    BY <1>2, <1>5, Sizes, SMT
  <2> QED  BY <1>4, <2>1 DEF DueOffsets, NotDue
<1>8. /\ m \in 1 .. EVT_MAX
      /\ \A j \in 0 .. k - 1 : m <= eventtab2[SlotAt(Top, j)].evtime
  BY <1>1, <1>2, <1>5, <1>7, ScanTimes
<1>9. m \in Int  BY <1>8, SMT
<1>10. /\ eventtab2' = [eventtab2 EXCEPT ![s] = Idle]
       /\ event2cnt' = event2cnt + 1 /\ stack' = <<h>> \o b
       /\ UNCHANGED <<nextevent, eventtab, event2idx, event2restart, next>>
  <2>1. [Top EXCEPT !.i = k, !.mintime = m] = Moved(Top, k, m)
    <3> PICK f : f = Top  OBVIOUS
    <3> DEFINE e == [f EXCEPT !.i = k]
    <3>1. f \in [at : {"misc"}, idx2 : Slots, i : 0 .. ev2_max, mintime : Int]
      BY <1>1, <1>2, SMT DEF Frame
    <3>2. e = [at |-> "misc", idx2 |-> f.idx2, i |-> k, mintime |-> f.mintime]
      BY <3>1, SMT
    <3>3. [f EXCEPT !.i = k, !.mintime = m] = [e EXCEPT !.mintime = m]
      OBVIOUS
    <3> HIDE DEF e
    <3> QED  BY <3>2, <3>3, SMT DEF Moved
  <2>2. stack' = <<h, [Top EXCEPT !.i = k, !.mintime = m]>> \o rest
    BY DEF MiscFire
  <2>3. stack' = <<h, g>> \o rest  BY <2>1, <2>2
  <2>4. stack' = <<h>> \o b
    <3> HIDE DEF rest
    <3> QED  BY <2>3, <1>2, TwoFrames
  <2> QED  BY <2>4 DEF MiscFire
<1> HIDE DEF D, rest
<1>11. /\ g \in Frame /\ g.at = "misc" /\ g.idx2 = Top.idx2 /\ g.i = k
       /\ g.mintime = m /\ ~Handler(g, "misc")
  <2>1. g \in Frame  BY <1>1, <1>2, <1>5, <1>9, MiscFrameMoved
  <2> QED  BY <2>1 DEF Moved, Handler
<1>12. h \in Frame /\ h.at = "handler" /\ h.of = "misc"
  BY NewFrames
<1>13. /\ \A t \in Slots : eventtab2'[t].evtime \in 0 .. EVT_MAX
       /\ \A t \in Slots : eventtab2[t].evtime <= eventtab2'[t].evtime
       /\ eventtab2'[s].evtime = EVT_MAX
  <2>1. Raised(eventtab2) BY <1>2 DEF Raised, TypeOK
  <2>2. Raised(eventtab2')  BY <1>6, <1>10, <2>1, RetiredRaised
  <2>3. eventtab2'[s].evtime = EVT_MAX
    BY <1>2, <1>6, <1>10, Retired DEF TypeOK
  <2> QED  BY <1>2, <2>2, <2>3, RaisedTimes DEF TimesKept
<1>14. \A j \in 0 .. k : NotBefore(g, j)'
  <2> TAKE j \in 0 .. k
  <2> PICK t : t = SlotAt(Top, j)  OBVIOUS
  <2>1. j \in 0 .. ev2_max - 1  BY <1>5, Sizes, SMT
  <2>2. t \in Slots  BY <1>2, <2>1, ScanCovers
  <2>3. SlotAt(g, j)' = t  BY <1>11 DEF SlotAt
  <2>4. m <= eventtab2'[t].evtime
    <3>1. CASE j = k  BY <1>8, <1>13, <3>1, SMT
    <3>2. CASE j # k
      <4>1. j \in 0 .. k - 1  BY <1>5, <3>2, SMT
      <4>2. m <= eventtab2[t].evtime  BY <1>8, <4>1
      <4>3. eventtab2[t].evtime \in Int /\ eventtab2'[t].evtime \in Int
        BY <1>2, <2>2 DEF TypeOK, OneShot
      <4>4. eventtab2[t].evtime <= eventtab2'[t].evtime  BY <1>13, <2>2
      <4> QED  BY <1>9, <4>2, <4>3, <4>4, SMT
    <3> QED  BY <3>1, <3>2
  <2> QED  BY <1>11, <2>3, <2>4 DEF NotBefore
<1>15. Ahead => Ahead'  BY <1>10 DEF Ahead
<1>16. g \in TimelyFrames'
  <2>1. 0 .. g.i - 1 \subseteq 0 .. k  BY <1>5, <1>11, SMT
  <2>2. eventtab'[ev_misc] = EVT_MAX
    BY <1>1, <1>2, <1>10 DEF TimelyFrames
  <2> QED  BY <1>8, <1>11, <1>14, <2>1, <2>2 DEF TimelyFrames
<1>17. h \in TimelyFrames'  BY <1>12 DEF TimelyFrames
<1>18. <<h, g>> \in TimelyCalls'
  <2>1. g.i \in 0 .. k  BY <1>5, <1>11, SMT
  <2>2. NotBefore(g, g.i)'  BY <1>14, <2>1
  <2> QED  BY <1>11, <1>12, <2>2 DEF TimelyCalls
<1>19. rest # << >> => <<g, Head(rest)>> \in TimelyCalls'
  BY <1>2, <1>11, Callers, PlainTimely
<1>20. rest = << >> => g \in TimelyFirst'
  BY <1>1, <1>2, <1>11, <1>15 DEF TimelyFirst
<1>21. ChainOf(rest, TimelyFrames', TimelyCalls', TimelyFirst')
  BY <1>2, <1>10, <1>13, <1>15, TimelyKept
<1>22. /\ ChainOf(b, TimelyFrames', TimelyCalls', TimelyFirst')
       /\ b # << >> /\ Head(b) = g
  BY <1>16, <1>19, <1>20, <1>21, TimelyPushed
<1>23. /\ ChainOf(stack', TimelyFrames', TimelyCalls', TimelyFirst')
       /\ stack' # << >> /\ Head(stack') = h
  BY <1>10, <1>17, <1>18, <1>22, TimelyPushed
<1>24. ~Quiet' /\ ~At("misc")'  BY <1>12, <1>23 DEF Quiet, At
<1>25. event2cnt' <= 1 /\ event2cnt' # 0  BY <1>3, <1>10, SMT
<1>26. /\ \A i \in DOMAIN eventtab' : eventtab'[i] \in 0 .. EVT_MAX
       /\ nextevent' <= EVT_MAX
  BY <1>10 DEF TimesKept
<1> QED  BY <1>13, <1>23, <1>24, <1>25, <1>26 DEF TimesKept

LEMMA MiscDoneTimely ==
    ASSUME TableInv, TableInv', TimesKept, MiscDone PROVE TimesKept'
<1> DEFINE rest == Tail(stack)
<1> PICK m : m = MintimeUpTo(Top, ev2_max)  OBVIOUS
<1>1. /\ stack # << >> /\ Top.at = "misc" /\ ~Handler(Top, "misc")
      /\ DueOffsets(Top) = {} /\ At("misc")
      /\ stack' = rest /\ UNCHANGED <<eventtab2, event2cnt>>
  BY DEF MiscDone, At, Top, Handler
<1>2. /\ TypeOK /\ TypeOK' /\ Top \in Frame
      /\ Top.idx2 \in Slots /\ Top.i \in 0 .. ev2_max
      /\ Top \in TimelyFrames /\ TimelyBase(rest)
      /\ rest = << >> => Top \in TimelyFirst
      /\ ChainOf(rest, StackFrames, StackCalls, FirstFrames)
      /\ rest # << >> => <<Top, Head(rest)>> \in StackCalls
      /\ Count(rest) \in Nat /\ event2cnt = Count(rest) + 0
  <2>1. Top \in Frame /\ TypeOK  BY <1>1, TopIs, Counted
  <2>2. TypeOK'  BY DEF TableInv
  <2> QED  BY <1>1, <2>1, <2>2, TopIs, FrameFacts, TimelyTop
<1>3. event2cnt = 0 /\ event2cnt' = 0 /\ event2cnt' <= 1
  BY <1>1 DEF TimesKept
<1>4. /\ m \in 1 .. EVT_MAX
      /\ \A k \in 0 .. ev2_max - 1 : m <= eventtab2[SlotAt(Top, k)].evtime
  <2>1. \A k \in Top.i .. ev2_max - 1 : NotDue(Top, k)
    BY <1>1 DEF DueOffsets, NotDue
  <2>2. ev2_max \in 0 .. ev2_max  BY Sizes, SMT
  <2> QED  BY <1>1, <1>2, <2>1, <2>2, ScanTimes
<1>5. \A s \in Slots : m <= eventtab2[s].evtime
  <2> TAKE s \in Slots
  <2>1. PICK k \in 0 .. ev2_max - 1 : SlotAt(Top, k) = s
    BY <1>2, ScanCovers
  <2> QED  BY <1>4, <2>1
<1>6. /\ \A s \in Slots : eventtab2[s].evtime \in 0 .. EVT_MAX
      /\ \A i \in 0 .. ev_max - 1 : eventtab[i] \in 0 .. EVT_MAX
      /\ DOMAIN eventtab = 0 .. ev_max - 1 /\ DOMAIN eventtab' = 0 .. ev_max - 1
      /\ ev_misc \in 0 .. ev_max - 1
  BY <1>2, TimeTypes DEF TypeOK
<1>7. eventtab[ev_misc] = EVT_MAX  BY <1>1, <1>2 DEF TimelyFrames
<1>8. /\ \A i \in 0 .. ev_max - 1 : eventtab'[i] \in 0 .. EVT_MAX
      /\ \A i \in 0 .. ev_max - 1 : eventtab[i] > 0 => eventtab'[i] > 0
      /\ \A s \in Slots : eventtab'[ev_misc] <= eventtab2'[s].evtime
      /\ Ahead => Ahead'
      /\ nextevent' <= EVT_MAX
  <2>1. CASE m < EVT_MAX
    <3>1. /\ eventtab' = [eventtab EXCEPT ![ev_misc] = m]
          /\ nextevent' = Scheduled(eventtab')
      BY <2>1 DEF MiscDone
    <3>2. \A i \in 0 .. ev_max - 1 :
              eventtab'[i] = IF i = ev_misc THEN m ELSE eventtab[i]
      BY <1>2, <1>6, <3>1 DEF TypeOK
    <3>3. \A i \in 0 .. ev_max - 1 : eventtab'[i] \in 0 .. EVT_MAX
      BY <1>4, <1>6, <3>2, SMT
    <3>4. \A i \in 0 .. ev_max - 1 : eventtab[i] > 0 => eventtab'[i] > 0
      BY <1>4, <1>6, <3>2, SMT
    <3>5. \A s \in Slots : eventtab'[ev_misc] <= eventtab2'[s].evtime
      BY <1>1, <1>5, <1>6, <3>2
    <3>6. /\ \E i \in 0 .. ev_max - 1 : nextevent' = eventtab'[i]
          /\ \A i \in 0 .. ev_max - 1 : nextevent' <= eventtab'[i]
      <4>1. eventtab' \in [0 .. ev_max - 1 -> Int]  BY <1>2 DEF TypeOK
      <4> QED  BY <3>1, <4>1, <1>6, ScheduledIs
    <3>7. nextevent' <= EVT_MAX  BY <3>3, <3>6, Sizes, SMT
    <3>8. Ahead => Ahead'
      <4> SUFFICES ASSUME Ahead PROVE Ahead'  OBVIOUS
      <4>1. \A i \in 0 .. ev_max - 1 : eventtab[i] > 0
        <5> TAKE i \in 0 .. ev_max - 1
        <5>1. nextevent > 0 /\ nextevent <= eventtab[i]  BY <1>6 DEF Ahead
        <5>2. nextevent \in Int /\ eventtab[i] \in Int  BY <1>2 DEF TypeOK
        <5> QED  BY <5>1, <5>2, SMT
      <4>2. nextevent' > 0  BY <3>4, <3>6, <4>1
      <4> QED  BY <1>6, <3>6, <4>2 DEF Ahead
    <3> QED  BY <3>3, <3>4, <3>5, <3>7, <3>8
  <2>2. CASE ~(m < EVT_MAX)
    <3>1. UNCHANGED <<eventtab, nextevent>>  BY <2>2 DEF MiscDone
    <3>2. m = EVT_MAX  BY <1>4, <2>2, Sizes, SMT
    <3>3. Ahead => Ahead'  BY <3>1 DEF Ahead
    <3>4. nextevent' <= EVT_MAX  BY <3>1 DEF TimesKept
    <3> QED  BY <1>1, <1>5, <1>6, <1>7, <3>1, <3>2, <3>3, <3>4
  <2> QED  BY <2>1, <2>2
<1>9. rest # << >> => Head(rest).at # "misc"
  BY <1>1, <1>2, Callers, SMT
<1> HIDE DEF rest
<1>10. NoScan(rest)
  <2>1. Count(rest) = 0  BY <1>2, <1>3, SMT
  <2> QED  BY <1>2, <1>9, <2>1, NoScans
<1>11. ChainOf(stack', TimelyFrames', TimelyCalls', TimelyFirst')
  <2>1. ChainOf(rest, TimelyFrames', TimelyCalls', TimelyFirst')
    BY <1>2, <1>8, <1>10, TimelyKept
  <2> QED  BY <1>1, <2>1
<1>12. Quiet' => Ahead'
  <2>1. rest = << >> => Ahead  BY <1>1, <1>2, SMT DEF TimelyFirst
  <2> QED  BY <1>1, <1>8, <2>1 DEF Quiet
<1>13. ~At("misc")'  BY <1>1, <1>9 DEF At
<1> QED  BY <1>1, <1>3, <1>6, <1>8, <1>11, <1>12, <1>13 DEF TimesKept

\* With eventtab and nextevent as they are, nothing comes sooner.
LEMMA UnchangedTimes ==
    ASSUME TypeOK, TimesKept, UNCHANGED <<nextevent, eventtab>>
    PROVE  /\ Ahead => Ahead'
           /\ \A j \in 0 .. ev_max - 1 : eventtab[j] > 0 => eventtab'[j] > 0
           /\ \A j \in 0 .. ev_max - 1 : eventtab'[j] \in 0 .. EVT_MAX
           /\ eventtab'[ev_misc] = eventtab[ev_misc] /\ nextevent' <= EVT_MAX
<1>1. \A j \in 0 .. ev_max - 1 : eventtab[j] \in 0 .. EVT_MAX
  BY TimeTypes
<1>2. nextevent <= EVT_MAX  BY DEF TimesKept
<1> QED  BY <1>1, <1>2 DEF Ahead

\* A return after which nothing comes sooner.
LEMMA ReturnTimely ==
    ASSUME TableInv, TableInv', TimesKept, stack # << >>,
           Top.at = "handler", Top.of # "misc", stack' = Tail(stack),
           UNCHANGED <<eventtab2, event2cnt>>,
           eventtab'[ev_misc] = eventtab[ev_misc], nextevent' <= EVT_MAX,
           \A i \in 0 .. ev_max - 1 : eventtab'[i] \in 0 .. EVT_MAX,
           \A i \in 0 .. ev_max - 1 : eventtab[i] > 0 => eventtab'[i] > 0,
           Ahead => Ahead'
    PROVE  TimesKept'
<1> DEFINE rest == Tail(stack)
<1>1. /\ TypeOK /\ TypeOK' /\ TimelyBase(rest)
      /\ rest = << >> => Top \in TimelyFirst
      /\ ChainOf(rest, StackFrames, StackCalls, FirstFrames)
      /\ rest # << >> => <<Top, Head(rest)>> \in StackCalls
  <2>1. TypeOK /\ TypeOK'  BY DEF TableInv
  <2> QED  BY <2>1, TopIs, TimelyTop
<1>2. DOMAIN eventtab' = 0 .. ev_max - 1  BY <1>1 DEF TypeOK
<1>3. rest # << >> => Head(rest).at # "misc"
  <2>1. rest # << >> => CalledFrom(Top, Head(rest))  BY <1>1, Callers
  <2> QED  BY <2>1, SMT DEF CalledFrom, Handler
<1> HIDE DEF rest
<1>4. \A s \in Slots : eventtab2[s].evtime <= eventtab2'[s].evtime
  <2>1. \A s \in Slots : eventtab2[s].evtime \in 0 .. EVT_MAX
    BY <1>1, TimeTypes
  <2> QED  BY <2>1, SMT
<1>5. ChainOf(rest, TimelyFrames', TimelyCalls', TimelyFirst')
  BY <1>1, <1>4, TimelyKept
<1>6. ~At("misc") /\ ~At("misc")'  BY <1>3 DEF At, Top, rest
<1>7. Quiet' => Ahead'
  <2>1. rest = << >> => Ahead  BY <1>1, SMT DEF TimelyFirst
  <2> QED  BY <2>1 DEF Quiet, rest
<1> QED  BY <1>2, <1>5, <1>6, <1>7 DEF TimesKept, rest

LEMMA ScanReturnTimely ==
    ASSUME TableInv, TableInv', TimesKept, HandlerReturns,
           stack # << >>, Top.at = "handler", Top.of = "misc",
           event2restart = 0
    PROVE  TimesKept'
<1> PICK f : f = stack[2]  OBVIOUS
<1> PICK g : g = Moved(f, f.i + 1, f.mintime)  OBVIOUS
<1> DEFINE t == Tail(stack)
           rest == Tail(t)
<1>1. /\ TypeOK /\ TypeOK' /\ Handler(Top, "misc") /\ t # << >>
      /\ ChainOf(t, StackFrames, StackCalls, FirstFrames)
      /\ <<Top, Head(t)>> \in StackCalls /\ <<Top, Head(t)>> \in TimelyCalls
      /\ TimelyBase(t)
      /\ event2cnt = Count(t) + 1 /\ Count(t) \in Nat
  <2>1. TypeOK /\ TypeOK' /\ Handler(Top, "misc")  BY DEF TableInv, Handler
  <2>2. t # << >>
    <3>1. Top \notin FirstFrames  BY DEF FirstFrames
    <3> QED  BY <3>1, TopIs
  <2> QED  BY <2>1, <2>2, TopIs, TimelyTop
<1>2. f = Head(t)
  <2>1. stack \in Seq(Frame)  BY Counted
  <2> QED  BY <1>1, <2>1, SMT
<1> HIDE DEF t
<1>3. f \in Frame /\ f.at = "misc" /\ f.i < ev2_max
  BY <1>1, <1>2, Callers
<1>4. NotBefore(f, f.i)
  <2>1. <<Top, f>> \in TimelyCalls  BY <1>1, <1>2
  <2> QED  BY <1>1, <2>1 DEF TimelyCalls
<1>5. /\ ChainOf(rest, StackFrames, StackCalls, FirstFrames)
      /\ rest # << >> => <<f, Head(rest)>> \in StackCalls
      /\ TimelyBase(rest)
      /\ f \in TimelyFrames
      /\ rest = << >> => f \in TimelyFirst
  <2>1. ChainOf(Tail(t), StackFrames, StackCalls, FirstFrames)
    BY <1>1, ChainPop
  <2>2. Tail(t) # << >> => <<Head(t), Head(Tail(t))>> \in StackCalls
    BY <1>1, ChainPop
  <2>3. ChainOf(t, TimelyFrames, TimelyCalls, TimelyFirst)
    BY <1>1 DEF TimelyBase
  <2>4. ChainOf(Tail(t), TimelyFrames, TimelyCalls, TimelyFirst)
    BY <1>1, <2>3, ChainPop
  <2>5. Head(t) \in TimelyFrames  BY <1>1, <2>3, ChainPop
  <2>6. Tail(t) = << >> => Head(t) \in TimelyFirst  BY <1>1, <2>3, ChainPop
  <2> QED  BY <1>2, <2>1, <2>2, <2>4, <2>5, <2>6 DEF TimelyBase
<1>6. f \in [at : {"misc"}, idx2 : Slots, i : 0 .. ev2_max, mintime : Int]
  BY <1>3, SMT DEF Frame
<1>7. /\ event2cnt' = event2cnt - 1
      /\ stack' = <<g>> \o rest
      /\ UNCHANGED <<nextevent, eventtab, eventtab2>>
  <2>1. [f EXCEPT !.i = f.i + 1] = g  BY <1>6, SMT DEF Moved
  <2>2. ReturnToMisc(f)  BY DEF HandlerReturns
  <2>3. ~(event2restart > 0)  BY SMT
  <2> QED  BY <2>1, <2>2, <2>3 DEF ReturnToMisc, HandlerReturns, t
<1> HIDE DEF rest
<1>8. event2cnt' = 0 /\ event2cnt' <= 1
  <2>1. event2cnt <= 1  BY DEF TimesKept
  <2> QED  BY <1>1, <1>7, <2>1, SMT
<1>9. /\ g \in Frame /\ g.at = "misc" /\ g.idx2 = f.idx2 /\ g.i = f.i + 1
      /\ g.mintime = f.mintime /\ ~Handler(g, "misc")
  <2>1. f.i + 1 \in 0 .. ev2_max /\ f.mintime \in Int
    BY <1>3, <1>6, Sizes, SMT
  <2>2. g \in Frame  BY <1>3, <2>1, MiscFrameMoved
  <2> QED  BY <2>2 DEF Moved, Handler
<1>10. g \in TimelyFrames'
  <2>1. /\ eventtab[ev_misc] = EVT_MAX /\ f.mintime \in 1 .. EVT_MAX
        /\ \A k \in 0 .. f.i - 1 : NotBefore(f, k)
    BY <1>3, <1>5 DEF TimelyFrames
  <2>2. ASSUME NEW k \in 0 .. g.i - 1 PROVE NotBefore(g, k)'
    <3>1. k \in 0 .. f.i - 1 \/ k = f.i  BY <1>6, <1>9, SMT
    <3>2. NotBefore(f, k)  BY <1>4, <2>1, <3>1
    <3> QED  BY <3>2, <1>7, <1>9 DEF NotBefore, SlotAt
  <2> QED  BY <1>7, <1>9, <2>1, <2>2 DEF TimelyFrames
<1>11. rest # << >> => <<g, Head(rest)>> \in TimelyCalls'
  BY <1>5, <1>9, Callers, PlainTimely
<1>12. Ahead => Ahead'  BY <1>7 DEF Ahead
<1>13. rest = << >> => g \in TimelyFirst'
  BY <1>3, <1>5, <1>9, <1>12 DEF TimelyFirst
<1>14. ChainOf(rest, TimelyFrames', TimelyCalls', TimelyFirst')
  <2>1. \A s \in Slots : eventtab2[s].evtime \in 0 .. EVT_MAX
    BY <1>1, TimeTypes
  <2>2. \A s \in Slots : eventtab2[s].evtime <= eventtab2'[s].evtime
    BY <1>7, <2>1, SMT
  <2> QED  BY <1>1, <1>5, <1>7, <1>12, <2>2, TimelyKept
<1>15. /\ ChainOf(stack', TimelyFrames', TimelyCalls', TimelyFirst')
       /\ stack' # << >> /\ Head(stack') = g
  BY <1>7, <1>10, <1>11, <1>13, <1>14, TimelyPushed
<1>16. ~Quiet' /\ At("misc")'  BY <1>9, <1>15 DEF Quiet, At
<1> QED  BY <1>7, <1>8, <1>15, <1>16 DEF TimesKept

LEMMA ResumeTimely ==
    ASSUME TableInv, TableInv', TimesKept, ResumeNewEvent,
           event2restart = 0, event2restart' = 0
    PROVE  TimesKept'
<1> DEFINE rest == Tail(stack)
<1>1. /\ stack # << >> /\ Top.at = "newevent" /\ ~Handler(Top, "misc")
      /\ ~At("misc")
  BY DEF ResumeNewEvent, At, Top, Handler
<1>2. /\ Top \in Frame /\ Top \in StackFrames /\ TypeOK
      /\ Top.no \in MiscSlots /\ Top.event \in OneShot
      /\ Top.event.evtime \in 1 .. EVT_MAX
  <2>1. Top \in Frame /\ Top \in StackFrames /\ TypeOK  BY <1>1, TopIs, Counted
  <2> QED  BY <1>1, <2>1, FrameFacts DEF StackFrames
<1>3. /\ ChainOf(rest, StackFrames, StackCalls, FirstFrames)
      /\ rest # << >> => <<Top, Head(rest)>> \in StackCalls
      /\ Count(rest) \in Nat /\ event2cnt = Count(rest) + 0
      /\ TimelyBase(rest) /\ (rest = << >> => Top \in TimelyFirst)
  BY <1>1, TopIs, TimelyTop
<1>4. Base(rest)
  <2>1. Count(rest) = event2cnt  BY <1>3, SMT
  <2> QED  BY <1>3, <2>1 DEF Base
<1>5. CodeCalls(rest)  BY <1>1, <1>3, Callers DEF CodeCalls
<1>6. Raised(eventtab2)  BY <1>2 DEF TypeOK, Raised
<1>7. Search(eventtab2, Top.no, Top.event, rest)  BY DEF ResumeNewEvent
<1> HIDE DEF rest
<1>8. Placed(rest) \/ CodeCalled(rest)  BY <1>2, <1>6, <1>7, SearchIs
<1>9. rest = << >> => Ahead  BY <1>1, <1>3, SMT DEF TimelyFirst
<1> QED  BY <1>1, <1>3, <1>4, <1>5, <1>8, <1>9, ScheduledTimely

LEMMA HandlerSchedulesTimely ==
    ASSUME TableInv, TableInv', TimesKept, HandlerSchedules,
           event2restart = 0, event2restart' = 0
    PROVE  TimesKept'
<1> PICK g : g = [Top EXCEPT !.left = @ - 1]  OBVIOUS
<1> DEFINE rest == Tail(stack)
<1> PICK b : b = <<g>> \o rest  OBVIOUS
<1>1. /\ stack # << >> /\ Top.at = "handler" /\ Top.left > 0
      /\ ~At("misc") /\ Schedules(b)
  BY DEF HandlerSchedules, At, Top
<1>2. TypeOK /\ Top \in Frame /\ Top \in TimelyFrames
  BY <1>1, TopIs, Counted, TimelyTop
<1>3. g \in Frame /\ g.at = "handler" /\ g.of = Top.of
  <2>1. Top \in [at : {"handler"}, of : {"event", "misc", "newevent", "direct"},
                 left : Nat]
    BY <1>1, <1>2, SMT DEF Frame
  <2>2. g = [at |-> "handler", of |-> Top.of, left |-> Top.left - 1]
    BY <2>1, SMT
  <2>3. g \in [at : {"handler"}, of : {"event", "misc", "newevent", "direct"},
               left : Nat]
    BY <1>1, <2>1, <2>2, SMT
  <2> QED  BY <2>2, <2>3 DEF Frame
<1>4. Base(b) /\ CodeCalls(b) /\ b # << >>
  <2>1. b = <<[Top EXCEPT !.left = @ - 1]>> \o Tail(stack)  OBVIOUS
  <2> QED  BY <1>1, <2>1, HandlerBase
<1>5. TimelyBase(b)
  <2>1. /\ TimelyBase(rest)
        /\ rest # << >> => <<Top, Head(rest)>> \in TimelyCalls
        /\ rest = << >> => Top \in TimelyFirst
    BY <1>1, TimelyTop
  <2>2. g \in TimelyFrames  BY <1>3 DEF TimelyFrames
  <2>3. rest = << >> => g \in TimelyFirst
    BY <1>1, <1>3, <2>1, SMT DEF TimelyFirst
  <2>4. rest # << >> => <<g, Head(rest)>> \in TimelyCalls
    <3> SUFFICES ASSUME rest # << >> PROVE <<g, Head(rest)>> \in TimelyCalls
      OBVIOUS
    <3>1. /\ <<Top, Head(rest)>> \in Frame \X Frame
          /\ Handler(Top, "misc") => NotBefore(Head(rest), Head(rest).i)
      BY <2>1 DEF TimelyCalls
    <3>2. Handler(g, "misc") <=> Handler(Top, "misc")
      BY <1>1, <1>3 DEF Handler
    <3> HIDE DEF rest
    <3> QED  BY <1>3, <3>1, <3>2 DEF TimelyCalls
  <2> HIDE DEF rest
  <2>5. ChainOf(<<g>> \o rest, TimelyFrames, TimelyCalls, TimelyFirst)
    BY <2>1, <2>2, <2>3, <2>4, ChainPush DEF TimelyBase
  <2> QED  BY <2>5 DEF TimelyBase
<1>6. Placed(b) \/ CodeCalled(b)  BY <1>1, <1>2, SchedulesIs
<1> QED  BY <1>1, <1>4, <1>5, <1>6, ScheduledTimely

\* No call is in progress, or the clock loop alone is.
LEMMA AloneTimely ==
    ASSUME TypeOK', event2cnt' = 0, nextevent' <= EVT_MAX,
           \/ stack' = << >> /\ Ahead'
           \/ \E c \in TimelyFrames' : c.at = "cycles" /\ stack' = <<c>>,
           \A s \in Slots : eventtab2'[s].evtime \in 0 .. EVT_MAX,
           \A i \in 0 .. ev_max - 1 : eventtab'[i] \in 0 .. EVT_MAX,
           \A s \in Slots : eventtab'[ev_misc] <= eventtab2'[s].evtime
    PROVE  TimesKept'
<1>1. /\ ChainOf(stack', TimelyFrames', TimelyCalls', TimelyFirst')
      /\ Quiet' => Ahead'
      /\ ~At("misc")'
  <2>1. CASE stack' = << >> /\ Ahead'
    <3> DEFINE F == TimelyFrames'
               C == TimelyCalls'
               B == TimelyFirst'
    <3>1. ChainOf(<< >>, F, C, B)  BY ChainEmpty
    <3> QED  BY <2>1, <3>1 DEF At
  <2>2. ASSUME NEW c \in TimelyFrames', c.at = "cycles", stack' = <<c>>
        PROVE  /\ ChainOf(stack', TimelyFrames', TimelyCalls', TimelyFirst')
               /\ Quiet' => Ahead'
               /\ ~At("misc")'
    <3> DEFINE F == TimelyFrames'
               C == TimelyCalls'
               B == TimelyFirst'
    <3>1. c \in F /\ c \in B  BY <2>2 DEF TimelyFrames, TimelyFirst
    <3> HIDE DEF F, C, B
    <3>2. ChainOf(<<c>>, F, C, B) /\ Head(<<c>>) = c /\ <<c>> # << >>
      BY <3>1, OneFrame
    <3>3. ChainOf(stack', TimelyFrames', TimelyCalls', TimelyFirst')
      BY <2>2, <3>2 DEF F, C, B
    <3>4. ~Quiet' /\ ~At("misc")'  BY <2>2, <3>2 DEF Quiet, At
    <3> QED  BY <3>3, <3>4
  <2> QED  BY <2>1, <2>2
<1>2. DOMAIN eventtab' = 0 .. ev_max - 1  BY DEF TypeOK
<1>3. event2cnt' <= 1  BY SMT
<1> QED  BY <1>1, <1>2, <1>3 DEF TimesKept

\* Time passes up to what comes next, at most: nothing is late, and the order
\* of what is pending stays.
LEMMA LaterTimes ==
    ASSUME NEW t \in 0 .. EVT_MAX, NEW d \in Int, 0 <= d, d <= t
    PROVE  /\ Later(t, d) \in 0 .. EVT_MAX
           /\ d < t => Later(t, d) > 0
           /\ \A u \in 0 .. EVT_MAX : t <= u => Later(t, d) <= Later(u, d)
<1>1. MaxLate \in Nat /\ EVT_MAX \in Nat /\ EVT_MAX > 0
  BY EventTableAssumption, Sizes, SMT DEF EventTableAssumption
<1> QED  BY <1>1, SMT DEF Later

LEMMA AdvanceTimes ==
    ASSUME TypeOK, TimesKept, event2cnt = 0, ~At("misc"), Ahead,
           NEW d \in Int, 0 <= d, d <= nextevent, AdvanceBy(d)
    PROVE  /\ nextevent' <= EVT_MAX
           /\ \A s \in Slots : eventtab2'[s].evtime \in 0 .. EVT_MAX
           /\ \A i \in 0 .. ev_max - 1 : eventtab'[i] \in 0 .. EVT_MAX
           /\ \A s \in Slots : eventtab'[ev_misc] <= eventtab2'[s].evtime
           /\ d < nextevent => Ahead'
<1>1. /\ \A s \in Slots : eventtab2[s].evtime \in 0 .. EVT_MAX
      /\ \A i \in 0 .. ev_max - 1 : eventtab[i] \in 0 .. EVT_MAX
      /\ DOMAIN eventtab = 0 .. ev_max - 1 /\ ev_misc \in 0 .. ev_max - 1
      /\ nextevent \in Int
  BY TimeTypes
<1>2. /\ nextevent > 0 /\ nextevent <= EVT_MAX
      /\ \A i \in 0 .. ev_max - 1 : nextevent <= eventtab[i]
      /\ \A s \in Slots : eventtab[ev_misc] <= eventtab2[s].evtime
  BY <1>1 DEF Ahead, TimesKept
<1>3. nextevent \in 0 .. EVT_MAX  BY <1>1, <1>2, SMT
<1>4. /\ nextevent' = Later(nextevent, d)
      /\ \A i \in 0 .. ev_max - 1 : eventtab'[i] = Later(eventtab[i], d)
      /\ \A s \in Slots : eventtab2'[s].evtime = Later(eventtab2[s].evtime, d)
      /\ DOMAIN eventtab' = 0 .. ev_max - 1
  <2>1. /\ nextevent' = Later(nextevent, d)
        /\ \A i \in 0 .. ev_max - 1 : eventtab'[i] = Later(eventtab[i], d)
    BY <1>1 DEF AdvanceBy
  <2> QED  BY <2>1, AdvanceTypes
<1>5. \A i \in 0 .. ev_max - 1 : d <= eventtab[i]
  BY <1>1, <1>2, SMT
<1>6. \A s \in Slots : d <= eventtab2[s].evtime
  <2> TAKE s \in Slots
  <2>1. d <= eventtab[ev_misc] /\ eventtab[ev_misc] <= eventtab2[s].evtime
    BY <1>1, <1>2, <1>5
  <2>2. eventtab[ev_misc] \in Int /\ eventtab2[s].evtime \in Int
    BY <1>1, SMT
  <2> QED  BY <2>1, <2>2, SMT
<1>7. \A s \in Slots : eventtab2'[s].evtime \in 0 .. EVT_MAX
  BY <1>1, <1>4, <1>6, LaterTimes
<1>8. \A i \in 0 .. ev_max - 1 : eventtab'[i] \in 0 .. EVT_MAX
  BY <1>1, <1>4, <1>5, LaterTimes
<1>9. \A s \in Slots : eventtab'[ev_misc] <= eventtab2'[s].evtime
  <2> TAKE s \in Slots
  <2>1. Later(eventtab[ev_misc], d) <= Later(eventtab2[s].evtime, d)
    BY <1>1, <1>2, <1>5, LaterTimes
  <2> QED  BY <1>1, <1>4, <2>1
<1>10. nextevent' \in 0 .. EVT_MAX  BY <1>3, <1>4, LaterTimes
<1>11. nextevent' <= EVT_MAX  BY <1>10, SMT
<1>12. ASSUME d < nextevent PROVE Ahead'
  <2>1. nextevent' > 0  BY <1>3, <1>4, <1>12, LaterTimes
  <2>2. \A i \in 0 .. ev_max - 1 : nextevent' <= eventtab'[i]
    BY <1>1, <1>2, <1>3, <1>4, LaterTimes
  <2> QED  BY <1>4, <2>1, <2>2 DEF Ahead
<1> QED  BY <1>7, <1>8, <1>9, <1>11, <1>12

\* events_schedule, with nothing due.
LEMMA ScheduledAhead ==
    ASSUME TypeOK', nextevent' = Scheduled(eventtab'),
           \A i \in 0 .. ev_max - 1 : eventtab'[i] \in 1 .. EVT_MAX
    PROVE  Ahead' /\ nextevent' <= EVT_MAX
<1> DEFINE tab == eventtab'
<1>1. tab \in [0 .. ev_max - 1 -> Int] /\ DOMAIN tab = 0 .. ev_max - 1
  BY DEF TypeOK
<1> HIDE DEF tab
<1>2. /\ \E i \in 0 .. ev_max - 1 : Scheduled(tab) = tab[i]
      /\ \A i \in 0 .. ev_max - 1 : Scheduled(tab) <= tab[i]
  BY <1>1, ScheduledIs
<1>3. Scheduled(tab) \in 1 .. EVT_MAX  BY <1>2 DEF tab
<1>4. nextevent' > 0 /\ nextevent' <= EVT_MAX
  <2>1. nextevent' \in 1 .. EVT_MAX  BY <1>3 DEF tab
  <2> QED  BY <2>1, Sizes, SMT
<1> QED  BY <1>1, <1>2, <1>4 DEF Ahead, tab

\* The clock loop moves the clock.
LEMMA CyclesStepTimely ==
    ASSUME TableInv, TableInv', TimesKept,
           CyclesToNextEvent \/ CyclesDone \/ CyclesScanned
    PROVE  TimesKept'
<1>1. At("cycles")  BY DEF CyclesToNextEvent, CyclesDone, CyclesScanned
<1>2. /\ event2cnt = 0 /\ TypeOK /\ TypeOK' /\ nextevent \in Int
      /\ Top.left \in Int /\ Top.i \in 0 .. LoopHead /\ Top.left >= 0
      /\ Top.at = "cycles" /\ ~At("misc")
      /\ Top \in [at : {"cycles"}, left : Int, i : 0 .. LoopHead]
      /\ Top.i = LoopHead => Ahead
      /\ \A i \in 0 .. ev_max - 1 : i < Top.i => eventtab[i] > 0
  <2>1. /\ event2cnt = 0 /\ Top \in Frame /\ Top.at = "cycles" /\ TypeOK
        /\ TypeOK' /\ stack # << >>
    BY <1>1, CyclesAlone DEF TableInv, At
  <2>2. Top \in [at : {"cycles"}, left : Int, i : 0 .. LoopHead]
    BY <2>1, SMT DEF Frame
  <2>3. Top \in TimelyFrames  BY <2>1, TimelyTop
  <2>4. DOMAIN eventtab = 0 .. ev_max - 1  BY <2>1 DEF TypeOK
  <2>5. ~At("misc")  BY <2>1 DEF At, Top
  <2> QED  BY <2>1, <2>2, <2>3, <2>4, <2>5, FrameFacts DEF TypeOK, TimelyFrames
<1>3. CASE CyclesToNextEvent
  <2> PICK c : c = CyclesFrame(Top.left - nextevent, 0)  OBVIOUS
  <2>1. /\ Top.i = LoopHead /\ nextevent <= Top.left /\ AdvanceBy(nextevent)
        /\ stack' = <<c>>
    BY <1>3 DEF CyclesToNextEvent
  <2>2. Ahead /\ nextevent > 0  BY <1>2, <2>1 DEF Ahead
  <2>3. /\ Top.left - nextevent \in Int /\ Top.left - nextevent >= 0
        /\ 0 <= nextevent /\ nextevent <= nextevent /\ 0 \in 0 .. LoopHead
    BY <1>2, <2>1, <2>2, Sizes, SMT
  <2>4. /\ nextevent' <= EVT_MAX
        /\ \A s \in Slots : eventtab2'[s].evtime \in 0 .. EVT_MAX
        /\ \A i \in 0 .. ev_max - 1 : eventtab'[i] \in 0 .. EVT_MAX
        /\ \A s \in Slots : eventtab'[ev_misc] <= eventtab2'[s].evtime
        /\ event2cnt' = 0
    <3>1. event2cnt' = 0  BY <1>2, <2>1 DEF AdvanceBy
    <3> QED  BY <1>2, <2>1, <2>2, <2>3, <3>1, AdvanceTimes
  <2>5. c \in Frame /\ c.at = "cycles" /\ c.left >= 0 /\ c.i = 0
    BY <2>3, NewFrames
  <2>6. c \in TimelyFrames'
    <3>1. c.i # LoopHead  BY <2>5, Sizes, SMT
    <3>2. \A i \in DOMAIN eventtab' : ~(i < c.i)
      <4>1. DOMAIN eventtab' = 0 .. ev_max - 1  BY <1>2 DEF TypeOK
      <4>2. \A i \in 0 .. ev_max - 1 : ~(i < c.i)  BY <2>5, Sizes, SMT
      <4> QED  BY <4>1, <4>2
    <3> QED  BY <2>5, <3>1, <3>2 DEF TimelyFrames
  <2> QED  BY <1>2, <2>1, <2>4, <2>5, <2>6, AloneTimely
<1>4. CASE CyclesDone
  <2>1. /\ Top.i = LoopHead /\ nextevent > Top.left /\ AdvanceBy(Top.left)
        /\ stack' = << >>
    BY <1>4 DEF CyclesDone
  <2>2. Ahead  BY <1>2, <2>1
  <2>3. 0 <= Top.left /\ Top.left <= nextevent /\ Top.left < nextevent
    BY <1>2, <2>1, SMT
  <2>4. /\ nextevent' <= EVT_MAX
        /\ \A s \in Slots : eventtab2'[s].evtime \in 0 .. EVT_MAX
        /\ \A i \in 0 .. ev_max - 1 : eventtab'[i] \in 0 .. EVT_MAX
        /\ \A s \in Slots : eventtab'[ev_misc] <= eventtab2'[s].evtime
        /\ event2cnt' = 0 /\ Ahead'
    <3>1. event2cnt' = 0  BY <1>2, <2>1 DEF AdvanceBy
    <3> QED  BY <1>2, <2>1, <2>2, <2>3, <3>1, AdvanceTimes
  <2> QED  BY <1>2, <2>1, <2>4, AloneTimely
<1>5. CASE CyclesScanned
  <2> PICK c : c = CyclesFrame(Top.left, LoopHead)  OBVIOUS
  <2>1. /\ nextevent' = Scheduled(eventtab) /\ DueEntries = {}
        /\ UNCHANGED <<eventtab, eventtab2, event2cnt>>
        /\ stack' = <<[Top EXCEPT !.i = LoopHead]>>
    BY <1>5 DEF CyclesScanned
  <2>2. [Top EXCEPT !.i = LoopHead] = CyclesFrame(Top.left, LoopHead)
    BY <1>2, SMT DEF CyclesFrame
  <2>3. LoopHead \in 0 .. LoopHead  BY Sizes, SMT
  <2>4. c \in Frame /\ c.at = "cycles" /\ c.left >= 0
    BY <1>2, <2>3, NewFrames
  <2>5. \A i \in 0 .. ev_max - 1 : eventtab'[i] \in 1 .. EVT_MAX
    <3> TAKE i \in 0 .. ev_max - 1
    <3>1. eventtab[i] \in 0 .. EVT_MAX  BY <1>2, TimeTypes
    <3>2. i < Top.i => eventtab[i] > 0  BY <1>2
    <3>3. ~(i < Top.i) => i \in Top.i .. ev_max - 1  BY <1>2, Sizes, SMT
    <3>4. i \in Top.i .. ev_max - 1 => eventtab[i] # 0
      BY <2>1 DEF DueEntries
    <3> QED  BY <2>1, <3>1, <3>2, <3>3, <3>4, Sizes, SMT
  <2>6. nextevent' = Scheduled(eventtab')  BY <2>1
  <2>7. Ahead' /\ nextevent' <= EVT_MAX  BY <1>2, <2>5, <2>6, ScheduledAhead
  <2>8. c \in TimelyFrames'
    <3>1. DOMAIN eventtab' = 0 .. ev_max - 1  BY <1>2 DEF TypeOK
    <3>2. \A i \in 0 .. ev_max - 1 : eventtab'[i] > 0  BY <2>5, SMT
    <3> QED  BY <2>4, <2>7, <3>1, <3>2 DEF TimelyFrames
  <2>9. /\ \A s \in Slots : eventtab2'[s].evtime \in 0 .. EVT_MAX
        /\ \A i \in 0 .. ev_max - 1 : eventtab'[i] \in 0 .. EVT_MAX
        /\ \A s \in Slots : eventtab'[ev_misc] <= eventtab2'[s].evtime
        /\ event2cnt' = 0
    BY <1>2, <2>1, TimeTypes DEF TimesKept
  <2>10. stack' = <<c>>  BY <2>1, <2>2
  <2> QED  BY <1>2, <2>4, <2>7, <2>8, <2>9, <2>10, AloneTimely
<1> QED  BY <1>3, <1>4, <1>5

LEMMA CyclesServeTimely ==
    ASSUME TableInv, TableInv', TimesKept, CyclesServe PROVE TimesKept'
<1> PICK i : i = Least(DueEntries)  OBVIOUS
<1> PICK c : c = CyclesFrame(Top.left, i)  OBVIOUS
<1>1. At("cycles") /\ DueEntries # {} /\ Top.i <= ev_max  BY DEF CyclesServe
<1>2. /\ event2cnt = 0 /\ TypeOK /\ TypeOK' /\ ~At("misc")
      /\ Top.left \in Int /\ Top.i \in 0 .. LoopHead /\ Top.left >= 0
      /\ Top \in [at : {"cycles"}, left : Int, i : 0 .. LoopHead]
      /\ \A j \in 0 .. ev_max - 1 : j < Top.i => eventtab[j] > 0
  <2>1. /\ event2cnt = 0 /\ Top \in Frame /\ Top.at = "cycles" /\ TypeOK
        /\ TypeOK' /\ stack # << >>
    BY <1>1, CyclesAlone DEF TableInv, At
  <2>2. Top \in [at : {"cycles"}, left : Int, i : 0 .. LoopHead]
    BY <2>1, SMT DEF Frame
  <2>3. Top \in TimelyFrames  BY <2>1, TimelyTop
  <2>4. DOMAIN eventtab = 0 .. ev_max - 1  BY <2>1 DEF TypeOK
  <2>5. ~At("misc")  BY <2>1 DEF At, Top
  <2> QED  BY <2>1, <2>2, <2>3, <2>4, <2>5, FrameFacts DEF TimelyFrames
<1>3. i \in DueEntries /\ \A j \in DueEntries : i <= j
  <2>1. DueEntries \subseteq Nat  BY <1>2, SMT DEF DueEntries
  <2> QED  BY <1>1, <2>1, LeastNat
<1>4. i \in 0 .. ev_max - 1 /\ i \in 0 .. LoopHead /\ i # LoopHead
  BY <1>2, <1>3, Sizes, SMT DEF DueEntries
<1>5. /\ \A s \in Slots : eventtab2[s].evtime \in 0 .. EVT_MAX
      /\ \A j \in 0 .. ev_max - 1 : eventtab[j] \in 0 .. EVT_MAX
      /\ ev_misc \in 0 .. ev_max - 1
      /\ nextevent <= EVT_MAX
      /\ \A s \in Slots : eventtab[ev_misc] <= eventtab2[s].evtime
  BY <1>2, TimeTypes DEF TimesKept
<1>6. \A j \in 0 .. ev_max - 1 : j < i => eventtab[j] > 0
  <2> SUFFICES ASSUME NEW j \in 0 .. ev_max - 1, j < i
               PROVE  eventtab[j] > 0
    OBVIOUS
  <2>1. j \notin DueEntries  BY <1>3, <1>4, SMT
  <2>2. ~(j < Top.i) => j \in Top.i .. ev_max - 1  BY <1>2, Sizes, SMT
  <2>3. ~(j < Top.i) => eventtab[j] # 0  BY <2>1, <2>2 DEF DueEntries
  <2>4. eventtab[j] \in 0 .. EVT_MAX /\ (j < Top.i => eventtab[j] > 0)
    BY <1>2, <1>5
  <2> QED  BY <2>3, <2>4, SMT
<1>7. [Top EXCEPT !.i = i] = c  BY <1>2, SMT DEF CyclesFrame
<1>8. /\ c \in Frame /\ c.at = "cycles" /\ c.i = i /\ c.left >= 0
      /\ c.i # LoopHead
  BY <1>2, <1>4, NewFrames
<1>9. ASSUME DOMAIN eventtab' = 0 .. ev_max - 1,
             \A j \in 0 .. ev_max - 1 : eventtab[j] <= eventtab'[j],
             \A j \in 0 .. ev_max - 1 : eventtab'[j] \in 0 .. EVT_MAX
      PROVE  c \in TimelyFrames' /\ c \in TimelyFirst'
  <2>1. ASSUME NEW j \in 0 .. ev_max - 1, j < c.i PROVE eventtab'[j] > 0
    <3>1. eventtab[j] > 0  BY <1>6, <1>8, <2>1
    <3>2. eventtab[j] \in 0 .. EVT_MAX  BY <1>5
    <3> QED  BY <1>9, <3>1, <3>2, SMT
  <2>2. c \in TimelyFrames'  BY <1>8, <1>9, <2>1 DEF TimelyFrames
  <2>3. c \in TimelyFirst'  BY <1>8 DEF TimelyFirst
  <2> QED  BY <2>2, <2>3
<1>10. ASSUME c \in TimelyFrames', c \in TimelyFirst'
       PROVE  /\ ChainOf(<<c>>, TimelyFrames', TimelyCalls', TimelyFirst')
              /\ Head(<<c>>) = c /\ <<c>> # << >>
  <2> DEFINE F == TimelyFrames'
             C == TimelyCalls'
             B == TimelyFirst'
  <2>1. c \in F /\ c \in B  BY <1>10
  <2> HIDE DEF F, C, B
  <2>2. ChainOf(<<c>>, F, C, B) /\ Head(<<c>>) = c /\ <<c>> # << >>
    BY <2>1, OneFrame
  <2> QED  BY <2>2 DEF F, C, B
<1>11. CASE i = ev_misc
  <2> PICK f : f = MiscFrame(event2idx)  OBVIOUS
  <2>1. /\ eventtab' = [eventtab EXCEPT ![i] = EVT_MAX]
        /\ stack' = <<f>> \o <<c>> /\ UNCHANGED <<nextevent, event2cnt>>
        /\ UNCHANGED eventtab2 /\ event2idx \in Slots
    BY <1>2, <1>7, <1>11 DEF CyclesServe, EnterMisc, TypeOK
  <2>2. \A j \in 0 .. ev_max - 1 :
            eventtab'[j] = IF j = i THEN EVT_MAX ELSE eventtab[j]
    BY <1>2, <1>4, <2>1 DEF TypeOK
  <2>3. /\ \A j \in 0 .. ev_max - 1 : eventtab'[j] \in 0 .. EVT_MAX
        /\ DOMAIN eventtab' = 0 .. ev_max - 1 /\ eventtab'[ev_misc] = EVT_MAX
        /\ c \in TimelyFrames' /\ c \in TimelyFirst'
    <3>1. DOMAIN eventtab' = 0 .. ev_max - 1  BY <1>2 DEF TypeOK
    <3>2. /\ \A j \in 0 .. ev_max - 1 : eventtab'[j] \in 0 .. EVT_MAX
          /\ \A j \in 0 .. ev_max - 1 : eventtab[j] <= eventtab'[j]
      <4>1. ASSUME NEW j \in 0 .. ev_max - 1
            PROVE  eventtab'[j] \in 0 .. EVT_MAX /\ eventtab[j] <= eventtab'[j]
        <5>1. eventtab[j] \in 0 .. EVT_MAX  BY <1>5
        <5>2. eventtab'[j] = EVT_MAX \/ eventtab'[j] = eventtab[j]  BY <2>2
        <5> QED  BY <5>1, <5>2, Sizes, SMT
      <4> QED  BY <4>1
    <3> QED  BY <1>5, <1>9, <1>11, <2>2, <3>1, <3>2
  <2>4. /\ ChainOf(<<c>>, TimelyFrames', TimelyCalls', TimelyFirst')
        /\ Head(<<c>>) = c /\ <<c>> # << >>
    BY <1>10, <2>3
  <2>5. /\ f \in Frame /\ f.at = "misc" /\ f.i = 0 /\ f.mintime = EVT_MAX
        /\ ~Handler(f, "misc")
    BY <2>1, NewFrames DEF Handler
  <2>6. f \in TimelyFrames'
    <3>1. 0 .. f.i - 1 = {} /\ f.mintime \in 1 .. EVT_MAX
      BY <2>5, Sizes, SMT
    <3> QED  BY <2>3, <2>5, <3>1 DEF TimelyFrames
  <2>7. <<f, Head(<<c>>)>> \in TimelyCalls'
    BY <1>8, <2>4, <2>5, PlainTimely
  <2>8. /\ ChainOf(stack', TimelyFrames', TimelyCalls', TimelyFirst')
        /\ stack' # << >> /\ Head(stack') = f
    BY <2>1, <2>4, <2>6, <2>7, TimelyPushed
  <2>9. ~Quiet' /\ At("misc")'  BY <2>5, <2>8 DEF Quiet, At
  <2>10. event2cnt' = 0 /\ event2cnt' <= 1  BY <1>2, <2>1, SMT
  <2> QED  BY <1>5, <2>1, <2>3, <2>8, <2>9, <2>10 DEF TimesKept
<1>12. CASE i # ev_misc
  <2> PICK h : h = HandlerFrame("event")  OBVIOUS
  <2>1. /\ stack' = <<h>> \o <<c>>
        /\ UNCHANGED <<nextevent, eventtab, eventtab2, event2cnt>>
    BY <1>7, <1>12 DEF CyclesServe
  <2>2. /\ DOMAIN eventtab' = 0 .. ev_max - 1
        /\ \A j \in 0 .. ev_max - 1 : eventtab'[j] \in 0 .. EVT_MAX
        /\ \A j \in 0 .. ev_max - 1 : eventtab[j] <= eventtab'[j]
    <3>1. DOMAIN eventtab' = 0 .. ev_max - 1  BY <1>2 DEF TypeOK
    <3> QED  BY <1>5, <2>1, <3>1, SMT
  <2>3. /\ ChainOf(<<c>>, TimelyFrames', TimelyCalls', TimelyFirst')
        /\ Head(<<c>>) = c /\ <<c>> # << >>
    BY <1>9, <1>10, <2>2
  <2>4. h \in Frame /\ h.at = "handler" /\ ~Handler(h, "misc")
    BY NewFrames, SMT DEF Handler
  <2>5. h \in TimelyFrames'  BY <2>4 DEF TimelyFrames
  <2>6. <<h, Head(<<c>>)>> \in TimelyCalls'
    BY <1>8, <2>3, <2>4, PlainTimely
  <2>7. /\ ChainOf(stack', TimelyFrames', TimelyCalls', TimelyFirst')
        /\ stack' # << >> /\ Head(stack') = h
    BY <2>1, <2>3, <2>5, <2>6, TimelyPushed
  <2>8. ~Quiet' /\ ~At("misc")'  BY <2>4, <2>7 DEF Quiet, At
  <2>9. event2cnt' = 0 /\ event2cnt' <= 1  BY <1>2, <2>1, SMT
  <2> QED  BY <1>5, <2>1, <2>2, <2>7, <2>8, <2>9 DEF TimesKept
<1> QED  BY <1>11, <1>12

\* An entry is armed or stopped: nothing comes closer than that.
LEMMA ArmTimes ==
    ASSUME TypeOK, TypeOK', TimesKept, NEW i \in 0 .. ev_max - 1, i # ev_misc,
           NEW p \in Periods \cup {EVT_MAX}, Arm(i, p)
    PROVE  /\ Ahead => Ahead'
           /\ \A j \in 0 .. ev_max - 1 : eventtab[j] > 0 => eventtab'[j] > 0
           /\ \A j \in 0 .. ev_max - 1 : eventtab'[j] \in 0 .. EVT_MAX
           /\ eventtab'[ev_misc] = eventtab[ev_misc] /\ nextevent' <= EVT_MAX
<1>1. /\ p \in 1 .. EVT_MAX /\ nextevent' = Scheduled(eventtab')
      /\ \A j \in 0 .. ev_max - 1 :
            eventtab'[j] = IF j = i THEN p ELSE eventtab[j]
  BY ArmIs
<1>2. /\ \A j \in 0 .. ev_max - 1 : eventtab[j] \in 0 .. EVT_MAX
      /\ DOMAIN eventtab = 0 .. ev_max - 1 /\ ev_misc \in 0 .. ev_max - 1
      /\ nextevent \in Int
  BY TimeTypes
<1>3. /\ \A j \in 0 .. ev_max - 1 : eventtab[j] > 0 => eventtab'[j] > 0
      /\ \A j \in 0 .. ev_max - 1 : eventtab'[j] \in 0 .. EVT_MAX
      /\ eventtab'[ev_misc] = eventtab[ev_misc]
  BY <1>1, <1>2, SMT
<1>4. nextevent' <= EVT_MAX
  <2> DEFINE tab == eventtab'
  <2>1. tab \in [0 .. ev_max - 1 -> Int] /\ DOMAIN tab = 0 .. ev_max - 1
    BY DEF TypeOK
  <2>2. \A j \in 0 .. ev_max - 1 : tab[j] \in 0 .. EVT_MAX  BY <1>3
  <2> HIDE DEF tab
  <2>3. \E j \in 0 .. ev_max - 1 : Scheduled(tab) = tab[j]
    BY <2>1, ScheduledIs
  <2>4. Scheduled(tab) <= EVT_MAX  BY <2>2, <2>3, Sizes, SMT
  <2> QED  BY <1>1, <2>4 DEF tab
<1>5. ASSUME Ahead PROVE Ahead'
  <2>1. \A j \in 0 .. ev_max - 1 : eventtab'[j] \in 1 .. EVT_MAX
    <3> TAKE j \in 0 .. ev_max - 1
    <3>1. nextevent > 0 /\ nextevent <= eventtab[j]  BY <1>2, <1>5 DEF Ahead
    <3>2. eventtab[j] > 0  BY <1>2, <3>1, SMT
    <3> QED  BY <1>3, <3>2, SMT
  <2> QED  BY <1>1, <2>1, ScheduledAhead
<1> QED  BY <1>3, <1>4, <1>5

LEMMA PeriodicReturnsTimely ==
    ASSUME TableInv, TableInv', TimesKept, PeriodicReturns PROVE TimesKept'
<1>1. /\ stack # << >> /\ Top.at = "handler" /\ Top.of = "event"
      /\ Handler(Top, "event") /\ stack' = Tail(stack)
      /\ UNCHANGED <<eventtab2, event2cnt>> /\ TypeOK /\ TypeOK'
  BY DEF PeriodicReturns, At, Top, Handler, TableInv
<1> PICK i : i = stack[2].i  OBVIOUS
<1>2. i \in 0 .. ev_max - 1 /\ i # ev_misc  BY <1>1, PeriodicIs
<1>3. ASSUME NEW p \in Periods \cup {EVT_MAX}, Arm(i, p) PROVE TimesKept'
  <2>1. /\ Ahead => Ahead'
        /\ \A j \in 0 .. ev_max - 1 : eventtab[j] > 0 => eventtab'[j] > 0
        /\ \A j \in 0 .. ev_max - 1 : eventtab'[j] \in 0 .. EVT_MAX
        /\ eventtab'[ev_misc] = eventtab[ev_misc] /\ nextevent' <= EVT_MAX
    BY <1>1, <1>2, <1>3, ArmTimes
  <2> QED  BY <1>1, <2>1, ReturnTimely
<1>4. ASSUME UNCHANGED <<eventtab, nextevent>> PROVE TimesKept'
  BY <1>1, <1>4, UnchangedTimes, ReturnTimely
<1> QED  BY <1>3, <1>4 DEF PeriodicReturns

\* The tables change, the calls in progress stay, and nothing comes sooner.
LEMMA SameStackTimely ==
    ASSUME TableInv, TableInv', TimesKept, UNCHANGED <<event2cnt, stack>>,
           Ahead => Ahead', nextevent' <= EVT_MAX,
           \A i \in 0 .. ev_max - 1 : eventtab'[i] \in 0 .. EVT_MAX,
           \A i \in 0 .. ev_max - 1 : eventtab[i] > 0 => eventtab'[i] > 0,
           \A s \in Slots : eventtab2'[s].evtime \in 0 .. EVT_MAX,
           \A s \in Slots : eventtab2[s].evtime <= eventtab2'[s].evtime,
           \/ eventtab'[ev_misc] = eventtab[ev_misc]
           \/ /\ eventtab'[ev_misc] = EVT_MAX
              /\ \A s \in Slots : eventtab2'[s].evtime = EVT_MAX
    PROVE  TimesKept'
<1>1. /\ TypeOK /\ TypeOK'
      /\ ChainOf(stack, StackFrames, StackCalls, FirstFrames)
  BY Counted DEF TableInv
<1>2. /\ \A s \in Slots : eventtab2[s].evtime \in 0 .. EVT_MAX
      /\ \A i \in 0 .. ev_max - 1 : eventtab[i] \in 0 .. EVT_MAX
      /\ ev_misc \in 0 .. ev_max - 1
      /\ DOMAIN eventtab' = 0 .. ev_max - 1
  BY <1>1, TimeTypes DEF TypeOK
<1>3. ChainOf(stack', TimelyFrames', TimelyCalls', TimelyFirst')
  <2>1. TimelyBase(stack)  BY DEF TimelyBase, TimesKept
  <2>2. eventtab'[ev_misc] \in {eventtab[ev_misc], EVT_MAX}  OBVIOUS
  <2>3. ChainOf(stack, TimelyFrames', TimelyCalls', TimelyFirst')
    BY <1>1, <2>1, <2>2, TimelyKept
  <2> QED  BY <2>3
<1>4. /\ Quiet' => Ahead'
      /\ event2cnt' <= 1 /\ (At("misc")' => event2cnt' = 0)
  BY DEF TimesKept, Quiet, At
<1>5. event2cnt' = 0 /\ ~At("misc")' =>
          \A s \in Slots : eventtab'[ev_misc] <= eventtab2'[s].evtime
  <2> SUFFICES ASSUME event2cnt' = 0, ~At("misc")', NEW s \in Slots
               PROVE  eventtab'[ev_misc] <= eventtab2'[s].evtime
    OBVIOUS
  <2>1. event2cnt = 0 /\ ~At("misc")  BY DEF At
  <2>2. eventtab[ev_misc] <= eventtab2[s].evtime  BY <2>1 DEF TimesKept
  <2>3. /\ eventtab[ev_misc] \in Int /\ eventtab2[s].evtime \in Int
        /\ eventtab2'[s].evtime \in Int /\ EVT_MAX <= EVT_MAX
    BY <1>2, Sizes, SMT
  <2>4. eventtab2[s].evtime <= eventtab2'[s].evtime  OBVIOUS
  <2>5. CASE eventtab'[ev_misc] = eventtab[ev_misc]
    BY <2>2, <2>3, <2>4, <2>5, SMT
  <2>6. CASE eventtab'[ev_misc] = EVT_MAX /\ eventtab2'[s].evtime = EVT_MAX
    BY <2>3, <2>6
  <2> QED  BY <2>5, <2>6
<1> QED  BY <1>2, <1>3, <1>4, <1>5 DEF TimesKept

LEMMA ArmsTimely ==
    ASSUME TableInv, TableInv', TimesKept, Arms PROVE TimesKept'
<1>1. PICK i \in Periodic, p \in Periods \cup {EVT_MAX} : Arm(i, p)
  BY DEF Arms
<1>2. UNCHANGED <<eventtab2, event2cnt, stack>> /\ TypeOK /\ TypeOK'
  BY DEF Arms, TableInv
<1>3. i \in 0 .. ev_max - 1 /\ i # ev_misc  BY PeriodicEntries
<1>4. /\ Ahead => Ahead'
      /\ \A j \in 0 .. ev_max - 1 : eventtab[j] > 0 => eventtab'[j] > 0
      /\ \A j \in 0 .. ev_max - 1 : eventtab'[j] \in 0 .. EVT_MAX
      /\ eventtab'[ev_misc] = eventtab[ev_misc] /\ nextevent' <= EVT_MAX
  BY <1>1, <1>2, <1>3, ArmTimes
<1>5. /\ \A s \in Slots : eventtab2'[s].evtime \in 0 .. EVT_MAX
      /\ \A s \in Slots : eventtab2[s].evtime <= eventtab2'[s].evtime
  <2>1. \A s \in Slots : eventtab2[s].evtime \in 0 .. EVT_MAX
    BY <1>2, TimeTypes
  <2> QED  BY <1>2, <2>1, SMT
<1> QED  BY <1>2, <1>4, <1>5, SameStackTimely

LEMMA ClearEventsTimely ==
    ASSUME TableInv, TableInv', TimesKept, ClearEvents PROVE TimesKept'
<1>1. TypeOK /\ TypeOK'  BY DEF TableInv
<1>2. /\ nextevent' = EVT_MAX
      /\ \A i \in 0 .. ev_max - 1 : eventtab'[i] = EVT_MAX
      /\ \A s \in Slots : eventtab2'[s].evtime = EVT_MAX
      /\ UNCHANGED <<event2cnt, stack>>
  BY <1>1, ClearIs
<1>3. /\ \A s \in Slots : eventtab2[s].evtime \in 0 .. EVT_MAX
      /\ ev_misc \in 0 .. ev_max - 1 /\ DOMAIN eventtab' = 0 .. ev_max - 1
  BY <1>1, TimeTypes DEF TypeOK
<1>4. EVT_MAX \in 0 .. EVT_MAX /\ EVT_MAX <= EVT_MAX /\ EVT_MAX > 0
  BY Sizes, SMT
<1>5. \A s \in Slots : eventtab2[s].evtime <= eventtab2'[s].evtime
  BY <1>2, <1>3, SMT
<1>6. Ahead'  BY <1>2, <1>3, <1>4 DEF Ahead
<1>7. eventtab'[ev_misc] = EVT_MAX  BY <1>2, <1>3
<1> QED  BY <1>2, <1>4, <1>5, <1>6, <1>7, SameStackTimely

LEMMA CpuTimely ==
    ASSUME TableInv, TableInv', TimesKept,
           Emulate \/ CpuSchedules,
           event2restart = 0, event2restart' = 0
    PROVE  TimesKept'
<1>1. Quiet  BY DEF Emulate, DoCycles, CpuSchedules
<1>2. /\ stack = << >> /\ event2cnt = 0 /\ TypeOK /\ TypeOK' /\ Base(<< >>)
      /\ ~At("misc") /\ Ahead
  BY <1>1, QuietIs DEF TableInv, At, TimesKept
<1>3. /\ \A s \in Slots : eventtab2[s].evtime \in 0 .. EVT_MAX
      /\ \A j \in 0 .. ev_max - 1 : eventtab[j] \in 0 .. EVT_MAX
      /\ DOMAIN eventtab = 0 .. ev_max - 1 /\ ev_misc \in 0 .. ev_max - 1
      /\ DOMAIN eventtab' = 0 .. ev_max - 1
      /\ nextevent <= EVT_MAX /\ nextevent \in Int
      /\ \A s \in Slots : eventtab[ev_misc] <= eventtab2[s].evtime
  BY <1>2, TimeTypes DEF TimesKept, TypeOK
<1>4. \A j \in 0 .. ev_max - 1 : eventtab[j] \in 1 .. EVT_MAX
  <2> TAKE j \in 0 .. ev_max - 1
  <2>1. nextevent > 0 /\ nextevent <= eventtab[j]  BY <1>2, <1>3 DEF Ahead
  <2> QED  BY <1>3, <2>1, SMT
<1>5. CASE Emulate
  <2>1. PICK n \in 1 .. MaxCycles : DoCycles(n)  BY <1>5 DEF Emulate
  <2> PICK c : c = CyclesFrame(n, LoopHead)  OBVIOUS
  <2>2. n \in Int /\ n >= 0 /\ LoopHead \in 0 .. LoopHead  BY Sizes, SMT
  <2>3. /\ stack' = <<c>> /\ UNCHANGED <<nextevent, eventtab, eventtab2,
                                         event2cnt>>
    BY <2>1 DEF DoCycles
  <2>4. c \in Frame /\ c.at = "cycles" /\ c.left >= 0  BY <2>2, NewFrames
  <2>5. c \in TimelyFrames'
    <3>1. Ahead'  BY <1>2, <2>3 DEF Ahead
    <3>2. \A i \in DOMAIN eventtab' : eventtab'[i] > 0
      <4>1. \A i \in 0 .. ev_max - 1 : eventtab[i] > 0  BY <1>4, SMT
      <4> QED  BY <1>3, <2>3, <4>1
    <3> QED  BY <2>4, <3>1, <3>2 DEF TimelyFrames
  <2>6. /\ event2cnt' = 0 /\ nextevent' <= EVT_MAX
        /\ \A s \in Slots : eventtab2'[s].evtime \in 0 .. EVT_MAX
        /\ \A j \in 0 .. ev_max - 1 : eventtab'[j] \in 0 .. EVT_MAX
        /\ \A s \in Slots : eventtab'[ev_misc] <= eventtab2'[s].evtime
    BY <1>2, <1>3, <2>3
  <2> QED  BY <1>2, <2>3, <2>4, <2>5, <2>6, AloneTimely
<1>6. CASE CpuSchedules
  <2> PICK b : b = << >>  OBVIOUS
  <2>1. Schedules(b) /\ CodeCalls(b) /\ Base(b)
    BY <1>2, <1>6 DEF CpuSchedules, CodeCalls
  <2>2. Placed(b) \/ CodeCalled(b)  BY <1>2, <2>1, SchedulesIs
  <2>3. TimelyBase(b)  BY ChainEmpty DEF TimelyBase
  <2> QED  BY <1>2, <2>1, <2>2, <2>3, ScheduledTimely
<1> QED  BY <1>5, <1>6

LEMMA RemovesTimely ==
    ASSUME TableInv, TableInv', TimesKept, Removes PROVE TimesKept'
<1>1. /\ UNCHANGED <<nextevent, eventtab, event2cnt, stack>>
      /\ TypeOK /\ TypeOK' /\ Raised(eventtab2')
  BY RemovesRaise, Counted DEF Removes, TableInv
<1>2. \A s \in Slots : eventtab2[s].evtime \in 0 .. EVT_MAX
  BY <1>1, TimeTypes
<1>3. /\ \A s \in Slots : eventtab2'[s].evtime \in 0 .. EVT_MAX
      /\ \A s \in Slots : eventtab2[s].evtime <= eventtab2'[s].evtime
  BY <1>1, <1>2, RaisedTimes
<1>4. /\ Ahead => Ahead'
      /\ \A j \in 0 .. ev_max - 1 : eventtab[j] > 0 => eventtab'[j] > 0
      /\ \A j \in 0 .. ev_max - 1 : eventtab'[j] \in 0 .. EVT_MAX
      /\ eventtab'[ev_misc] = eventtab[ev_misc] /\ nextevent' <= EVT_MAX
  BY <1>1, UnchangedTimes
<1> QED  BY <1>1, <1>3, <1>4, SameStackTimely

LEMMA StutterTimely == TimelyInv /\ UNCHANGED vars => TimelyInv'
BY DEF TimelyInv, TimesKept, TimelyFrames, TimelyCalls, TimelyFirst, Ahead,
       Quiet, At, NotBefore, SlotAt, ChainOf, vars

\* Only a nested scan asks for a restart, and only the return of a handler to
\* its scan serves one.
LEMMA RestartsCounted ==
    ASSUME TypeOK, ~Restarting, Next, event2restart > 0 => event2cnt > 0
    PROVE  /\ event2restart' > 0 => event2cnt' > 0
           /\ event2restart' = 0 => event2restart = 0
<1> DEFINE Goal == /\ event2restart' > 0 => event2cnt' > 0
                   /\ event2restart' = 0 => event2restart = 0
<1>1. event2cnt \in Nat /\ event2restart \in Nat
  BY LenProperties, SMT DEF TypeOK
<1>2. ASSUME UNCHANGED <<event2cnt, event2restart>> PROVE Goal
  BY <1>2
<1>3. ASSUME NEW idx, NEW base, EnterMisc(idx, base) PROVE Goal
  BY <1>1, <1>3, SMT DEF EnterMisc
<1>4. ASSUME NEW base, Placed(base) \/ CodeCalled(base) PROVE Goal
  <2>1. CASE Placed(base)
    <3>1. PICK idx : EnterMisc(idx, base)  BY <2>1 DEF Placed, Place
    <3> QED  BY <1>3, <3>1
  <2>2. CASE CodeCalled(base)
    BY <1>2, <2>2 DEF CodeCalled, OnlyEvents
  <2> QED  BY <1>4, <2>1, <2>2
<1>5. CASE MiscFire  BY <1>1, <1>5, SMT DEF MiscFire
<1>6. CASE MiscDone  BY <1>2, <1>6 DEF MiscDone
<1>7. CASE HandlerReturns
  <2>1. CASE Top.of = "misc"
    <3>1. ReturnToMisc(stack[2]) /\ At("handler")
      BY <1>7, <2>1 DEF HandlerReturns
    <3>2. ~(event2restart > 0)  BY <2>1, <3>1 DEF Restarting
    <3>3. event2restart' = event2restart  BY <3>1, <3>2 DEF ReturnToMisc
    <3> QED  BY <1>1, <3>2, <3>3, SMT
  <2>2. CASE Top.of # "misc"  BY <1>2, <1>7, <2>2 DEF HandlerReturns
  <2> QED  BY <2>1, <2>2
<1>8. CASE ResumeNewEvent
  <2>1. CASE \E k \in DOMAIN Candidates(Top.no) :
                 Usable(eventtab2, Candidates(Top.no)[k], Top.event)
    <3>1. PICK s : Place(eventtab2, s, Top.event, Tail(stack))
      BY <1>8, <2>1 DEF ResumeNewEvent, Search
    <3> QED  BY <1>3, <3>1 DEF Place
  <2>2. CASE ~\E k \in DOMAIN Candidates(Top.no) :
                  Usable(eventtab2, Candidates(Top.no)[k], Top.event)
    <3>1. Overflow(eventtab2, Top.event, Tail(stack))
      BY <1>8, <2>2 DEF ResumeNewEvent, Search
    <3> QED  BY <1>2, <3>1 DEF Overflow
  <2> QED  BY <2>1, <2>2
<1>9. CASE CyclesToNextEvent \/ CyclesDone \/ CyclesScanned
  BY <1>2, <1>9 DEF CyclesToNextEvent, CyclesDone, CyclesScanned, AdvanceBy
<1>10. CASE CyclesServe  BY <1>2, <1>3, <1>10 DEF CyclesServe
<1>11. CASE HandlerSchedules \/ CpuSchedules
  <2>1. PICK base : Schedules(base)
    BY <1>11 DEF HandlerSchedules, CpuSchedules
  <2> QED  BY <1>4, <2>1, SchedulesIs
<1>12. CASE Emulate \/ Arms \/ ClearEvents \/ Removes \/ PeriodicReturns
  BY <1>2, <1>12
     DEF Emulate, DoCycles, Arms, ClearEvents, Removes, PeriodicReturns
<1> QED
  BY <1>5, <1>6, <1>7, <1>8, <1>9, <1>10, <1>11, <1>12 DEF Next, RunStep

LEMMA NextTimely ==
    TableInv /\ TableInv' /\ ~Restarting /\ TimelyInv /\ [Next]_vars
        => TimelyInv'
<1> SUFFICES ASSUME TableInv, TableInv', ~Restarting, TimelyInv, [Next]_vars
             PROVE  TimelyInv'
  OBVIOUS
<1>1. CASE UNCHANGED vars  BY <1>1, StutterTimely
<1>2. CASE Next
  <2>1. TypeOK /\ (event2restart > 0 => event2cnt > 0)
    BY DEF TableInv, TimelyInv
  <2>2. /\ event2restart' > 0 => event2cnt' > 0
        /\ event2restart' = 0 => event2restart = 0
    BY <1>2, <2>1, RestartsCounted
  <2>3. ASSUME event2restart' = 0 PROVE TimesKept'
    <3>1. event2restart = 0 /\ TimesKept  BY <2>2, <2>3 DEF TimelyInv
    <3>2. CASE MiscFire  BY <3>1, <3>2, MiscFireTimely
    <3>3. CASE MiscDone  BY <3>1, <3>3, MiscDoneTimely
    <3>4. CASE HandlerReturns
      <4>1. stack # << >> /\ Top.at = "handler"
        BY <3>4 DEF HandlerReturns, At, Top
      <4>2. CASE Top.of = "misc"  BY <3>1, <3>4, <4>1, <4>2, ScanReturnTimely
      <4>3. CASE Top.of # "misc"
        <5>1. /\ stack' = Tail(stack)
              /\ UNCHANGED <<nextevent, eventtab, eventtab2, event2cnt>>
          BY <3>4, <4>3 DEF HandlerReturns
        <5> QED  BY <2>1, <3>1, <4>1, <4>3, <5>1, UnchangedTimes, ReturnTimely
      <4> QED  BY <4>2, <4>3
    <3>5. CASE ResumeNewEvent  BY <2>3, <3>1, <3>5, ResumeTimely
    <3>6. CASE CyclesToNextEvent \/ CyclesDone \/ CyclesScanned
      BY <3>1, <3>6, CyclesStepTimely
    <3>7. CASE CyclesServe  BY <3>1, <3>7, CyclesServeTimely
    <3>8. CASE HandlerSchedules  BY <2>3, <3>1, <3>8, HandlerSchedulesTimely
    <3>9. CASE Emulate \/ CpuSchedules  BY <2>3, <3>1, <3>9, CpuTimely
    <3>10. CASE Removes  BY <3>1, <3>10, RemovesTimely
    <3>11. CASE Arms  BY <3>1, <3>11, ArmsTimely
    <3>12. CASE ClearEvents  BY <3>1, <3>12, ClearEventsTimely
    <3>13. CASE PeriodicReturns  BY <3>1, <3>13, PeriodicReturnsTimely
    <3> QED
      BY <1>2, <3>2, <3>3, <3>4, <3>5, <3>6, <3>7, <3>8, <3>9, <3>10, <3>11,
         <3>12, <3>13
         DEF Next, RunStep
  <2> QED  BY <2>2, <2>3 DEF TimelyInv
<1> QED  BY <1>1, <1>2

LEMMA InitTimely == Init => TimelyInv
<1> SUFFICES ASSUME Init PROVE TimelyInv  OBVIOUS
<1>1. /\ stack = << >> /\ event2cnt = 0 /\ event2restart = 0
      /\ nextevent = EVT_MAX /\ eventtab = [i \in 0 .. ev_max - 1 |-> EVT_MAX]
      /\ \A s \in Slots : eventtab2[s].evtime = EVT_MAX
  BY DEF Init, Idle
<1>2. /\ EVT_MAX \in 0 .. EVT_MAX /\ EVT_MAX <= EVT_MAX /\ EVT_MAX > 0
      /\ ev_misc \in 0 .. ev_max - 1 /\ ~(0 > 0) /\ 0 <= 1
  BY Sizes, SMT
<1>3. Ahead  BY <1>1, <1>2 DEF Ahead
<1>4. ChainOf(stack, TimelyFrames, TimelyCalls, TimelyFirst)
  BY <1>1, ChainEmpty
<1> QED  BY <1>1, <1>2, <1>3, <1>4 DEF TimelyInv, TimesKept, At

\* As long as no scan has to be restarted, ev_misc is armed in time, the clock
\* never passes a pending event and is never set back.
THEOREM OnTime == Spec => OnTimeUnlessRestarted
<1>1. ASSUME TableInv, TimelyInv PROVE MiscArmed /\ NothingOverdue /\ ClockForward
  <2>1. ASSUME event2cnt = 0 PROVE TimesKept
    <3>1. event2restart = 0
      <4>1. event2restart \in Nat  BY <1>1, SMT DEF TableInv, TypeOK
      <4>2. event2restart > 0 => event2cnt > 0  BY <1>1 DEF TimelyInv
      <4> QED  BY <2>1, <4>1, <4>2, SMT
    <3> QED  BY <1>1, <3>1 DEF TimelyInv
  <2>2. ASSUME Quiet, NEW s \in Slots
        PROVE  eventtab[ev_misc] <= eventtab2[s].evtime /\ eventtab2[s].evtime > 0
    <3>1. /\ event2cnt = 0 /\ TypeOK /\ stack = << >> /\ TimesKept
          /\ ~At("misc")
      BY <1>1, <2>1, <2>2, QuietIs DEF At
    <3>2. /\ nextevent > 0 /\ nextevent <= eventtab[ev_misc]
          /\ eventtab[ev_misc] \in 0 .. EVT_MAX
          /\ eventtab2[s].evtime \in 0 .. EVT_MAX /\ nextevent \in Int
      BY <2>2, <3>1, TimeTypes DEF TimesKept, Ahead
    <3>3. eventtab[ev_misc] <= eventtab2[s].evtime  BY <3>1 DEF TimesKept
    <3> QED  BY <3>2, <3>3, SMT
  <2>3. ASSUME At("cycles"), Top.i = LoopHead PROVE nextevent > 0
    <3>1. /\ stack # << >> /\ Top.at = "cycles" /\ TimesKept
      BY <1>1, <2>1, <2>3, CyclesAlone DEF At, Top
    <3>2. Ahead  BY <2>3, <3>1, TimelyTop DEF TimelyFrames
    <3> QED  BY <3>2 DEF Ahead
  <2> QED  BY <2>2, <2>3 DEF MiscArmed, NothingOverdue, ClockForward
<1>2. Init => TimelyInv  BY InitTimely
<1>3. TableInv /\ TableInv' /\ ~Restarting /\ TimelyInv /\ [Next]_vars
          => TimelyInv'
  BY NextTimely
<1> QED  BY <1>1, <1>2, <1>3, Inductive, PTL DEF Spec, OnTimeUnlessRestarted
=============================================================================
