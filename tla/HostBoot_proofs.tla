---------------------------- MODULE HostBoot_proofs ----------------------------
(***************************************************************************)
(* Theorems about HostBoot: the circuit breaker lets no window of time hold *)
(* more boots than its delays leave room for, for every schedule that does  *)
(* not shrink and whose last delay fits twice in the window.                *)
(***************************************************************************)
EXTENDS MCHost, SequenceTheorems, WellFoundedInduction, TLAPS

-----------------------------------------------------------------------------
(* The inductive invariant *)

Last == Len(Schedule)
Top == Schedule[Last]

\* The delay of the n-th attempt, n \in Nat \ {0}.
D(n) == Schedule[MinOf(n, Last)]

BootTypeOK ==
  /\ probed \in BOOLEAN
  /\ phase \in {"down", "delayed", "booting", "ready"}
  /\ attempt \in 0..(Last + 1) /\ age \in 0..ResetWindow
  /\ left \in Nat /\ up \in 0..StartupLimit
  /\ stopping \in BOOLEAN
  /\ boots \in Seq(0..(ResetWindow - 1))
  /\ harm \in 0..MaxHarm

\* The youngest boot first.
Sorted == \A i, j \in 1..Len(boots) : i <= j => boots[i] <= boots[j]

(* The newest k boots were made by successive attempts: the j-th newest is the
   (k - j + 1)-th of them, or one the schedule delays at least as long.      *)
Spaced(k) == \A j \in 1..(k - 1) : boots[j] + D(k - j + 1) <= boots[j + 1]

\* Age of the oldest of the newest k boots.
Oldest(k) == IF k = 0 THEN 0 ELSE boots[k]

(* The newest k boots are all there are; or one more is left, which belongs to
   a count given up because its last start was a whole window old.           *)
AllCounted(k) ==
  \/ Len(boots) = k
  \/ Len(boots) = k + 1 /\ Oldest(k) + (ResetWindow - Top) <= boots[k + 1]

(* The breaker has counted at least these boots, and the attempt that waits
   for its delay besides.                                                    *)
Counts(k) ==
  \/ k = 0 \/ attempt = Last + 1
  \/ IF phase = "delayed" THEN k < attempt ELSE k <= attempt

InCount(k) == Spaced(k) /\ AllCounted(k) /\ Counts(k)

(* What the file of the breaker says of the last start: of one that waits, what
   is left of its delay; of one that has waited, that it booted no longer ago
   than its delay after the start.                                           *)
Timed ==
  /\ attempt = 0 => boots = <<>>
  /\ phase # "delayed" =>
       /\ left = 0
       /\ \A i \in 1..Len(boots) : i > 1 => age <= boots[i]
       /\ boots # <<>> => age <= boots[1] + Top
  /\ phase = "delayed" =>
       /\ attempt > 0 /\ age + left = D(attempt)
       /\ \A i \in 1..Len(boots) : age <= boots[i]

BootInv ==
  /\ BootTypeOK /\ Sorted /\ Timed
  /\ \E k \in 0..Len(boots) : InCount(k)


-----------------------------------------------------------------------------
(* Waits *)

\* A set of naturals has a least element.
LEMMA HasLeast ==
  ASSUME NEW S \in SUBSET Nat, S # {}
  PROVE  \E m \in S : \A n \in S : m <= n
<1> DEFINE Less == {pair \in Nat \X Nat : pair[1] < pair[2]}
<1>1. IsWellFoundedOn(Less, Nat)
  BY NatLessThanWellFounded, Zenon DEF OpToRel
<1>2. PICK m \in S : \A n \in S : ~ (<<n, m>> \in Less)
  <2> HIDE DEF Less
  <2> QED
    BY <1>1, WFMin
<1>3. \A n \in S : n \in Nat /\ m \in Nat => ~ (n < m)
  BY <1>2
<1> QED
  BY <1>2, <1>3

\* A set that holds 0 and the successor of each of its members is Nat.
LEMMA Successors ==
  ASSUME NEW S \in SUBSET Nat, 0 \in S, \A n \in S : n + 1 \in S
  PROVE  S = Nat
<1>1. SUFFICES ASSUME Nat \ S # {} PROVE FALSE
  OBVIOUS
<1>2. PICK m \in Nat \ S : \A n \in Nat \ S : m <= n
  BY <1>1, HasLeast
<1>3. m > 0 /\ m - 1 \in Nat
  BY <1>2
<1>4. m - 1 \in S
  BY <1>2, <1>3
<1> QED
  BY <1>2, <1>3, <1>4

\* What ScheduleAssumption says of D.
LEMMA DelaysGrow ==
  /\ Last \in Nat \ {0} /\ Top \in Nat
  /\ 2 * Top <= ResetWindow /\ ResetWindow \in Nat /\ ResetWindow > 0
  /\ \A n \in Nat \ {0} : D(n) \in Nat /\ D(n) <= Top
  /\ \A m, n \in Nat \ {0} : m <= n => D(m) <= D(n)
  /\ \A n \in Nat : n >= Last => D(n) = Top
<1>1. Last \in Nat \ {0} /\ \A i \in 1..Last : Schedule[i] \in Nat
  BY ScheduleAssumption DEF Last
<1>2. \A n \in Nat \ {0} : MinOf(n, Last) \in 1..Last
  BY <1>1 DEF MinOf
<1>3. \A m, n \in Nat \ {0} : m <= n => MinOf(m, Last) <= MinOf(n, Last)
  BY <1>1 DEF MinOf
<1>4. \A i, j \in 1..Last : i <= j => Schedule[i] <= Schedule[j]
  BY ScheduleAssumption DEF Last
<1>5. \A n \in Nat : n >= Last => MinOf(n, Last) = Last
  BY <1>1 DEF MinOf
<1>6. 2 * Top <= ResetWindow /\ ResetWindow \in Nat /\ ResetWindow > 0
  BY ScheduleAssumption, BootAssumption DEF Top, Last
<1>7. Top \in Nat
  BY <1>1 DEF Top
<1>8. \A n \in Nat \ {0} : D(n) \in Nat /\ D(n) <= Top
  BY <1>1, <1>2, <1>4 DEF D, Top
<1>9. \A m, n \in Nat \ {0} : m <= n => D(m) <= D(n)
  BY <1>2, <1>3, <1>4 DEF D
<1>10. \A n \in Nat : n >= Last => D(n) = Top
  BY <1>5 DEF D, Top
<1> QED
  BY <1>1, <1>6, <1>7, <1>8, <1>9, <1>10

\* f adds the delays up to the m-th.
Adds(f, m) ==
  /\ f \in [0..m -> Nat]
  /\ \A n \in 0..m : f[n] = IF n <= 1 THEN 0 ELSE f[n - 1] + D(n)

\* There is such a function for every m.
LEMMA AddsExists == \A m \in Nat : \E f : Adds(f, m)
<1> DEFINE S == {m \in Nat : \E f : Adds(f, m)}
<1>1. 0 \in S
  <2>1. Adds([n \in 0..0 |-> 0], 0)
    BY DEF Adds
  <2> QED
    BY <2>1
<1>2. \A m \in S : m + 1 \in S
  <2>1. SUFFICES ASSUME NEW m \in S PROVE \E f : Adds(f, m + 1)
    OBVIOUS
  <2>2. m \in Nat /\ \E f : Adds(f, m)
    OBVIOUS
  <2>3. PICK f : Adds(f, m)
    BY <2>2
  <2> DEFINE g == [n \in 0..(m + 1) |->
                     IF n <= m THEN f[n] ELSE IF n <= 1 THEN 0 ELSE f[n - 1] + D(n)]
  <2>4. \A n \in 0..m : f[n] \in Nat /\ g[n] = f[n]
    BY <2>2, <2>3 DEF Adds
  <2>5. \A n \in 0..(m + 1) : g[n] = IF n <= 1 THEN 0 ELSE g[n - 1] + D(n)
    <3>1. TAKE n \in 0..(m + 1)
    <3>2. CASE n <= m
      <4>1. n \in 0..m /\ (n > 1 => n - 1 \in 0..m)
        BY <2>2, <3>2
      <4>2. f[n] = IF n <= 1 THEN 0 ELSE f[n - 1] + D(n)
        BY <2>3, <4>1 DEF Adds
      <4> HIDE DEF g
      <4> QED
        BY <2>4, <4>1, <4>2
    <3>3. CASE n = m + 1
      <4>1. n > 1 => n - 1 \in 0..m
        BY <2>2, <3>3
      <4>2. g[n] = IF n <= 1 THEN 0 ELSE f[n - 1] + D(n)
        BY <2>2, <3>3
      <4> HIDE DEF g
      <4> QED
        BY <2>4, <4>1, <4>2
    <3> QED
      BY <2>2, <3>2, <3>3
  <2>6. \A n \in 0..(m + 1) : g[n] \in Nat
    <3>1. TAKE n \in 0..(m + 1)
    <3>2. n <= m => n \in 0..m
      BY <2>2
    <3>3. n > m => n - 1 \in 0..m /\ n \in Nat \ {0}
      BY <2>2
    <3>4. g[n] = IF n <= m THEN f[n] ELSE IF n <= 1 THEN 0 ELSE f[n - 1] + D(n)
      OBVIOUS
    <3>5. n > m => D(n) \in Nat
      BY <3>3, DelaysGrow
    <3> HIDE DEF g
    <3> QED
      BY <2>2, <2>4, <3>2, <3>3, <3>4, <3>5
  <2>7. g \in [0..(m + 1) -> Nat]
    BY <2>6
  <2>8. Adds(g, m + 1)
    BY <2>5, <2>7 DEF Adds
  <2> QED
    BY <2>8
<1>3. S = Nat
  <2> HIDE DEF S
  <2> QED
    BY <1>1, <1>2, Successors DEF S
<1> QED
  BY <1>3

\* Two such functions agree where both are defined.
LEMMA AddsAgrees ==
  ASSUME NEW l \in Nat, NEW m \in Nat, NEW f, NEW g, Adds(f, l), Adds(g, m)
  PROVE  \A n \in Nat : n <= l /\ n <= m => f[n] = g[n]
<1> DEFINE S == {n \in Nat : n <= l /\ n <= m => f[n] = g[n]}
<1>1. 0 \in S
  BY DEF Adds
<1>2. \A n \in S : n + 1 \in S
  <2>1. SUFFICES ASSUME NEW n \in S, n + 1 <= l, n + 1 <= m
                 PROVE  f[n + 1] = g[n + 1]
    OBVIOUS
  <2>2. n \in Nat /\ n + 1 \in 0..l /\ n + 1 \in 0..m /\ (n + 1) - 1 = n
    BY <2>1
  <2>3. f[n] = g[n]
    BY <2>1, <2>2
  <2>4. f[n + 1] = IF n + 1 <= 1 THEN 0 ELSE f[n] + D(n + 1)
    BY <2>2 DEF Adds
  <2>5. g[n + 1] = IF n + 1 <= 1 THEN 0 ELSE g[n] + D(n + 1)
    BY <2>2 DEF Adds
  <2> QED
    BY <2>3, <2>4, <2>5
<1>3. S = Nat
  <2> HIDE DEF S
  <2> QED
    BY <1>1, <1>2, Successors DEF S
<1> QED
  BY <1>3

\* The recursive definition of Waits defines what it says.
LEMMA WaitsAdd ==
  /\ Waits \in [Nat -> Nat]
  /\ \A n \in Nat : Waits[n] = IF n <= 1 THEN 0 ELSE Waits[n - 1] + D(n)
<1> DEFINE F(m) == CHOOSE f : Adds(f, m)
           W == [n \in Nat |-> F(n)[n]]
           R(f) == f = [n \in Nat |->
                          IF n <= 1 THEN 0 ELSE f[n - 1] + Schedule[MinOf(n, Len(Schedule))]]
<1>1. \A m \in Nat : Adds(F(m), m)
  BY AddsExists
<1>2. \A n \in Nat : W[n] \in Nat
  <2>1. TAKE n \in Nat
  <2>2. W[n] = F(n)[n] /\ Adds(F(n), n) /\ n \in 0..n
    BY <1>1
  <2> HIDE DEF F, W
  <2> QED
    BY <2>2 DEF Adds
<1>3. \A n \in Nat : W[n] = IF n <= 1 THEN 0 ELSE W[n - 1] + D(n)
  <2>1. TAKE n \in Nat
  <2>2. F(n)[n] = IF n <= 1 THEN 0 ELSE F(n)[n - 1] + D(n)
    <3>1. Adds(F(n), n) /\ n \in 0..n
      BY <1>1
    <3> HIDE DEF F
    <3> QED
      BY <3>1 DEF Adds
  <2>3. n > 1 => F(n)[n - 1] = F(n - 1)[n - 1]
    <3>1. SUFFICES ASSUME n > 1 PROVE F(n)[n - 1] = F(n - 1)[n - 1]
      OBVIOUS
    <3>2. n - 1 \in Nat /\ n - 1 <= n
      BY <3>1
    <3>3. Adds(F(n), n) /\ Adds(F(n - 1), n - 1)
      BY <1>1, <3>2
    <3> QED
      BY <3>2, <3>3, AddsAgrees
  <2>4. n > 1 => n - 1 \in Nat
    OBVIOUS
  <2> QED
    BY <2>2, <2>3, <2>4
<1>4. R(W)
  <2> HIDE DEF F
  <2> QED
    BY <1>3 DEF D, Last
<1>5. Waits = CHOOSE f : R(f)
  BY DEF Waits
<1>6. R(Waits)
  <2> HIDE DEF R, W
  <2> QED
    BY <1>4, <1>5
<1>7. \A n \in Nat : Waits[n] = IF n <= 1 THEN 0 ELSE Waits[n - 1] + D(n)
  BY <1>6 DEF D, Last
<1>8. \A n \in Nat : Waits[n] = W[n]
  <2> DEFINE S == {n \in Nat : Waits[n] = W[n]}
  <2> HIDE DEF W
  <2>1. 0 \in S
    BY <1>3, <1>7
  <2>2. \A n \in S : n + 1 \in S
    BY <1>3, <1>7
  <2>3. S = Nat
    <3> HIDE DEF S
    <3> QED
      BY <2>1, <2>2, Successors DEF S
  <2> QED
    BY <2>3
<1>9. Waits \in [Nat -> Nat]
  <2> HIDE DEF W
  <2> QED
    BY <1>2, <1>6, <1>8
<1> QED
  BY <1>7, <1>9

-----------------------------------------------------------------------------
(* The history of the boots *)

\* Ages grow alike, so the boots that stay in the window are the newest ones.
LEMMA KeptIsPrefix ==
  ASSUME BootTypeOK, Sorted
  PROVE  \E c \in 0..Len(boots) : Kept = 1..c
<1> DEFINE n == Len(boots)
           Out == {i \in 1..(n + 1) : i \in 1..n => boots[i] + 1 >= ResetWindow}
<1>1. n \in Nat /\ \A i \in 1..n : boots[i] \in Nat
  BY DelaysGrow DEF BootTypeOK
<1>2. Out \in SUBSET Nat /\ Out # {}
  <2>1. n + 1 \in Out
    BY <1>1
  <2> QED
    BY <1>1, <2>1
<1>3. PICK m \in Out : \A i \in Out : m <= i
  <2> HIDE DEF Out
  <2> QED
    BY <1>2, HasLeast
<1>4. m \in 1..(n + 1) /\ m - 1 \in 0..n
  BY <1>1, <1>3
<1>5. ResetWindow \in Nat
  BY DelaysGrow
<1>6. ASSUME NEW i \in 1..(m - 1) PROVE i \in Kept
  <2>1. i \in 1..n /\ ~ (m <= i)
    BY <1>1, <1>4
  <2>2. i \notin Out
    BY <1>3, <2>1
  <2> QED
    BY <1>1, <1>5, <2>1, <2>2 DEF Kept
<1>7. ASSUME NEW i \in Kept PROVE i \in 1..(m - 1)
  <2>1. i \in 1..n /\ boots[i] + 1 < ResetWindow
    BY DEF Kept
  <2>2. SUFFICES ASSUME m <= i PROVE FALSE
    BY <1>1, <1>4, <2>1
  <2>3. m \in 1..n /\ boots[m] + 1 >= ResetWindow
    BY <1>1, <1>3, <1>4, <2>1, <2>2
  <2>4. boots[m] <= boots[i]
    BY <2>1, <2>2, <2>3 DEF Sorted
  <2> QED
    BY <1>1, <1>5, <2>1, <2>3, <2>4
<1>8. Kept = 1..(m - 1)
  BY <1>6, <1>7
<1> QED
  BY <1>4, <1>8

\* What a tick leaves of the boots.
LEMMA BootsAge ==
  ASSUME BootTypeOK, Sorted, Tick
  PROVE  /\ boots' \in Seq(0..(ResetWindow - 1)) /\ Len(boots') \in 0..Len(boots)
         /\ \A i \in 1..Len(boots') : boots'[i] = boots[i] + 1
<1>1. PICK c \in 0..Len(boots) : Kept = 1..c
  BY KeptIsPrefix
<1>2. boots' = [i \in 1..c |-> boots[i] + 1]
  BY <1>1 DEF Tick
<1>3. c \in Nat /\ \A i \in 1..c : i \in 1..Len(boots) /\ boots[i] + 1 < ResetWindow
  BY <1>1 DEF Kept, BootTypeOK
<1>4. \A i \in 1..c : boots[i] + 1 \in 0..(ResetWindow - 1)
  BY <1>3, DelaysGrow DEF BootTypeOK
<1>5. boots' \in [1..c -> 0..(ResetWindow - 1)]
  BY <1>2, <1>4
<1>6. boots' \in Seq(0..(ResetWindow - 1))
  BY <1>3, <1>5, SeqDef, Zenon
<1>7. Len(boots') = c
  BY <1>3, <1>5, <1>6
<1> QED
  BY <1>1, <1>2, <1>6, <1>7

\* What a boot adds to them.
LEMMA BootJoins ==
  ASSUME BootTypeOK, LeaveBackoff
  PROVE  /\ boots' \in Seq(0..(ResetWindow - 1)) /\ Len(boots') = Len(boots) + 1
         /\ boots'[1] = 0 /\ \A i \in 1..Len(boots) : boots'[i + 1] = boots[i]
<1>1. boots' = <<0>> \o boots
  BY DEF LeaveBackoff
<1>2. <<0>> \in Seq(0..(ResetWindow - 1))
  BY DelaysGrow
<1>3. boots \in Seq(0..(ResetWindow - 1))
  BY DEF BootTypeOK
<1>4. boots' \in Seq(0..(ResetWindow - 1)) /\ Len(boots') = Len(boots) + 1
  BY <1>1, <1>2, <1>3
<1>5. boots'[1] = 0
  BY <1>1, <1>2, <1>3
<1>6. \A i \in 1..Len(boots) : boots'[i + 1] = boots[i]
  BY <1>1, <1>2, <1>3
<1> QED
  BY <1>4, <1>5, <1>6

-----------------------------------------------------------------------------
(* The invariant, action by action *)

\* The facts every step below needs of the types.
LEMMA BootNumbers ==
  ASSUME BootTypeOK
  PROVE  /\ Len(boots) \in Nat /\ (boots = <<>> <=> Len(boots) = 0)
         /\ \A i \in 1..Len(boots) : boots[i] \in Nat /\ boots[i] < ResetWindow
         /\ attempt \in Nat /\ attempt <= Last + 1 /\ age \in Nat
         /\ age <= ResetWindow /\ left \in Nat
BY DelaysGrow DEF BootTypeOK

\* A start within a window of the last counts on; any other begins a new count.
LEMMA StartStep ==
  ASSUME BootInv, Start
  PROVE  BootInv'
<1>1. PICK k \in 0..Len(boots) : InCount(k)
  BY DEF BootInv
<1>2. BootTypeOK /\ Sorted /\ Timed
  BY DEF BootInv
<1>3. /\ phase = "down" /\ phase' = "delayed" /\ boots' = boots /\ age' = 0
      /\ attempt' = NextAttempt /\ left' = GetDelay(NextAttempt)
  BY DEF Start
<1>4. NextAttempt \in 1..(Last + 1) /\ left' = D(NextAttempt) /\ left' \in Nat
  <2>1. NextAttempt \in 1..(Last + 1)
    BY <1>2, BootNumbers, DelaysGrow DEF NextAttempt, MinOf, Last
  <2>2. left' = D(NextAttempt)
    BY <1>3 DEF GetDelay, D, Last
  <2> QED
    BY <2>1, <2>2, DelaysGrow
<1>5. BootTypeOK'
  <2>1. age' \in 0..ResetWindow /\ attempt' \in 0..(Last + 1)
    BY <1>3, <1>4, DelaysGrow
  <2>2. up' \in 0..StartupLimit
    BY BootAssumption DEF Start
  <2> QED
    BY <1>2, <1>3, <1>4, <2>1, <2>2 DEF BootTypeOK, Start, Last
<1>6. Sorted'
  BY <1>2, <1>3 DEF Sorted
<1>7. Timed'
  <2>1. \A i \in 1..Len(boots) : 0 <= boots[i]
    BY <1>2, BootNumbers
  <2>2. age' + left' = D(attempt') /\ attempt' > 0
    BY <1>3, <1>4, DelaysGrow
  <2> QED
    BY <1>3, <2>1, <2>2 DEF Timed
<1>8. \E l \in 0..Len(boots') : InCount(l)'
  <2>1. CASE attempt > 0 /\ age < ResetWindow
    <3>1. attempt' = IF attempt + 1 < Last + 1 THEN attempt + 1 ELSE Last + 1
      BY <1>3, <2>1 DEF NextAttempt, MinOf, Last
    <3>2. Counts(k)'
      BY <1>1, <1>2, <1>3, <3>1, BootNumbers, DelaysGrow DEF InCount, Counts
    <3>3. Spaced(k)' /\ AllCounted(k)'
      BY <1>1, <1>3 DEF InCount, Spaced, AllCounted, Oldest
    <3> QED
      BY <1>1, <1>3, <3>2, <3>3 DEF InCount
  <2>2. CASE ~ (attempt > 0 /\ age < ResetWindow)
    <3>1. /\ Len(boots) \in Nat /\ Len(boots') = Len(boots) /\ age \in Nat
          /\ \A i \in 1..Len(boots) : boots[i] \in Nat /\ boots[i] < ResetWindow
          /\ ResetWindow \in Nat /\ Top \in Nat
      BY <1>2, <1>3, BootNumbers, DelaysGrow
    <3>2. ASSUME Len(boots) > 0 PROVE AllCounted(0)'
      <4>1. attempt # 0 /\ boots # <<>>
        BY <1>2, <3>2, BootNumbers DEF Timed
      <4>2. age >= ResetWindow
        BY <1>2, <2>2, <4>1, BootNumbers, DelaysGrow
      <4>3. /\ \A i \in 1..Len(boots) : i > 1 => age <= boots[i]
            /\ age <= boots[1] + Top
        BY <1>2, <1>3, <4>1 DEF Timed
      <4>4. Len(boots) = 1
        <5>1. SUFFICES ASSUME Len(boots) > 1 PROVE FALSE
          BY <3>1, <3>2
        <5>2. 2 \in 1..Len(boots)
          BY <3>1, <5>1
        <5> QED
          BY <3>1, <4>2, <4>3, <5>2
      <4>5. ResetWindow - Top <= boots[1]
        BY <3>1, <3>2, <4>2, <4>3
      <4> QED
        BY <1>3, <3>1, <4>4, <4>5 DEF AllCounted, Oldest
    <3>3. AllCounted(0)'
      BY <3>1, <3>2 DEF AllCounted
    <3>4. Counts(0)' /\ Spaced(0)'
      BY DEF Counts, Spaced
    <3> QED
      BY <1>2, <1>3, <3>3, <3>4, BootNumbers DEF InCount
  <2> QED
    BY <2>1, <2>2
<1> QED
  BY <1>5, <1>6, <1>7, <1>8 DEF BootInv

\* A clean stop or a torn write forgets the count, and the history with it.
LEMMA ForgetStep ==
  ASSUME BootInv, FinishStop \/ DiesWriting
  PROVE  BootInv'
<1>1. attempt' = 0 /\ boots' = <<>> /\ age' = age /\ left' \in {0, left}
  BY DEF FinishStop, DiesWriting
<1>2. phase' = "down" /\ left' = 0
  BY DEF FinishStop, DiesWriting, BootInv, Timed
<1>3. BootTypeOK'
  <2>1. harm' \in 0..MaxHarm
    BY BootAssumption DEF FinishStop, DiesWriting, BootInv, BootTypeOK
  <2>2. attempt' \in 0..(Last + 1) /\ boots' \in Seq(0..(ResetWindow - 1))
    BY <1>1, DelaysGrow
  <2>3. probed' = probed /\ up' = up /\ stopping' \in BOOLEAN
    BY DEF FinishStop, DiesWriting, BootInv, BootTypeOK
  <2> QED
    BY <1>1, <1>2, <2>1, <2>2, <2>3 DEF BootInv, BootTypeOK, Last
<1>4. Sorted' /\ Timed'
  BY <1>1, <1>2 DEF Sorted, Timed
<1>5. 0 \in 0..Len(boots') /\ InCount(0)'
  BY <1>1 DEF InCount, Spaced, AllCounted, Counts
<1> QED
  BY <1>3, <1>4, <1>5 DEF BootInv

\* The steps that neither wait, nor boot, nor touch the file.
LEMMA QuietStep ==
  ASSUME BootInv, Ready \/ Crash \/ Signal \/ ProbeStops \/ UNCHANGED bootVars
  PROVE  BootInv'
<1>1. PICK k \in 0..Len(boots) : InCount(k)
  BY DEF BootInv
<1>2. BootTypeOK /\ Sorted /\ Timed
  BY DEF BootInv
<1>3. boots' = boots /\ attempt' = attempt /\ age' = age
  BY DEF Ready, Crash, Signal, ProbeStops, bootVars
<1>4. \/ (phase' = "delayed" <=> phase = "delayed") /\ left' = left
      \/ phase' # "delayed" /\ left' = 0
  BY DEF Ready, Crash, Signal, ProbeStops, bootVars
<1>5. BootTypeOK'
  <2>1. harm' \in 0..MaxHarm
    BY <1>2, BootAssumption DEF Ready, Crash, Signal, ProbeStops, bootVars, BootTypeOK
  <2>2. /\ probed' = probed /\ up' = up /\ stopping' \in BOOLEAN
        /\ phase' \in {"down", "delayed", "booting", "ready"}
    BY <1>2 DEF Ready, Crash, Signal, ProbeStops, bootVars, BootTypeOK
  <2> QED
    BY <1>2, <1>3, <1>4, <2>1, <2>2 DEF BootTypeOK, Last
<1>6. Sorted'
  BY <1>2, <1>3 DEF Sorted
<1>7. Timed'
  <2>1. CASE (phase' = "delayed" <=> phase = "delayed") /\ left' = left
    BY <1>2, <1>3, <2>1 DEF Timed
  <2>2. CASE phase = "delayed" /\ phase' # "delayed" /\ left' = 0
    <3>1. \A i \in 1..Len(boots) : age <= boots[i]
      BY <1>2, <2>2 DEF Timed
    <3>2. boots # <<>> => age <= boots[1] + Top
      <4>1. boots # <<>> => 1 \in 1..Len(boots)
        BY <1>2, BootNumbers
      <4>2. /\ \A i \in 1..Len(boots) : boots[i] \in Nat
            /\ age \in Nat /\ Top \in Nat
        BY <1>2, BootNumbers, DelaysGrow
      <4> QED
        BY <3>1, <4>1, <4>2
    <3>3. attempt > 0
      BY <1>2, <2>2 DEF Timed
    <3> QED
      BY <1>3, <2>2, <3>1, <3>2, <3>3 DEF Timed
  <2>3. phase # "delayed" => left = 0
    BY <1>2 DEF Timed
  <2> QED
    BY <1>4, <2>1, <2>2, <2>3
<1>8. InCount(k)'
  <2>1. Counts(k)'
    BY <1>1, <1>2, <1>3, <1>4, BootNumbers DEF InCount, Counts
  <2> QED
    BY <1>1, <1>3, <2>1 DEF InCount, Spaced, AllCounted, Oldest
<1> QED
  BY <1>1, <1>3, <1>5, <1>6, <1>7, <1>8 DEF BootInv

\* An attempt that has waited its delay joins the count as its newest boot.
LEMMA LeaveStep ==
  ASSUME BootInv, LeaveBackoff
  PROVE  BootInv'
<1>1. PICK k \in 0..Len(boots) : InCount(k)
  BY DEF BootInv
<1>2. BootTypeOK /\ Sorted /\ Timed
  BY DEF BootInv
<1>3. /\ phase = "delayed" /\ phase' = "booting" /\ left = 0
      /\ attempt' = attempt /\ age' = age /\ left' = left
  BY DEF LeaveBackoff
<1>4. /\ boots' \in Seq(0..(ResetWindow - 1)) /\ Len(boots') = Len(boots) + 1
      /\ boots'[1] = 0 /\ \A i \in 1..Len(boots) : boots'[i + 1] = boots[i]
  BY <1>2, BootJoins
<1>5. /\ Len(boots) \in Nat /\ attempt \in Nat /\ age \in Nat
      /\ \A i \in 1..Len(boots) : boots[i] \in Nat
      /\ ResetWindow \in Nat /\ Top \in Nat
  BY <1>2, BootNumbers, DelaysGrow
<1>6. attempt > 0 /\ age = D(attempt) /\ \A i \in 1..Len(boots) : D(attempt) <= boots[i]
  BY <1>2, <1>3, <1>5, DelaysGrow DEF Timed
<1>7. \A i \in 2..Len(boots') : i - 1 \in 1..Len(boots) /\ boots'[i] = boots[i - 1]
  <2>1. TAKE i \in 2..Len(boots')
  <2>2. i - 1 \in 1..Len(boots) /\ (i - 1) + 1 = i
    BY <1>4, <1>5
  <2> QED
    BY <1>4, <2>2
<1>8. BootTypeOK'
  BY <1>2, <1>4 DEF LeaveBackoff, BootTypeOK, Last
<1>9. Sorted'
  <2>1. SUFFICES ASSUME NEW i \in 1..Len(boots'), NEW j \in 1..Len(boots'), i <= j
                 PROVE  boots'[i] <= boots'[j]
    BY DEF Sorted
  <2>2. CASE j = 1
    BY <1>4, <2>1, <2>2
  <2>3. CASE i = 1 /\ j > 1
    <3>1. j \in 2..Len(boots')
      BY <2>3
    <3> QED
      BY <1>4, <1>5, <1>7, <2>3, <3>1
  <2>4. CASE i > 1 /\ j > 1
    <3>1. i \in 2..Len(boots') /\ j \in 2..Len(boots')
      BY <2>4
    <3>2. boots[i - 1] <= boots[j - 1]
      BY <1>2, <1>7, <2>1, <3>1 DEF Sorted
    <3> QED
      BY <1>7, <3>1, <3>2
  <2> QED
    BY <1>4, <1>5, <2>1, <2>2, <2>3, <2>4
<1>10. Timed'
  <2>1. \A i \in 1..Len(boots') : i > 1 => age <= boots'[i]
    <3>1. TAKE i \in 1..Len(boots')
    <3>2. HAVE i > 1
    <3>3. i \in 2..Len(boots')
      BY <3>2
    <3> QED
      BY <1>6, <1>7, <3>3
  <2>2. age <= boots'[1] + Top
    BY <1>4, <1>5, <1>6, DelaysGrow
  <2> QED
    BY <1>3, <1>6, <2>1, <2>2 DEF Timed
<1>11. InCount(k + 1)'
  <2>1. Counts(k + 1)'
    BY <1>1, <1>3, <1>5, <1>6 DEF InCount, Counts
  <2>2. k > 0 => D(k + 1) <= D(attempt)
    <3>1. SUFFICES ASSUME k > 0 PROVE D(k + 1) <= D(attempt)
      OBVIOUS
    <3>2. k < attempt \/ attempt = Last + 1
      BY <1>1, <1>3, <3>1 DEF InCount, Counts
    <3>3. CASE k < attempt
      BY <1>1, <1>5, <3>3, DelaysGrow
    <3>4. CASE attempt = Last + 1
      BY <1>1, <1>5, <3>4, DelaysGrow
    <3> QED
      BY <3>2, <3>3, <3>4
  <2>3. ASSUME NEW j \in 1..k
        PROVE  boots'[j] + D(k + 1 - j + 1) <= boots'[j + 1]
    <3>1. j \in 1..Len(boots) /\ boots'[j + 1] = boots[j]
      BY <1>1, <1>4, <1>5
    <3>2. CASE j = 1
      <4>1. k + 1 - j + 1 = k + 1
        BY <1>1, <3>2
      <4>2. D(k + 1) <= boots[1] /\ D(k + 1) \in Nat
        <5>1. k > 0 /\ k + 1 \in Nat \ {0} /\ attempt \in Nat \ {0}
          BY <1>1, <1>5, <1>6
        <5>2. D(k + 1) \in Nat /\ D(attempt) \in Nat
          BY <5>1, DelaysGrow
        <5> QED
          BY <1>5, <1>6, <2>2, <3>1, <3>2, <5>1, <5>2
      <4> QED
        BY <1>4, <3>1, <3>2, <4>1, <4>2
    <3>3. CASE j > 1
      <4>1. j - 1 \in 1..(k - 1) /\ (j - 1) + 1 = j /\ k - (j - 1) + 1 = k + 1 - j + 1
        BY <1>1, <1>5, <3>3
      <4>2. boots[j - 1] + D(k - (j - 1) + 1) <= boots[(j - 1) + 1]
        BY <1>1, <4>1 DEF InCount, Spaced
      <4>3. j \in 2..Len(boots')
        BY <1>4, <1>5, <3>1, <3>3
      <4> QED
        BY <1>7, <3>1, <4>1, <4>2, <4>3
    <3> QED
      BY <1>1, <3>2, <3>3
  <2>4. Spaced(k + 1)'
    <3>1. (k + 1) - 1 = k
      BY <1>1
    <3> QED
      BY <2>3, <3>1 DEF Spaced
  <2>5. AllCounted(k + 1)'
    <3>1. CASE Len(boots) = k
      BY <1>4, <3>1 DEF AllCounted
    <3>2. CASE Len(boots) = k + 1 /\ Oldest(k) + (ResetWindow - Top) <= boots[k + 1]
      <4>1. Oldest(k + 1)' = boots'[k + 1]
        BY <1>1 DEF Oldest
      <4>2. boots'[k + 1] = Oldest(k)
        <5>1. CASE k = 0
          BY <1>4, <5>1 DEF Oldest
        <5>2. CASE k > 0
          BY <1>1, <1>4, <5>2 DEF Oldest
        <5> QED
          BY <1>1, <5>1, <5>2
      <4>3. boots'[(k + 1) + 1] = boots[k + 1]
        BY <1>1, <1>4, <1>5, <3>2
      <4> QED
        BY <1>4, <3>2, <4>1, <4>2, <4>3 DEF AllCounted
    <3> QED
      BY <1>1, <3>1, <3>2 DEF InCount, AllCounted
  <2> QED
    BY <2>1, <2>4, <2>5 DEF InCount
<1>12. k + 1 \in 0..Len(boots')
  BY <1>1, <1>4, <1>5
<1> QED
  BY <1>8, <1>9, <1>10, <1>11, <1>12 DEF BootInv

\* A tick ages every boot and the file alike, and drops the oldest boots.
LEMMA TickStep ==
  ASSUME BootInv, Tick
  PROVE  BootInv'
<1>1. PICK k \in 0..Len(boots) : InCount(k)
  BY DEF BootInv
<1>2. BootTypeOK /\ Sorted /\ Timed
  BY DEF BootInv
<1>3. /\ phase' = phase /\ attempt' = attempt /\ (phase = "delayed" => left > 0)
      /\ age' = MinOf(age + 1, ResetWindow)
      /\ left' = IF left > 0 THEN left - 1 ELSE 0
  BY DEF Tick
<1>4. /\ boots' \in Seq(0..(ResetWindow - 1)) /\ Len(boots') \in 0..Len(boots)
      /\ \A i \in 1..Len(boots') : boots'[i] = boots[i] + 1
  BY <1>2, BootsAge
<1>5. /\ Len(boots) \in Nat /\ attempt \in Nat /\ age \in Nat /\ left \in Nat
      /\ \A i \in 1..Len(boots) : boots[i] \in Nat
      /\ ResetWindow \in Nat /\ Top \in Nat
  BY <1>2, BootNumbers, DelaysGrow
<1>6. age' \in Nat /\ age' <= age + 1 /\ age' <= ResetWindow /\ left' \in Nat
  BY <1>3, <1>5 DEF MinOf
<1>7. \A i \in 1..Len(boots') : i \in 1..Len(boots)
  BY <1>4, <1>5
<1>8. BootTypeOK'
  <2>1. up' \in 0..StartupLimit
    BY <1>2, BootAssumption DEF Tick, BootTypeOK, MinOf
  <2>2. age' \in 0..ResetWindow
    BY <1>5, <1>6
  <2> QED
    BY <1>2, <1>4, <1>6, <2>1, <2>2 DEF Tick, BootTypeOK, Last
<1>9. Sorted'
  <2>1. SUFFICES ASSUME NEW i \in 1..Len(boots'), NEW j \in 1..Len(boots'), i <= j
                 PROVE  boots'[i] <= boots'[j]
    BY DEF Sorted
  <2>2. boots[i] <= boots[j] /\ boots[i] \in Nat /\ boots[j] \in Nat
    BY <1>2, <1>5, <1>7, <2>1 DEF Sorted
  <2> QED
    BY <1>4, <2>2
<1>10. Timed'
  <2>1. attempt' = 0 => boots' = <<>>
    <3>1. attempt = 0 => Len(boots') = 0
      BY <1>2, <1>4, <1>5, BootNumbers DEF Timed
    <3> QED
      BY <1>3, <1>4, <3>1
  <2>2. boots' # <<>> => 1 \in 1..Len(boots')
    BY <1>4, <1>5
  <2>3. ASSUME phase # "delayed"
        PROVE  /\ left' = 0
               /\ \A i \in 1..Len(boots') : i > 1 => age' <= boots'[i]
               /\ boots' # <<>> => age' <= boots'[1] + Top
    <3>1. /\ left = 0 /\ \A i \in 1..Len(boots) : i > 1 => age <= boots[i]
          /\ boots # <<>> => age <= boots[1] + Top
      BY <1>2, <2>3 DEF Timed
    <3>2. boots' # <<>> => boots # <<>>
      BY <1>2, <1>7, <2>2, BootNumbers
    <3>3. \A i \in 1..Len(boots') : i > 1 => age' <= boots'[i]
      BY <1>4, <1>5, <1>6, <1>7, <3>1
    <3>4. boots' # <<>> => age' <= boots'[1] + Top
      BY <1>4, <1>5, <1>6, <1>7, <2>2, <3>1, <3>2
    <3> QED
      BY <1>3, <3>1, <3>3, <3>4
  <2>4. ASSUME phase = "delayed"
        PROVE  /\ attempt > 0 /\ age' + left' = D(attempt)
               /\ \A i \in 1..Len(boots') : age' <= boots'[i]
    <3>1. /\ attempt > 0 /\ age + left = D(attempt) /\ left > 0
          /\ \A i \in 1..Len(boots) : age <= boots[i]
      BY <1>2, <1>3, <2>4 DEF Timed
    <3>2. D(attempt) <= Top /\ D(attempt) \in Nat /\ 2 * Top <= ResetWindow
      BY <1>5, <3>1, DelaysGrow
    <3>3. age + 1 <= ResetWindow
      BY <1>5, <3>1, <3>2
    <3>4. age' = age + 1
      BY <1>3, <1>5, <3>3 DEF MinOf
    <3>5. age' + left' = D(attempt)
      <4>1. left' = left - 1
        BY <1>3, <3>1
      <4> QED
        BY <1>5, <3>1, <3>2, <3>4, <4>1
    <3>6. \A i \in 1..Len(boots') : age' <= boots'[i]
      BY <1>4, <1>5, <1>6, <1>7, <3>1
    <3> QED
      BY <3>1, <3>5, <3>6
  <2> QED
    BY <1>3, <2>1, <2>3, <2>4 DEF Timed
<1>11. CASE Len(boots') = Len(boots)
  <2>1. Counts(k)'
    BY <1>1, <1>3 DEF InCount, Counts
  <2>2. Spaced(k)'
    <3>1. SUFFICES ASSUME NEW j \in 1..(k - 1)
                   PROVE  boots'[j] + D(k - j + 1) <= boots'[j + 1]
      BY DEF Spaced
    <3>2. j \in 1..Len(boots) /\ j + 1 \in 1..Len(boots) /\ k - j + 1 \in Nat \ {0}
      BY <1>1, <1>5
    <3>3. boots[j] + D(k - j + 1) <= boots[j + 1]
      BY <1>1 DEF InCount, Spaced
    <3>4. D(k - j + 1) \in Nat
      BY <3>2, DelaysGrow
    <3> QED
      BY <1>4, <1>5, <1>11, <3>2, <3>3, <3>4
  <2>3. AllCounted(k)'
    <3>1. CASE Len(boots) = k
      BY <1>11, <3>1 DEF AllCounted
    <3>2. CASE Len(boots) = k + 1 /\ Oldest(k) + (ResetWindow - Top) <= boots[k + 1]
      <4>1. Oldest(k) \in Nat /\ Oldest(k)' \in Nat /\ Oldest(k)' <= Oldest(k) + 1
        <5>1. CASE k = 0
          BY <5>1 DEF Oldest
        <5>2. CASE k > 0
          <6>1. k \in 1..Len(boots) /\ k \in 1..Len(boots')
            BY <1>1, <1>5, <1>11, <5>2
          <6> QED
            BY <1>4, <1>5, <5>2, <6>1 DEF Oldest
        <5> QED
          BY <1>1, <5>1, <5>2
      <4>2. boots'[k + 1] = boots[k + 1] + 1 /\ boots[k + 1] \in Nat
        BY <1>1, <1>4, <1>5, <1>11, <3>2
      <4>3. Oldest(k)' + (ResetWindow - Top) <= boots'[k + 1]
        BY <1>5, <3>2, <4>1, <4>2
      <4> QED
        BY <1>11, <3>2, <4>3 DEF AllCounted
    <3> QED
      BY <1>1, <3>1, <3>2 DEF InCount, AllCounted
  <2> QED
    BY <1>1, <1>8, <1>9, <1>10, <1>11, <2>1, <2>2, <2>3 DEF BootInv, InCount
<1>12. CASE Len(boots') < Len(boots)
  <2>1. PICK c \in Nat : c = Len(boots') /\ c <= k
    <3>1. Len(boots') \in Nat /\ Len(boots') <= k
      BY <1>1, <1>4, <1>5, <1>12 DEF InCount, AllCounted
    <3> QED
      BY <3>1
  <2>2. Counts(c)'
    BY <1>1, <1>3, <1>5, <2>1 DEF InCount, Counts
  <2>3. Spaced(c)'
    <3>1. SUFFICES ASSUME NEW j \in 1..(c - 1)
                   PROVE  boots'[j] + D(c - j + 1) <= boots'[j + 1]
      BY DEF Spaced
    <3>2. /\ j \in 1..c /\ j + 1 \in 1..c /\ j \in 1..(k - 1)
          /\ c - j + 1 \in Nat \ {0} /\ k - j + 1 \in Nat \ {0}
          /\ c - j + 1 <= k - j + 1
      BY <1>1, <1>5, <2>1
    <3>3. boots[j] + D(k - j + 1) <= boots[j + 1]
      BY <1>1, <3>2 DEF InCount, Spaced
    <3>4. /\ D(c - j + 1) \in Nat /\ D(k - j + 1) \in Nat
          /\ D(c - j + 1) <= D(k - j + 1)
      BY <3>2, DelaysGrow
    <3>5. boots'[j] = boots[j] + 1 /\ boots'[j + 1] = boots[j + 1] + 1
      BY <1>4, <2>1, <3>2
    <3>6. boots[j] \in Nat /\ boots[j + 1] \in Nat
      BY <1>5, <1>7, <2>1, <3>2
    <3> QED
      BY <3>3, <3>4, <3>5, <3>6
  <2>4. AllCounted(c)'
    BY <2>1 DEF AllCounted
  <2> QED
    BY <1>8, <1>9, <1>10, <2>1, <2>2, <2>3, <2>4 DEF BootInv, InCount
<1> QED
  BY <1>4, <1>5, <1>11, <1>12

-----------------------------------------------------------------------------
(* The theorems *)

LEMMA BootInvHolds == BootInit /\ [][BootNext]_bootVars => []BootInv
<1>1. BootInit => BootInv
  <2>1. SUFFICES ASSUME BootInit PROVE BootInv
    OBVIOUS
  <2>2. BootTypeOK
    <3>1. /\ probed \in BOOLEAN /\ stopping \in BOOLEAN
          /\ phase \in {"down", "delayed", "booting", "ready"}
      BY <2>1 DEF BootInit
    <3>2. /\ attempt \in 0..(Last + 1) /\ age \in 0..ResetWindow
          /\ left \in Nat /\ up \in 0..StartupLimit /\ harm \in 0..MaxHarm
      BY <2>1, BootAssumption, DelaysGrow DEF BootInit
    <3>3. boots \in Seq(0..(ResetWindow - 1))
      BY <2>1 DEF BootInit
    <3> QED
      BY <3>1, <3>2, <3>3 DEF BootTypeOK
  <2>3. Sorted /\ Timed
    BY <2>1 DEF BootInit, Sorted, Timed
  <2>4. 0 \in 0..Len(boots) /\ InCount(0)
    BY <2>1 DEF BootInit, InCount, Spaced, AllCounted, Counts
  <2> QED
    BY <2>2, <2>3, <2>4 DEF BootInv
<1>2. BootInv /\ [BootNext]_bootVars => BootInv'
  BY StartStep, ForgetStep, QuietStep, LeaveStep, TickStep DEF BootNext
<1> QED
  BY <1>1, <1>2, PTL

\* The delays between the newest k boots fit in the age of the oldest of them.
LEMMA SpacedWaits ==
  ASSUME BootTypeOK, NEW k \in 1..Len(boots), Spaced(k)
  PROVE  Waits[k] <= boots[k]
<1>1. /\ Len(boots) \in Nat /\ k \in Nat
      /\ \A i \in 1..Len(boots) : boots[i] \in Nat
  BY BootNumbers
<1>2. Waits \in [Nat -> Nat] /\ Waits[1] = 0
  BY WaitsAdd
<1> DEFINE S == {m \in Nat : m < k => Waits[m + 1] + boots[k - m] <= boots[k]}
<1>3. 0 \in S
  BY <1>1, <1>2
<1>4. \A m \in S : m + 1 \in S
  <2>1. SUFFICES ASSUME NEW m \in Nat, m + 1 < k,
                        Waits[m + 1] + boots[k - m] <= boots[k]
                 PROVE  Waits[(m + 1) + 1] + boots[k - (m + 1)] <= boots[k]
    BY <1>1
  <2> DEFINE j == k - (m + 1)
  <2>2. /\ j \in 1..(k - 1) /\ j + 1 = k - m /\ k - j + 1 = (m + 1) + 1
        /\ j \in 1..Len(boots) /\ j + 1 \in 1..Len(boots)
    BY <1>1, <2>1
  <2>3. boots[j] + D((m + 1) + 1) <= boots[k - m]
    BY <2>2 DEF Spaced
  <2>4. Waits[(m + 1) + 1] = Waits[m + 1] + D((m + 1) + 1)
    <3>1. (m + 1) + 1 \in Nat /\ ~ ((m + 1) + 1 <= 1) /\ ((m + 1) + 1) - 1 = m + 1
      OBVIOUS
    <3> QED
      BY <3>1, WaitsAdd
  <2>5. /\ boots[j] \in Nat /\ boots[k - m] \in Nat /\ boots[k] \in Nat
        /\ Waits[m + 1] \in Nat /\ D((m + 1) + 1) \in Nat
    <3>1. (m + 1) + 1 \in Nat \ {0} /\ m + 1 \in Nat /\ k \in 1..Len(boots)
      OBVIOUS
    <3>2. D((m + 1) + 1) \in Nat
      BY <3>1, DelaysGrow
    <3> QED
      BY <1>1, <1>2, <2>2, <3>1, <3>2
  <2> QED
    BY <2>1, <2>3, <2>4, <2>5
<1>5. S = Nat
  <2> HIDE DEF S
  <2> QED
    BY <1>3, <1>4, Successors DEF S
<1>6. k - 1 \in S /\ (k - 1) + 1 = k /\ k - (k - 1) = 1 /\ k - 1 < k
  <2>1. k - 1 \in Nat
    BY <1>1
  <2>2. k - 1 \in S
    BY <1>5, <2>1
  <2> HIDE DEF S
  <2> QED
    BY <1>1, <2>2
<1>7. Waits[k] + boots[1] <= boots[k]
  BY <1>6
<1>8. 1 \in 1..Len(boots)
  BY <1>1
<1>9. boots[1] \in Nat /\ boots[k] \in Nat /\ Waits[k] \in Nat
  BY <1>1, <1>2, <1>8
<1> QED
  BY <1>7, <1>9

(* However the crashes of a host fall, no window of the breaker holds more boots
   than the delays between them leave room for: those of one count are spaced
   by their delays, and the one that may be left of an older count takes up all
   of the window but the longest delay.                                      *)
LEMMA BootSlows == BootInit /\ [][BootNext]_bootVars => []CrashLoopSlows
<1>1. BootInv => CrashLoopSlows
  <2>1. SUFFICES ASSUME BootInv, boots # <<>> PROVE Waits[Len(boots)] < ResetWindow
    BY DEF CrashLoopSlows
  <2>2. PICK k \in 0..Len(boots) : InCount(k)
    BY <2>1 DEF BootInv
  <2>3. BootTypeOK
    BY <2>1 DEF BootInv
  <2>4. /\ Len(boots) \in Nat \ {0} /\ k \in Nat
        /\ \A i \in 1..Len(boots) : boots[i] \in Nat /\ boots[i] < ResetWindow
        /\ ResetWindow \in Nat /\ Top \in Nat /\ 2 * Top <= ResetWindow
        /\ ResetWindow > 0
    BY <2>1, <2>3, BootNumbers, DelaysGrow
  <2>5. Waits \in [Nat -> Nat] /\ Waits[1] = 0
    BY WaitsAdd
  <2>6. k > 0 => k \in 1..Len(boots) /\ Waits[k] <= boots[k]
    BY <2>2, <2>3, <2>4, SpacedWaits DEF InCount
  <2>7. CASE Len(boots) = k
    <3>1. k > 0
      BY <2>4, <2>7
    <3> QED
      BY <2>4, <2>5, <2>6, <2>7, <3>1
  <2>8. CASE Len(boots) = k + 1 /\ Oldest(k) + (ResetWindow - Top) <= boots[k + 1]
    <3>1. CASE k = 0
      BY <2>4, <2>5, <2>8, <3>1
    <3>2. CASE k > 0
      <4>1. Waits[k + 1] = Waits[k] + D(k + 1)
        <5>1. k + 1 \in Nat /\ ~ (k + 1 <= 1) /\ (k + 1) - 1 = k
          BY <2>4, <3>2
        <5> QED
          BY <5>1, WaitsAdd
      <4>2. D(k + 1) \in Nat /\ D(k + 1) <= Top
        BY <2>4, DelaysGrow
      <4>3. Oldest(k) = boots[k]
        BY <3>2 DEF Oldest
      <4>4. boots[k] + (ResetWindow - Top) < ResetWindow
        BY <2>4, <2>6, <2>8, <3>2, <4>3
      <4> QED
        BY <2>4, <2>5, <2>6, <2>8, <3>2, <4>1, <4>2, <4>4
    <3> QED
      BY <2>4, <3>1, <3>2
  <2> QED
    BY <2>2, <2>7, <2>8 DEF InCount, AllCounted
<1> QED
  BY <1>1, BootInvHolds, PTL

(* The breaker needs no fairness, and the containers the host runs change nothing
   of its boots.                                                             *)
THEOREM CrashLoopSlowsHolds == (BootSpec => []CrashLoopSlows) /\ (HostSpec => []CrashLoopSlows)
<1>1. HostInit => BootInit
  BY DEF HostInit
<1>2. [HostNext]_hostVars => [BootNext]_bootVars
  BY DEF HostNext, hostVars
<1>3. HostSpec => HostInit /\ [][HostNext]_hostVars
  BY DEF HostSpec
<1> QED
  BY <1>1, <1>2, <1>3, BootSlows, PTL DEF BootSpec
===============================================================================
