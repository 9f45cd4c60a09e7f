--------------------------- MODULE ScanJobProofs ----------------------------
(***************************************************************************)
(* Proofs about scan jobs: when a schedule may fire (ScanWindows), how     *)
(* long the app and the agent wait for a job (ScanBudget), and what the    *)
(* agent asks and answers (CombinedScan), for any length of the day, any   *)
(* zones, any settings of the deadlines, any network and any pool.         *)
(***************************************************************************)
EXTENDS ScanWindows, ScanBudget, CombinedScan,
        WellFoundedInduction, FiniteSetTheorems, SequenceTheorems, TLAPS

WindowSpec == WindowInit /\ [][WindowNext]_windowVars
BudgetSpec == BudgetInit /\ [][BudgetNext]_budgetVars

-----------------------------------------------------------------------------
(* Induction, and folds over sequences                                     *)

\* Every set of natural numbers has a least one.
LEMMA NatLeast ==
  ASSUME NEW T \in SUBSET Nat, T # {}
  PROVE  \E n \in T : \A m \in T : n <= m
<1> DEFINE R == OpToRel(<, Nat)
<1>1. \E x \in T : \A y \in T : ~ (<<y, x>> \in R)
  BY NatLessThanWellFounded, WFMin, Zenon
<1>2. R = {ss \in Nat \X Nat : ss[1] < ss[2]}
  BY Zenon DEF OpToRel
<1> HIDE DEF R
<1>3. \A x, y \in Nat : <<y, x>> \notin R => x <= y
  BY <1>2
<1> QED BY <1>1, <1>3

\* Induction up to n, over the set of numbers for which the claim holds.
LEMMA UpTo ==
  ASSUME NEW n \in Nat, NEW T, 0 \in T, \A i \in 0..(n - 1) : i \in T => i + 1 \in T
  PROVE  0..n \subseteq T
<1> DEFINE B == 0..n \ T
<1> SUFFICES ASSUME B # {} PROVE FALSE
  OBVIOUS
<1>0. B \in SUBSET Nat
  OBVIOUS
<1>1. PICK b \in B : \A m \in B : b <= m
  <2> HIDE DEF B
  <2> QED BY <1>0, NatLeast
<1>2. b # 0 /\ b - 1 \in 0..n
  BY <1>1
<1>3. b - 1 \in T
  BY <1>1, <1>2
<1> QED BY <1>1, <1>2, <1>3

\* The greatest number of a set bounded by n.
LEMMA MaxUpTo ==
  ASSUME NEW n \in Nat, NEW t \in SUBSET (1..n), t # {}
  PROVE  Max(t) \in t /\ \A y \in t : Max(t) >= y
<1> DEFINE U == {k \in Nat : n - k \in t}
<1>0. \A x \in t : x \in Int /\ 1 <= x /\ x <= n /\ n - x \in U
  OBVIOUS
<1>1. PICK m \in U : \A k \in U : m <= k
  <2>1. U \in SUBSET Nat /\ U # {}
    BY <1>0
  <2> HIDE DEF U
  <2> QED BY <2>1, NatLeast
<1>2. n - m \in t /\ m \in Nat
  OBVIOUS
<1>3. \A y \in t : n - m >= y
  BY <1>0, <1>1, <1>2
<1> QED BY <1>2, <1>3 DEF Max

\* A fold over the first n elements of a sequence, in the form FoldLeft gives it: step[i] takes
\* what the elements before the i-th left; and what is left after each element.
FoldsOf(n, A, base, step) ==
  {f \in [SUBSET (1..n) -> A] :
     \A t \in SUBSET (1..n) : f[t] = IF t = {} THEN base ELSE step[Max(t)][f[t \ {Max(t)}]]}
IsFold(g, n, A, base, step) ==
  /\ g[{}] = base
  /\ \A t \in SUBSET (1..n) : t # {} /\ g[t \ {Max(t)}] \in A => g[t] = step[Max(t)][g[t \ {Max(t)}]]
TracesOf(g, n, A, base, step) ==
  {G \in [0..n -> A] : G[0] = base /\ G[n] = g[1..n] /\ \A i \in 1..n : G[i] = step[i][G[i - 1]]}

\* There is a function that goes through the elements as the steps say.
LEMMA FoldExists ==
  ASSUME NEW n \in Nat, NEW A, NEW base \in A, NEW step \in [1..n -> [A -> A]]
  PROVE  \E f : f \in FoldsOf(n, A, base, step)
<1> DEFINE Folds(k) == {f \in [SUBSET (1..k) -> A] : \A t \in SUBSET (1..k) :
                          f[t] = IF t = {} THEN base ELSE step[Max(t)][f[t \ {Max(t)}]]}
           T == {k \in 0..n : \E f : f \in Folds(k)}
<1>1. 0 \in T
  <2>1. \A t \in SUBSET (1..0) : t = {}
    OBVIOUS
  <2>2. [t \in SUBSET (1..0) |-> base] \in Folds(0)
    BY <2>1
  <2> HIDE DEF Folds
  <2> QED BY <2>2
<1>2. ASSUME NEW k \in 0..(n - 1), k \in T PROVE k + 1 \in T
  <2>1. PICK f : f \in Folds(k)
    BY <1>2
  <2>2. /\ f \in [SUBSET (1..k) -> A]
        /\ \A t \in SUBSET (1..k) : f[t] = IF t = {} THEN base ELSE step[Max(t)][f[t \ {Max(t)}]]
    BY <2>1
  <2> DEFINE D == SUBSET (1..(k + 1))
             g == [t \in D |-> IF k + 1 \in t THEN step[k + 1][f[t \ {k + 1}]] ELSE f[t]]
  <2>3. \A t \in D : t \ {k + 1} \in SUBSET (1..k) /\ (k + 1 \notin t => t \in SUBSET (1..k))
    OBVIOUS
  <2>4. step[k + 1] \in [A -> A] /\ k + 1 \in Nat
    OBVIOUS
  <2>5. g \in [D -> A]
    BY <2>2, <2>3, <2>4
  <2>6. ASSUME NEW t \in D
        PROVE  g[t] = IF t = {} THEN base ELSE step[Max(t)][g[t \ {Max(t)}]]
    <3>0. /\ k + 1 \in t => g[t] = step[k + 1][f[t \ {k + 1}]]
          /\ \A u \in D : k + 1 \notin u => g[u] = f[u]
      OBVIOUS
    <3> HIDE DEF g
    <3>1. CASE t = {}
      BY <2>2, <2>3, <3>0, <3>1
    <3>2. CASE k + 1 \in t
      <4>1. Max(t) = k + 1
        <5>1. Max(t) \in t /\ Max(t) >= k + 1
          BY <2>4, <3>2, MaxUpTo
        <5>2. Max(t) \in 1..(k + 1)
          BY <5>1
        <5> QED BY <5>1, <5>2
      <4>2. g[t \ {k + 1}] = f[t \ {k + 1}]
        BY <3>0
      <4> QED BY <3>0, <3>2, <4>1, <4>2
    <3>3. CASE t # {} /\ k + 1 \notin t
      <4>2. g[t] = f[t] /\ g[t \ {Max(t)}] = f[t \ {Max(t)}]
        BY <3>0, <3>3
      <4> QED BY <2>2, <2>3, <3>3, <4>2
    <3> QED BY <3>1, <3>2, <3>3
  <2>7. g \in Folds(k + 1)
    <3> HIDE DEF g
    <3> QED BY <2>5, <2>6
  <2> HIDE DEF Folds, g
  <2> QED BY <2>7
<1>3. n \in T
  <2> HIDE DEF T
  <2>1. 0..n \subseteq T
    BY <1>1, <1>2, UpTo
  <2> QED BY <2>1
<1>4. PICK f : f \in Folds(n)
  BY <1>3
<1>5. f \in FoldsOf(n, A, base, step)
  BY <1>4 DEF FoldsOf
<1> QED BY <1>5

\* What a fold g over a sequence of length n leaves after each element.
LEMMA FoldTrace ==
  ASSUME NEW n \in Nat, NEW A, NEW base \in A, NEW step \in [1..n -> [A -> A]], NEW g,
         IsFold(g, n, A, base, step)
  PROVE  \E G : G \in TracesOf(g, n, A, base, step)
<1>0. /\ g[{}] = base
      /\ \A t \in SUBSET (1..n) : t # {} /\ g[t \ {Max(t)}] \in A => g[t] = step[Max(t)][g[t \ {Max(t)}]]
  BY DEF IsFold
<1> DEFINE T == {i \in 0..n : g[1..i] \in A /\ (i # 0 => g[1..i] = step[i][g[1..(i - 1)]])}
<1>1. 0 \in T
  <2>1. 1..0 = {}
    OBVIOUS
  <2> QED BY <1>0, <2>1
<1>2. ASSUME NEW i \in 0..(n - 1), i \in T PROVE i + 1 \in T
  <2>0. i \in Nat /\ i + 1 \in 1..n /\ i + 1 \in 1..(i + 1) /\ \A k \in 1..(i + 1) : k \in 1..n
    OBVIOUS
  <2>a. 1..(i + 1) \in SUBSET (1..n)
    BY <2>0, Zenon
  <2>1. 1..(i + 1) # {} /\ i + 1 \in Nat
    BY <2>0
  <2>2. Max(1..(i + 1)) = i + 1
    <3>1. Max(1..(i + 1)) \in 1..(i + 1) /\ Max(1..(i + 1)) >= i + 1
      BY <2>0, <2>1, MaxUpTo
    <3> QED BY <3>1
  <2>3. 1..(i + 1) \ {i + 1} = 1..i
    OBVIOUS
  <2>4. g[1..(i + 1)] = step[i + 1][g[1..i]] /\ g[1..i] \in A
    BY <1>0, <1>2, <2>a, <2>1, <2>2, <2>3
  <2>5. step[i + 1] \in [A -> A] /\ i + 1 \in 0..n /\ i = (i + 1) - 1
    OBVIOUS
  <2> QED BY <2>4, <2>5
<1>3. \A i \in 0..n : i \in T
  <2> HIDE DEF T
  <2> QED BY <1>1, <1>2, UpTo
<1>4. \A i \in 0..n : g[1..i] \in A /\ (i # 0 => g[1..i] = step[i][g[1..(i - 1)]])
  BY <1>3
<1> DEFINE G == [i \in 0..n |-> g[1..i]]
<1>5. G \in [0..n -> A] /\ G[n] = g[1..n] /\ G[0] = base
  <2>1. 1..0 = {}
    OBVIOUS
  <2> QED BY <1>0, <1>4, <2>1
<1>6. \A i \in 1..n : G[i] = step[i][G[i - 1]]
  BY <1>4
<1>7. G \in TracesOf(g, n, A, base, step)
  BY <1>5, <1>6 DEF TracesOf
<1> QED BY <1>7

-----------------------------------------------------------------------------
(* Division                                                                *)

\* A product of positive numbers is no less than either.
LEMMA Grows ==
  ASSUME NEW n \in Int, NEW m \in Int, n >= 1, m >= 1
  PROVE  n * m >= m /\ n * m \in Int
<1>1. n * m = m + (n - 1) * m
  OBVIOUS
<1>2. (n - 1) * m >= 0
  OBVIOUS
<1> QED BY <1>1, <1>2

\* Quotient and remainder are determined by the number.
LEMMA DivisionUnique ==
  ASSUME NEW m \in Nat \ {0}, NEW a \in Int, NEW c \in Int, NEW b \in 0 .. m - 1, NEW d \in 0 .. m - 1,
         a * m + b = c * m + d
  PROVE  a = c /\ b = d
<1>1. (a - c) * m = d - b
  OBVIOUS
<1>2. CASE a - c >= 1
  BY <1>1, <1>2, Grows
<1>3. CASE c - a >= 1
  <2>1. (c - a) * m = b - d
    BY <1>1
  <2> QED BY <1>3, <2>1, Grows
<1>4. CASE a = c
  BY <1>1, <1>4
<1> QED BY <1>2, <1>3, <1>4

\* Every number has a quotient and a remainder.
LEMMA Division ==
  ASSUME NEW m \in Nat \ {0}, NEW a \in Int
  PROVE  a % m \in 0 .. m - 1 /\ a \div m \in Int /\ a = (a \div m) * m + (a % m)
OBVIOUS

\* The remainder is the one that fits.
LEMMA Remainder ==
  ASSUME NEW m \in Nat \ {0}, NEW a \in Int, NEW q \in Int, NEW r \in 0 .. m - 1, a = q * m + r
  PROVE  a % m = r /\ a \div m = q
BY Division, DivisionUnique

-----------------------------------------------------------------------------
(* Firing windows                                                          *)

\* A form that was accepted.
Accepted(f) ==
  /\ f \in [start : Minutes \cup {Blank}, end : Minutes \cup {Blank}, days : SUBSET Weekdays, tz : Zones \cup {""}]
  /\ (f.start = Blank) = (f.end = Blank)
  /\ f.start # Blank => f.start # f.end

WindowInv ==
  /\ Accepted(form) /\ row = parseScheduleWindow(form)
  /\ offset \in [Zones -> Int] /\ now \in Int
  /\ TickHonoursWindow

\* The two forms of a window: the minutes from start up to end, and the ones met by
\* walking from the one to the other around the clock.
LEMMA Walk ==
  ASSUME NEW start \in Minutes, NEW end \in Minutes, start # end, NEW cur \in Minutes
  PROVE  (\/ start < end /\ start <= cur /\ cur < end
          \/ start > end /\ (start <= cur \/ cur < end))
         <=> \E k \in 0 .. ((end - start) % MinutesPerDay) - 1 : (start + k) % MinutesPerDay = cur
<1> DEFINE m == MinutesPerDay
           length == (end - start) % m
<1>0. m \in Nat \ {0} /\ start \in 0 .. m - 1 /\ end \in 0 .. m - 1 /\ cur \in 0 .. m - 1
  BY ScanWindowsAssumption DEF Minutes
<1>1. ASSUME NEW x \in 0 .. m - 1 PROVE x % m = x /\ (x + m) % m = x /\ (x - m) % m = x
  <2>1. x = 0 * m + x /\ x + m = 1 * m + x /\ x - m = (-1) * m + x
    BY <1>0
  <2>2. x \in Int /\ x + m \in Int /\ x - m \in Int /\ 0 \in Int /\ 1 \in Int /\ -1 \in Int
    BY <1>0
  <2> HIDE DEF m
  <2>3. x % m = x /\ (x + m) % m = x
    BY <1>0, <2>1, <2>2, Remainder, SMTT(30)
  <2>4. (x - m) % m = x
    BY <1>0, <2>1, <2>2, Remainder, SMTT(30)
  <2> QED BY <2>3, <2>4
<1>2. start < end => length = end - start
  BY <1>0, <1>1
<1>3. start > end => length = end - start + m
  <2> SUFFICES ASSUME start > end PROVE length = end - start + m
    OBVIOUS
  <2>1. end - start + m \in 0 .. m - 1 /\ end - start = (end - start + m) - m
    BY <1>0
  <2> QED BY <1>1, <2>1
<1> HIDE DEF length
<1>4. ASSUME start < end, start <= cur, cur < end PROVE \E k \in 0 .. length - 1 : (start + k) % m = cur
  <2>1. cur - start \in 0 .. length - 1 /\ (start + (cur - start)) % m = cur
    BY <1>0, <1>1, <1>2, <1>4
  <2> QED BY <2>1
<1>5. ASSUME start > end, start <= cur PROVE \E k \in 0 .. length - 1 : (start + k) % m = cur
  <2>1. cur - start \in 0 .. length - 1 /\ (start + (cur - start)) % m = cur
    BY <1>0, <1>1, <1>3, <1>5
  <2> QED BY <2>1
<1>6. ASSUME start > end, cur < end PROVE \E k \in 0 .. length - 1 : (start + k) % m = cur
  <2>1. cur + m - start \in 0 .. length - 1 /\ start + (cur + m - start) = cur + m
    BY <1>0, <1>3, <1>6
  <2>2. (start + (cur + m - start)) % m = cur
    BY <1>0, <1>1, <2>1
  <2> QED BY <2>1, <2>2
<1>7. ASSUME NEW k \in 0 .. length - 1, (start + k) % m = cur
      PROVE  \/ start < end /\ start <= cur /\ cur < end
             \/ start > end /\ (start <= cur \/ cur < end)
  <2>0. length \in Int /\ k \in Int /\ k >= 0 /\ k < length
    BY <1>0 DEF length
  <2>1. CASE start + k < m
    <3>1. start + k \in 0 .. m - 1
      BY <1>0, <2>0, <2>1
    <3>2. cur = start + k
      BY <1>1, <1>7, <3>1
    <3> QED BY <1>0, <1>2, <1>3, <2>0, <3>2
  <2>2. CASE start + k >= m
    <3>1. start + k < m + m
      BY <1>0, <1>2, <1>3, <2>0
    <3>2. start + k - m \in 0 .. m - 1 /\ start + k = (start + k - m) + m
      BY <1>0, <2>0, <2>2, <3>1
    <3>3. cur = start + k - m
      BY <1>1, <1>7, <3>2
    <3> QED BY <1>0, <1>2, <1>3, <2>0, <2>2, <3>3
  <2> QED BY <1>0, <2>0, <2>1, <2>2
<1> QED BY <1>4, <1>5, <1>6, <1>7 DEF length

\* What the tick tests is what the form asks for.
LEMMA WindowIsAsked ==
  ASSUME NEW f, Accepted(f), NEW local \in 0 .. Week - 1
  PROVE  local \in OpenMinutes(f) <=>
           /\ f.days = {} \/ local \div MinutesPerDay \in f.days
           /\ \/ f.start = Blank
              \/ f.start < f.end /\ f.start <= local % MinutesPerDay /\ local % MinutesPerDay < f.end
              \/ f.start > f.end /\ (f.start <= local % MinutesPerDay \/ local % MinutesPerDay < f.end)
<1> DEFINE m == MinutesPerDay
           day == local \div m
           cur == local % m
           days == IF f.days = {} THEN Weekdays ELSE f.days
           length == IF f.start = Blank THEN m ELSE (f.end - f.start) % m
           start == IF f.start = Blank THEN 0 ELSE f.start
<1>0. m \in Nat \ {0} /\ local \in Int /\ local >= 0 /\ local < 7 * m
  BY ScanWindowsAssumption DEF Week
<1>1. cur \in 0 .. m - 1 /\ day \in Int /\ local = day * m + cur
  BY <1>0, Division
<1>2. day \in Weekdays
  <2>1. CASE day >= 7
    <3>1. day * m = 7 * m + (day - 7) * m /\ (day - 7) * m >= 0
      BY <1>0, <1>1, <2>1
    <3> QED BY <1>0, <1>1, <3>1
  <2>2. CASE day <= -1
    <3>1. (-day) * m >= m /\ (-day) * m = -(day * m)
      BY <1>0, <1>1, <2>2, Grows
    <3> QED BY <1>0, <1>1, <3>1
  <2> QED BY <1>1, <2>1, <2>2 DEF Weekdays
<1>3. f.start \in Minutes \cup {Blank} /\ f.end \in Minutes \cup {Blank} /\ f.days \in SUBSET Weekdays
  BY DEF Accepted
<1>4. start \in Int /\ length \in Int /\ days \in SUBSET Weekdays
  BY <1>0, <1>3 DEF Minutes, Blank
<1>5. OpenMinutes(f) = {d * m + ((start + k) % m) : d \in days, k \in 0 .. length - 1}
  BY DEF OpenMinutes
<1>d. (f.days = {} \/ day \in f.days) <=> day \in days
  BY <1>2
<1> HIDE DEF days, day, cur
<1>6. local \in OpenMinutes(f) <=> day \in days /\ \E k \in 0 .. length - 1 : (start + k) % m = cur
  <2>1. ASSUME NEW d \in days, NEW k \in 0 .. length - 1, local = d * m + ((start + k) % m)
        PROVE  d = day /\ (start + k) % m = cur
    <3>1. d \in Int /\ start + k \in Int
      BY <1>4 DEF Weekdays
    <3>2. (start + k) % m \in 0 .. m - 1
      BY <1>0, <3>1, Division
    <3> QED BY <1>0, <1>1, <2>1, <3>1, <3>2, DivisionUnique
  <2>2. ASSUME day \in days, NEW k \in 0 .. length - 1, (start + k) % m = cur PROVE local \in OpenMinutes(f)
    BY <1>1, <1>5, <2>2
  <2> HIDE DEF start, length
  <2>3. ASSUME local \in OpenMinutes(f) PROVE day \in days /\ \E k \in 0 .. length - 1 : (start + k) % m = cur
    <3>1. PICK d \in days, k \in 0 .. length - 1 : local = d * m + ((start + k) % m)
      BY <1>5, <2>3
    <3> QED BY <2>1, <3>1
  <2> QED BY <2>2, <2>3
<1>7. CASE f.start = Blank
  <2>1. cur \in 0 .. length - 1 /\ (start + cur) % m = cur
    <3>1. start = 0 /\ length = m
      BY <1>7
    <3>2. cur = 0 * m + cur
      BY <1>0, <1>1
    <3> QED BY <1>0, <1>1, <3>1, <3>2, Remainder
  <2> QED BY <1>6, <1>7, <1>d, <2>1 DEF day, cur
<1>8. CASE f.start # Blank
  <2>1. f.start \in Minutes /\ f.end \in Minutes /\ f.start # f.end
    BY <1>8 DEF Accepted
  <2>2. start = f.start /\ length = (f.end - f.start) % m /\ cur \in Minutes
    BY <1>1, <1>8 DEF Minutes
  <2>3. (\/ f.start < f.end /\ f.start <= cur /\ cur < f.end
         \/ f.start > f.end /\ (f.start <= cur \/ cur < f.end))
        <=> \E k \in 0 .. ((f.end - f.start) % m) - 1 : (f.start + k) % m = cur
    BY <2>1, <2>2, Walk
  <2> QED BY <1>6, <1>8, <1>d, <2>2, <2>3 DEF day, cur
<1> QED BY <1>7, <1>8

(***************************************************************************)
(* A tick fires a due schedule (runDueSchedules, windowAllows) exactly     *)
(* when the clock of its zone shows a minute that the accepted form asked  *)
(* for, for any window, overnight ones included, any zone and any offset.  *)
(***************************************************************************)
THEOREM TicksHonourWindows == WindowSpec => []TickHonoursWindow
<1>1. WindowInit => WindowInv
  <2> SUFFICES ASSUME WindowInit PROVE WindowInv
    OBVIOUS
  <2>1. Accepted(form)
    BY DEF WindowInit, Accepted
  <2>2. offset \in [Zones -> Int]
    BY ScanWindowsAssumption DEF WindowInit
  <2>3. row = parseScheduleWindow(form) /\ now = 0 /\ tick = "none"
    BY Zenon DEF WindowInit
  <2>4. TickHonoursWindow
    BY <2>3 DEF TickHonoursWindow
  <2> QED BY <2>1, <2>2, <2>3, <2>4 DEF WindowInv
<1>2. WindowInv /\ [WindowNext]_windowVars => WindowInv'
  <2> SUFFICES ASSUME WindowInv, [WindowNext]_windowVars PROVE WindowInv'
    OBVIOUS
  <2>0. /\ Accepted(form) /\ row = parseScheduleWindow(form) /\ offset \in [Zones -> Int] /\ now \in Int
    BY DEF WindowInv
  <2>1. ASSUME NEW f \in Form, SaveSchedule(f) PROVE WindowInv'
    <3>1. ~ Refused(f) /\ form' = f /\ row' = parseScheduleWindow(f) /\ tick' = "none" /\ UNCHANGED <<offset, now>>
      BY <2>1 DEF SaveSchedule
    <3>2. Accepted(f)
      BY <3>1 DEF Form, Refused, Accepted
    <3> QED BY <2>0, <3>1, <3>2 DEF WindowInv, TickHonoursWindow
  <2>2. ASSUME FallsDue \/ MinutePasses PROVE WindowInv'
    <3>1. now' \in Int /\ tick' = "none" /\ UNCHANGED <<form, row, offset>>
      BY <2>0, <2>2, ScanWindowsAssumption DEF FallsDue, MinutePasses, Week
    <3> QED BY <2>0, <3>1 DEF WindowInv, TickHonoursWindow
  <2>3. ASSUME NEW z \in Zones, NEW o \in Offsets[z], ZoneShifts(z, o) PROVE WindowInv'
    <3>1. offset' = [offset EXCEPT ![z] = o] /\ o \in Int /\ tick' = "none" /\ UNCHANGED <<form, row, now>>
      BY <2>3, ScanWindowsAssumption DEF ZoneShifts
    <3>2. offset' \in [Zones -> Int]
      BY <2>0, <3>1
    <3> QED BY <2>0, <3>1, <3>2 DEF WindowInv, TickHonoursWindow
  <2>4. ASSUME RunDueSchedules PROVE WindowInv'
    <3> DEFINE tz == IF form.tz = "" THEN "UTC" ELSE form.tz
               window == windowFromSchedule(row)
               local == In(tz)
    <3>1. /\ tick' = (IF windowAllows(window) THEN "fired" ELSE "skipped")
          /\ UNCHANGED <<form, row, offset, now>>
      BY <2>4 DEF RunDueSchedules
    <3>2. tz \in Zones
      BY <2>0, ScanWindowsAssumption DEF Accepted
    <3>3. local \in 0 .. Week - 1
      <4> HIDE DEF tz
      <4>1. Week \in Nat \ {0}
        BY ScanWindowsAssumption DEF Week
      <4>2. offset[tz] \in Int
        BY <2>0, <3>2
      <4>3. now + offset[tz] \in Int
        BY <2>0, <4>2
      <4> QED BY <4>1, <4>3, Division DEF In
    <3>4. row.start = form.start /\ row.end = form.end /\ row.days = form.days /\ row.tz = tz
      BY <2>0 DEF parseScheduleWindow
    <3>5. window.startMin = form.start /\ window.endMin = form.end /\ window.days = form.days /\ window.loc = tz
      <4>1. form.days \in SUBSET Weekdays
        BY <2>0 DEF Accepted
      <4>2. window.days = form.days \cap Weekdays
        BY <3>4 DEF windowFromSchedule
      <4> QED BY <3>2, <3>4, <4>1, <4>2 DEF windowFromSchedule
    <3> HIDE DEF window, tz
    <3>6. windowAllows(window) <=> local \in OpenMinutes(form)
      <4>1. /\ form.start \in Minutes \cup {Blank} /\ form.end \in Minutes \cup {Blank}
            /\ (form.start = Blank) = (form.end = Blank)
            /\ form.start # Blank => form.start # form.end
        BY <2>0 DEF Accepted
      <4>2. (form.start < 0 \/ form.end < 0 \/ form.start = form.end) <=> form.start = Blank
        BY <4>1, ScanWindowsAssumption DEF Minutes, Blank
      <4>3. windowAllows(window) <=>
              /\ form.days = {} \/ local \div MinutesPerDay \in form.days
              /\ \/ form.start < 0 \/ form.end < 0 \/ form.start = form.end
                 \/ form.start < form.end /\ form.start <= local % MinutesPerDay /\ local % MinutesPerDay < form.end
                 \/ form.start > form.end /\ (form.start <= local % MinutesPerDay \/ local % MinutesPerDay < form.end)
        BY <3>5 DEF windowAllows
      <4> HIDE DEF local
      <4> QED BY <2>0, <3>3, <4>2, <4>3, WindowIsAsked
    <3>7. TickHonoursWindow'
      <4>1. (IF form'.tz = "" THEN "UTC" ELSE form'.tz) = tz
        BY <3>1 DEF tz
      <4>2. (In(IF form.tz = "" THEN "UTC" ELSE form.tz) \in OpenMinutes(form))' <=> local \in OpenMinutes(form)
        BY <3>1 DEF In, OpenMinutes, tz
      <4> QED BY <3>1, <3>6, <4>2 DEF TickHonoursWindow
    <3> QED BY <2>0, <3>1, <3>7 DEF WindowInv
  <2>5. CASE UNCHANGED windowVars
    <3>1. UNCHANGED <<form, row, offset, now, tick>>
      BY <2>5 DEF windowVars
    <3>2. UNCHANGED (In(IF form.tz = "" THEN "UTC" ELSE form.tz) \in OpenMinutes(form))
      BY <3>1 DEF In, OpenMinutes
    <3>3. TickHonoursWindow'
      BY <3>1, <3>2 DEF WindowInv, TickHonoursWindow
    <3> QED BY <2>0, <3>1, <3>3 DEF WindowInv
  <2> QED BY <2>1, <2>2, <2>3, <2>4, <2>5 DEF WindowNext
<1> QED BY <1>1, <1>2, PTL DEF WindowSpec, WindowInv

-----------------------------------------------------------------------------
(* Scan budgets                                                            *)

Added(sum, bits) == sum + 2 ^ bits

\* However many targets a job lists, they count for a positive number of hosts.
LEMMA HostsCounted ==
  ASSUME NEW s \in Seq(Nat)
  PROVE  EstimateTargetHosts(s) \in Nat \ {0}
<1> DEFINE n == Len(s)
           step == [i \in 1..n |-> [a \in Int |-> Added(a, s[i])]]
           Fold(g) == [t \in SUBSET DOMAIN s |->
                         IF t = {} THEN 0 ELSE Added(g[t \ {Max(t)}], s[Max(t)])]
           g == CHOOSE g : g = Fold(g)
           total == FoldLeft(Added, 0, s)
<1>1. EstimateTargetHosts(s) = (IF total < 1 THEN 1 ELSE total)
  BY Zenon DEF EstimateTargetHosts, Added
<1>2. total = g[DOMAIN s]
  BY Zenon DEF FoldLeft, MapThenFoldSet, Added
<1>3. n \in Nat /\ DOMAIN s = 1..n /\ \A i \in 1..n : s[i] \in Nat
  OBVIOUS
<1>4. \A a \in Int, b \in Nat : Added(a, b) \in Int
  BY DEF Added
<1>5. step \in [1..n -> [Int -> Int]] /\ \A i \in 1..n : \A a \in Int : step[i][a] = Added(a, s[i])
  BY <1>3, <1>4
<1>0. n \in Nat /\ 0 \in Int /\ step \in [1..n -> [Int -> Int]]
  BY <1>3, <1>5
<1>6. \A t \in SUBSET (1..n) : t # {} => Max(t) \in 1..n
  BY <1>3, MaxUpTo
<1> HIDE DEF step, n, total
<1>7. PICK f : f \in FoldsOf(n, Int, 0, step)
  BY <1>0, FoldExists
<1>8. f = Fold(f)
  BY <1>3, <1>5, <1>6, <1>7 DEF FoldsOf
<1>9. g = Fold(g)
  <2> HIDE DEF Fold
  <2> QED BY <1>8
<1> HIDE DEF g
<1>10. IsFold(g, n, Int, 0, step)
  BY <1>3, <1>5, <1>6, <1>9 DEF IsFold
<1>11. PICK G : G \in TracesOf(g, n, Int, 0, step)
  BY <1>0, <1>10, FoldTrace
<1>12. G \in [0..n -> Int] /\ G[n] = g[1..n] /\ n \in 0..n
  BY <1>3, <1>11 DEF TracesOf
<1>13. total \in Int
  BY <1>2, <1>3, <1>12
<1> QED BY <1>1, <1>13

\* The cap leaves the hosts less time than they may take.
CappedShort ==
  Supervision = MaxScanBudget /\ HostDiscoveryAllowance + ProbeLimit + ScanGrace > MaxScanBudget

\* nmap may be killed.
SweptLong == job.kind = "query" \/ swept > HostDiscoveryAllowance \/ CappedShort

BudgetInv ==
  /\ job.timeout \in Nat \ {0} /\ job.targets \in TargetLists
  /\ waited \in Nat /\ scanned \in Nat /\ swept \in Nat /\ probed \in Nat /\ query \in Nat /\ transit \in Nat
  /\ waited = scanned + transit
  /\ probed <= ProbeLimit /\ query <= LongestQuery /\ scanned <= Supervision + Overshoot
  /\ at \in {"created", "sending", "sweeping", "probing"} =>
       query = 0 /\ scanned = swept + probed /\ scanned <= Supervision
  /\ at = "querying" => Overshoot = LongestQuery /\ scanned <= Supervision + query
  /\ at = "answering cut short" => SweptLong
  /\ DeadlinesNested

\* The budget leaves nmap its time, or it is the cap, also where the guard against
\* overflow (hosts above the quotient) chooses it.
LEMMA BudgetCovers ==
  ASSUME job.timeout \in Nat \ {0}, job.targets \in TargetLists
  PROVE  /\ Supervision \in Nat \ {0} /\ ProbeLimit \in Nat
         /\ Supervision = HostDiscoveryAllowance + ProbeLimit + ScanGrace \/ CappedShort
<1> DEFINE t == job.timeout
           n == EstimateTargetHosts(job.targets)
           cap == MaxScanBudget
           q == cap \div t
<1>1. t \in Nat \ {0} /\ n \in Nat \ {0}
  BY ScanBudgetAssumption, HostsCounted
<1>2. /\ ScanGrace \in Nat \ {0} /\ HostDiscoveryAllowance \in Nat \ {0} /\ cap \in Nat \ {0}
  BY ScanBudgetAssumption
<1>3. /\ Supervision = (IF n > q \/ t * n + HostDiscoveryAllowance + ScanGrace > cap THEN cap
                        ELSE t * n + HostDiscoveryAllowance + ScanGrace)
      /\ ProbeLimit = t * n
  BY <1>1 DEF Supervision, ScanBudget, ProbeLimit
<1> HIDE DEF n, t
<1>4. t * n \in Nat
  BY <1>1
<1>5. ASSUME n > q PROVE t * n > cap
  <2>1. q \in Int /\ cap % t \in 0 .. t - 1 /\ cap = q * t + (cap % t)
    BY <1>1, <1>2, Division
  <2> HIDE DEF q
  <2>2. (n - q) * t >= t
    BY <1>1, <1>5, <2>1, Grows
  <2>3. t * n = q * t + (n - q) * t
    BY <1>1, <2>1
  <2>4. q * t \in Int /\ (n - q) * t \in Int
    BY <1>1, <2>1
  <2> QED BY <1>1, <1>2, <2>1, <2>2, <2>3, <2>4
<1> HIDE DEF q
<1>6. CASE n > q \/ t * n + HostDiscoveryAllowance + ScanGrace > cap
  <2>1. Supervision = cap /\ HostDiscoveryAllowance + ProbeLimit + ScanGrace > cap
    BY <1>2, <1>3, <1>4, <1>5, <1>6
  <2> QED BY <1>2, <1>3, <1>4, <2>1 DEF CappedShort
<1>7. CASE ~ (n > q \/ t * n + HostDiscoveryAllowance + ScanGrace > cap)
  BY <1>2, <1>3, <1>4, <1>7
<1> QED BY <1>6, <1>7

\* A step that leaves the job alone leaves its deadlines alone.
LEMMA DeadlinesFixed ==
  ASSUME UNCHANGED job
  PROVE  /\ UNCHANGED Supervision /\ UNCHANGED ProbeLimit /\ UNCHANGED Overshoot
         /\ UNCHANGED CappedShort
BY DEF Supervision, ProbeLimit, Overshoot, CappedShort

(***************************************************************************)
(* The deadlines of a job are nested (dispatch, submitJob, ScanBudget):    *)
(* the app gives up only on a call that spent its network grace on the way *)
(* and in the query that outlasts the agent's deadline, and nmap is killed *)
(* only when its sweeps outlast their allowance or the cap leaves its      *)
(* hosts too little time, for any settings of the deadlines, any timeouts, *)
(* any targets and any longest query.                                      *)
(***************************************************************************)
THEOREM DeadlinesStayNested == BudgetSpec => []DeadlinesNested
<1>1. BudgetInit => BudgetInv
  <2> SUFFICES ASSUME BudgetInit PROVE BudgetInv
    OBVIOUS
  <2>1. PICK timeout \in Timeouts, targets \in TargetLists, kind \in Kinds :
          job = CreateScanJob(timeout, targets, kind)
    BY DEF BudgetInit
  <2>2. job.timeout \in Nat \ {0} /\ job.targets \in TargetLists
    BY <2>1, ScanBudgetAssumption DEF CreateScanJob
  <2>3. /\ at = "created" /\ outcome = "none"
        /\ waited = 0 /\ scanned = 0 /\ swept = 0 /\ probed = 0 /\ query = 0 /\ transit = 0
    BY DEF BudgetInit
  <2>4. Overshoot \in Nat /\ LongestQuery \in Nat
    BY ScanBudgetAssumption DEF Overshoot
  <2>5. Supervision \in Nat /\ ProbeLimit \in Nat
    BY <2>2, BudgetCovers
  <2>6. DeadlinesNested
    BY <2>3 DEF DeadlinesNested
  <2> QED BY <2>2, <2>3, <2>4, <2>5, <2>6 DEF BudgetInv
<1>2. BudgetInv /\ [BudgetNext]_budgetVars => BudgetInv'
  <2> SUFFICES ASSUME BudgetInv, [BudgetNext]_budgetVars PROVE BudgetInv'
    OBVIOUS
  <2>0. /\ job.timeout \in Nat \ {0} /\ job.targets \in TargetLists
        /\ at = "answering cut short" => SweptLong
        /\ outcome = "timed out" => transit + Overshoot >= NetworkGrace
        /\ outcome = "cut short" => SweptLong
    BY DEF BudgetInv, DeadlinesNested, CappedShort, SweptLong
  <2>1. PICK budget \in Nat \ {0}, limit \in Nat, over \in Nat :
          /\ budget = Supervision /\ limit = ProbeLimit /\ over = Overshoot
          /\ budget = HostDiscoveryAllowance + limit + ScanGrace \/ CappedShort
    <3>1. Overshoot \in Nat
      BY ScanBudgetAssumption DEF Overshoot
    <3> QED BY <2>0, <3>1, BudgetCovers
  <2>2. /\ ScanGrace \in Nat \ {0} /\ HostDiscoveryAllowance \in Nat \ {0} /\ NetworkGrace \in Nat
        /\ LongestQuery \in Nat
    BY ScanBudgetAssumption
  <2>3. /\ UNCHANGED job /\ UNCHANGED CappedShort
        /\ Supervision' = budget /\ ProbeLimit' = limit /\ Overshoot' = over
    <3>1. UNCHANGED job
      BY DEF BudgetNext, budgetVars, Goto, dispatch, submitJob, SweepEnds, EgressSetDone, ScanCutShort,
             QueryEnds, Answered, DispatchTimesOut, Elapse
    <3> QED BY <2>1, <3>1, DeadlinesFixed
  \* The arithmetic of the invariant, for a place p and its times.
  <2> DEFINE Fits(p, wt, sc, sw, pr, qu, tr) ==
        /\ wt \in Nat /\ sc \in Nat /\ sw \in Nat /\ pr \in Nat /\ qu \in Nat /\ tr \in Nat
        /\ wt = sc + tr
        /\ pr <= limit /\ qu <= LongestQuery /\ sc <= budget + over
        /\ p \in {"created", "sending", "sweeping", "probing"} => qu = 0 /\ sc = sw + pr /\ sc <= budget
        /\ p = "querying" => over = LongestQuery /\ sc <= budget + qu
  <2>b. Fits(at, waited, scanned, swept, probed, query, transit)
    BY <2>1 DEF BudgetInv
  <2>t. waited \in Nat /\ scanned \in Nat /\ swept \in Nat /\ transit \in Nat
    BY <2>b
  \* What is left to show of the next state.
  <2>4. ASSUME Fits(at', waited', scanned', swept', probed', query', transit'),
               at' = "answering cut short" => SweptLong',
               outcome' = "timed out" => transit' + over >= NetworkGrace,
               outcome' = "cut short" => SweptLong'
        PROVE  BudgetInv'
    <3>1. DeadlinesNested'
      BY <2>3, <2>4 DEF DeadlinesNested, CappedShort, SweptLong
    <3> QED BY <2>0, <2>3, <2>4, <3>1 DEF BudgetInv
  <2>5. ASSUME swept' \in Nat, swept <= swept', SweptLong PROVE SweptLong'
    BY <2>b, <2>2, <2>3, <2>5 DEF SweptLong
  \* A step that only moves on.
  <2>6. ASSUME NEW p, Goto(p), Fits(p, waited, scanned, swept, probed, query, transit),
               p = "answering cut short" => SweptLong
        PROVE  BudgetInv'
    <3>1. at' = p /\ UNCHANGED <<waited, scanned, swept, probed, query, transit, outcome>>
      BY <2>6 DEF Goto, spent
    <3>2. SweptLong => SweptLong'
      BY <2>b, <2>5, <3>1
    <3>3. Fits(at', waited', scanned', swept', probed', query', transit')
      BY <2>6, <3>1
    <3> HIDE DEF Fits
    <3> QED BY <2>0, <2>1, <2>4, <2>6, <3>1, <3>2, <3>3
  <2>7. CASE dispatch
    BY <2>b, <2>6, <2>7 DEF dispatch
  <2>8. CASE submitJob
    <3>1. job.kind = "query" => over = LongestQuery
      BY <2>1 DEF Overshoot
    <3>2. PICK p \in {"answering", "sweeping", "querying"} :
            at = "sending" /\ Goto(p) /\ (p = "querying" => job.kind = "query")
      BY <2>8 DEF submitJob
    <3>3. Fits(p, waited, scanned, swept, probed, query, transit)
      BY <2>b, <3>1, <3>2
    <3> HIDE DEF Fits
    <3> QED BY <2>6, <3>2, <3>3
  <2>9. CASE SweepEnds
    BY <2>b, <2>6, <2>9 DEF SweepEnds
  <2>10. CASE EgressSetDone
    <3>1. job.kind = "combined" => over = LongestQuery
      BY <2>1 DEF Overshoot
    <3>2. PICK p \in {"answering", "sweeping", "querying"} :
            at \in {"sweeping", "probing"} /\ Goto(p) /\ (p = "querying" => job.kind = "combined")
      BY <2>10 DEF EgressSetDone
    <3>3. Fits(p, waited, scanned, swept, probed, query, transit)
      BY <2>b, <3>1, <3>2
    <3> HIDE DEF Fits
    <3> QED BY <2>6, <3>2, <3>3
  <2>11. CASE ScanCutShort
    <3>1. at \in {"sweeping", "probing"} /\ scanned >= budget /\ Goto("answering cut short")
      BY <2>1, <2>11 DEF ScanCutShort, Expired
    <3>2. scanned = swept + probed /\ probed <= limit /\ swept \in Nat /\ probed \in Nat /\ scanned \in Nat
      BY <2>b, <3>1
    <3>3. swept > HostDiscoveryAllowance \/ CappedShort
      <4>1. CASE budget = HostDiscoveryAllowance + limit + ScanGrace
        <5>1. swept + probed >= HostDiscoveryAllowance + limit + ScanGrace
          BY <3>1, <3>2, <4>1
        <5>2. swept \in Nat /\ probed \in Nat /\ limit \in Nat /\ probed <= limit
          BY <2>1, <3>2
        <5>3. swept > HostDiscoveryAllowance
          BY <2>2, <5>1, <5>2
        <5> QED BY <5>3
      <4> QED BY <2>1, <4>1
    <3>4. Fits("answering cut short", waited, scanned, swept, probed, query, transit)
      BY <2>b
    <3> HIDE DEF Fits
    <3> QED BY <2>6, <3>1, <3>3, <3>4 DEF SweptLong
  <2>12. CASE QueryEnds
    <3>0. at = "querying"
      BY <2>12 DEF QueryEnds
    <3>1. CASE ~ Expired /\ query' = 0 /\ UNCHANGED <<job, at, waited, scanned, swept, probed, transit, outcome>>
      <4>1. scanned < budget
        BY <2>1, <2>b, <3>1 DEF Expired
      <4>2. Fits(at', waited', scanned', swept', probed', query', transit')
        BY <2>b, <2>2, <3>0, <3>1, <4>1
      <4>3. SweptLong => SweptLong'
        BY <2>b, <2>5, <3>1
      <4> HIDE DEF Fits
      <4> QED BY <2>0, <2>1, <2>4, <3>0, <3>1, <4>2, <4>3
    <3>2. CASE Goto("answering")
      BY <2>b, <2>6, <3>2
    <3>3. CASE job.kind = "query" /\ Goto("answering cut short")
      <4>1. Fits("answering cut short", waited, scanned, swept, probed, query, transit)
        BY <2>b
      <4> HIDE DEF Fits
      <4> QED BY <2>6, <3>3, <4>1 DEF SweptLong
    <3> QED BY <2>12, <3>1, <3>2, <3>3 DEF QueryEnds
  <2>13. CASE Answered
    <3>1. /\ at' = "done" /\ UNCHANGED <<waited, scanned, swept, probed, query, transit>>
          /\ outcome' = "answered" \/ (outcome' = "cut short" /\ at = "answering cut short")
      BY <2>13 DEF Answered, spent
    <3>2. Fits(at', waited', scanned', swept', probed', query', transit')
      BY <2>b, <3>1
    <3>0. swept' \in Nat /\ swept <= swept'
      <4>1. UNCHANGED swept
        BY <3>1
      <4> QED BY <2>t, <4>1
    <3>3. SweptLong => SweptLong'
      BY <2>5, <3>0
    <3> HIDE DEF Fits
    <3> QED BY <2>0, <2>4, <3>1, <3>2, <3>3
  <2>14. CASE DispatchTimesOut
    <3>1. DispatchTimeout = budget + NetworkGrace
      <4>1. DispatchTimeout = (IF budget <= 0 THEN UnsupervisedTimeout ELSE budget) + NetworkGrace
        BY <2>1 DEF DispatchTimeout
      <4> QED BY <4>1
    <3>2. /\ waited = budget + NetworkGrace /\ at' = "done" /\ outcome' = "timed out"
          /\ UNCHANGED <<waited, scanned, swept, probed, query, transit>>
      BY <2>14, <3>1 DEF DispatchTimesOut, spent
    <3>3. Fits(at', waited', scanned', swept', probed', query', transit')
      BY <2>b, <3>2
    <3>4. transit' + over >= NetworkGrace
      <4>1. /\ transit \in Nat /\ scanned \in Nat /\ over \in Nat /\ budget \in Nat
            /\ budget + NetworkGrace = scanned + transit /\ scanned <= budget + over
        BY <2>1, <2>b, <3>2
      <4>2. transit + over >= NetworkGrace
        BY <2>2, <4>1
      <4> QED BY <3>2, <4>2
    <3> HIDE DEF Fits
    <3> QED BY <2>4, <3>2, <3>3, <3>4
  <2>15. CASE Elapse
    <3>0. waited' = waited + 1 /\ UNCHANGED <<at, outcome>>
      BY <2>15 DEF Elapse
    <3>1. ASSUME Fits(at', waited', scanned', swept', probed', query', transit'),
                 swept <= swept', transit <= transit'
          PROVE  BudgetInv'
      <4>1. swept' \in Nat /\ transit' \in Nat /\ transit \in Nat
        BY <2>b, <3>1
      <4>2. SweptLong => SweptLong'
        BY <2>5, <3>1, <4>1
      <4>3. transit + over >= NetworkGrace => transit' + over >= NetworkGrace
        <5>1. PICK new \in Nat : new = transit' /\ transit <= new
          BY <3>1, <4>1
        <5>2. transit \in Nat /\ over \in Nat /\ NetworkGrace \in Nat /\ transit <= new
          BY <2>1, <2>2, <2>t, <5>1
        <5>3. transit + over >= NetworkGrace => new + over >= NetworkGrace
          BY <5>2
        <5> QED BY <5>1, <5>3
      <4> HIDE DEF Fits
      <4> QED BY <2>0, <2>1, <2>4, <3>0, <3>1, <4>2, <4>3
    <3>2. CASE /\ at = "sweeping" /\ ~ Expired
               /\ swept' = swept + 1 /\ scanned' = scanned + 1 /\ UNCHANGED <<probed, query, transit>>
      <4>1. scanned < budget
        BY <2>1, <2>b, <3>2 DEF Expired
      <4> QED BY <2>b, <3>0, <3>1, <3>2, <4>1
    <3>3. CASE /\ at = "probing" /\ ~ Expired /\ probed < ProbeLimit
               /\ probed' = probed + 1 /\ scanned' = scanned + 1 /\ UNCHANGED <<swept, query, transit>>
      <4>1. scanned < budget /\ probed < limit
        BY <2>1, <2>b, <3>3 DEF Expired
      <4> QED BY <2>b, <3>0, <3>1, <3>3, <4>1
    <3>4. CASE /\ at = "querying" /\ query < LongestQuery
               /\ query' = query + 1 /\ scanned' = scanned + 1 /\ UNCHANGED <<swept, probed, transit>>
      BY <2>b, <2>2, <3>0, <3>1, <3>4
    <3>5. CASE /\ at \in {"sending", "answering", "answering cut short"}
               /\ transit' = transit + 1 /\ UNCHANGED <<scanned, swept, probed, query>>
      <4>0. transit' = transit + 1 /\ swept' = swept /\ waited' = waited + 1
        BY <3>0, <3>5
      <4>1. /\ transit <= transit' /\ swept <= swept'
            /\ transit' \in Nat /\ waited' \in Nat /\ waited' = scanned + transit'
        <5>1. waited = scanned + transit
          BY <2>b
        <5> QED BY <2>t, <4>0, <5>1
      <4>2. Fits(at', waited', scanned', swept', probed', query', transit')
        <5>1. UNCHANGED <<at, scanned, swept, probed, query>>
          BY <3>0, <3>5
        <5>2. Fits(at, waited', scanned, swept, probed, query, transit')
          BY <2>b, <4>1
        <5> HIDE DEF Fits
        <5> QED BY <5>1, <5>2
      <4> HIDE DEF Fits
      <4> QED BY <3>1, <4>1, <4>2
    <3> QED BY <2>15, <3>2, <3>3, <3>4, <3>5 DEF Elapse
  <2>16. CASE UNCHANGED budgetVars
    <3>1. UNCHANGED <<at, waited, scanned, swept, probed, query, transit, outcome>>
      BY <2>16 DEF budgetVars, spent
    <3>2. Fits(at', waited', scanned', swept', probed', query', transit')
      BY <2>b, <3>1
    <3>3. SweptLong => SweptLong'
      BY <2>b, <2>5, <3>1
    <3> HIDE DEF Fits
    <3> QED BY <2>0, <2>1, <2>4, <3>1, <3>2, <3>3
  <2> QED BY <2>7, <2>8, <2>9, <2>10, <2>11, <2>12, <2>13, <2>14, <2>15, <2>16 DEF BudgetNext
<1> QED BY <1>1, <1>2, PTL DEF BudgetSpec, BudgetInv

-----------------------------------------------------------------------------
(* Observations and their merge                                            *)

\* Observations: fields and ports map to the sources that supplied them.
Source == {"nmap", "inventory", "vlan", "serial", "arp", "cdp", "lldp", "netbios", "mdns", "dns", "dhcp"}
Tag == Seq(Source \cup Nat \cup BOOLEAN)
Partial(X, V) == UNION {[D -> V] : D \in SUBSET X}
Obs == [ip : Nat, val : Partial(Fields, Tag), ports : Partial(Nat, Tag), ev : Seq(Tag)]
\* Those about addresses of I.
ObsOf(I) == {o \in Obs : o.ip \in I}

\* A function on some of X.
LEMMA PartialIs ==
  ASSUME NEW X, NEW V, NEW f
  PROVE  f \in Partial(X, V) <=> DOMAIN f \subseteq X /\ f \in [DOMAIN f -> V]
<1>1. ASSUME f \in Partial(X, V) PROVE DOMAIN f \subseteq X /\ f \in [DOMAIN f -> V]
  BY <1>1 DEF Partial
<1>2. ASSUME DOMAIN f \subseteq X, f \in [DOMAIN f -> V] PROVE f \in Partial(X, V)
  BY <1>2 DEF Partial
<1> QED BY <1>1, <1>2

\* The fields of two observations together.
LEMMA MergedFields ==
  ASSUME NEW X, NEW V, NEW f \in Partial(X, V), NEW g \in Partial(X, V)
  PROVE  mergeServices(f, g) \in Partial(X, V)
<1>1. /\ DOMAIN f \subseteq X /\ f \in [DOMAIN f -> V]
      /\ DOMAIN g \subseteq X /\ g \in [DOMAIN g -> V]
  BY PartialIs
<1>2. /\ DOMAIN mergeServices(f, g) = DOMAIN f \cup DOMAIN g
      /\ mergeServices(f, g) \in [DOMAIN f \cup DOMAIN g -> V]
  BY <1>1 DEF mergeServices
<1> QED BY <1>1, <1>2, PartialIs

\* The merge of two observations of an address is one of that address.
LEMMA MergeInto ==
  ASSUME NEW a \in Obs, NEW b \in Obs
  PROVE  /\ mergeInto(a, b) \in Obs /\ mergeInto(a, b).ip = a.ip
         /\ mergeInto(a, b).val = mergeServices(a.val, b.val)
         /\ mergeInto(a, b).ports = mergeServices(a.ports, b.ports)
         /\ mergeInto(a, b).ev = a.ev \o b.ev
<1>1. /\ mergeServices(a.val, b.val) \in Partial(Fields, Tag)
      /\ mergeServices(a.ports, b.ports) \in Partial(Nat, Tag)
      /\ a.ev \o b.ev \in Seq(Tag)
  <2>1. a.ev \in Seq(Tag) /\ b.ev \in Seq(Tag)
    BY DEF Obs
  <2> QED BY <2>1, MergedFields DEF Obs
<1>2. ASSUME NEW x, NEW y, NEW z, NEW r, r = [a EXCEPT !.val = x, !.ports = y, !.ev = z]
      PROVE  r \in [ip : {a.ip}, val : {x}, ports : {y}, ev : {z}]
  BY <1>2 DEF Obs
<1>3. mergeInto(a, b) \in [ip : {a.ip}, val : {mergeServices(a.val, b.val)},
                           ports : {mergeServices(a.ports, b.ports)}, ev : {a.ev \o b.ev}]
  BY <1>2, Zenon DEF mergeInto
<1> QED BY <1>1, <1>3 DEF Obs

\* A step of the merge keeps observations of the addresses of I.
LEMMA MergeNext ==
  ASSUME NEW I, NEW acc \in Seq(ObsOf(I)), NEW o \in ObsOf(I)
  PROVE  mergeNext(acc, o) \in Seq(ObsOf(I))
<1>1. CASE \E i \in DOMAIN acc : acc[i].ip = o.ip
  <2>0. \A i \in 1..Len(acc) : acc[i] \in ObsOf(I)
    OBVIOUS
  <2>1. \A i \in 1..Len(acc) : acc[i] \in ObsOf(I) /\ mergeInto(acc[i], o) \in ObsOf(I)
    <3> SUFFICES ASSUME NEW i \in 1..Len(acc) PROVE mergeInto(acc[i], o) \in ObsOf(I)
      BY <2>0
    <3> DEFINE a == acc[i]
    <3>1. a \in Obs /\ a.ip \in I /\ o \in Obs
      BY <2>0 DEF ObsOf
    <3> HIDE DEF a
    <3>2. mergeInto(a, o) \in Obs /\ mergeInto(a, o).ip = a.ip
      BY <3>1, MergeInto
    <3>3. mergeInto(a, o) \in ObsOf(I)
      BY <3>1, <3>2 DEF ObsOf
    <3> QED BY <3>3 DEF a
  <2>2. mergeNext(acc, o) = [i \in 1..Len(acc) |-> IF acc[i].ip = o.ip THEN mergeInto(acc[i], o) ELSE acc[i]]
    BY <1>1 DEF mergeNext
  <2> QED BY <2>1, <2>2
<1>2. CASE ~ \E i \in DOMAIN acc : acc[i].ip = o.ip
  BY <1>2 DEF mergeNext
<1> QED BY <1>1, <1>2

\* What mergeObservations holds after each claim.
LEMMA MergeTrace ==
  ASSUME NEW I, NEW s \in Seq(ObsOf(I))
  PROVE  \E G \in [0..Len(s) -> Seq(ObsOf(I))] :
           /\ G[0] = <<>> /\ G[Len(s)] = mergeObservations(s)
           /\ \A i \in 1..Len(s) : G[i] = mergeNext(G[i - 1], s[i])
<1> DEFINE n == Len(s)
           A == Seq(ObsOf(I))
           base == <<>>
           step == [i \in 1..n |-> [a \in A |-> mergeNext(a, s[i])]]
           Fold(g) == [t \in SUBSET DOMAIN s |-> IF t = {} THEN base ELSE mergeNext(g[t \ {Max(t)}], s[Max(t)])]
           g == CHOOSE g : g = Fold(g)
<1>1. mergeObservations(s) = g[DOMAIN s]
  BY Zenon DEF mergeObservations, FoldLeft, MapThenFoldSet
<1>2. n \in Nat /\ DOMAIN s = 1..n /\ base \in A /\ \A i \in 1..n : s[i] \in ObsOf(I)
  OBVIOUS
<1>3. step \in [1..n -> [A -> A]] /\ \A i \in 1..n : \A a \in A : step[i][a] = mergeNext(a, s[i])
  BY <1>2, MergeNext
<1>4. n \in Nat /\ base \in A /\ step \in [1..n -> [A -> A]]
  BY <1>2, <1>3
<1>5. \A t \in SUBSET (1..n) : t # {} => Max(t) \in 1..n
  BY <1>2, MaxUpTo
<1> HIDE DEF step, A, n, base
<1>6. PICK f : f \in FoldsOf(n, A, base, step)
  BY <1>4, FoldExists
<1>7. f = Fold(f)
  BY <1>2, <1>3, <1>5, <1>6 DEF FoldsOf
<1>8. g = Fold(g)
  <2> HIDE DEF Fold
  <2> QED BY <1>7
<1> HIDE DEF g
<1>9. IsFold(g, n, A, base, step)
  BY <1>2, <1>3, <1>5, <1>8 DEF IsFold
<1>10. PICK G : G \in TracesOf(g, n, A, base, step)
  BY <1>4, <1>9, FoldTrace
<1>11. G \in [0..n -> A] /\ G[0] = base /\ G[n] = g[1..n] /\ \A i \in 1..n : G[i] = step[i][G[i - 1]]
  BY <1>10 DEF TracesOf
<1>a. \A i \in 1..n : i - 1 \in 0..n /\ G[i - 1] \in A
  BY <1>4, <1>11
<1>12. \A i \in 1..n : G[i] = mergeNext(G[i - 1], s[i])
  BY <1>3, <1>11, <1>a
<1> QED BY <1>1, <1>2, <1>11, <1>12 DEF n, A, base

-----------------------------------------------------------------------------
(* What the loops of the backends keep                                     *)

\* addFirst keeps sequences of observations.
LEMMA AddFirst ==
  ASSUME NEW X, NEW acc \in Seq(X), NEW o \in X
  PROVE  addFirst(acc, o) \in Seq(X)
BY DEF addFirst

AddTraces(X, got, s) ==
  {G \in [0..Len(s) -> Seq(X)] :
     /\ G[0] = got /\ G[Len(s)] = FoldLeft(addFirst, got, s)
     /\ \A i \in 1..Len(s) : G[i] = addFirst(G[i - 1], s[i])}

\* What the rows kept by address come to after each row.
LEMMA AddFirstTrace ==
  ASSUME NEW X, NEW got \in Seq(X), NEW s \in Seq(X)
  PROVE  \E G : G \in AddTraces(X, got, s)
<1> DEFINE n == Len(s)
           A == Seq(X)
           base == got
           step == [i \in 1..n |-> [a \in A |-> addFirst(a, s[i])]]
           Fold(g) == [t \in SUBSET DOMAIN s |->
                         IF t = {} THEN base ELSE addFirst(g[t \ {Max(t)}], s[Max(t)])]
           g == CHOOSE g : g = Fold(g)
<1>1. FoldLeft(addFirst, got, s) = g[DOMAIN s]
  BY Zenon DEF FoldLeft, MapThenFoldSet
<1>2. n \in Nat /\ DOMAIN s = 1..n /\ base \in A /\ \A i \in 1..n : s[i] \in X
  OBVIOUS
<1>3. step \in [1..n -> [A -> A]] /\ \A i \in 1..n : \A a \in A : step[i][a] = addFirst(a, s[i])
  BY <1>2, AddFirst
<1>4. n \in Nat /\ base \in A /\ step \in [1..n -> [A -> A]]
  BY <1>2, <1>3
<1>5. \A t \in SUBSET (1..n) : t # {} => Max(t) \in 1..n
  BY <1>2, MaxUpTo
<1> HIDE DEF step, A, n, base
<1>6. PICK f : f \in FoldsOf(n, A, base, step)
  BY <1>4, FoldExists
<1>7. f = Fold(f)
  BY <1>2, <1>3, <1>5, <1>6 DEF FoldsOf
<1>8. g = Fold(g)
  <2> HIDE DEF Fold
  <2> QED BY <1>7
<1> HIDE DEF g
<1>9. IsFold(g, n, A, base, step)
  BY <1>2, <1>3, <1>5, <1>8 DEF IsFold
<1>10. PICK G : G \in TracesOf(g, n, A, base, step)
  BY <1>4, <1>9, FoldTrace
<1>11. G \in [0..n -> A] /\ G[0] = base /\ G[n] = g[1..n] /\ \A i \in 1..n : G[i] = step[i][G[i - 1]]
  BY <1>10 DEF TracesOf
<1>a. \A i \in 1..n : i - 1 \in 0..n /\ G[i - 1] \in A
  BY <1>4, <1>11
<1>12. \A i \in 1..n : G[i] = addFirst(G[i - 1], s[i])
  BY <1>3, <1>11, <1>a
<1>13. G \in AddTraces(X, got, s)
  BY <1>1, <1>2, <1>11, <1>12 DEF n, A, base, AddTraces
<1> QED BY <1>13

\* firstOfKey keeps rows of a neighbour table.
LEMMA FirstOfKey ==
  ASSUME NEW X, NEW acc \in Seq(X), NEW r \in X
  PROVE  firstOfKey(acc, r) \in Seq(X)
BY DEF firstOfKey

\* What the rows kept by key come to after each row.
LEMMA FirstOfKeyTrace ==
  ASSUME NEW X, NEW s \in Seq(X)
  PROVE  \E G \in [0..Len(s) -> Seq(X)] :
           /\ G[0] = <<>> /\ G[Len(s)] = FoldLeft(firstOfKey, <<>>, s)
           /\ \A i \in 1..Len(s) : G[i] = firstOfKey(G[i - 1], s[i])
<1> DEFINE n == Len(s)
           A == Seq(X)
           base == <<>>
           step == [i \in 1..n |-> [a \in A |-> firstOfKey(a, s[i])]]
           Fold(g) == [t \in SUBSET DOMAIN s |->
                         IF t = {} THEN base ELSE firstOfKey(g[t \ {Max(t)}], s[Max(t)])]
           g == CHOOSE g : g = Fold(g)
<1>1. FoldLeft(firstOfKey, <<>>, s) = g[DOMAIN s]
  BY Zenon DEF FoldLeft, MapThenFoldSet
<1>2. n \in Nat /\ DOMAIN s = 1..n /\ base \in A /\ \A i \in 1..n : s[i] \in X
  OBVIOUS
<1>3. step \in [1..n -> [A -> A]] /\ \A i \in 1..n : \A a \in A : step[i][a] = firstOfKey(a, s[i])
  BY <1>2, FirstOfKey
<1>4. n \in Nat /\ base \in A /\ step \in [1..n -> [A -> A]]
  BY <1>2, <1>3
<1>5. \A t \in SUBSET (1..n) : t # {} => Max(t) \in 1..n
  BY <1>2, MaxUpTo
<1> HIDE DEF step, A, n, base
<1>6. PICK f : f \in FoldsOf(n, A, base, step)
  BY <1>4, FoldExists
<1>7. f = Fold(f)
  BY <1>2, <1>3, <1>5, <1>6 DEF FoldsOf
<1>8. g = Fold(g)
  <2> HIDE DEF Fold
  <2> QED BY <1>7
<1> HIDE DEF g
<1>9. IsFold(g, n, A, base, step)
  BY <1>2, <1>3, <1>5, <1>8 DEF IsFold
<1>10. PICK G : G \in TracesOf(g, n, A, base, step)
  BY <1>4, <1>9, FoldTrace
<1>11. G \in [0..n -> A] /\ G[0] = base /\ G[n] = g[1..n] /\ \A i \in 1..n : G[i] = step[i][G[i - 1]]
  BY <1>10 DEF TracesOf
<1>a. \A i \in 1..n : i - 1 \in 0..n /\ G[i - 1] \in A
  BY <1>4, <1>11
<1>12. \A i \in 1..n : G[i] = firstOfKey(G[i - 1], s[i])
  BY <1>3, <1>11, <1>a
<1> QED BY <1>1, <1>2, <1>11, <1>12 DEF n, A, base

\* putLease keeps sequences of leases.
LEMMA PutLease ==
  ASSUME NEW X, NEW acc \in Seq(X), NEW r \in X
  PROVE  putLease(acc, r) \in Seq(X)
<1>1. CASE \E i \in DOMAIN acc : acc[i].ip = r.ip
  <2>1. putLease(acc, r) = [i \in 1..Len(acc) |-> IF acc[i].ip = r.ip THEN r ELSE acc[i]]
    BY <1>1 DEF putLease
  <2>2. \A i \in 1..Len(acc) : acc[i] \in X
    OBVIOUS
  <2> QED BY <2>1, <2>2
<1>2. CASE ~ \E i \in DOMAIN acc : acc[i].ip = r.ip
  BY <1>2 DEF putLease
<1> QED BY <1>1, <1>2

\* What the leases come to after each row.
LEMMA PutLeaseTrace ==
  ASSUME NEW X, NEW s \in Seq(X)
  PROVE  \E G \in [0..Len(s) -> Seq(X)] :
           /\ G[0] = <<>> /\ G[Len(s)] = parseDnsmasqLeases(s)
           /\ \A i \in 1..Len(s) : G[i] = putLease(G[i - 1], s[i])
<1> DEFINE n == Len(s)
           A == Seq(X)
           base == <<>>
           step == [i \in 1..n |-> [a \in A |-> putLease(a, s[i])]]
           Fold(g) == [t \in SUBSET DOMAIN s |->
                         IF t = {} THEN base ELSE putLease(g[t \ {Max(t)}], s[Max(t)])]
           g == CHOOSE g : g = Fold(g)
<1>1. parseDnsmasqLeases(s) = g[DOMAIN s]
  BY Zenon DEF parseDnsmasqLeases, FoldLeft, MapThenFoldSet
<1>2. n \in Nat /\ DOMAIN s = 1..n /\ base \in A /\ \A i \in 1..n : s[i] \in X
  OBVIOUS
<1>3. step \in [1..n -> [A -> A]] /\ \A i \in 1..n : \A a \in A : step[i][a] = putLease(a, s[i])
  BY <1>2, PutLease
<1>4. n \in Nat /\ base \in A /\ step \in [1..n -> [A -> A]]
  BY <1>2, <1>3
<1>5. \A t \in SUBSET (1..n) : t # {} => Max(t) \in 1..n
  BY <1>2, MaxUpTo
<1> HIDE DEF step, A, n, base
<1>6. PICK f : f \in FoldsOf(n, A, base, step)
  BY <1>4, FoldExists
<1>7. f = Fold(f)
  BY <1>2, <1>3, <1>5, <1>6 DEF FoldsOf
<1>8. g = Fold(g)
  <2> HIDE DEF Fold
  <2> QED BY <1>7
<1> HIDE DEF g
<1>9. IsFold(g, n, A, base, step)
  BY <1>2, <1>3, <1>5, <1>8 DEF IsFold
<1>10. PICK G : G \in TracesOf(g, n, A, base, step)
  BY <1>4, <1>9, FoldTrace
<1>11. G \in [0..n -> A] /\ G[0] = base /\ G[n] = g[1..n] /\ \A i \in 1..n : G[i] = step[i][G[i - 1]]
  BY <1>10 DEF TracesOf
<1>a. \A i \in 1..n : i - 1 \in 0..n /\ G[i - 1] \in A
  BY <1>4, <1>11
<1>12. \A i \in 1..n : G[i] = putLease(G[i - 1], s[i])
  BY <1>3, <1>11, <1>a
<1> QED BY <1>1, <1>2, <1>11, <1>12 DEF n, A, base

\* Sequences without duplicates.
Distinct(X) == {q \in Seq(X) : IsInjective(q)}

\* A host is listed once.
LEMMA AddHost ==
  ASSUME NEW X, NEW acc \in Distinct(X), NEW h \in X
  PROVE  addHost(acc, h) \in Distinct(X)
<1>1. acc \in Seq(X) /\ \A i, j \in 1..Len(acc) : acc[i] = acc[j] => i = j
  BY DEF Distinct, IsInjective
<1>2. CASE Contains(acc, h)
  BY <1>2 DEF addHost
<1>3. CASE ~ Contains(acc, h)
  <2>1. addHost(acc, h) = Append(acc, h) /\ \A i \in 1..Len(acc) : acc[i] # h
    BY <1>3 DEF addHost, Contains
  <2>2. /\ Append(acc, h) \in Seq(X) /\ DOMAIN Append(acc, h) = 1..(Len(acc) + 1)
        /\ \A i \in 1..(Len(acc) + 1) : Append(acc, h)[i] = IF i = Len(acc) + 1 THEN h ELSE acc[i]
    BY <1>1
  <2>3. ASSUME NEW i \in 1..(Len(acc) + 1), NEW j \in 1..(Len(acc) + 1), Append(acc, h)[i] = Append(acc, h)[j]
        PROVE  i = j
    <3>1. i \in 1..Len(acc) \/ i = Len(acc) + 1
      BY <1>1
    <3>2. j \in 1..Len(acc) \/ j = Len(acc) + 1
      BY <1>1
    <3> QED BY <1>1, <2>1, <2>2, <2>3, <3>1, <3>2
  <2> QED BY <2>1, <2>2, <2>3 DEF Distinct, IsInjective
<1> QED BY <1>2, <1>3

\* What the hosts to enrich come to after each one.
LEMMA AddHostTrace ==
  ASSUME NEW X, NEW s \in Seq(X)
  PROVE  \E G \in [0..Len(s) -> Distinct(X)] :
           /\ G[0] = <<>> /\ G[Len(s)] = FoldLeft(addHost, <<>>, s)
           /\ \A i \in 1..Len(s) : G[i] = addHost(G[i - 1], s[i])
<1> DEFINE n == Len(s)
           A == Distinct(X)
           base == <<>>
           step == [i \in 1..n |-> [a \in A |-> addHost(a, s[i])]]
           Fold(g) == [t \in SUBSET DOMAIN s |->
                         IF t = {} THEN base ELSE addHost(g[t \ {Max(t)}], s[Max(t)])]
           g == CHOOSE g : g = Fold(g)
<1>1. FoldLeft(addHost, <<>>, s) = g[DOMAIN s]
  BY Zenon DEF FoldLeft, MapThenFoldSet
<1>2. n \in Nat /\ DOMAIN s = 1..n /\ base \in A /\ \A i \in 1..n : s[i] \in X
  BY DEF Distinct, IsInjective
<1>3. step \in [1..n -> [A -> A]] /\ \A i \in 1..n : \A a \in A : step[i][a] = addHost(a, s[i])
  BY <1>2, AddHost
<1>4. n \in Nat /\ base \in A /\ step \in [1..n -> [A -> A]]
  BY <1>2, <1>3
<1>5. \A t \in SUBSET (1..n) : t # {} => Max(t) \in 1..n
  BY <1>2, MaxUpTo
<1> HIDE DEF step, A, n, base
<1>6. PICK f : f \in FoldsOf(n, A, base, step)
  BY <1>4, FoldExists
<1>7. f = Fold(f)
  BY <1>2, <1>3, <1>5, <1>6 DEF FoldsOf
<1>8. g = Fold(g)
  <2> HIDE DEF Fold
  <2> QED BY <1>7
<1> HIDE DEF g
<1>9. IsFold(g, n, A, base, step)
  BY <1>2, <1>3, <1>5, <1>8 DEF IsFold
<1>10. PICK G : G \in TracesOf(g, n, A, base, step)
  BY <1>4, <1>9, FoldTrace
<1>11. G \in [0..n -> A] /\ G[0] = base /\ G[n] = g[1..n] /\ \A i \in 1..n : G[i] = step[i][G[i - 1]]
  BY <1>10 DEF TracesOf
<1>a. \A i \in 1..n : i - 1 \in 0..n /\ G[i - 1] \in A
  BY <1>4, <1>11
<1>12. \A i \in 1..n : G[i] = addHost(G[i - 1], s[i])
  BY <1>3, <1>11, <1>a
<1> QED BY <1>1, <1>2, <1>11, <1>12 DEF n, A, base

Keep(S, acc, x) == IF x \in S THEN Append(acc, x) ELSE acc

\* A step of the filter keeps elements of S.
LEMMA Keeps ==
  ASSUME NEW X, NEW S, NEW acc \in Seq(X \cap S), NEW x \in X
  PROVE  Keep(S, acc, x) \in Seq(X \cap S)
BY DEF Keep

KeepTraces(X, S, s) ==
  {G \in [0..Len(s) -> Seq(X \cap S)] :
     /\ G[0] = <<>> /\ G[Len(s)] = Within(s, S)
     /\ \A i \in 1..Len(s) : G[i] = Keep(S, G[i - 1], s[i])}

\* What a filter has kept after each element.
LEMMA WithinTrace ==
  ASSUME NEW X, NEW S, NEW s \in Seq(X)
  PROVE  \E G : G \in KeepTraces(X, S, s)
<1> DEFINE n == Len(s)
           A == Seq(X \cap S)
           base == <<>>
           step == [i \in 1..n |-> [a \in A |-> Keep(S, a, s[i])]]
           Fold(g) == [t \in SUBSET DOMAIN s |->
                         IF t = {} THEN base ELSE Keep(S, g[t \ {Max(t)}], s[Max(t)])]
           g == CHOOSE g : g = Fold(g)
<1>1. Within(s, S) = g[DOMAIN s]
  BY Zenon DEF Within, Keep, FoldLeft, MapThenFoldSet
<1>2. n \in Nat /\ DOMAIN s = 1..n /\ base \in A /\ \A i \in 1..n : s[i] \in X
  OBVIOUS
<1>3. step \in [1..n -> [A -> A]] /\ \A i \in 1..n : \A a \in A : step[i][a] = Keep(S, a, s[i])
  BY <1>2, Keeps
<1>4. n \in Nat /\ base \in A /\ step \in [1..n -> [A -> A]]
  BY <1>2, <1>3
<1>5. \A t \in SUBSET (1..n) : t # {} => Max(t) \in 1..n
  BY <1>2, MaxUpTo
<1> HIDE DEF step, A, n, base
<1>6. PICK f : f \in FoldsOf(n, A, base, step)
  BY <1>4, FoldExists
<1>7. f = Fold(f)
  BY <1>2, <1>3, <1>5, <1>6 DEF FoldsOf
<1>8. g = Fold(g)
  <2> HIDE DEF Fold
  <2> QED BY <1>7
<1> HIDE DEF g
<1>9. IsFold(g, n, A, base, step)
  BY <1>2, <1>3, <1>5, <1>8 DEF IsFold
<1>10. PICK G : G \in TracesOf(g, n, A, base, step)
  BY <1>4, <1>9, FoldTrace
<1>11. G \in [0..n -> A] /\ G[0] = base /\ G[n] = g[1..n] /\ \A i \in 1..n : G[i] = step[i][G[i - 1]]
  BY <1>10 DEF TracesOf
<1>a. \A i \in 1..n : i - 1 \in 0..n /\ G[i - 1] \in A
  BY <1>4, <1>11
<1>12. \A i \in 1..n : G[i] = Keep(S, G[i - 1], s[i])
  BY <1>3, <1>11, <1>a
<1>13. G \in KeepTraces(X, S, s)
  BY <1>1, <1>2, <1>11, <1>12 DEF n, A, base, KeepTraces
<1> QED BY <1>13

-----------------------------------------------------------------------------
(* Joining sequences                                                       *)

\* What FlattenSeq has joined after each element.
LEMMA FlattenTrace ==
  ASSUME NEW X, NEW s \in Seq(Seq(X))
  PROVE  \E G \in [0..Len(s) -> Seq(X)] :
           /\ G[0] = <<>> /\ G[Len(s)] = FlattenSeq(s)
           /\ \A i \in 1..Len(s) : G[i] = G[i - 1] \o s[i]
<1> DEFINE n == Len(s)
           A == Seq(X)
           base == <<>>
           step == [i \in 1..n |-> [a \in A |-> a \o s[i]]]
           Join(g) == [i \in 1..Len(s) |-> IF i = 1 THEN s[i] ELSE g[i - 1] \o s[i]]
           g == CHOOSE g : g = Join(g)
<1>1. n \in Nat /\ base \in A /\ \A i \in 1..n : s[i] \in A
  OBVIOUS
<1>2. step \in [1..n -> [A -> A]] /\ \A i \in 1..n : \A a \in A : step[i][a] = a \o s[i]
  BY <1>1
<1>3. step \in [1..n -> [A -> A]]
  BY <1>2
<1> HIDE DEF step, n
<1>4. PICK G \in [0..n -> A] : G[0] = base /\ \A i \in 1..n : G[i] = G[i - 1] \o s[i]
  <2> HIDE DEF A, base
  <2>1. PICK f : f \in FoldsOf(n, A, base, step)
    BY <1>1, <1>3, FoldExists
  <2>2. IsFold(f, n, A, base, step)
    BY <2>1 DEF FoldsOf, IsFold
  <2>3. PICK G : G \in TracesOf(f, n, A, base, step)
    BY <1>1, <1>3, <2>2, FoldTrace
  <2>4. G \in [0..n -> A] /\ G[0] = base /\ \A i \in 1..n : G[i] = step[i][G[i - 1]]
    BY <2>3 DEF TracesOf
  <2>5. \A i \in 1..n : i - 1 \in 0..n /\ G[i - 1] \in A
    BY <1>1, <2>4
  <2>6. \A i \in 1..n : G[i] = G[i - 1] \o s[i]
    BY <1>2, <2>4, <2>5
  <2> QED BY <2>4, <2>6
<1>5. CASE n = 0
  <2>1. FlattenSeq(s) = s /\ s = <<>>
    BY <1>5 DEF FlattenSeq, n
  <2> QED BY <1>4, <1>5, <2>1 DEF n
<1>6. CASE n # 0
  <2>1. FlattenSeq(s) = g[n]
    BY <1>6 DEF FlattenSeq, n
  <2>2. \A i \in 1..n : G[i] \in Seq(X) /\ G[i] = IF i = 1 THEN s[i] ELSE G[i - 1] \o s[i]
    <3>1. \A q \in A : <<>> \o q = q
      OBVIOUS
    <3>2. \A i \in 1..n : G[i] \in A /\ s[i] \in A /\ G[i] = G[i - 1] \o s[i] /\ (i = 1 => i - 1 = 0)
      <4> HIDE DEF A
      <4> QED BY <1>1, <1>4
    <3>3. \A i \in 1..n : i = 1 => G[i] = s[i]
      <4> SUFFICES ASSUME NEW i \in 1..n, i = 1 PROVE G[i] = s[i]
        OBVIOUS
      <4>1. G[i] = G[0] \o s[i]
        BY <3>2
      <4>2. G[0] = <<>>
        BY <1>4
      <4>3. s[i] \in A
        BY <3>2
      <4>4. <<>> \o s[i] = s[i]
        BY <3>1, <4>3
      <4> QED BY <4>1, <4>2, <4>4
    <3> QED BY <3>2, <3>3, Zenon
  <2>3. [i \in 1..n |-> G[i]] = Join([i \in 1..n |-> G[i]])
    BY <1>1, <2>2 DEF n
  <2>4. g = Join(g)
    <3> HIDE DEF Join
    <3> QED BY <2>3
  <2> HIDE DEF g
  <2>5. \A i \in 1..n : g[i] = IF i = 1 THEN s[i] ELSE g[i - 1] \o s[i]
    BY <2>4 DEF n
  <2> DEFINE T == {i \in 0..n : i # 0 => g[i] = G[i]}
  <2>6. 0 \in T
    BY <1>1
  <2>7. ASSUME NEW i \in 0..(n - 1), i \in T PROVE i + 1 \in T
    <3>1. i + 1 \in 1..n /\ (i + 1) - 1 = i /\ (i + 1 = 1 <=> i = 0)
      BY <1>1
    <3>2. g[i + 1] = IF i = 0 THEN s[i + 1] ELSE g[i] \o s[i + 1]
      BY <2>5, <3>1
    <3>3. G[i + 1] = IF i = 0 THEN s[i + 1] ELSE G[i] \o s[i + 1]
      BY <2>2, <3>1
    <3> QED BY <2>7, <3>1, <3>2, <3>3
  <2>8. n \in T
    <3> HIDE DEF T
    <3>1. 0..n \subseteq T
      BY <1>1, <2>6, <2>7, UpTo
    <3> QED BY <1>1, <3>1
  <2> QED BY <1>4, <1>6, <2>1, <2>8 DEF n
<1> QED BY <1>5, <1>6

\* Joined sequences of X are a sequence of X.
LEMMA FlattenType ==
  ASSUME NEW X, NEW s \in Seq(Seq(X))
  PROVE  FlattenSeq(s) \in Seq(X)
<1>1. PICK G \in [0..Len(s) -> Seq(X)] : G[Len(s)] = FlattenSeq(s)
  BY FlattenTrace
<1>2. Len(s) \in 0..Len(s)
  OBVIOUS
<1> QED BY <1>1, <1>2, Zenon

\* Joining the parts of two lists is joining each list.
LEMMA FlattenConcat ==
  ASSUME NEW X, NEW a \in Seq(Seq(X)), NEW b \in Seq(Seq(X))
  PROVE  FlattenSeq(a \o b) = FlattenSeq(a) \o FlattenSeq(b)
<1> DEFINE c == a \o b
           A == Seq(X)
           n == Len(a)
           m == Len(b)
<1>1. /\ c \in Seq(A) /\ Len(c) = n + m
      /\ \A i \in 1..n : c[i] = a[i]
      /\ \A i \in 1..m : c[n + i] = b[i] /\ b[i] \in A
  OBVIOUS
<1>0. n \in Nat /\ m \in Nat
  OBVIOUS
<1>2. PICK F \in [0..n -> A] : /\ F[0] = <<>> /\ F[n] = FlattenSeq(a)
                               /\ \A i \in 1..n : F[i] = F[i - 1] \o a[i]
  BY FlattenTrace
<1>3. PICK G \in [0..m -> A] : /\ G[0] = <<>> /\ G[m] = FlattenSeq(b)
                               /\ \A i \in 1..m : G[i] = G[i - 1] \o b[i]
  BY FlattenTrace
<1> HIDE DEF c
<1>4. PICK H \in [0..(n + m) -> A] : /\ H[0] = <<>> /\ H[n + m] = FlattenSeq(c)
                                     /\ \A i \in 1..(n + m) : H[i] = H[i - 1] \o c[i]
  <2>1. PICK H \in [0..Len(c) -> A] : /\ H[0] = <<>> /\ H[Len(c)] = FlattenSeq(c)
                                      /\ \A i \in 1..Len(c) : H[i] = H[i - 1] \o c[i]
    <3>1. c \in Seq(Seq(X))
      BY <1>1
    <3> QED BY <3>1, FlattenTrace
  <2> HIDE DEF A, n, m
  <2> QED BY <1>1, <2>1
<1>a. \A p, q, r \in A : (p \o q) \o r = p \o (q \o r)
  BY ConcatAssociative, SMTT(30)
<1>b. \A p \in A : p \o <<>> = p
  OBVIOUS
<1> HIDE DEF A, n, m
<1>5. H[n] = F[n]
  <2> DEFINE T == {i \in 0..n : H[i] = F[i]}
  <2>1. 0 \in T
    BY <1>0, <1>2, <1>4
  <2>2. ASSUME NEW i \in 0..(n - 1), i \in T PROVE i + 1 \in T
    <3>1. i + 1 \in 1..n /\ i + 1 \in 1..(n + m) /\ (i + 1) - 1 = i /\ i + 1 \in 0..n
      BY <1>0
    <3>2. H[i + 1] = H[i] \o c[i + 1] /\ F[i + 1] = F[i] \o a[i + 1] /\ c[i + 1] = a[i + 1]
      BY <1>1, <1>2, <1>4, <3>1
    <3> QED BY <2>2, <3>1, <3>2
  <2>3. 0..n \subseteq T
    <3> HIDE DEF T
    <3> QED BY <1>0, <2>1, <2>2, UpTo
  <2> QED BY <1>0, <2>3
<1>6. H[n + m] = F[n] \o G[m]
  <2> DEFINE T == {i \in 0..m : H[n + i] = F[n] \o G[i]}
  <2>0. F[n] \in A
    BY <1>0, <1>2
  <2>1. 0 \in T
    <3>1. H[n + 0] = F[n] \o G[0]
      BY <1>0, <1>3, <1>5, <1>b, <2>0
    <3> QED BY <1>0, <3>1
  <2>2. ASSUME NEW i \in 0..(m - 1), i \in T PROVE i + 1 \in T
    <3>1. /\ i + 1 \in 1..m /\ n + (i + 1) \in 1..(n + m) /\ (i + 1) - 1 = i
          /\ (n + (i + 1)) - 1 = n + i /\ i \in 0..m /\ i + 1 \in 0..m
      BY <1>0
    <3>2. /\ H[n + (i + 1)] = H[n + i] \o c[n + (i + 1)]
          /\ G[i + 1] = G[i] \o b[i + 1] /\ c[n + (i + 1)] = b[i + 1] /\ b[i + 1] \in A
      BY <1>1, <1>3, <1>4, <3>1
    <3>3. G[i] \in A
      BY <3>1
    <3>4. (F[n] \o G[i]) \o b[i + 1] = F[n] \o (G[i] \o b[i + 1])
      BY <1>a, <2>0, <3>2, <3>3
    <3> QED BY <2>2, <3>1, <3>2, <3>4
  <2>3. 0..m \subseteq T
    <3> HIDE DEF T
    <3> QED BY <1>0, <2>1, <2>2, UpTo
  <2> QED BY <1>0, <2>3
<1> QED BY <1>2, <1>3, <1>4, <1>5, <1>6 DEF c

-----------------------------------------------------------------------------
(* The first source that has a field leads                                 *)

\* The i-th of fs is the first that is defined at x.
IsFirst(fs, x, i) == i \in 1..Len(fs) /\ x \in DOMAIN fs[i] /\ \A j \in 1..(i - 1) : x \notin DOMAIN fs[j]

IsLeading(fs) ==
  /\ \A i \in 1..Len(fs) : DOMAIN fs[i] \subseteq DOMAIN Leading(fs)
  /\ \A x \in DOMAIN Leading(fs) : \E i : IsFirst(fs, x, i)
  /\ \A x, i : IsFirst(fs, x, i) => x \in DOMAIN Leading(fs) /\ Leading(fs)[x] = fs[i][x]

\* Leading takes each point from the first function that is defined there.
LEMMA LeadingIs ==
  ASSUME NEW X, NEW V, NEW fs \in Seq(Partial(X, V))
  PROVE  IsLeading(fs) /\ Leading(fs) \in Partial(X, V)
<1> DEFINE D == UNION {DOMAIN fs[i] : i \in 1..Len(fs)}
           At(x) == {i \in 1..Len(fs) : x \in DOMAIN fs[i]}
<1>1. Leading(fs) = [x \in D |-> fs[Min(At(x))][x]]
  <2>1. DOMAIN fs = 1..Len(fs)
    OBVIOUS
  <2> QED BY <2>1, Zenon DEF Leading
<1>2. ASSUME NEW x \in D PROVE \E i : IsFirst(fs, x, i)
  <2>1. At(x) \in SUBSET Nat /\ At(x) # {}
    OBVIOUS
  <2>2. PICK i \in At(x) : \A j \in At(x) : i <= j
    <3> HIDE DEF At
    <3> QED BY <2>1, NatLeast
  <2>3. \A j \in 1..(i - 1) : j \in 1..Len(fs) /\ ~ (i <= j)
    BY <2>2
  <2>4. IsFirst(fs, x, i)
    BY <2>2, <2>3 DEF IsFirst
  <2> QED BY <2>4
<1>3. ASSUME NEW x, NEW i, IsFirst(fs, x, i) PROVE x \in D /\ Min(At(x)) = i
  <2>1. i \in At(x) /\ \A j \in 1..(i - 1) : x \notin DOMAIN fs[j]
    BY <1>3 DEF IsFirst
  <2>2. \A j \in At(x) : i <= j
    BY <2>1
  <2>3. \A j \in At(x) : (\A k \in At(x) : j <= k) => j = i
    BY <2>1, <2>2
  <2> QED BY <2>1, <2>2, <2>3 DEF Min
<1>4. /\ DOMAIN Leading(fs) = D
      /\ \A x, i : IsFirst(fs, x, i) => x \in D /\ Leading(fs)[x] = fs[i][x]
  BY <1>1, <1>3
<1>5. \A i \in 1..Len(fs) : DOMAIN fs[i] \subseteq X /\ fs[i] \in [DOMAIN fs[i] -> V]
  <2>1. \A i \in 1..Len(fs) : fs[i] \in Partial(X, V)
    OBVIOUS
  <2> QED BY <2>1, PartialIs
<1>6. D \subseteq X /\ \A x \in D : Leading(fs)[x] \in V
  <2>1. D \subseteq X
    BY <1>5
  <2>2. ASSUME NEW x \in D PROVE Leading(fs)[x] \in V
    <3>1. PICK i : IsFirst(fs, x, i)
      BY <1>2
    <3>2. i \in 1..Len(fs) /\ x \in DOMAIN fs[i] /\ Leading(fs)[x] = fs[i][x]
      BY <1>4, <3>1 DEF IsFirst
    <3> QED BY <1>5, <3>2
  <2> QED BY <2>1, <2>2
<1>7. Leading(fs) \in Partial(X, V)
  <2>1. Leading(fs) \in [D -> V]
    BY <1>1, <1>6
  <2> QED BY <1>4, <1>6, <2>1, PartialIs
<1> QED BY <1>2, <1>4, <1>7 DEF IsLeading

\* mergeServices lets its first argument lead.
LEMMA MergedAt ==
  ASSUME NEW f, NEW g
  PROVE  /\ DOMAIN mergeServices(f, g) = DOMAIN f \cup DOMAIN g
         /\ \A x \in DOMAIN f : mergeServices(f, g)[x] = f[x]
         /\ \A x \in DOMAIN g \ DOMAIN f : mergeServices(f, g)[x] = g[x]
BY DEF mergeServices

\* The first of two parts leads.
LEMMA LeadingConcat ==
  ASSUME NEW X, NEW V, NEW fs \in Seq(Partial(X, V)), NEW gs \in Seq(Partial(X, V))
  PROVE  Leading(fs \o gs) = mergeServices(Leading(fs), Leading(gs))
<1> DEFINE hs == fs \o gs
           n == Len(fs)
           P == Partial(X, V)
<1>1. /\ hs \in Seq(P) /\ n \in Nat /\ Len(gs) \in Nat /\ Len(hs) = n + Len(gs)
      /\ \A i \in 1..n : hs[i] = fs[i]
      /\ \A i \in 1..Len(gs) : hs[n + i] = gs[i]
  OBVIOUS
<1> HIDE DEF hs
<1>2. /\ \A x \in DOMAIN Leading(hs) : \E i : IsFirst(hs, x, i)
      /\ \A x, i : IsFirst(hs, x, i) => x \in DOMAIN Leading(hs) /\ Leading(hs)[x] = hs[i][x]
      /\ Leading(hs) \in P
  <2>1. IsLeading(hs) /\ Leading(hs) \in P
    BY <1>1, LeadingIs
  <2> QED BY <2>1 DEF IsLeading
<1>3. /\ \A x \in DOMAIN Leading(fs) : \E i : IsFirst(fs, x, i)
      /\ \A x, i : IsFirst(fs, x, i) => x \in DOMAIN Leading(fs) /\ Leading(fs)[x] = fs[i][x]
      /\ Leading(fs) \in P
  <2>1. IsLeading(fs) /\ Leading(fs) \in P
    BY LeadingIs
  <2> QED BY <2>1 DEF IsLeading
<1>4. /\ \A x \in DOMAIN Leading(gs) : \E i : IsFirst(gs, x, i)
      /\ \A x, i : IsFirst(gs, x, i) => x \in DOMAIN Leading(gs) /\ Leading(gs)[x] = gs[i][x]
      /\ Leading(gs) \in P
  <2>1. IsLeading(gs) /\ Leading(gs) \in P
    BY LeadingIs
  <2> QED BY <2>1 DEF IsLeading
<1> DEFINE M == mergeServices(Leading(fs), Leading(gs))
<1>5. M \in P
  BY <1>3, <1>4, MergedFields
<1>6. ASSUME NEW x, x \in DOMAIN Leading(fs) PROVE x \in DOMAIN Leading(hs) /\ Leading(hs)[x] = Leading(fs)[x]
  <2>1. PICK i : IsFirst(fs, x, i)
    BY <1>3, <1>6
  <2>2. i \in 1..n /\ \A j \in 1..i : j \in 1..n
    BY <1>1, <2>1 DEF IsFirst
  <2>3. IsFirst(hs, x, i) /\ hs[i] = fs[i]
    BY <1>1, <2>1, <2>2 DEF IsFirst
  <2> QED BY <1>2, <1>3, <2>1, <2>3
<1>7. ASSUME NEW x, x \in DOMAIN Leading(gs), x \notin DOMAIN Leading(fs)
      PROVE  x \in DOMAIN Leading(hs) /\ Leading(hs)[x] = Leading(gs)[x]
  <2>1. PICK i : IsFirst(gs, x, i)
    BY <1>4, <1>7
  <2>2. \A j \in 1..n : x \notin DOMAIN fs[j]
    BY <1>7, LeadingIs DEF IsLeading
  <2>3. i \in 1..Len(gs) /\ n + i \in 1..Len(hs) /\ hs[n + i] = gs[i]
    BY <1>1, <2>1 DEF IsFirst
  <2>4. ASSUME NEW j \in 1..(n + i - 1) PROVE x \notin DOMAIN hs[j]
    <3>1. CASE j \in 1..n
      BY <1>1, <2>2, <3>1
    <3>2. CASE j \notin 1..n
      <4>1. j - n \in 1..(i - 1) /\ j - n \in 1..Len(gs) /\ n + (j - n) = j
        BY <1>1, <2>3, <3>2
      <4> QED BY <1>1, <2>1, <4>1 DEF IsFirst
    <3> QED BY <3>1, <3>2
  <2>5. IsFirst(hs, x, n + i)
    BY <1>1, <2>1, <2>3, <2>4 DEF IsFirst
  <2> QED BY <1>2, <1>4, <2>1, <2>3, <2>5
<1>8. ASSUME NEW x, x \in DOMAIN Leading(hs) PROVE x \in DOMAIN Leading(fs) \/ x \in DOMAIN Leading(gs)
  <2>1. PICK i : IsFirst(hs, x, i)
    BY <1>2, <1>8
  <2>2. i \in 1..(n + Len(gs)) /\ x \in DOMAIN hs[i]
    BY <1>1, <2>1 DEF IsFirst
  <2>3. CASE i \in 1..n
    BY <1>1, <2>2, <2>3, LeadingIs DEF IsLeading
  <2>4. CASE i \notin 1..n
    <3>1. i - n \in 1..Len(gs) /\ n + (i - n) = i
      BY <1>1, <2>2, <2>4
    <3>2. x \in DOMAIN gs[i - n]
      BY <1>1, <2>2, <3>1
    <3> QED BY <3>1, <3>2, LeadingIs DEF IsLeading
  <2> QED BY <2>3, <2>4
<1>9. /\ DOMAIN M = DOMAIN Leading(fs) \cup DOMAIN Leading(gs)
      /\ \A x \in DOMAIN Leading(fs) : M[x] = Leading(fs)[x]
      /\ \A x \in DOMAIN Leading(gs) \ DOMAIN Leading(fs) : M[x] = Leading(gs)[x]
  BY MergedAt, Zenon
<1> HIDE DEF M
<1>10. DOMAIN Leading(hs) = DOMAIN M /\ \A x \in DOMAIN M : Leading(hs)[x] = M[x]
  BY <1>6, <1>7, <1>8, <1>9
<1>11. Leading(hs) \in [DOMAIN Leading(hs) -> V] /\ M \in [DOMAIN M -> V]
  BY <1>2, <1>5, PartialIs
<1>12. Leading(hs) = M
  BY <1>10, <1>11
<1> QED BY <1>12 DEF hs, M

\* A single function leads.
LEMMA LeadingOne ==
  ASSUME NEW X, NEW V, NEW f \in Partial(X, V)
  PROVE  Leading(<<f>>) = f
<1> DEFINE s == <<f>>
<1>1. s \in Seq(Partial(X, V)) /\ Len(s) = 1 /\ s[1] = f
  OBVIOUS
<1> HIDE DEF s
<1>2. IsLeading(s) /\ Leading(s) \in Partial(X, V)
  BY <1>1, LeadingIs
<1>3. DOMAIN Leading(s) = DOMAIN f
  <2>1. \A i \in 1..Len(s) : i = 1
    BY <1>1
  <2>2. DOMAIN Leading(s) \subseteq DOMAIN f
    BY <1>1, <1>2, <2>1 DEF IsLeading, IsFirst
  <2>3. DOMAIN f \subseteq DOMAIN Leading(s)
    <3>1. 1 \in 1..Len(s)
      BY <1>1
    <3> QED BY <1>1, <1>2, <3>1 DEF IsLeading
  <2> QED BY <2>2, <2>3
<1>4. ASSUME NEW x \in DOMAIN f PROVE Leading(s)[x] = f[x]
  <2>1. IsFirst(s, x, 1)
    BY <1>1 DEF IsFirst
  <2> QED BY <1>1, <1>2, <2>1 DEF IsLeading
<1>5. Leading(s) \in [DOMAIN f -> V] /\ f \in [DOMAIN f -> V]
  BY <1>2, <1>3, PartialIs
<1>6. Leading(s) = f
  BY <1>4, <1>5
<1> QED BY <1>6 DEF s

\* A function on 1..n is a sequence of length n.
LEMMA FunctionIsSeq ==
  ASSUME NEW X, NEW n \in Nat, NEW f \in [1..n -> X]
  PROVE  f \in Seq(X) /\ Len(f) = n
OBVIOUS

\* The function that is defined nowhere.
LEMMA NothingIsPartial ==
  ASSUME NEW X, NEW V
  PROVE  <<>> \in Partial(X, V) /\ DOMAIN <<>> = {}
<1>1. DOMAIN <<>> = {} /\ <<>> \in [{} -> V]
  OBVIOUS
<1> QED BY <1>1 DEF Partial

\* The parts of an observation.
LEMMA ObsIs ==
  ASSUME NEW o \in Obs
  PROVE  /\ o.ip \in Nat /\ o.val \in Partial(Fields, Tag) /\ o.ports \in Partial(Nat, Tag) /\ o.ev \in Seq(Tag)
         /\ o = [ip |-> o.ip, val |-> o.val, ports |-> o.ports, ev |-> o.ev]
BY DEF Obs

\* What the claims say of an address, claim by claim.
LEMMA SaidType ==
  ASSUME NEW c \in Seq(Obs), NEW ip
  PROVE  /\ Said(c, ip, "val") \in Seq(Partial(Fields, Tag))
         /\ Said(c, ip, "ports") \in Seq(Partial(Nat, Tag))
         /\ Said(c, ip, "ev") \in Seq(Seq(Tag))
<1>1. DOMAIN c = 1..Len(c) /\ Len(c) \in Nat /\ \A i \in 1..Len(c) : c[i] \in Obs
  OBVIOUS
<1>2. /\ \A i \in 1..Len(c) : /\ c[i]["val"] \in Partial(Fields, Tag) /\ c[i]["ports"] \in Partial(Nat, Tag)
                              /\ c[i]["ev"] \in Seq(Tag)
      /\ <<>> \in Seq(Tag) /\ <<>> \in Partial(Fields, Tag) /\ <<>> \in Partial(Nat, Tag)
  <2>1. <<>> \in Seq(Tag)
    OBVIOUS
  <2> QED BY <1>1, <2>1, NothingIsPartial DEF Obs
<1>3. /\ Said(c, ip, "val") \in [1..Len(c) -> Partial(Fields, Tag)]
      /\ Said(c, ip, "ports") \in [1..Len(c) -> Partial(Nat, Tag)]
      /\ Said(c, ip, "ev") \in [1..Len(c) -> Seq(Tag)]
  BY <1>1, <1>2 DEF Said
<1> QED BY <1>1, <1>3, FunctionIsSeq

\* What two parts of the claims say of an address.
LEMMA SaidConcat ==
  ASSUME NEW a \in Seq(Obs), NEW b \in Seq(Obs), NEW ip, NEW part
  PROVE  Said(a \o b, ip, part) = Said(a, ip, part) \o Said(b, ip, part)
<1> DEFINE Of(o) == IF o.ip = ip THEN o[part] ELSE <<>>
           A == Said(a, ip, part)
           B == Said(b, ip, part)
           C == Said(a \o b, ip, part)
<1>1. /\ A = [i \in DOMAIN a |-> Of(a[i])] /\ B = [i \in DOMAIN b |-> Of(b[i])]
      /\ C = [i \in DOMAIN (a \o b) |-> Of((a \o b)[i])]
  BY DEF Said
<1>2. /\ Len(a) \in Nat /\ Len(b) \in Nat /\ DOMAIN a = 1..Len(a) /\ DOMAIN b = 1..Len(b)
      /\ DOMAIN (a \o b) = 1..(Len(a) + Len(b))
  OBVIOUS
<1>3. \A i \in 1..(Len(a) + Len(b)) : (a \o b)[i] = IF i <= Len(a) THEN a[i] ELSE b[i - Len(a)]
  OBVIOUS
<1> DEFINE V == {Of(a[i]) : i \in 1..Len(a)} \cup {Of(b[i]) : i \in 1..Len(b)}
<1> HIDE DEF A, B, C, Of
<1>4. A \in Seq(V) /\ B \in Seq(V) /\ Len(A) = Len(a) /\ Len(B) = Len(b)
  <2>1. A \in [1..Len(a) -> V] /\ B \in [1..Len(b) -> V]
    BY <1>1, <1>2
  <2> HIDE DEF V
  <2> QED BY <1>2, <2>1, FunctionIsSeq
<1>5. /\ DOMAIN (A \o B) = 1..(Len(a) + Len(b))
      /\ \A i \in 1..(Len(a) + Len(b)) : (A \o B)[i] = IF i <= Len(a) THEN A[i] ELSE B[i - Len(a)]
      /\ A \o B \in Seq(V)
  <2> HIDE DEF V
  <2>1. Len(A \o B) = Len(A) + Len(B) /\ A \o B \in Seq(V)
    BY <1>4
  <2>2. DOMAIN (A \o B) = 1..Len(A \o B)
    BY <2>1
  <2>3. \A i \in 1..(Len(A) + Len(B)) : (A \o B)[i] = IF i <= Len(A) THEN A[i] ELSE B[i - Len(A)]
    BY <1>4
  <2> QED BY <1>4, <2>1, <2>2, <2>3
<1>6. ASSUME NEW i \in 1..(Len(a) + Len(b)) PROVE C[i] = (A \o B)[i]
  <2>1. C[i] = Of((a \o b)[i])
    BY <1>1, <1>2
  <2>2. CASE i <= Len(a)
    <3>1. i \in 1..Len(a)
      BY <1>2, <2>2
    <3> QED BY <1>1, <1>2, <1>3, <1>5, <2>1, <2>2, <3>1
  <2>3. CASE ~ (i <= Len(a))
    <3>1. i - Len(a) \in 1..Len(b)
      BY <1>2, <2>3
    <3> QED BY <1>1, <1>2, <1>3, <1>5, <2>1, <2>3, <3>1
  <2> QED BY <2>2, <2>3
<1>7. C \in Seq(V) /\ Len(C) = Len(a) + Len(b)
  <2>1. C \in [1..(Len(a) + Len(b)) -> V]
    <3>2. \A i \in 1..(Len(a) + Len(b)) : (A \o B)[i] \in V
      <4> HIDE DEF V
      <4>1. \A q \in Seq(V) : \A i \in DOMAIN q : q[i] \in V
        OBVIOUS
      <4> QED BY <1>5, <4>1
    <3> HIDE DEF V
    <3> QED BY <1>1, <1>2, <1>6, <3>2
  <2> HIDE DEF V
  <2> QED BY <1>2, <2>1
<1>8. A \o B = C
  <2> HIDE DEF V
  <2>1. DOMAIN C = 1..(Len(a) + Len(b))
    BY <1>2, <1>7
  <2>2. A \o B = [i \in DOMAIN (A \o B) |-> (A \o B)[i]] /\ C = [i \in DOMAIN C |-> C[i]]
    <3>1. \A q \in Seq(V) : q = [i \in DOMAIN q |-> q[i]]
      OBVIOUS
    <3> DEFINE D == A \o B
    <3>2. D \in Seq(V) /\ C \in Seq(V)
      BY <1>5, <1>7
    <3> HIDE DEF D
    <3>3. D = [i \in DOMAIN D |-> D[i]] /\ C = [i \in DOMAIN C |-> C[i]]
      BY <3>1, <3>2
    <3> QED BY <3>3 DEF D
  <2> QED BY <1>5, <1>6, <2>1, <2>2, Zenon
<1> QED BY <1>8 DEF A, B, C

\* What claims come to is an observation of the address.
LEMMA ReferenceType ==
  ASSUME NEW c \in Seq(Obs), NEW ip \in Nat
  PROVE  /\ Reference(c, ip) \in Obs /\ Reference(c, ip).ip = ip
         /\ Reference(c, ip).val = Leading(Said(c, ip, "val"))
         /\ Reference(c, ip).ports = Leading(Said(c, ip, "ports"))
         /\ Reference(c, ip).ev = FlattenSeq(Said(c, ip, "ev"))
<1>1. /\ Leading(Said(c, ip, "val")) \in Partial(Fields, Tag)
      /\ Leading(Said(c, ip, "ports")) \in Partial(Nat, Tag)
      /\ FlattenSeq(Said(c, ip, "ev")) \in Seq(Tag)
  BY SaidType, LeadingIs, FlattenType
<1> QED BY <1>1 DEF Reference, Obs

\* What two parts of the claims come to is what the parts come to, merged.
LEMMA ReferenceConcat ==
  ASSUME NEW a \in Seq(Obs), NEW b \in Seq(Obs), NEW ip \in Nat
  PROVE  Reference(a \o b, ip) = mergeInto(Reference(a, ip), Reference(b, ip))
<1> DEFINE R == Reference(a \o b, ip)
           Q == mergeInto(Reference(a, ip), Reference(b, ip))
<1>1. /\ R \in Obs /\ R.ip = ip
      /\ R.val = Leading(Said(a \o b, ip, "val"))
      /\ R.ports = Leading(Said(a \o b, ip, "ports"))
      /\ R.ev = FlattenSeq(Said(a \o b, ip, "ev"))
  <2>1. a \o b \in Seq(Obs)
    OBVIOUS
  <2> QED BY <2>1, ReferenceType
<1>2. /\ Q \in Obs /\ Q.ip = ip
      /\ Q.val = mergeServices(Leading(Said(a, ip, "val")), Leading(Said(b, ip, "val")))
      /\ Q.ports = mergeServices(Leading(Said(a, ip, "ports")), Leading(Said(b, ip, "ports")))
      /\ Q.ev = FlattenSeq(Said(a, ip, "ev")) \o FlattenSeq(Said(b, ip, "ev"))
  <2>1. Reference(a, ip) \in Obs /\ Reference(b, ip) \in Obs /\ Reference(a, ip).ip = ip
    BY ReferenceType
  <2>2. /\ Q \in Obs /\ Q.ip = ip
        /\ Q.val = mergeServices(Reference(a, ip).val, Reference(b, ip).val)
        /\ Q.ports = mergeServices(Reference(a, ip).ports, Reference(b, ip).ports)
        /\ Q.ev = Reference(a, ip).ev \o Reference(b, ip).ev
    BY <2>1, MergeInto
  <2> HIDE DEF Q
  <2> QED BY <2>2, ReferenceType
<1> HIDE DEF R, Q
<1>3. R.val = Q.val
  <2>1. Said(a, ip, "val") \in Seq(Partial(Fields, Tag)) /\ Said(b, ip, "val") \in Seq(Partial(Fields, Tag))
    BY SaidType
  <2>2. Leading(Said(a, ip, "val") \o Said(b, ip, "val"))
          = mergeServices(Leading(Said(a, ip, "val")), Leading(Said(b, ip, "val")))
    BY <2>1, LeadingConcat
  <2>3. Said(a \o b, ip, "val") = Said(a, ip, "val") \o Said(b, ip, "val")
    BY SaidConcat
  <2> QED BY <1>1, <1>2, <2>2, <2>3
<1>4. R.ports = Q.ports
  <2>1. Said(a, ip, "ports") \in Seq(Partial(Nat, Tag)) /\ Said(b, ip, "ports") \in Seq(Partial(Nat, Tag))
    BY SaidType
  <2>2. Leading(Said(a, ip, "ports") \o Said(b, ip, "ports"))
          = mergeServices(Leading(Said(a, ip, "ports")), Leading(Said(b, ip, "ports")))
    BY <2>1, LeadingConcat
  <2>3. Said(a \o b, ip, "ports") = Said(a, ip, "ports") \o Said(b, ip, "ports")
    BY SaidConcat
  <2> QED BY <1>1, <1>2, <2>2, <2>3
<1>5. R.ev = Q.ev
  <2>1. Said(a, ip, "ev") \in Seq(Seq(Tag)) /\ Said(b, ip, "ev") \in Seq(Seq(Tag))
    BY SaidType
  <2>2. FlattenSeq(Said(a, ip, "ev") \o Said(b, ip, "ev")) = FlattenSeq(Said(a, ip, "ev")) \o FlattenSeq(Said(b, ip, "ev"))
    BY <2>1, FlattenConcat
  <2>3. Said(a \o b, ip, "ev") = Said(a, ip, "ev") \o Said(b, ip, "ev")
    BY SaidConcat
  <2> QED BY <1>1, <1>2, <2>2, <2>3
<1>6. R = Q
  BY <1>1, <1>2, <1>3, <1>4, <1>5, ObsIs
<1> QED BY <1>6 DEF R, Q

Nothing(ip) == [ip |-> ip, val |-> <<>>, ports |-> <<>>, ev |-> <<>>]

\* Nothing merged with a function is the function.
LEMMA NoFields ==
  ASSUME NEW X, NEW V, NEW f \in Partial(X, V)
  PROVE  mergeServices(<<>>, f) = f /\ mergeServices(f, <<>>) = f
<1>1. DOMAIN <<>> = {}
  OBVIOUS
<1>2. f \in [DOMAIN f -> V]
  BY PartialIs
<1>3. mergeServices(<<>>, f) = [x \in DOMAIN f |-> f[x]]
  BY <1>1 DEF mergeServices
<1>4. mergeServices(f, <<>>) = [x \in DOMAIN f |-> f[x]]
  BY <1>1 DEF mergeServices
<1> QED BY <1>2, <1>3, <1>4

\* The empty observation changes nothing it is merged with.
LEMMA NothingObs ==
  ASSUME NEW ip \in Nat
  PROVE  /\ Nothing(ip) \in Obs
         /\ \A o \in Obs : o.ip = ip => mergeInto(Nothing(ip), o) = o /\ mergeInto(o, Nothing(ip)) = o
<1>1. Nothing(ip) \in Obs
  <2>1. <<>> \in Seq(Tag)
    OBVIOUS
  <2> QED BY <2>1, NothingIsPartial DEF Nothing, Obs
<1>2. /\ Nothing(ip).ip = ip /\ Nothing(ip).val = <<>> /\ Nothing(ip).ports = <<>> /\ Nothing(ip).ev = <<>>
  BY DEF Nothing
<1>3. ASSUME NEW o \in Obs, o.ip = ip PROVE mergeInto(Nothing(ip), o) = o /\ mergeInto(o, Nothing(ip)) = o
  <2>1. /\ o.val \in Partial(Fields, Tag) /\ o.ports \in Partial(Nat, Tag) /\ o.ev \in Seq(Tag)
    BY ObsIs
  <2>2. /\ mergeServices(<<>>, o.val) = o.val /\ mergeServices(o.val, <<>>) = o.val
        /\ mergeServices(<<>>, o.ports) = o.ports /\ mergeServices(o.ports, <<>>) = o.ports
    BY <2>1, NoFields
  <2>3. <<>> \o o.ev = o.ev /\ o.ev \o <<>> = o.ev
    BY <2>1
  <2> DEFINE a == mergeInto(Nothing(ip), o)
             b == mergeInto(o, Nothing(ip))
  <2>4. a \in Obs /\ a.ip = ip /\ a.val = o.val /\ a.ports = o.ports /\ a.ev = o.ev
    <3>1. /\ a \in Obs /\ a.ip = Nothing(ip).ip
          /\ a.val = mergeServices(Nothing(ip).val, o.val)
          /\ a.ports = mergeServices(Nothing(ip).ports, o.ports) /\ a.ev = Nothing(ip).ev \o o.ev
      BY <1>1, MergeInto, Zenon
    <3> HIDE DEF a
    <3> QED BY <1>2, <2>2, <2>3, <3>1
  <2>5. b \in Obs /\ b.ip = ip /\ b.val = o.val /\ b.ports = o.ports /\ b.ev = o.ev
    <3>1. /\ b \in Obs /\ b.ip = o.ip
          /\ b.val = mergeServices(o.val, Nothing(ip).val)
          /\ b.ports = mergeServices(o.ports, Nothing(ip).ports) /\ b.ev = o.ev \o Nothing(ip).ev
      BY <1>1, MergeInto
    <3> HIDE DEF b
    <3> QED BY <1>2, <1>3, <2>2, <2>3, <3>1
  <2> HIDE DEF a, b
  <2>6. a = o /\ b = o
    BY <1>3, <2>4, <2>5, ObsIs
  <2> QED BY <2>6 DEF a, b
<1> QED BY <1>1, <1>3

\* What one claim comes to, at its address and at any other.
LEMMA ReferenceOne ==
  ASSUME NEW o \in Obs, NEW ip \in Nat
  PROVE  Reference(<<o>>, ip) = IF o.ip = ip THEN o ELSE Nothing(ip)
<1> DEFINE s == <<o>>
           R == Reference(s, ip)
           Of(part) == IF o.ip = ip THEN o[part] ELSE <<>>
<1>1. s \in Seq(Obs) /\ Len(s) = 1 /\ s[1] = o /\ DOMAIN s = 1..1
  OBVIOUS
<1>2. \A part : Said(s, ip, part) = <<Of(part)>>
  <2> SUFFICES ASSUME NEW part PROVE Said(s, ip, part) = <<Of(part)>>
    OBVIOUS
  <2>1. Said(s, ip, part) = [i \in 1..1 |-> Of(part)]
    BY <1>1 DEF Said
  <2> HIDE DEF Of
  <2> QED BY <2>1
<1>3. /\ R \in Obs /\ R.ip = ip
      /\ R.val = Leading(Said(s, ip, "val")) /\ R.ports = Leading(Said(s, ip, "ports"))
      /\ R.ev = FlattenSeq(Said(s, ip, "ev"))
  <2> HIDE DEF s
  <2> QED BY <1>1, ReferenceType
<1>4. Of("val") \in Partial(Fields, Tag) /\ Of("ports") \in Partial(Nat, Tag) /\ Of("ev") \in Seq(Tag)
  <2>1. <<>> \in Seq(Tag)
    OBVIOUS
  <2> QED BY <2>1, NothingIsPartial DEF Obs
<1> HIDE DEF Of, s
<1>5. R.val = Of("val")
  BY <1>2, <1>3, <1>4, LeadingOne
<1>6. R.ports = Of("ports")
  BY <1>2, <1>3, <1>4, LeadingOne
<1>7. R.ev = Of("ev")
  <2> DEFINE t == <<Of("ev")>>
  <2>1. t \in Seq(Seq(Tag)) /\ Len(t) = 1 /\ t[1] = Of("ev")
    BY <1>4
  <2> HIDE DEF t
  <2>2. PICK G \in [0..Len(t) -> Seq(Tag)] : /\ G[0] = <<>> /\ G[Len(t)] = FlattenSeq(t)
                                             /\ \A i \in 1..Len(t) : G[i] = G[i - 1] \o t[i]
    BY <2>1, FlattenTrace
  <2>3. 1 \in 1..Len(t) /\ 1 - 1 = 0
    BY <2>1
  <2>4. FlattenSeq(t) = <<>> \o Of("ev")
    BY <2>1, <2>2, <2>3
  <2> QED BY <1>2, <1>3, <1>4, <2>4 DEF t
<1> HIDE DEF R
<1>8. R = [ip |-> ip, val |-> Of("val"), ports |-> Of("ports"), ev |-> Of("ev")]
  BY <1>3, <1>5, <1>6, <1>7, ObsIs
<1>9. CASE o.ip = ip
  <2>1. o = [ip |-> o.ip, val |-> o.val, ports |-> o.ports, ev |-> o.ev]
    BY ObsIs
  <2>2. R = [ip |-> ip, val |-> o.val, ports |-> o.ports, ev |-> o.ev]
    BY <1>8, <1>9 DEF Of
  <2> QED BY <1>9, <2>1, <2>2 DEF R, s
<1>10. CASE o.ip # ip
  <2>1. R = [ip |-> ip, val |-> <<>>, ports |-> <<>>, ev |-> <<>>]
    BY <1>8, <1>10 DEF Of
  <2> QED BY <1>10, <2>1 DEF R, s, Nothing
<1> QED BY <1>9, <1>10

\* No claims come to nothing.
LEMMA ReferenceNone ==
  ASSUME NEW ip \in Nat
  PROVE  Reference(<<>>, ip) = Nothing(ip)
<1> DEFINE R == Reference(<<>>, ip)
<1>1. <<>> \in Seq(Obs)
  OBVIOUS
<1>2. \A part : Said(<<>>, ip, part) = <<>>
  BY DEF Said
<1>3. /\ R \in Obs /\ R.ip = ip /\ R.val = Leading(<<>>) /\ R.ports = Leading(<<>>) /\ R.ev = FlattenSeq(<<>>)
  BY <1>1, <1>2, ReferenceType
<1>4. Leading(<<>>) = <<>>
  <2>1. DOMAIN <<>> = {}
    OBVIOUS
  <2>2. UNION {DOMAIN (<<>>)[i] : i \in DOMAIN <<>>} = {}
    BY <2>1
  <2>3. \A f : f = [x \in {} |-> f[x]] => f = <<>>
    OBVIOUS
  <2> QED BY <2>2, <2>3 DEF Leading
<1>5. FlattenSeq(<<>>) = <<>>
  BY DEF FlattenSeq
<1> HIDE DEF R
<1>6. R = Nothing(ip)
  BY <1>3, <1>4, <1>5, ObsIs DEF Nothing
<1> QED BY <1>6 DEF R

-----------------------------------------------------------------------------
(* mergeObservations yields one record per address                         *)

\* r is the merge of the claims c: one record per address, each what the claims come to.
IsMerge(r, c) ==
  /\ \A i, j \in 1..Len(r) : r[i].ip = r[j].ip => i = j
  /\ Addresses(r) = Addresses(c)
  /\ \A i \in 1..Len(r) : r[i] = Reference(c, r[i].ip)

\* The addresses of two parts of the claims.
LEMMA AddressesConcat ==
  ASSUME NEW a \in Seq(Obs), NEW b \in Seq(Obs)
  PROVE  Addresses(a \o b) = Addresses(a) \cup Addresses(b) /\ Addresses(a) \subseteq Nat
<1>1. /\ Len(a) \in Nat /\ Len(b) \in Nat /\ DOMAIN a = 1..Len(a) /\ DOMAIN b = 1..Len(b)
      /\ DOMAIN (a \o b) = 1..(Len(a) + Len(b))
      /\ \A i \in 1..(Len(a) + Len(b)) : (a \o b)[i] = IF i <= Len(a) THEN a[i] ELSE b[i - Len(a)]
  OBVIOUS
<1>2. \A i \in 1..Len(a) : a[i].ip \in Nat
  <2>1. \A i \in 1..Len(a) : a[i] \in Obs
    OBVIOUS
  <2> QED BY <2>1 DEF Obs
<1>3. Addresses(a \o b) \subseteq Addresses(a) \cup Addresses(b)
  <2> SUFFICES ASSUME NEW i \in 1..(Len(a) + Len(b)) PROVE (a \o b)[i].ip \in Addresses(a) \cup Addresses(b)
    BY <1>1 DEF Addresses
  <2>1. CASE i <= Len(a)
    <3>1. i \in 1..Len(a) /\ (a \o b)[i] = a[i]
      BY <1>1, <2>1
    <3> QED BY <1>1, <3>1 DEF Addresses
  <2>2. CASE ~ (i <= Len(a))
    <3>1. i - Len(a) \in 1..Len(b) /\ (a \o b)[i] = b[i - Len(a)]
      BY <1>1, <2>2
    <3> QED BY <1>1, <3>1 DEF Addresses
  <2> QED BY <2>1, <2>2
<1>4. Addresses(a) \subseteq Addresses(a \o b)
  <2> SUFFICES ASSUME NEW i \in 1..Len(a) PROVE a[i].ip \in Addresses(a \o b)
    BY <1>1 DEF Addresses
  <2>1. i \in 1..(Len(a) + Len(b)) /\ (a \o b)[i] = a[i]
    BY <1>1
  <2> QED BY <1>1, <2>1 DEF Addresses
<1>5. Addresses(b) \subseteq Addresses(a \o b)
  <2> SUFFICES ASSUME NEW i \in 1..Len(b) PROVE b[i].ip \in Addresses(a \o b)
    BY <1>1 DEF Addresses
  <2>1. Len(a) + i \in 1..(Len(a) + Len(b)) /\ (a \o b)[Len(a) + i] = b[i]
    BY <1>1
  <2> QED BY <1>1, <2>1 DEF Addresses
<1> QED BY <1>1, <1>2, <1>3, <1>4, <1>5 DEF Addresses

\* Nobody said anything of an address that is not among the claims.
LEMMA ReferenceElsewhere ==
  ASSUME NEW c \in Seq(Obs), NEW ip \in Nat, ip \notin Addresses(c)
  PROVE  Reference(c, ip) = Nothing(ip)
<1> DEFINE R == Reference(c, ip)
<1>0. DOMAIN c = 1..Len(c) /\ Len(c) \in Nat
  OBVIOUS
<1>1. /\ R \in Obs /\ R.ip = ip
      /\ R.val = Leading(Said(c, ip, "val")) /\ R.ports = Leading(Said(c, ip, "ports"))
      /\ R.ev = FlattenSeq(Said(c, ip, "ev"))
  BY ReferenceType
<1>2. \A part : Said(c, ip, part) = [i \in 1..Len(c) |-> <<>>]
  BY <1>0 DEF Said, Addresses
<1> DEFINE E == [i \in 1..Len(c) |-> <<>>]
<1>3. /\ E \in Seq(Partial(Fields, Tag)) /\ E \in Seq(Partial(Nat, Tag)) /\ E \in Seq(Seq(Tag))
      /\ Len(E) = Len(c) /\ \A i \in 1..Len(E) : E[i] = <<>>
  <2>1. <<>> \in Seq(Tag)
    OBVIOUS
  <2>2. E \in [1..Len(c) -> Partial(Fields, Tag)] /\ E \in [1..Len(c) -> Partial(Nat, Tag)]
        /\ E \in [1..Len(c) -> Seq(Tag)]
    BY <2>1, NothingIsPartial
  <2>3. \A i \in 1..Len(c) : E[i] = <<>>
    OBVIOUS
  <2> HIDE DEF E
  <2> QED BY <1>0, <2>2, <2>3, FunctionIsSeq
<1> HIDE DEF E
<1>4. Leading(E) = <<>>
  <2>1. IsLeading(E) /\ Leading(E) \in Partial(Nat, Tag)
    BY <1>3, LeadingIs
  <2>2. DOMAIN Leading(E) = {}
    <3>1. DOMAIN <<>> = {}
      OBVIOUS
    <3> QED BY <1>3, <2>1, <3>1 DEF IsLeading, IsFirst
  <2>3. Leading(E) \in [{} -> Tag]
    BY <2>1, <2>2, PartialIs
  <2> QED BY <2>3
<1>5. FlattenSeq(E) = <<>>
  <2>1. PICK G \in [0..Len(E) -> Seq(Tag)] : /\ G[0] = <<>> /\ G[Len(E)] = FlattenSeq(E)
                                             /\ \A i \in 1..Len(E) : G[i] = G[i - 1] \o E[i]
    BY <1>3, FlattenTrace
  <2> DEFINE T == {i \in 0..Len(E) : G[i] = <<>>}
  <2>2. 0 \in T
    BY <1>0, <1>3, <2>1
  <2>3. ASSUME NEW i \in 0..(Len(E) - 1), i \in T PROVE i + 1 \in T
    <3>1. i + 1 \in 1..Len(E) /\ (i + 1) - 1 = i /\ i + 1 \in 0..Len(E)
      BY <1>0, <1>3
    <3>2. G[i + 1] = <<>> \o <<>>
      BY <1>3, <2>1, <2>3, <3>1
    <3> QED BY <3>1, <3>2
  <2>4. 0..Len(E) \subseteq T
    <3> HIDE DEF T
    <3> QED BY <1>0, <1>3, <2>2, <2>3, UpTo
  <2>5. Len(E) \in 0..Len(E)
    BY <1>0, <1>3
  <2>6. Len(E) \in T
    BY <2>4, <2>5
  <2> QED BY <2>1, <2>6
<1> HIDE DEF R
<1>6. R = Nothing(ip)
  BY <1>1, <1>2, <1>4, <1>5, ObsIs DEF E, Nothing
<1> QED BY <1>6 DEF R

\* One more claim keeps the merge a merge.
LEMMA MergeOne ==
  ASSUME NEW c \in Seq(Obs), NEW r \in Seq(Obs), IsMerge(r, c), NEW o \in Obs
  PROVE  IsMerge(mergeNext(r, o), c \o <<o>>)
<1> DEFINE d == c \o <<o>>
           m == mergeNext(r, o)
<1>1. <<o>> \in Seq(Obs) /\ Addresses(<<o>>) = {o.ip} /\ o.ip \in Nat
  BY DEF Addresses, Obs
<1>2. d \in Seq(Obs) /\ Addresses(d) = Addresses(c) \cup {o.ip}
  <2>1. d \in Seq(Obs)
    BY <1>1
  <2>2. Addresses(d) = Addresses(c) \cup Addresses(<<o>>)
    BY <1>1, AddressesConcat
  <2> QED BY <1>1, <2>1, <2>2
<1>3. \A ip \in Nat : Reference(d, ip) = mergeInto(Reference(c, ip), IF o.ip = ip THEN o ELSE Nothing(ip))
  <2> SUFFICES ASSUME NEW ip \in Nat
               PROVE  Reference(d, ip) = mergeInto(Reference(c, ip), IF o.ip = ip THEN o ELSE Nothing(ip))
    OBVIOUS
  <2>1. Reference(d, ip) = mergeInto(Reference(c, ip), Reference(<<o>>, ip))
    BY <1>1, ReferenceConcat
  <2>2. Reference(<<o>>, ip) = IF o.ip = ip THEN o ELSE Nothing(ip)
    BY ReferenceOne
  <2> QED BY <2>1, <2>2
<1>4. \A i \in 1..Len(r) : r[i] \in Obs /\ r[i].ip \in Nat
  <2>1. \A i \in 1..Len(r) : r[i] \in Obs
    OBVIOUS
  <2> QED BY <2>1 DEF Obs
<1>5. DOMAIN r = 1..Len(r) /\ Len(r) \in Nat
  OBVIOUS
<1> HIDE DEF d
<1>6. \A i \in 1..Len(r) : Reference(d, r[i].ip) = IF o.ip = r[i].ip THEN mergeInto(r[i], o) ELSE r[i]
  <2> SUFFICES ASSUME NEW i \in 1..Len(r)
               PROVE  Reference(d, r[i].ip) = IF o.ip = r[i].ip THEN mergeInto(r[i], o) ELSE r[i]
    OBVIOUS
  <2>1. r[i] = Reference(c, r[i].ip) /\ r[i] \in Obs /\ r[i].ip \in Nat
    BY <1>4 DEF IsMerge
  <2>2. mergeInto(r[i], Nothing(r[i].ip)) = r[i]
    BY <2>1, NothingObs
  <2>3. Reference(d, r[i].ip) = mergeInto(r[i], IF o.ip = r[i].ip THEN o ELSE Nothing(r[i].ip))
    BY <1>3, <2>1
  <2> QED BY <2>2, <2>3
<1>7. CASE \E i \in 1..Len(r) : r[i].ip = o.ip
  <2>1. m = [i \in 1..Len(r) |-> IF r[i].ip = o.ip THEN mergeInto(r[i], o) ELSE r[i]]
    BY <1>5, <1>7 DEF mergeNext
  <2>2. \A i \in 1..Len(r) : mergeInto(r[i], o) \in Obs /\ mergeInto(r[i], o).ip = r[i].ip
    BY <1>4, MergeInto
  <2>3. m \in [1..Len(r) -> Obs]
    BY <1>4, <2>1, <2>2
  <2>4. Len(m) = Len(r) /\ DOMAIN m = 1..Len(r)
    <3> HIDE DEF m
    <3> QED BY <1>5, <2>3, FunctionIsSeq
  <2>5. \A i \in 1..Len(r) : m[i].ip = r[i].ip /\ m[i] = Reference(d, r[i].ip)
    BY <1>6, <2>1, <2>2
  <2> HIDE DEF m
  <2>6. Addresses(m) = Addresses(r)
    BY <1>5, <2>4, <2>5 DEF Addresses
  <2>7. o.ip \in Addresses(r)
    BY <1>5, <1>7 DEF Addresses
  <2>8. IsMerge(m, d)
    BY <1>2, <2>4, <2>5, <2>6, <2>7 DEF IsMerge
  <2> QED BY <2>8 DEF m, d
<1>8. CASE ~ \E i \in 1..Len(r) : r[i].ip = o.ip
  <2>1. m = Append(r, o)
    BY <1>5, <1>8 DEF mergeNext
  <2>2. /\ Len(m) = Len(r) + 1 /\ DOMAIN m = 1..(Len(r) + 1)
        /\ \A i \in 1..Len(r) : m[i] = r[i] /\ m[Len(r) + 1] = o
    BY <2>1
  <2>2a. m[Len(r) + 1] = o
    BY <2>1
  <2>3. o.ip \notin Addresses(c)
    BY <1>5, <1>8 DEF IsMerge, Addresses
  <2>4. Reference(c, o.ip) = Nothing(o.ip)
    BY <1>1, <2>3, ReferenceElsewhere
  <2>5. Reference(d, o.ip) = o
    BY <1>1, <1>3, <2>4, NothingObs
  <2> HIDE DEF m
  <2>6. \A i \in 1..(Len(r) + 1) : i \in 1..Len(r) \/ i = Len(r) + 1
    BY <1>5
  <2>7. \A i \in 1..Len(m) : m[i] = Reference(d, m[i].ip)
    BY <1>6, <1>8, <2>2, <2>2a, <2>5, <2>6
  <2>8. \A i, j \in 1..Len(m) : m[i].ip = m[j].ip => i = j
    BY <1>8, <2>2, <2>2a, <2>6 DEF IsMerge
  <2>9. Addresses(m) = Addresses(r) \cup {o.ip}
    <3>1. Len(r) + 1 \in 1..(Len(r) + 1) /\ \A i \in 1..Len(r) : i \in 1..(Len(r) + 1)
      BY <1>5
    <3> QED BY <1>5, <2>2, <2>2a, <2>6, <3>1 DEF Addresses
  <2>10. IsMerge(m, d)
    BY <1>2, <2>7, <2>8, <2>9 DEF IsMerge
  <2> QED BY <2>10 DEF m, d
<1> QED BY <1>7, <1>8

\* Observations of addresses in I are observations.
LEMMA ObsOfNat ==
  ASSUME NEW I
  PROVE  ObsOf(Nat) = Obs /\ Seq(ObsOf(I)) \subseteq Seq(Obs)
<1>1. ObsOf(Nat) = Obs /\ ObsOf(I) \subseteq Obs
  BY DEF ObsOf, Obs
<1> QED BY <1>1

\* The merge of a sequence of claims has one record for each address, and each record is what
\* the claims come to.
LEMMA Merged ==
  ASSUME NEW I, NEW c \in Seq(ObsOf(I))
  PROVE  mergeObservations(c) \in Seq(ObsOf(I)) /\ IsMerge(mergeObservations(c), c)
<1> DEFINE n == Len(c)
           A == Seq(ObsOf(I))
<1>1. PICK G \in [0..n -> A] : /\ G[0] = <<>> /\ G[n] = mergeObservations(c)
                               /\ \A i \in 1..n : G[i] = mergeNext(G[i - 1], c[i])
  BY MergeTrace
<1> DEFINE P(i) == SubSeq(c, 1, i)
           T == {i \in 0..n : IsMerge(G[i], P(i))}
<1>2. n \in Nat /\ \A q \in A : q \in Seq(Obs)
  <2>1. Len(c) \in Nat
    OBVIOUS
  <2> QED BY <2>1, ObsOfNat
<1>3. 0 \in T
  <2>1. P(0) = <<>>
    OBVIOUS
  <2>2. IsMerge(<<>>, <<>>)
    BY DEF IsMerge, Addresses
  <2>3. 0 \in 0..n
    BY <1>2
  <2> HIDE DEF P
  <2> QED BY <1>1, <2>1, <2>2, <2>3
<1>4. ASSUME NEW i \in 0..(n - 1), i \in T PROVE i + 1 \in T
  <2>1. i + 1 \in 1..n /\ (i + 1) - 1 = i /\ i \in 0..n /\ i + 1 \in 0..n
    BY <1>2
  <2>2. c[i + 1] \in Obs /\ P(i) \in Seq(Obs) /\ P(i + 1) = P(i) \o <<c[i + 1]>>
    <3>1. c \in Seq(Obs)
      BY ObsOfNat
    <3> QED BY <2>1, <3>1
  <2>3. G[i] \in Seq(Obs) /\ IsMerge(G[i], P(i))
    BY <1>2, <1>4, <2>1
  <2> HIDE DEF P
  <2>4. IsMerge(mergeNext(G[i], c[i + 1]), P(i) \o <<c[i + 1]>>)
    BY <2>2, <2>3, MergeOne
  <2>5. G[i + 1] = mergeNext(G[i], c[i + 1])
    BY <1>1, <2>1
  <2> QED BY <2>1, <2>2, <2>4, <2>5
<1>5. 0..n \subseteq T
  <2> HIDE DEF T
  <2> QED BY <1>2, <1>3, <1>4, UpTo
<1>6. P(n) = c
  OBVIOUS
<1>7. n \in 0..n
  BY <1>2
<1> HIDE DEF P
<1>8. G[n] \in A /\ IsMerge(G[n], c)
  BY <1>5, <1>6, <1>7
<1> QED BY <1>1, <1>8

\* Two sequences of claims that say the same of every address.
Same(a, b) == Addresses(a) = Addresses(b) /\ \A ip \in Nat : Reference(a, ip) = Reference(b, ip)

\* Claims that say the same, followed by claims that say the same.
LEMMA SameConcat ==
  ASSUME NEW a \in Seq(Obs), NEW b \in Seq(Obs), NEW c \in Seq(Obs), NEW d \in Seq(Obs),
         Same(a, c), Same(b, d)
  PROVE  Same(a \o b, c \o d)
<1>1. Addresses(a \o b) = Addresses(c \o d)
  <2>1. Addresses(a \o b) = Addresses(a) \cup Addresses(b)
    BY AddressesConcat
  <2>2. Addresses(c \o d) = Addresses(c) \cup Addresses(d)
    BY AddressesConcat
  <2> QED BY <2>1, <2>2 DEF Same
<1>2. ASSUME NEW ip \in Nat PROVE Reference(a \o b, ip) = Reference(c \o d, ip)
  <2>1. Reference(a \o b, ip) = mergeInto(Reference(a, ip), Reference(b, ip))
    BY ReferenceConcat
  <2>2. Reference(c \o d, ip) = mergeInto(Reference(c, ip), Reference(d, ip))
    BY ReferenceConcat
  <2> QED BY <2>1, <2>2 DEF Same
<1> QED BY <1>1, <1>2 DEF Same

\* Merging twice is merging once.
LEMMA SameMerged ==
  ASSUME NEW c \in Seq(Obs)
  PROVE  mergeObservations(c) \in Seq(Obs) /\ Same(mergeObservations(c), c)
<1> DEFINE r == mergeObservations(c)
           n == Len(r)
<1>1. r \in Seq(Obs) /\ IsMerge(r, c)
  BY ObsOfNat, Merged
<1> HIDE DEF r
<1>2. n \in Nat /\ \A i \in 1..n : r[i] \in Obs
  BY <1>1
<1>3. \A i \in 1..n : r[i].ip \in Nat
  BY <1>2 DEF Obs
<1>4. ASSUME NEW ip \in Nat PROVE Reference(r, ip) = Reference(c, ip)
  <2> DEFINE P(i) == SubSeq(r, 1, i)
             T == {i \in 0..n : Reference(P(i), ip) = IF \E j \in 1..i : r[j].ip = ip THEN Reference(c, ip) ELSE Nothing(ip)}
  <2>1. 0 \in T
    <3>1. P(0) = <<>>
      BY <1>1
    <3>2. Reference(<<>>, ip) = Nothing(ip)
      BY ReferenceNone
    <3>3. 0 \in 0..n /\ 1..0 = {}
      BY <1>2
    <3> HIDE DEF P
    <3> QED BY <3>1, <3>2, <3>3
  <2>2. ASSUME NEW i \in 0..(n - 1), i \in T PROVE i + 1 \in T
    <3>1. i + 1 \in 1..n /\ i + 1 \in 0..n /\ i \in Nat
      BY <1>2
    <3>2. r[i + 1] \in Obs /\ P(i) \in Seq(Obs) /\ P(i + 1) = P(i) \o <<r[i + 1]>>
      BY <1>1, <3>1
    <3>3. <<r[i + 1]>> \in Seq(Obs)
      BY <3>2
    <3> DEFINE Q == P(i + 1)
               S == P(i)
    <3> HIDE DEF P, Q, S
    <3>4. Reference(Q, ip) = mergeInto(Reference(S, ip), Reference(<<r[i + 1]>>, ip))
      <4> DEFINE R == <<r[i + 1]>>
      <4>1. S \in Seq(Obs) /\ R \in Seq(Obs) /\ Q = S \o R
        BY <3>2, <3>3 DEF Q, S
      <4> HIDE DEF R
      <4>2. Reference(S \o R, ip) = mergeInto(Reference(S, ip), Reference(R, ip))
        BY <4>1, ReferenceConcat
      <4> QED BY <4>1, <4>2 DEF R
    <3>5. Reference(<<r[i + 1]>>, ip) = IF r[i + 1].ip = ip THEN r[i + 1] ELSE Nothing(ip)
      BY <3>2, ReferenceOne
    <3>6. Reference(S, ip) = IF \E j \in 1..i : r[j].ip = ip THEN Reference(c, ip) ELSE Nothing(ip)
      BY <2>2 DEF S
    <3>7. \A j \in 1..(i + 1) : j \in 1..i \/ j = i + 1
      BY <3>1
    <3>8. \A j \in 1..i : j \in 1..(i + 1) /\ j # i + 1 /\ j \in 1..n
      BY <3>1
    <3>9. /\ Reference(c, ip) \in Obs /\ Reference(c, ip).ip = ip /\ Nothing(ip) \in Obs /\ Nothing(ip).ip = ip
          /\ mergeInto(Reference(c, ip), Nothing(ip)) = Reference(c, ip)
          /\ mergeInto(Nothing(ip), Nothing(ip)) = Nothing(ip)
          /\ mergeInto(Nothing(ip), Reference(c, ip)) = Reference(c, ip)
      <4>1. /\ Reference(c, ip) \in Obs /\ Reference(c, ip).ip = ip /\ Nothing(ip) \in Obs /\ Nothing(ip).ip = ip
        BY ReferenceType, NothingObs DEF Nothing
      <4> QED BY <4>1, NothingObs
    <3>10. CASE r[i + 1].ip = ip
      <4>1. \A j \in 1..i : r[j].ip # ip
        BY <1>1, <3>1, <3>8, <3>10 DEF IsMerge
      <4>2. r[i + 1] = Reference(c, ip)
        BY <1>1, <3>1, <3>10 DEF IsMerge
      <4>3. Reference(Q, ip) = Reference(c, ip)
        BY <3>4, <3>5, <3>6, <3>9, <3>10, <4>1, <4>2
      <4>4. i + 1 \in 1..(i + 1)
        BY <3>1
      <4> QED BY <3>1, <3>10, <4>3, <4>4 DEF Q
    <3>11. CASE r[i + 1].ip # ip
      <4>1. (\E j \in 1..(i + 1) : r[j].ip = ip) <=> (\E j \in 1..i : r[j].ip = ip)
        BY <3>7, <3>8, <3>11
      <4>2. Reference(Q, ip) = Reference(S, ip)
        BY <3>4, <3>5, <3>6, <3>9, <3>11
      <4> QED BY <3>1, <3>6, <4>1, <4>2 DEF Q
    <3> QED BY <3>10, <3>11
  <2>3. 0..n \subseteq T
    <3> HIDE DEF T
    <3> QED BY <1>2, <2>1, <2>2, UpTo
  <2>4. P(n) = r /\ n \in 0..n
    BY <1>1, <1>2
  <2> HIDE DEF P
  <2>5. Reference(r, ip) = IF \E j \in 1..n : r[j].ip = ip THEN Reference(c, ip) ELSE Nothing(ip)
    BY <2>3, <2>4
  <2>6. ~ (\E j \in 1..n : r[j].ip = ip) => Reference(c, ip) = Nothing(ip)
    <3> SUFFICES ASSUME ~ (\E j \in 1..n : r[j].ip = ip) PROVE Reference(c, ip) = Nothing(ip)
      OBVIOUS
    <3>1. DOMAIN r = 1..n
      BY <1>1
    <3>2. ip \notin Addresses(c)
      BY <1>1, <3>1 DEF IsMerge, Addresses
    <3> QED BY <3>2, ReferenceElsewhere
  <2> QED BY <2>5, <2>6
<1>5. Same(r, c)
  BY <1>1, <1>4 DEF Same, IsMerge
<1> QED BY <1>1, <1>5 DEF r

\* Parts that say the same, one by one, say the same when joined.
LEMMA SameFlatten ==
  ASSUME NEW fs \in Seq(Seq(Obs)), NEW gs \in Seq(Seq(Obs)), Len(fs) = Len(gs),
         \A i \in 1..Len(fs) : Same(fs[i], gs[i])
  PROVE  Same(FlattenSeq(fs), FlattenSeq(gs))
<1> DEFINE n == Len(fs)
           A == Seq(Obs)
<1>1. PICK F \in [0..n -> A] : /\ F[0] = <<>> /\ F[n] = FlattenSeq(fs)
                               /\ \A i \in 1..n : F[i] = F[i - 1] \o fs[i]
  BY FlattenTrace
<1>2. PICK G \in [0..n -> A] : /\ G[0] = <<>> /\ G[n] = FlattenSeq(gs)
                               /\ \A i \in 1..n : G[i] = G[i - 1] \o gs[i]
  BY FlattenTrace
<1>3. n \in Nat /\ \A i \in 1..n : fs[i] \in A /\ gs[i] \in A
  OBVIOUS
<1> DEFINE T == {i \in 0..n : Same(F[i], G[i])}
<1> HIDE DEF n, A
<1>4. 0 \in T
  BY <1>1, <1>2, <1>3 DEF Same
<1>5. ASSUME NEW i \in 0..(n - 1), i \in T PROVE i + 1 \in T
  <2>1. i + 1 \in 1..n /\ (i + 1) - 1 = i /\ i \in 0..n /\ i + 1 \in 0..n
    BY <1>3
  <2>2. F[i + 1] = F[i] \o fs[i + 1] /\ G[i + 1] = G[i] \o gs[i + 1]
    BY <1>1, <1>2, <2>1
  <2>3. /\ F[i] \in Seq(Obs) /\ G[i] \in Seq(Obs) /\ fs[i + 1] \in Seq(Obs) /\ gs[i + 1] \in Seq(Obs)
        /\ Same(F[i], G[i]) /\ Same(fs[i + 1], gs[i + 1])
    BY <1>3, <1>5, <2>1 DEF A, n
  <2>4. Same(F[i] \o fs[i + 1], G[i] \o gs[i + 1])
    BY <2>3, SameConcat
  <2> QED BY <2>1, <2>2, <2>4
<1>6. 0..n \subseteq T
  <2> HIDE DEF T
  <2> QED BY <1>3, <1>4, <1>5, UpTo
<1>7. Same(F[n], G[n])
  BY <1>3, <1>6
<1> QED BY <1>1, <1>2, <1>7

\* The elements of two sequences together.
LEMMA ElementsConcat ==
  ASSUME NEW X, NEW a \in Seq(X), NEW b \in Seq(X)
  PROVE  ToSet(a \o b) = ToSet(a) \cup ToSet(b)
<1>1. /\ Len(a) \in Nat /\ Len(b) \in Nat /\ DOMAIN a = 1..Len(a) /\ DOMAIN b = 1..Len(b)
      /\ DOMAIN (a \o b) = 1..(Len(a) + Len(b))
      /\ \A i \in 1..(Len(a) + Len(b)) : (a \o b)[i] = IF i <= Len(a) THEN a[i] ELSE b[i - Len(a)]
  OBVIOUS
<1>3. ToSet(a \o b) \subseteq ToSet(a) \cup ToSet(b)
  <2> SUFFICES ASSUME NEW i \in 1..(Len(a) + Len(b)) PROVE (a \o b)[i] \in ToSet(a) \cup ToSet(b)
    BY <1>1 DEF ToSet
  <2>1. CASE i <= Len(a)
    <3>1. i \in 1..Len(a) /\ (a \o b)[i] = a[i]
      BY <1>1, <2>1
    <3> QED BY <1>1, <3>1 DEF ToSet
  <2>2. CASE ~ (i <= Len(a))
    <3>1. i - Len(a) \in 1..Len(b) /\ (a \o b)[i] = b[i - Len(a)]
      BY <1>1, <2>2
    <3> QED BY <1>1, <3>1 DEF ToSet
  <2> QED BY <2>1, <2>2
<1>4. ToSet(a) \subseteq ToSet(a \o b)
  <2> SUFFICES ASSUME NEW i \in 1..Len(a) PROVE a[i] \in ToSet(a \o b)
    BY <1>1 DEF ToSet
  <2>1. i \in 1..(Len(a) + Len(b)) /\ (a \o b)[i] = a[i]
    BY <1>1
  <2> QED BY <1>1, <2>1 DEF ToSet
<1>5. ToSet(b) \subseteq ToSet(a \o b)
  <2> SUFFICES ASSUME NEW i \in 1..Len(b) PROVE b[i] \in ToSet(a \o b)
    BY <1>1 DEF ToSet
  <2>1. Len(a) + i \in 1..(Len(a) + Len(b)) /\ (a \o b)[Len(a) + i] = b[i]
    BY <1>1
  <2> QED BY <1>1, <2>1 DEF ToSet
<1> QED BY <1>3, <1>4, <1>5

\* The elements of joined sequences.
LEMMA ElementsFlatten ==
  ASSUME NEW X, NEW fs \in Seq(Seq(X))
  PROVE  \A o : o \in ToSet(FlattenSeq(fs)) <=> \E i \in 1..Len(fs) : o \in ToSet(fs[i])
<1> DEFINE n == Len(fs)
           A == Seq(X)
<1>1. PICK F \in [0..n -> A] : /\ F[0] = <<>> /\ F[n] = FlattenSeq(fs)
                               /\ \A i \in 1..n : F[i] = F[i - 1] \o fs[i]
  BY FlattenTrace
<1>3. n \in Nat /\ \A i \in 1..n : fs[i] \in A
  OBVIOUS
<1>a. ToSet(<<>>) = {}
  BY DEF ToSet
<1>b. \A p, q \in A : ToSet(p \o q) = ToSet(p) \cup ToSet(q)
  BY ElementsConcat
<1> SUFFICES ASSUME NEW o PROVE o \in ToSet(FlattenSeq(fs)) <=> \E i \in 1..n : o \in ToSet(fs[i])
  OBVIOUS
<1> DEFINE T == {i \in 0..n : o \in ToSet(F[i]) <=> \E j \in 1..i : o \in ToSet(fs[j])}
<1> HIDE DEF n, A
<1>4. 0 \in T
  <2>1. 0 \in 0..n /\ 1..0 = {}
    BY <1>3
  <2> QED BY <1>1, <1>a, <2>1
<1>5. ASSUME NEW i \in 0..(n - 1), i \in T PROVE i + 1 \in T
  <2>1. i + 1 \in 1..n /\ (i + 1) - 1 = i /\ i \in 0..n /\ i + 1 \in 0..n /\ i + 1 \in 1..(i + 1)
    BY <1>3
  <2>2. F[i + 1] = F[i] \o fs[i + 1]
    BY <1>1, <2>1
  <2>3. ToSet(F[i + 1]) = ToSet(F[i]) \cup ToSet(fs[i + 1])
    BY <1>3, <1>b, <2>1, <2>2
  <2>4. \A j : j \in 1..(i + 1) <=> j \in 1..i \/ j = i + 1
    BY <2>1
  <2> QED BY <1>5, <2>1, <2>3, <2>4
<1>6. 0..n \subseteq T
  <2> HIDE DEF T
  <2> QED BY <1>3, <1>4, <1>5, UpTo
<1>7. n \in T
  BY <1>3, <1>6
<1> QED BY <1>1, <1>7

\* A field of what the claims come to was said by one of them.
LEMMA ReferenceSource ==
  ASSUME NEW c \in Seq(Obs), NEW ip \in Nat, NEW f, f \in DOMAIN Reference(c, ip).val
  PROVE  \E o \in ToSet(c) : o.ip = ip /\ f \in DOMAIN o.val /\ o.val[f] = Reference(c, ip).val[f]
<1> DEFINE S == Said(c, ip, "val")
<1>1. S \in Seq(Partial(Fields, Tag)) /\ Reference(c, ip).val = Leading(S)
  BY SaidType, ReferenceType
<1>2. /\ S = [i \in 1..Len(c) |-> IF c[i].ip = ip THEN c[i].val ELSE <<>>]
      /\ DOMAIN c = 1..Len(c) /\ Len(c) \in Nat
  BY DEF Said
<1>3. Len(S) = Len(c)
  <2>1. DOMAIN S = 1..Len(S) /\ DOMAIN S = 1..Len(c) /\ Len(S) \in Nat
    <3>1. DOMAIN S = 1..Len(c)
      BY <1>2
    <3> HIDE DEF S
    <3> QED BY <1>1, <3>1
  <2> HIDE DEF S
  <2> QED BY <1>2, <2>1
<1> HIDE DEF S
<1>4. PICK i : IsFirst(S, f, i)
  BY <1>1, LeadingIs DEF IsLeading
<1>5. i \in 1..Len(c) /\ f \in DOMAIN S[i] /\ Leading(S)[f] = S[i][f]
  BY <1>1, <1>3, <1>4, LeadingIs DEF IsLeading, IsFirst
<1>6. c[i].ip = ip /\ S[i] = c[i].val
  <2>1. DOMAIN <<>> = {}
    OBVIOUS
  <2> QED BY <1>2, <1>5, <2>1
<1>7. c[i] \in ToSet(c)
  BY <1>2, <1>5 DEF ToSet
<1> QED BY <1>1, <1>5, <1>6, <1>7

-----------------------------------------------------------------------------
(* What each backend reports is about allowed addresses                    *)

\* A finite set of numbers has a greatest one.
LEMMA FiniteMax ==
  ASSUME NEW S \in SUBSET Nat, IsFiniteSet(S), S # {}
  PROVE  Max(S) \in S /\ \A y \in S : Max(S) >= y
<1>1. PICK n \in Nat : ExistsSurjection(1..n, S)
  BY FS_NatSurjection
<1>2. PICK f \in [1..n -> S] : \A y \in S : \E i \in 1..n : f[i] = y
  BY <1>1 DEF ExistsSurjection, Surjection
<1> DEFINE T == {k \in 0..n : \E m \in Nat : \A i \in 1..k : f[i] <= m}
<1>3. 0 \in T
  OBVIOUS
<1>4. ASSUME NEW k \in 0..(n - 1), k \in T PROVE k + 1 \in T
  <2>1. PICK m \in Nat : \A i \in 1..k : f[i] <= m
    BY <1>4
  <2>2. k + 1 \in 1..n /\ k + 1 \in 0..n /\ f[k + 1] \in Nat /\ \A i \in 1..k : i \in 1..n /\ f[i] \in Nat
    <3>1. k + 1 \in 1..n /\ k + 1 \in 0..n /\ \A i \in 1..k : i \in 1..n
      OBVIOUS
    <3>2. \A i \in 1..n : f[i] \in Nat
      OBVIOUS
    <3> QED BY <3>1, <3>2
  <2>3. m + f[k + 1] \in Nat /\ \A i \in 1..(k + 1) : i \in 1..k \/ i = k + 1
    BY <2>2
  <2>4. \A i \in 1..(k + 1) : f[i] <= m + f[k + 1]
    BY <2>1, <2>2, <2>3
  <2> QED BY <2>2, <2>3, <2>4
<1>5. 0..n \subseteq T
  <2> HIDE DEF T
  <2> QED BY <1>3, <1>4, UpTo
<1>6. PICK m \in Nat : \A i \in 1..n : f[i] <= m
  <2>1. n \in 0..n
    OBVIOUS
  <2>2. n \in T
    BY <1>5, <2>1
  <2> QED BY <2>2
<1>7. \A y \in S : y <= m /\ y \in Nat
  BY <1>2, <1>6
<1> DEFINE U == {k \in Nat : m - k \in S}
<1>8. U \in SUBSET Nat /\ U # {} /\ \A y \in S : m - y \in U
  <2>1. \A y \in S : m - y \in Nat /\ m - (m - y) = y
    BY <1>7
  <2>2. \A y \in S : m - y \in U
    BY <2>1
  <2> QED BY <2>2
<1>9. PICK u \in U : \A k \in U : u <= k
  <2> HIDE DEF U
  <2> QED BY <1>8, NatLeast
<1>10. m - u \in S /\ \A y \in S : m - u >= y
  <2>1. m - u \in S /\ u \in Nat
    BY <1>9
  <2>2. ASSUME NEW y \in S PROVE m - u >= y
    <3>1. m - y \in U /\ y \in Nat
      BY <1>7, <1>8
    <3>2. u <= m - y
      BY <1>9, <3>1
    <3> QED BY <2>1, <3>1, <3>2
  <2> QED BY <2>1, <2>2
<1> QED BY <1>10 DEF Max

\* A nonempty set of numbers holds its least one.
LEMMA LeastMin ==
  ASSUME NEW S \in SUBSET Nat, S # {}
  PROVE  Min(S) \in S
BY NatLeast DEF Min

\* A filter yields elements of the set it keeps.
LEMMA WithinType ==
  ASSUME NEW X, NEW S, NEW s \in Seq(X)
  PROVE  Within(s, S) \in Seq(X \cap S)
<1> DEFINE A == Seq(X \cap S)
<1>0. PICK G : G \in KeepTraces(X, S, s)
  BY WithinTrace
<1>1. G \in [0..Len(s) -> A] /\ G[Len(s)] = Within(s, S)
  BY <1>0 DEF KeepTraces
<1>2. Len(s) \in 0..Len(s)
  OBVIOUS
<1> HIDE DEF A
<1>3. G[Len(s)] \in A
  BY <1>1, <1>2
<1> QED BY <1>1, <1>3 DEF A

\* A sequence with an element more is not empty.
LEMMA AppendSome ==
  ASSUME NEW X, NEW q \in Seq(X), NEW x \in X
  PROVE  Append(q, x) # <<>>
BY AppendProperties

\* A filter that keeps an element yields one.
LEMMA WithinSome ==
  ASSUME NEW X, NEW S, NEW s \in Seq(X)
  PROVE  \A i \in 1..Len(s) : s[i] \in S => Within(s, S) # <<>>
<1>0. PICK G : G \in KeepTraces(X, S, s)
  BY WithinTrace
<1>1. /\ G \in [0..Len(s) -> Seq(X \cap S)]
      /\ G[0] = <<>> /\ G[Len(s)] = Within(s, S)
      /\ \A k \in 1..Len(s) : G[k] = Keep(S, G[k - 1], s[k])
  BY <1>0 DEF KeepTraces
<1> SUFFICES ASSUME NEW i \in 1..Len(s), s[i] \in S PROVE Within(s, S) # <<>>
  OBVIOUS
<1> DEFINE n == Len(s)
           A == Seq(X \cap S)
<1>2. n \in Nat /\ \A k \in 1..n : s[k] \in X
  OBVIOUS
<1> DEFINE T == {k \in 0..n : k >= i => G[k] # <<>>}
<1>3. 0 \in T
  BY <1>2
<1>4. ASSUME NEW k \in 0..(n - 1), k \in T PROVE k + 1 \in T
  <2>1. k + 1 \in 1..n /\ k + 1 \in 0..n /\ k \in 0..n /\ (k + 1) - 1 = k
    BY <1>2
  <2>2. G[k + 1] = Keep(S, G[k], s[k + 1]) /\ G[k] \in A
    BY <1>1, <2>1
  <2>3. \A q \in A : \A x \in X \cap S : Append(q, x) # <<>>
    <3> SUFFICES ASSUME NEW q \in A, NEW x \in X \cap S PROVE Append(q, x) # <<>>
      OBVIOUS
    <3> QED BY AppendSome
  <2>4. k + 1 >= i => k >= i \/ k + 1 = i
    BY <1>2
  <2> HIDE DEF n, A
  <2> QED BY <1>2, <1>4, <2>1, <2>2, <2>3, <2>4 DEF Keep
<1>5. 0..n \subseteq T
  <2> HIDE DEF T
  <2> QED BY <1>2, <1>3, <1>4, UpTo
<1>6. n \in T /\ n >= i
  BY <1>2, <1>5
<1> QED BY <1>1, <1>6

\* The addresses of a set in order.
LEMMA AscendingType ==
  ASSUME NEW S \in SUBSET Nat, IsFiniteSet(S)
  PROVE  Ascending(S) \in Seq(S)
<1> DEFINE m == Max(S \cup {0})
           s == [n \in 1..m |-> n]
<1>1. m \in Nat
  <2>1. IsFiniteSet(S \cup {0})
    BY FS_AddElement
  <2>2. S \cup {0} \in SUBSET Nat /\ S \cup {0} # {}
    OBVIOUS
  <2> QED BY <2>1, <2>2, FiniteMax
<1> HIDE DEF m
<1>2. s \in Seq(Nat)
  BY <1>1
<1>3. Within(s, S) \in Seq(Nat \cap S)
  <2> HIDE DEF s
  <2> QED BY <1>2, WithinType
<1>4. Nat \cap S = S
  OBVIOUS
<1> QED BY <1>3, <1>4 DEF Ascending, m

\* An observation as a backend builds it.
LEMMA ObservationType ==
  ASSUME NEW ip \in Nat, NEW src \in Tag, NEW fields \in SUBSET Fields, NEW ports \in SUBSET Nat
  PROVE  Observation(ip, src, fields, ports) \in Obs /\ Observation(ip, src, fields, ports).ip = ip
<1>1. [f \in fields |-> src] \in Partial(Fields, Tag) /\ [p \in ports |-> src] \in Partial(Nat, Tag)
  BY PartialIs
<1>2. <<src>> \in Seq(Tag)
  OBVIOUS
<1> QED BY <1>1, <1>2 DEF Observation, Obs

\* Sources and numbers make tags.
LEMMA TagType ==
  /\ \A s \in Source : <<s>> \in Tag
  /\ \A s \in Source : \A a \in Nat : <<s, a>> \in Tag
  /\ \A s \in Source : \A a \in BOOLEAN : <<s, a>> \in Tag
  /\ \A s \in Source : \A a, b \in Nat : <<s, a, b>> \in Tag
<1> DEFINE V == Source \cup Nat \cup BOOLEAN
<1>1. \A s \in Source : s \in V
  OBVIOUS
<1>2. \A a \in Nat : a \in V
  OBVIOUS
<1>3. \A a \in BOOLEAN : a \in V
  OBVIOUS
<1> HIDE DEF V
<1>4. \A a \in V : <<a>> \in Seq(V)
  OBVIOUS
<1>5. \A a, b \in V : <<a, b>> \in Seq(V)
  OBVIOUS
<1>6. \A a, b, c \in V : <<a, b, c>> \in Seq(V)
  OBVIOUS
<1> QED BY <1>1, <1>2, <1>3, <1>4, <1>5, <1>6, Zenon DEF Tag, V

\* Rows turned into observations one by one.
LEMMA MapType ==
  ASSUME NEW X, NEW Y, NEW s \in Seq(X), NEW f \in [1..Len(s) -> Y]
  PROVE  f \in Seq(Y) /\ Len(f) = Len(s)
<1>1. Len(s) \in Nat
  OBVIOUS
<1> QED BY <1>1, FunctionIsSeq

\* The addresses of a target.
LEMMA TargetIs ==
  ASSUME NEW t \in Target
  PROVE  /\ TargetIP(t) \in IPs /\ TargetIP(t) \in Nat /\ TargetIP(t) \in t.ips /\ t.ips \subseteq IPs
         /\ \A ip : t = HostTarget(ip) => TargetIP(t) = ip
<1>1. CASE \E ip \in IPs : t = HostTarget(ip)
  BY <1>1, ScanAssumption DEF HostTarget, TargetIP
<1>2. CASE t \in [kind : {"cidr"}, ips : (SUBSET IPs) \ {{}}]
  <2> DEFINE S == (SUBSET IPs) \ {{}}
  <2>0. t.kind = "cidr" /\ t.ips \in S
    <3> HIDE DEF S
    <3>1. t \in [kind : {"cidr"}, ips : S]
      BY <1>2 DEF S
    <3> QED BY <3>1
  <2>1. t.ips \in SUBSET IPs /\ t.ips # {} /\ t.kind = "cidr"
    BY <2>0, Zenon
  <2>2. TargetIP(t) \in t.ips
    BY <2>1 DEF TargetIP
  <2>3. \A ip : HostTarget(ip).kind = "host"
    BY DEF HostTarget
  <2>4. \A ip : t # HostTarget(ip)
    BY <2>1, <2>3
  <2> QED BY <2>1, <2>2, <2>4, ScanAssumption
<1> QED BY <1>1, <1>2 DEF Target

\* nmap reports hosts of the set it was given.
LEMMA NmapType ==
  ASSUME NEW x, IsWorld(x), NEW I \in SUBSET IPs, NEW k \in {1, 2}
  PROVE  parseNmapXML(x, I, k) \in Seq(ObsOf(I))
<1> DEFINE s == Ascending(I)
           Filled(ip) == CASE k = 2 -> {"os"}
                           [] ip \in x.egress.net -> {"mac"}
                           [] OTHER -> {}
           Ports(ip)  == IF k = 2 THEN x.open[ip] ELSE {}
           Src        == <<"nmap", k>>
           Host(ip)   == [Observation(ip, Src, Filled(ip), Ports(ip))
                            EXCEPT !.ev = IF "mac" \in Filled(ip) THEN @ ELSE <<>>]
<1>1. parseNmapXML(x, I, k) = [i \in DOMAIN s |-> Host(s[i])]
  BY DEF parseNmapXML
<1>2. s \in Seq(I)
  <2>1. I \in SUBSET Nat /\ IsFiniteSet(I)
    BY ScanAssumption, FS_Subset
  <2> QED BY <2>1, AscendingType
<1>3. Src \in Tag
  <2>1. "nmap" \in Source /\ k \in Nat
    BY DEF Source
  <2> QED BY <2>1, TagType
<1>4. ASSUME NEW ip \in I PROVE Host(ip) \in ObsOf(I)
  <2>1. ip \in Nat /\ ip \in IPs
    BY ScanAssumption
  <2>2. Filled(ip) \in SUBSET Fields
    <3>1. {"os"} \in SUBSET Fields /\ {"mac"} \in SUBSET Fields /\ {} \in SUBSET Fields
      BY DEF Fields
    <3>2. Filled(ip) = {"os"} \/ Filled(ip) = {"mac"} \/ Filled(ip) = {}
      OBVIOUS
    <3> QED BY <3>1, <3>2, Zenon
  <2>3. Ports(ip) \in SUBSET Nat
    BY <2>1 DEF IsWorld
  <2> HIDE DEF Filled, Ports, Src
  <2>4. Observation(ip, Src, Filled(ip), Ports(ip)) \in Obs /\ Observation(ip, Src, Filled(ip), Ports(ip)).ip = ip
    BY <1>3, <2>1, <2>2, <2>3, ObservationType
  <2>5. <<>> \in Seq(Tag)
    OBVIOUS
  <2>6. ASSUME NEW o \in Obs, NEW e \in Seq(Tag) PROVE [o EXCEPT !.ev = e] \in Obs /\ [o EXCEPT !.ev = e].ip = o.ip
    BY DEF Obs
  <2>7. \A o \in Obs : o.ev \in Seq(Tag)
    BY DEF Obs
  <2> QED BY <2>4, <2>5, <2>6, <2>7 DEF ObsOf
<1> HIDE DEF s, Host
<1>5. parseNmapXML(x, I, k) \in [1..Len(s) -> ObsOf(I)]
  BY <1>1, <1>2, <1>4
<1> QED BY <1>2, <1>5, MapType

\* The VLAN of an interface, through its bridge port.
LEMMA VLANsType ==
  ASSUME NEW d, IsDevice(d)
  PROVE  \A i \in DOMAIN walkVLANs(d) : walkVLANs(d)[i] \in Nat
<1> DEFINE U == {p \in DOMAIN d.port \cap DOMAIN d.pvid : d.pvid[p] > 0}
           At(i) == {p \in U : d.port[p] = i}
<1>1. walkVLANs(d) = [i \in {d.port[p] : p \in U} |-> d.pvid[Max(At(i))]]
  BY DEF walkVLANs
<1>2. ASSUME NEW i \in {d.port[p] : p \in U} PROVE d.pvid[Max(At(i))] \in Nat
  <2>1. At(i) \in SUBSET Nat /\ At(i) # {} /\ At(i) \in SUBSET DOMAIN d.port /\ IsFiniteSet(DOMAIN d.port)
    BY DEF IsDevice, IsTable
  <2>2. IsFiniteSet(At(i))
    BY <2>1, FS_Subset
  <2>3. Max(At(i)) \in At(i)
    <3> HIDE DEF At
    <3> QED BY <2>1, <2>2, FiniteMax
  <2>4. Max(At(i)) \in DOMAIN d.pvid
    BY <2>3
  <2> HIDE DEF At
  <2> QED BY <2>4 DEF IsDevice, IsTable
<1> QED BY <1>1, <1>2

\* The serial number of the chassis.
LEMMA SerialType ==
  ASSUME NEW d, IsDevice(d)
  PROVE  chassisSerial(d.ent) \in Nat
<1> DEFINE U == {i \in DOMAIN d.ent : d.ent[i].usable}
           C == {i \in U : d.ent[i].chassis}
<1>1. U \in SUBSET Nat /\ C \in SUBSET Nat
  BY DEF IsDevice, IsTable
<1>2. chassisSerial(d.ent) = IF C # {} THEN Min(C) ELSE IF U # {} THEN Min(U) ELSE 0
  BY DEF chassisSerial
<1> HIDE DEF U, C
<1>3. (C # {} => Min(C) \in C) /\ (U # {} => Min(U) \in U)
  BY <1>1, LeastMin
<1>4. C # {} => Min(C) \in Nat
  BY <1>1, <1>3
<1>5. U # {} => Min(U) \in Nat
  BY <1>1, <1>3
<1>6. 0 \in Nat
  OBVIOUS
<1> QED BY <1>2, <1>4, <1>5, <1>6

\* One address of a device, with all that the walk found.
LEMMA InventoryRow ==
  ASSUME NEW d, IsDevice(d), NEW addr \in Nat \X Nat, NEW ip \in Nat
  PROVE  /\ inventoryObservation(walkInventory(d), addr, ip) \in Obs
         /\ inventoryObservation(walkInventory(d), addr, ip).ip = addr[1]
<1> DEFINE inv == walkInventory(d)
<1>1. /\ inv.sys \subseteq Fields \ {"mac", "vlan", "serial"} /\ inv.vlan = walkVLANs(d) /\ inv.serial = chassisSerial(d.ent)
      /\ inv.mac = d.mac
  BY DEF walkInventory, IsDevice
<1>2. inv.serial \in Nat /\ \A i \in DOMAIN inv.vlan : inv.vlan[i] \in Nat
  BY <1>1, VLANsType, SerialType
<1> HIDE DEF inv
<1> DEFINE own == {f \in {"mac"} : addr[2] \in inv.mac} \cup {f \in {"vlan"} : addr[2] \in DOMAIN inv.vlan}
                  \cup {f \in {"serial"} : inv.serial # 0}
           src == <<"inventory", ip>>
           obs == Observation(addr[1], src, inv.sys \cup own, {})
           Val(f) == CASE f = "vlan"   -> <<"vlan", inv.vlan[addr[2]]>>
                       [] f = "serial" -> <<"serial", ip, inv.serial>>
                       [] OTHER        -> obs.val[f]
           val == [f \in DOMAIN obs.val |-> Val(f)]
           res == [obs EXCEPT !.val = val]
<1>3. inventoryObservation(inv, addr, ip) = res
  BY DEF inventoryObservation
<1>4. src \in Tag
  <2>1. "inventory" \in Source
    BY DEF Source
  <2> QED BY <2>1, TagType
<1>5. own \subseteq {"mac", "vlan", "serial"}
  OBVIOUS
<1>5a. inv.sys \cup own \in SUBSET Fields
  <2>1. \A f \in {"mac", "vlan", "serial"} : f \in Fields
    BY DEF Fields
  <2> HIDE DEF own
  <2>2. \A f \in own : f \in Fields
    BY <1>5, <2>1
  <2>3. \A f \in inv.sys : f \in Fields
    BY <1>1
  <2> QED BY <2>2, <2>3
<1>6. addr[1] \in Nat /\ obs \in Obs /\ obs.ip = addr[1]
  <2> HIDE DEF own, src
  <2> QED BY <1>4, <1>5a, ObservationType
<1>7. DOMAIN obs.val \subseteq Fields /\ \A f \in DOMAIN obs.val : obs.val[f] \in Tag
  <2>1. obs.val \in Partial(Fields, Tag)
    BY <1>6, ObsIs
  <2> HIDE DEF obs
  <2> QED BY <2>1, PartialIs
<1>8. ASSUME NEW f \in DOMAIN obs.val PROVE Val(f) \in Tag
  <2>1. CASE f = "vlan"
    <3>0. DOMAIN obs.val = inv.sys \cup own
      BY DEF Observation
    <3>1. addr[2] \in DOMAIN inv.vlan
      <4>1. "vlan" \in own
        <5> HIDE DEF own
        <5> QED BY <1>1, <1>8, <2>1, <3>0
      <4> QED BY <4>1
    <3>2. inv.vlan[addr[2]] \in Nat /\ "vlan" \in Source
      BY <1>2, <3>1 DEF Source
    <3>3. <<"vlan", inv.vlan[addr[2]]>> \in Tag
      BY <3>2, TagType
    <3>4. Val(f) = <<"vlan", inv.vlan[addr[2]]>>
      BY <2>1
    <3> QED BY <3>3, <3>4
  <2>2. CASE f # "vlan" /\ f = "serial"
    <3>1. "serial" \in Source
      BY DEF Source
    <3>2. <<"serial", ip, inv.serial>> \in Tag
      BY <1>2, <3>1, TagType
    <3>3. Val(f) = <<"serial", ip, inv.serial>>
      BY <2>2
    <3> QED BY <3>2, <3>3
  <2>3. CASE f # "vlan" /\ f # "serial"
    BY <1>7, <2>3
  <2> QED BY <2>1, <2>2, <2>3
<1>9. val \in Partial(Fields, Tag)
  <2> HIDE DEF Val, obs
  <2>1. DOMAIN val = DOMAIN obs.val /\ val \in [DOMAIN obs.val -> Tag]
    BY <1>8
  <2> QED BY <1>7, <2>1, PartialIs
<1>10. res \in Obs /\ res.ip = addr[1]
  <2> HIDE DEF val, obs
  <2> QED BY <1>6, <1>9 DEF Obs
<1> HIDE DEF res
<1> QED BY <1>3, <1>10 DEF inv

\* A host that answers SNMP is a device.
LEMMA DeviceAt ==
  ASSUME NEW x, IsWorld(x), NEW t \in Target, Answers(x, t)
  PROVE  IsDevice(x.snmp[TargetIP(t)])
BY DEF Answers, IsWorld

\* snmp_inventory reports addresses in scope.
LEMMA InventoryType ==
  ASSUME NEW x, IsWorld(x), NEW t \in Target, NEW scope \in SUBSET IPs
  PROVE  discoverInventory(x, t, scope).obs \in Seq(ObsOf(scope))
<1> DEFINE r == discoverInventory(x, t, scope)
           ip == TargetIP(t)
           d == x.snmp[ip]
           inv == walkInventory(d)
           own == Within(inv.addrs, {q \in ToSet(inv.addrs) : q[1] \in scope})
           back == IF ip \in scope THEN <<<<ip, 0>>>> ELSE <<>>
           rows == IF own # <<>> THEN own ELSE back
<1>1. CASE ~ Answers(x, t)
  <2>1. r.obs = <<>>
    BY <1>1 DEF discoverInventory
  <2> QED BY <2>1
<1>2. CASE Answers(x, t)
  <2>1. r.obs = [i \in DOMAIN rows |-> inventoryObservation(inv, rows[i], ip)]
    BY <1>2 DEF discoverInventory
  <2>2. IsDevice(d) /\ ip \in Nat /\ inv.addrs = d.addrs
    BY <1>2, DeviceAt, TargetIs DEF walkInventory
  <2> DEFINE Rows == {q \in Nat \X Nat : q[1] \in scope}
             Z == {q \in ToSet(inv.addrs) : q[1] \in scope}
             N == Nat \X Nat
  <2>3. own \in Seq(Rows)
    <3>1. inv.addrs \in Seq(N)
      BY <2>2 DEF IsDevice
    <3>2. own \in Seq(N \cap Z)
      <4> HIDE DEF N, Z, inv
      <4>1. Within(inv.addrs, Z) \in Seq(N \cap Z)
        BY <3>1, WithinType
      <4> QED BY <4>1 DEF Z
    <3>3. N \cap Z \subseteq Rows
      OBVIOUS
    <3> HIDE DEF N, Z, Rows, own
    <3> QED BY <3>2, <3>3
  <2>4. back \in Seq(Rows)
    <3>1. ip \in scope => <<ip, 0>> \in Rows
      BY <2>2
    <3> HIDE DEF Rows
    <3> QED BY <3>1
  <2>5. rows \in Seq(Rows)
    BY <2>3, <2>4
  <2>6. ASSUME NEW q \in Rows PROVE inventoryObservation(inv, q, ip) \in ObsOf(scope)
    BY <2>2, InventoryRow DEF ObsOf
  <2> HIDE DEF r, rows, inv, Rows
  <2>7. r.obs \in [1..Len(rows) -> ObsOf(scope)]
    BY <2>1, <2>5, <2>6
  <2>8. r.obs \in Seq(ObsOf(scope))
    BY <2>5, <2>7, MapType
  <2> QED BY <2>8 DEF r
<1> QED BY <1>1, <1>2

\* arp_table reports addresses in scope.
LEMMA ARPType ==
  ASSUME NEW x, IsWorld(x), NEW t \in Target, NEW scope \in SUBSET IPs
  PROVE  discoverARP(x, t, scope).obs \in Seq(ObsOf(scope))
<1> DEFINE r == discoverARP(x, t, scope)
           ip == TargetIP(t)
           d == x.snmp[ip]
           all == parseARPPDUs(d)
           Z == {q \in ToSet(all) : q.ip \in scope}
           rows == Within(all, Z)
           R == [ip : Nat, mac : {"complete", "short", "zero"}]
           src == <<"arp", ip>>
<1>1. CASE ~ Answers(x, t) \/ "arp" \in d.unread
  <2>1. r.obs = <<>>
    BY <1>1 DEF discoverARP
  <2> QED BY <2>1
<1>2. CASE ~ (~ Answers(x, t) \/ "arp" \in d.unread)
  <2>1. r.obs = [i \in DOMAIN rows |-> Observation(rows[i].ip, src, {"mac"}, {})]
    BY <1>2 DEF discoverARP
  <2>2. IsDevice(d) /\ ip \in Nat
    BY <1>2, DeviceAt, TargetIs
  <2>3. all \in Seq(R)
    <3>1. d.arp \in Seq(R)
      BY <2>2 DEF IsDevice
    <3> DEFINE Y == {q \in ToSet(d.arp) : macFromPDU(q)}
    <3> HIDE DEF R, d, Y
    <3>2. Within(d.arp, Y) \in Seq(R \cap Y)
      BY <3>1, WithinType
    <3>3. all = Within(d.arp, Y)
      BY DEF parseARPPDUs, Y
    <3> HIDE DEF all
    <3> QED BY <3>2, <3>3
  <2>4. rows \in Seq(R \cap Z)
    <3> HIDE DEF all, R, Z
    <3> QED BY <2>3, WithinType
  <2>5. src \in Tag
    <3>1. "arp" \in Source
      BY DEF Source
    <3> QED BY <2>2, <3>1, TagType
  <2>6. ASSUME NEW q \in R \cap Z PROVE Observation(q.ip, src, {"mac"}, {}) \in ObsOf(scope)
    <3>1. q.ip \in Nat /\ q.ip \in scope
      BY ScanAssumption
    <3>2. {"mac"} \in SUBSET Fields /\ {} \in SUBSET Nat
      BY DEF Fields
    <3> HIDE DEF src
    <3> QED BY <2>5, <3>1, <3>2, ObservationType DEF ObsOf
  <2> HIDE DEF r, rows, R, Z, src
  <2>7. r.obs \in [1..Len(rows) -> ObsOf(scope)]
    BY <2>1, <2>4, <2>6
  <2>8. r.obs \in Seq(ObsOf(scope))
    BY <2>4, <2>7, MapType
  <2> QED BY <2>8 DEF r
<1> QED BY <1>1, <1>2

\* The neighbours with a management address, the first of each key.
LEMMA NeighboursType ==
  ASSUME NEW s \in Seq(Neighbour)
  PROVE  neighbours(s) \in Seq(Neighbour)
<1> DEFINE Z == {q \in ToSet(s) : hasManAddr(q)}
           m == Within(s, Z)
<1>1. m \in Seq(Neighbour \cap Z)
  <2> HIDE DEF Z
  <2> QED BY WithinType
<1>2. m \in Seq(Neighbour)
  <2> HIDE DEF m, Z
  <2> QED BY <1>1
<1> DEFINE A == Seq(Neighbour)
<1>3. PICK G \in [0..Len(m) -> Seq(Neighbour)] : G[Len(m)] = FoldLeft(firstOfKey, <<>>, m)
  <2> HIDE DEF m
  <2> QED BY <1>2, FirstOfKeyTrace
<1>4. Len(m) \in 0..Len(m)
  <2> HIDE DEF m
  <2> QED BY <1>2
<1>5. G[Len(m)] \in Seq(Neighbour)
  BY <1>3, <1>4, Zenon
<1> QED BY <1>3, <1>5 DEF neighbours

\* What CDP or LLDP makes of the neighbours.
LEMMA ProtocolType ==
  ASSUME NEW s \in Seq(Neighbour), NEW proto \in {"cdp", "lldp"}, NEW ip \in Nat
  PROVE  [i \in DOMAIN neighbours(s) |-> neighbour(neighbours(s)[i], proto, ip)] \in Seq(Obs)
<1> DEFINE m == neighbours(s)
           f == [i \in DOMAIN m |-> neighbour(m[i], proto, ip)]
<1>1. m \in Seq(Neighbour)
  BY NeighboursType
<1>2. <<proto, ip>> \in Tag
  <2>1. proto \in Source
    BY DEF Source
  <2> QED BY <2>1, TagType
<1>3. ASSUME NEW q \in Neighbour PROVE neighbour(q, proto, ip) \in Obs
  <2>1. q.ip \in Nat /\ q.cols \in SUBSET Fields /\ {} \in SUBSET Nat
    BY DEF Neighbour
  <2>2. Observation(q.ip, <<proto, ip>>, q.cols, {}) \in Obs
    BY <1>2, <2>1, ObservationType
  <2> QED BY <2>2 DEF neighbour
<1> HIDE DEF m
<1>4. f \in [1..Len(m) -> Obs]
  BY <1>1, <1>3
<1>5. f \in Seq(Obs)
  <2> HIDE DEF f
  <2> QED BY <1>1, <1>4, MapType
<1> QED BY <1>5 DEF m

\* lldp_cdp reports addresses in scope.
LEMMA NeighborsType ==
  ASSUME NEW x, IsWorld(x), NEW t \in Target, NEW scope \in SUBSET IPs
  PROVE  discoverNeighbors(x, t, scope).obs \in Seq(ObsOf(scope))
<1> DEFINE r == discoverNeighbors(x, t, scope)
           ip == TargetIP(t)
           d == x.snmp[ip]
           all == collectCDP(d, ip) \o collectLLDP(d, ip)
           Z == {o \in ToSet(all) : o.ip \in scope}
<1>1. CASE ~ Answers(x, t)
  <2>1. r.obs = <<>>
    BY <1>1 DEF discoverNeighbors
  <2> QED BY <2>1
<1>2. CASE Answers(x, t)
  <2>1. r.obs = Within(all, Z)
    <3>1. walkNeighbors(d, ip) = [obs |-> all, err |-> {"cdp", "lldp"} \subseteq d.unread]
      BY DEF walkNeighbors
    <3>2. r = [[obs |-> all, err |-> {"cdp", "lldp"} \subseteq d.unread]
                 EXCEPT !.obs = Within(@, {o \in ToSet(@) : o.ip \in scope})]
      BY <1>2, <3>1 DEF discoverNeighbors
    <3> HIDE DEF all
    <3> QED BY <3>2
  <2>2. IsDevice(d) /\ ip \in Nat
    BY <1>2, DeviceAt, TargetIs
  <2>3. all \in Seq(Obs)
    <3> HIDE DEF d
    <3>1. d.cdp \in Seq(Neighbour) /\ d.lldp \in Seq(Neighbour)
      BY <2>2 DEF IsDevice
    <3>2. [i \in DOMAIN neighbours(d.cdp) |-> neighbour(neighbours(d.cdp)[i], "cdp", ip)] \in Seq(Obs)
      BY <2>2, <3>1, ProtocolType
    <3>3. [i \in DOMAIN neighbours(d.lldp) |-> neighbour(neighbours(d.lldp)[i], "lldp", ip)] \in Seq(Obs)
      BY <2>2, <3>1, ProtocolType
    <3>4. <<>> \in Seq(Obs)
      OBVIOUS
    <3>5. collectCDP(d, ip) \in Seq(Obs)
      BY <3>2, <3>4, Zenon DEF collectCDP
    <3>6. collectLLDP(d, ip) \in Seq(Obs)
      BY <3>3, <3>4, Zenon DEF collectLLDP
    <3> QED BY <3>5, <3>6
  <2>4. Within(all, Z) \in Seq(Obs \cap Z)
    <3> HIDE DEF all, Z
    <3> QED BY <2>3, WithinType
  <2>5. Obs \cap Z \subseteq ObsOf(scope)
    BY DEF ObsOf
  <2> HIDE DEF all, Z, r
  <2>6. r.obs \in Seq(ObsOf(scope))
    BY <2>1, <2>4, <2>5
  <2> QED BY <2>6 DEF r
<1> QED BY <1>1, <1>2

\* A single observation as a sequence.
LEMMA OneObs ==
  ASSUME NEW scope, NEW o \in ObsOf(scope)
  PROVE  <<o>> \in Seq(ObsOf(scope))
OBVIOUS

\* Evidence changes nothing else of an observation.
LEMMA EvidenceType ==
  ASSUME NEW o \in Obs, NEW e \in Seq(Tag)
  PROVE  [o EXCEPT !.ev = e] \in Obs /\ [o EXCEPT !.ev = e].ip = o.ip /\ [o EXCEPT !.ev = e].val = o.val
BY DEF Obs

\* An observation that names ip.
Naming(ip, src, e) == [Observation(ip, src, {"hostname"}, {}) EXCEPT !.ev = e]

\* A name is an observation of its host.
LEMMA HostnameType ==
  ASSUME NEW ip \in Nat, NEW src \in Tag, NEW e \in Seq(Tag)
  PROVE  Naming(ip, src, e) \in Obs /\ Naming(ip, src, e).ip = ip
         /\ DOMAIN Naming(ip, src, e).val = {"hostname"} /\ Naming(ip, src, e).val["hostname"] = src
<1> DEFINE o == Observation(ip, src, {"hostname"}, {})
<1>1. {"hostname"} \in SUBSET Fields /\ {} \in SUBSET Nat
  BY DEF Fields
<1>2. o \in Obs /\ o.ip = ip
  BY <1>1, ObservationType
<1>3. o.val = [f \in {"hostname"} |-> src]
  BY DEF Observation
<1> HIDE DEF o
<1>4. [o EXCEPT !.ev = e] \in Obs /\ [o EXCEPT !.ev = e].ip = ip /\ [o EXCEPT !.ev = e].val = [f \in {"hostname"} |-> src]
  BY <1>2, <1>3, EvidenceType
<1> QED BY <1>4 DEF o, Naming

\* What NetBIOS and mDNS, or the one that answered, say of a host.
LEMMA NameObservationType ==
  ASSUME NEW ip \in Nat, NEW nb \in BOOLEAN, NEW md \in BOOLEAN
  PROVE  /\ nameObservation(ip, nb, md) \in Obs /\ nameObservation(ip, nb, md).ip = ip
         /\ DOMAIN nameObservation(ip, nb, md).val = {"hostname"}
         /\ nameObservation(ip, nb, md).val["hostname"] = IF nb THEN <<"netbios">> ELSE <<"mdns">>
<1> DEFINE src == <<IF nb THEN "netbios" ELSE "mdns">>
           e == (IF nb THEN <<<<"netbios">>>> ELSE <<>>) \o (IF md THEN <<<<"mdns">>>> ELSE <<>>)
<1>1. <<"netbios">> \in Tag /\ <<"mdns">> \in Tag
  <2>1. "netbios" \in Source /\ "mdns" \in Source
    BY DEF Source
  <2> QED BY <2>1, TagType
<1>2. src \in Tag /\ src = IF nb THEN <<"netbios">> ELSE <<"mdns">>
  BY <1>1
<1>3. e \in Seq(Tag)
  <2> DEFINE p == IF nb THEN <<<<"netbios">>>> ELSE <<>>
             q == IF md THEN <<<<"mdns">>>> ELSE <<>>
  <2>1. p \in Seq(Tag)
    BY <1>1
  <2>2. q \in Seq(Tag)
    BY <1>1
  <2> HIDE DEF p, q
  <2>3. p \o q \in Seq(Tag)
    BY <2>1, <2>2
  <2> QED BY <2>3 DEF p, q
<1>4. nameObservation(ip, nb, md) = Naming(ip, src, e)
  BY DEF nameObservation, Naming
<1> DEFINE o == Naming(ip, src, e)
<1> HIDE DEF src, e
<1>6. o \in Obs /\ o.ip = ip /\ DOMAIN o.val = {"hostname"} /\ o.val["hostname"] = src
  <2>1. src \in Tag
    BY <1>2
  <2> QED BY <1>3, <2>1, HostnameType
<1> HIDE DEF o
<1>7. nameObservation(ip, nb, md) = o
  BY <1>4 DEF o
<1> QED BY <1>2, <1>6, <1>7

\* What the PTR record says of a host.
LEMMA DNSObservationType ==
  ASSUME NEW ip \in Nat, NEW ok \in BOOLEAN
  PROVE  /\ dnsObservation(ip, ok) \in Obs /\ dnsObservation(ip, ok).ip = ip
         /\ DOMAIN dnsObservation(ip, ok).val = {"hostname"} /\ dnsObservation(ip, ok).val["hostname"] = <<"dns">>
<1>1. <<"dns">> \in Tag /\ <<"dns", ok>> \in Tag
  <2>1. "dns" \in Source
    BY DEF Source
  <2> QED BY <2>1, TagType
<1> DEFINE e == <<<<"dns", ok>>>>
           src == <<"dns">>
<1>2. e \in Seq(Tag)
  BY <1>1
<1>3. dnsObservation(ip, ok) = Naming(ip, src, e)
  BY DEF dnsObservation, Naming
<1> DEFINE o == Naming(ip, src, e)
<1> HIDE DEF src, e
<1>4. o \in Obs /\ o.ip = ip /\ DOMAIN o.val = {"hostname"} /\ o.val["hostname"] = src
  <2>1. src \in Tag
    BY <1>1 DEF src
  <2> QED BY <1>2, <2>1, HostnameType
<1> HIDE DEF o
<1>5. dnsObservation(ip, ok) = o
  BY <1>3 DEF o
<1> QED BY <1>4, <1>5 DEF src

\* name_lookup and dns_lookup report addresses in scope.
LEMMA NamesType ==
  ASSUME NEW t \in Target, NEW scope \in SUBSET IPs, NEW p \in BOOLEAN, NEW q \in BOOLEAN
  PROVE  /\ nameLookup(t, scope, p, q).obs \in Seq(ObsOf(scope))
         /\ dnsLookup(t, scope, p, q).obs \in Seq(ObsOf(scope))
<1>1. TargetIP(t) \in Nat
  BY TargetIs
<1>2. TargetIP(t) \in scope => /\ <<nameObservation(TargetIP(t), p, q)>> \in Seq(ObsOf(scope))
                               /\ <<dnsObservation(TargetIP(t), q)>> \in Seq(ObsOf(scope))
  <2> SUFFICES ASSUME TargetIP(t) \in scope
               PROVE  /\ <<nameObservation(TargetIP(t), p, q)>> \in Seq(ObsOf(scope))
                      /\ <<dnsObservation(TargetIP(t), q)>> \in Seq(ObsOf(scope))
    OBVIOUS
  <2>1. nameObservation(TargetIP(t), p, q) \in ObsOf(scope)
    BY <1>1, NameObservationType DEF ObsOf
  <2>2. dnsObservation(TargetIP(t), q) \in ObsOf(scope)
    BY <1>1, DNSObservationType DEF ObsOf
  <2> QED BY <2>1, <2>2, OneObs
<1>3. <<>> \in Seq(ObsOf(scope))
  OBVIOUS
<1>4. nameLookup(t, scope, p, q).obs \in Seq(ObsOf(scope))
  BY <1>2, <1>3 DEF nameLookup
<1>5. dnsLookup(t, scope, p, q).obs \in Seq(ObsOf(scope))
  BY <1>2, <1>3 DEF dnsLookup
<1> QED BY <1>4, <1>5

\* dhcp_leases reports addresses of the targets.
LEMMA DHCPType ==
  ASSUME NEW x, IsWorld(x)
  PROVE  discoverDHCP(x, x.targets).obs \in Seq(ObsOf(x.allowed))
<1> DEFINE r == discoverDHCP(x, x.targets)
           all == parseLeases(x.leases)
           S == scopeFromTargets(x.targets)
           Z == {q \in ToSet(all) : q.ip \in S}
           rows == Within(all, Z)
           src == <<"dhcp">>
<1>1. CASE x.leases.file # "ok"
  <2>1. r.obs = <<>>
    BY <1>1 DEF discoverDHCP
  <2> QED BY <2>1
<1>2. CASE x.leases.file = "ok"
  <2>1. r.obs = [i \in DOMAIN rows |-> Observation(rows[i].ip, src, rows[i].fields, {})]
    BY <1>2 DEF discoverDHCP
  <2>2. \A s \in Seq(Lease) : parseDnsmasqLeases(s) \in Seq(Lease)
    <3> SUFFICES ASSUME NEW s \in Seq(Lease) PROVE parseDnsmasqLeases(s) \in Seq(Lease)
      OBVIOUS
    <3>1. PICK G \in [0..Len(s) -> Seq(Lease)] : G[Len(s)] = parseDnsmasqLeases(s)
      BY PutLeaseTrace
    <3>2. Len(s) \in 0..Len(s)
      OBVIOUS
    <3> QED BY <3>1, <3>2, Zenon
  <2>3. all \in Seq(Lease)
    <3> DEFINE s == x.leases.rows
               Y == {q \in ToSet(s) : q.active}
    <3>1. s \in Seq(Lease)
      BY DEF IsWorld
    <3> HIDE DEF Y
    <3>2. Within(s, Y) \in Seq(Lease \cap Y)
      BY <3>1, WithinType
    <3>3. Within(s, Y) \in Seq(Lease)
      BY <3>2
    <3>4. parseDnsmasqLeases(s) \in Seq(Lease) /\ parseDnsmasqLeases(Within(s, Y)) \in Seq(Lease)
      BY <2>2, <3>1, <3>3
    <3> QED BY <3>4 DEF parseLeases, parseISCLeases, Y
  <2>4. rows \in Seq(Lease \cap Z)
    <3> HIDE DEF all, Z
    <3> QED BY <2>3, WithinType
  <2>5. src \in Tag
    <3>1. "dhcp" \in Source
      BY DEF Source
    <3> QED BY <3>1, TagType
  <2>6. ASSUME NEW q \in Lease \cap Z PROVE Observation(q.ip, src, q.fields, {}) \in ObsOf(x.allowed)
    <3>1. q.ip \in Nat /\ q.fields \in SUBSET Fields /\ {} \in SUBSET Nat
      BY DEF Lease
    <3>2. q.ip \in x.allowed
      BY DEF IsWorld
    <3> HIDE DEF src
    <3> QED BY <2>5, <3>1, <3>2, ObservationType DEF ObsOf
  <2> HIDE DEF r, rows, Z, src
  <2>7. r.obs \in [1..Len(rows) -> ObsOf(x.allowed)]
    BY <2>1, <2>4, <2>6
  <2>8. r.obs \in Seq(ObsOf(x.allowed))
    BY <2>4, <2>7, MapType
  <2> QED BY <2>8 DEF r
<1> QED BY <1>1, <1>2

\* What a pass has gathered, with what a target adds.
LEMMA GatherType ==
  ASSUME NEW X, NEW kind, NEW got \in Seq(X), NEW obs \in Seq(X)
  PROVE  Gather(kind, got, obs) \in Seq(X)
<1>0. PICK G : G \in AddTraces(X, got, obs)
  BY AddFirstTrace
<1>1. G \in [0..Len(obs) -> Seq(X)] /\ G[Len(obs)] = FoldLeft(addFirst, got, obs)
  BY <1>0 DEF AddTraces
<1>2. Len(obs) \in 0..Len(obs)
  OBVIOUS
<1>3. FoldLeft(addFirst, got, obs) \in Seq(X)
  BY <1>1, <1>2, Zenon
<1>4. got \o obs \in Seq(X)
  OBVIOUS
<1> QED BY <1>3, <1>4 DEF Gather

\* Whatever a query answers, it is about addresses in scope.
LEMMA AnswerType ==
  ASSUME w \in Worlds, NEW kind \in Labels, NEW t \in Target, NEW lost \in SUBSET {FALSE},
         NEW a \in Answer(kind, t, lost)
  PROVE  a.obs \in Seq(ObsOf(w.allowed))
<1>1. IsWorld(w) /\ w.allowed \in SUBSET IPs
  BY WorldsAssumption DEF IsWorld
<1>2. kind \in {"snmp_inventory", "arp_table", "lldp_cdp", "name_lookup", "dns_lookup"}
  BY DEF Labels, Passes
<1>3. CASE kind = "snmp_inventory"
  <2>1. a = discoverInventory(w, t, w.allowed)
    BY <1>3 DEF Answer, Scope
  <2> QED BY <1>1, <2>1, InventoryType
<1>4. CASE kind = "arp_table"
  <2>1. a = discoverARP(w, t, w.allowed)
    BY <1>4 DEF Answer, Scope
  <2> QED BY <1>1, <2>1, ARPType
<1>5. CASE kind = "lldp_cdp"
  <2>1. a = discoverNeighbors(w, t, w.allowed)
    BY <1>5 DEF Answer, Scope
  <2> QED BY <1>1, <2>1, NeighborsType
<1>6. CASE kind = "name_lookup"
  <2>1. PICK nb \in {t.ips \subseteq w.netbios} \cup lost, md \in {t.ips \subseteq w.mdns} \cup lost :
           a = nameLookup(t, w.allowed, nb, md)
    BY <1>6 DEF Answer, Scope
  <2>2. nb \in BOOLEAN /\ md \in BOOLEAN
    OBVIOUS
  <2> QED BY <1>1, <2>1, <2>2, NamesType
<1>7. CASE kind = "dns_lookup"
  <2>1. PICK ptr \in {t.ips \subseteq w.ptr} \cup lost, ok \in {t.ips \subseteq w.forward} \cup lost :
           a = dnsLookup(t, w.allowed, ptr, ok)
    BY <1>7 DEF Answer, Scope
  <2>2. ptr \in BOOLEAN /\ ok \in BOOLEAN
    OBVIOUS
  <2> QED BY <1>1, <2>1, <2>2, NamesType
<1> QED BY <1>2, <1>3, <1>4, <1>5, <1>6, <1>7

\* The job and the network of a scan.
LEMMA WorldIs ==
  ASSUME w \in Worlds
  PROVE  /\ IsWorld(w) /\ w.targets \in Seq(Target) /\ w.targets # <<>> /\ w.allowed \in SUBSET IPs
         /\ w.allowed \subseteq Nat /\ scopeFromTargets(w.targets) \subseteq w.allowed
  BY WorldsAssumption, ScanAssumption DEF IsWorld

\* The egress sets split the targets; there is at least one.
LEMMA SetsType ==
  ASSUME w \in Worlds
  PROVE  /\ Len(Sets) \in Nat \ {0}
         /\ \A k \in 1..Len(Sets) : scopeFromTargets(Sets[k].targets) \subseteq w.allowed
<1> DEFINE ts == w.targets
           e == w.egress
           R == {ts[i] : i \in 1..Len(ts)}
           near == {t \in ToSet(ts) : classifyAdjacency(t, e.net) = "local"}
           local == Within(ts, near)
           other == Within(ts, ToSet(ts) \ near)
           Set(s, pinned) == IF s = <<>> THEN <<>> ELSE <<[targets |-> s, pinned |-> pinned]>>
           S == [targets : Seq(R), pinned : BOOLEAN]
<1>1. ts \in Seq(Target) /\ ts # <<>> /\ Len(ts) \in Nat
  BY WorldIs
<1>2. ts \in Seq(R) /\ 1 \in 1..Len(ts) /\ DOMAIN ts = 1..Len(ts)
  <2>1. ts \in [1..Len(ts) -> R]
    BY <1>1
  <2>2. ts \in Seq(R)
    <3> HIDE DEF R
    <3> QED BY <1>1, <2>1, FunctionIsSeq
  <2>3. 1 \in 1..Len(ts)
    BY <1>1
  <2> QED BY <1>1, <2>2, <2>3
<1>3. ASSUME NEW s \in Seq(R), NEW p \in BOOLEAN
      PROVE  Set(s, p) \in Seq(S) /\ (s # <<>> => Set(s, p) # <<>>) /\ Len(Set(s, p)) \in Nat
  <2> HIDE DEF R
  <2>1. [targets |-> s, pinned |-> p] \in S
    OBVIOUS
  <2> HIDE DEF S
  <2> QED BY <2>1
<1>4. local \in Seq(R) /\ other \in Seq(R)
  <2> DEFINE far == ToSet(ts) \ near
  <2> HIDE DEF near, far, R
  <2>1. Within(ts, near) \in Seq(R \cap near)
    BY <1>2, WithinType
  <2>2. Within(ts, far) \in Seq(R \cap far)
    BY <1>2, WithinType
  <2>3. Within(ts, near) \in Seq(R)
    BY <2>1
  <2>4. Within(ts, far) \in Seq(R)
    BY <2>2
  <2> QED BY <2>3, <2>4 DEF far
<1>5. local # <<>> \/ other # <<>>
  <2> DEFINE far == ToSet(ts) \ near
  <2>1. ts[1] \in near \/ ts[1] \in far
    BY <1>2 DEF ToSet
  <2> HIDE DEF near, far, R
  <2>2. ts[1] \in near => Within(ts, near) # <<>>
    BY <1>2, WithinSome
  <2>3. ts[1] \in far => Within(ts, far) # <<>>
    BY <1>2, WithinSome
  <2> QED BY <2>1, <2>2, <2>3 DEF far
<1> DEFINE a == Set(local, TRUE)
           b == Set(other, FALSE)
<1>6. /\ Set(ts, FALSE) \in Seq(S) /\ Set(ts, FALSE) # <<>>
      /\ Set(ts, TRUE) \in Seq(S) /\ Set(ts, TRUE) # <<>>
      /\ a \in Seq(S) /\ b \in Seq(S) /\ (a # <<>> \/ b # <<>>)
  <2> HIDE DEF R, S, Set, local, other
  <2>1. TRUE \in BOOLEAN /\ FALSE \in BOOLEAN
    OBVIOUS
  <2> QED BY <1>1, <1>2, <1>3, <1>4, <1>5, <2>1
<1>7. a \o b \in Seq(S) /\ a \o b # <<>>
  <2> HIDE DEF a, b, S
  <2>1. a \o b \in Seq(S) /\ Len(a \o b) = Len(a) + Len(b) /\ Len(a) \in Nat /\ Len(b) \in Nat
    BY <1>6
  <2>2. Len(a) # 0 \/ Len(b) # 0
    BY <1>6
  <2>3. Len(a \o b) # 0
    BY <2>1, <2>2
  <2> QED BY <2>1, <2>3
<1>8. Sets = Set(ts, FALSE) \/ Sets = Set(ts, TRUE) \/ Sets = a \o b
  BY DEF Sets, planEgress
<1>9. Sets \in Seq(S) /\ Sets # <<>>
  <2> HIDE DEF a, b, S, Set
  <2> QED BY <1>6, <1>7, <1>8
<1>10. Len(Sets) \in Nat \ {0} /\ \A k \in 1..Len(Sets) : Sets[k] \in S
  <2> HIDE DEF S
  <2> QED BY <1>9
<1>11. ASSUME NEW k \in 1..Len(Sets) PROVE scopeFromTargets(Sets[k].targets) \subseteq w.allowed
  <2>1. Sets[k].targets \in Seq(R)
    <3> HIDE DEF R
    <3> QED BY <1>10
  <2> DEFINE q == Sets[k].targets
  <2>2. \A i \in DOMAIN q : q[i] \in R
    <3> HIDE DEF R, q
    <3> QED BY <2>1 DEF q
  <2> HIDE DEF q
  <2>3. scopeFromTargets(q) \subseteq scopeFromTargets(ts)
    BY <1>2, <2>2 DEF scopeFromTargets
  <2> QED BY <2>3, WorldIs DEF q
<1> QED BY <1>10, <1>11

\* The hosts to enrich are addresses of the allowlist, each once.
LEMMA HostsType ==
  ASSUME w \in Worlds, NEW m \in Seq(ObsOf(w.allowed))
  PROVE  unionHosts(observedIPs(m), hostTargets(w.targets)) \in Distinct(w.allowed)
<1> DEFINE I == w.allowed
           ts == w.targets
           hs == Within(ts, {t \in ToSet(ts) : t.kind = "host"})
           H == hostTargets(ts)
           O == observedIPs(m)
           R == {t \in Target : t.ips \subseteq I}
<1>1. O \in Seq(I)
  <2>1. O \in [1..Len(m) -> I]
    <3>1. \A i \in 1..Len(m) : m[i] \in ObsOf(I)
      OBVIOUS
    <3> QED BY <3>1 DEF observedIPs, ObsOf
  <2>2. Len(m) \in Nat
    OBVIOUS
  <2> QED BY <2>1, <2>2, FunctionIsSeq
<1>2. ts \in Seq(R)
  <2>1. ts \in Seq(Target) /\ Len(ts) \in Nat /\ scopeFromTargets(ts) \subseteq I
    BY WorldIs
  <2>2. \A i \in 1..Len(ts) : ts[i] \in Target /\ ts[i].ips \subseteq I
    BY <2>1 DEF scopeFromTargets
  <2>3. ts \in [1..Len(ts) -> R]
    BY <2>1, <2>2
  <2> HIDE DEF R
  <2> QED BY <2>1, <2>3, FunctionIsSeq
<1>3. hs \in Seq(R)
  <2> DEFINE Z == {t \in ToSet(ts) : t.kind = "host"}
  <2> HIDE DEF R, Z
  <2>1. Within(ts, Z) \in Seq(R \cap Z)
    BY <1>2, WithinType
  <2>2. Within(ts, Z) \in Seq(R)
    BY <2>1
  <2> QED BY <2>2 DEF Z
<1>4. H \in Seq(I)
  <2>1. H = [i \in DOMAIN hs |-> TargetIP(hs[i])]
    BY DEF hostTargets
  <2>2. \A t \in R : TargetIP(t) \in I
    BY TargetIs
  <2> HIDE DEF hs, R, H
  <2>3. H \in [1..Len(hs) -> I]
    BY <1>3, <2>1, <2>2
  <2> QED BY <1>3, <2>3, MapType
<1> HIDE DEF H, O
<1>5. O \o H \in Seq(I)
  BY <1>1, <1>4
<1> DEFINE s == O \o H
<1> HIDE DEF s
<1>6. PICK G \in [0..Len(s) -> Distinct(I)] : G[Len(s)] = FoldLeft(addHost, <<>>, s)
  BY <1>5, AddHostTrace DEF s
<1>7. Len(s) \in 0..Len(s)
  BY <1>5 DEF s
<1>8. FoldLeft(addHost, <<>>, s) \in Distinct(I)
  BY <1>6, <1>7, Zenon
<1> QED BY <1>8, Zenon DEF unionHosts, s, O, H

\* There is a slot for every host.
LEMMA HostSlots ==
  ASSUME w \in Worlds, NEW hs \in Distinct(w.allowed)
  PROVE  /\ Len(hs) \in Nat /\ DOMAIN hs = 1..Len(hs) /\ Len(hs) <= Cardinality(IPs) /\ Cardinality(IPs) \in Nat
         /\ \A i \in 1..Len(hs) : /\ i \in Slots /\ i # 0 /\ hs[i] \in w.allowed /\ hs[i] \in IPs /\ hs[i] \in Nat
                                     /\ HostTarget(hs[i]) \in Target /\ TargetIP(HostTarget(hs[i])) = hs[i]
<1>1. w.allowed \in SUBSET IPs /\ IPs \subseteq Nat
  BY WorldIs, ScanAssumption
<1>2. hs \in Seq(w.allowed) /\ IsInjective(hs)
  BY DEF Distinct
<1>3. Len(hs) \in Nat /\ DOMAIN hs = 1..Len(hs) /\ \A i \in 1..Len(hs) : hs[i] \in w.allowed
  BY <1>2
<1>4. Cardinality(IPs) \in Nat /\ IsFiniteSet(IPs)
  BY ScanAssumption, FS_CardinalityType
<1>5. Len(hs) <= Cardinality(IPs)
  <2>1. hs \in [1..Len(hs) -> IPs]
    <3>1. \A i \in 1..Len(hs) : hs[i] \in IPs
      BY <1>1, <1>3
    <3>2. hs \in [1..Len(hs) -> w.allowed]
      BY <1>2
    <3> QED BY <3>1, <3>2
  <2>2. hs \in Injection(1..Len(hs), IPs)
    BY <1>2, <2>1 DEF Injection, IsInjective
  <2>3. Cardinality(1..Len(hs)) <= Cardinality(IPs)
    BY <1>4, <2>2, FS_Injection
  <2>4. Cardinality(1..Len(hs)) = Len(hs)
    <3>1. 1 \in Int /\ Len(hs) \in Int /\ Len(hs) >= 0
      BY <1>3
    <3>2. Cardinality(1..Len(hs)) = IF 1 > Len(hs) THEN 0 ELSE Len(hs) - 1 + 1
      BY <3>1, FS_Interval
    <3> QED BY <3>1, <3>2
  <2> QED BY <2>3, <2>4
<1>6. ASSUME NEW i \in 1..Len(hs)
      PROVE  /\ i \in Slots /\ i # 0 /\ hs[i] \in w.allowed /\ hs[i] \in IPs /\ hs[i] \in Nat
             /\ HostTarget(hs[i]) \in Target /\ TargetIP(HostTarget(hs[i])) = hs[i]
  <2>1. i \in Slots /\ i # 0
    BY <1>3, <1>4, <1>5 DEF Slots
  <2>2. hs[i] \in w.allowed /\ hs[i] \in IPs /\ hs[i] \in Nat
    BY <1>1, <1>3
  <2>3. HostTarget(hs[i]) \in Target
    BY <2>2 DEF Target
  <2>4. TargetIP(HostTarget(hs[i])) = hs[i]
    BY <2>3, TargetIs
  <2> QED BY <2>1, <2>2, <2>3, <2>4
<1> QED BY <1>3, <1>4, <1>5, <1>6

-----------------------------------------------------------------------------
(* What a query answers, whole or with parts lost                          *)

Hosts == 1..Len(hosts)

\* How far the worker of host i is, 6 when it has finished, and what it holds while the context
\* holds: what the passes before yielded, the neighbours merged by address.
At(i) == IF wk[i].pc = "done" THEN 6 ELSE wk[i].pass
Asked(h) == IF SpeaksSNMP(h)
            THEN PassClaims("snmp_inventory", h) \o PassClaims("arp_table", h)
                   \o mergeObservations(PassClaims("lldp_cdp", h)) ELSE <<>>
SoFar(h, p) ==
  CASE p = 1 -> <<>>
    [] p = 2 -> PassClaims("snmp_inventory", h)
    [] p = 3 -> PassClaims("snmp_inventory", h) \o PassClaims("arp_table", h)
    [] p = 4 -> Asked(h)
    [] p = 5 -> Asked(h) \o PassClaims("name_lookup", h)
    [] p = 6 -> Asked(h) \o PassClaims("name_lookup", h) \o PassClaims("dns_lookup", h)

\* The hosts a pass counts as not responding.
Missed(l, h) ==
  CASE l = "snmp_inventory" -> w.v2c /\ ~SpeaksSNMP(h)
    [] l = "arp_table" -> SpeaksSNMP(h) /\ "arp" \in w.snmp[h].unread
    [] l = "lldp_cdp"  -> SpeaksSNMP(h) /\ {"cdp", "lldp"} \subseteq w.snmp[h].unread
    [] l = "name_lookup" -> h \notin w.netbios \cup w.mdns
    [] l = "dns_lookup"  -> h \notin w.ptr

\* The claim c supports field f of o; a NetBIOS name that was lost leaves the mDNS one.
Backs(c, o, f) ==
  /\ c.ip = o.ip /\ f \in DOMAIN c.val
  /\ c.val[f] = o.val[f] \/ (f = "hostname" /\ o.ip \in w.mdns /\ o.val[f] = <<"mdns">>)

\* The labels in the order of the passes.
LEMMA LabelIs ==
  /\ Labels = {"snmp_inventory", "arp_table", "lldp_cdp", "name_lookup", "dns_lookup"}
  /\ Passes[1] = "snmp_inventory" /\ Passes[2] = "arp_table" /\ Passes[3] = "lldp_cdp"
  /\ Passes[4] = "name_lookup" /\ Passes[5] = "dns_lookup" /\ Len(Passes) = 5
<1>1. DOMAIN Passes = 1..5
  BY DEF Passes
<1>2. \A i : i \in 1..5 <=> i = 1 \/ i = 2 \/ i = 3 \/ i = 4 \/ i = 5
  OBVIOUS
<1> QED BY <1>1, <1>2 DEF Labels, Passes

\* While the context holds a query has one answer.
LEMMA OneAnswer ==
  ASSUME NEW kind \in Labels, NEW t
  PROVE  \E b : Answer(kind, t, {}) = {b}
<1>1. CASE kind = "snmp_inventory"
  BY <1>1 DEF Answer
<1>2. CASE kind = "arp_table"
  BY <1>2 DEF Answer
<1>3. CASE kind = "lldp_cdp"
  BY <1>3 DEF Answer
<1>4. CASE kind = "name_lookup"
  <2>1. Answer(kind, t, {}) = {nameLookup(t, Scope, nb, md) : nb \in {t.ips \subseteq w.netbios} \cup {},
                                                              md \in {t.ips \subseteq w.mdns} \cup {}}
    BY <1>4 DEF Answer
  <2>2. Answer(kind, t, {}) = {nameLookup(t, Scope, t.ips \subseteq w.netbios, t.ips \subseteq w.mdns)}
    BY <2>1
  <2> QED BY <2>2
<1>5. CASE kind = "dns_lookup"
  <2>1. Answer(kind, t, {}) = {dnsLookup(t, Scope, ptr, ok) : ptr \in {t.ips \subseteq w.ptr} \cup {},
                                                              ok \in {t.ips \subseteq w.forward} \cup {}}
    BY <1>5 DEF Answer
  <2>2. Answer(kind, t, {}) = {dnsLookup(t, Scope, t.ips \subseteq w.ptr, t.ips \subseteq w.forward)}
    BY <2>1
  <2> QED BY <2>2
<1> QED BY <1>1, <1>2, <1>3, <1>4, <1>5, LabelIs

\* What a pass yields while the context holds.
LEMMA ClaimsAre ==
  ASSUME NEW kind \in Labels, NEW h, NEW a \in Answer(kind, HostTarget(h), {})
  PROVE  PassClaims(kind, h) = IF kind \in SNMPs /\ ~w.v2c THEN <<>> ELSE Gather(kind, <<>>, a.obs)
<1>1. PICK b : Answer(kind, HostTarget(h), {}) = {b}
  BY OneAnswer
<1>2. (CHOOSE x \in Answer(kind, HostTarget(h), {}) : TRUE) = a
  BY <1>1
<1> QED BY <1>2, Zenon DEF PassClaims

\* The claims of a pass are about allowed addresses.
LEMMA ClaimsType ==
  ASSUME w \in Worlds, NEW kind \in Labels, NEW h \in w.allowed
  PROVE  PassClaims(kind, h) \in Seq(ObsOf(w.allowed))
<1>1. HostTarget(h) \in Target
  BY WorldIs DEF Target
<1>2. PICK a : a \in Answer(kind, HostTarget(h), {})
  BY OneAnswer
<1>3. {} \in SUBSET {FALSE}
  OBVIOUS
<1>4. a.obs \in Seq(ObsOf(w.allowed))
  BY <1>1, <1>2, <1>3, AnswerType
<1> DEFINE A == Seq(ObsOf(w.allowed))
<1>5. <<>> \in A
  OBVIOUS
<1>6. Gather(kind, <<>>, a.obs) \in A
  BY <1>4, <1>5, GatherType
<1> HIDE DEF A
<1>7. PassClaims(kind, h) \in A
  BY <1>2, <1>5, <1>6, ClaimsAre
<1> QED BY <1>7 DEF A

\* A pass reports an error exactly for the hosts it counts.
LEMMA MissedIs ==
  ASSUME w \in Worlds, NEW kind \in Labels, NEW h \in w.allowed, NEW a \in Answer(kind, HostTarget(h), {}),
         kind \in SNMPs => w.v2c, kind \in {"arp_table", "lldp_cdp"} => SpeaksSNMP(h)
  PROVE  a.err <=> Missed(kind, h)
<1> DEFINE t == HostTarget(h)
<1>1. t \in Target /\ TargetIP(t) = h /\ t.kind = "host" /\ t.ips = {h}
  <2>1. t \in Target
    BY WorldIs DEF Target
  <2> QED BY <2>1, TargetIs DEF HostTarget
<1>2. Answers(w, t) <=> h \in DOMAIN w.snmp
  BY <1>1 DEF Answers
<1> HIDE DEF t
<1>3. CASE kind = "snmp_inventory"
  <2>1. a = discoverInventory(w, t, w.allowed)
    BY <1>3 DEF Answer, Scope, t
  <2>2. a.err <=> ~ Answers(w, t)
    BY <2>1 DEF discoverInventory
  <2> QED BY <1>2, <1>3, <2>2 DEF Missed, SpeaksSNMP, SNMPs
<1>4. CASE kind = "arp_table"
  <2>1. a = discoverARP(w, t, w.allowed)
    BY <1>4 DEF Answer, Scope, t
  <2>2. a.err <=> ~ Answers(w, t) \/ "arp" \in w.snmp[h].unread
    BY <1>1, <2>1 DEF discoverARP
  <2>3. Missed(kind, h) <=> SpeaksSNMP(h) /\ "arp" \in w.snmp[h].unread
    BY <1>4 DEF Missed
  <2> QED BY <1>2, <1>4, <2>2, <2>3 DEF SpeaksSNMP
<1>5. CASE kind = "lldp_cdp"
  <2>1. a = discoverNeighbors(w, t, w.allowed)
    BY <1>5 DEF Answer, Scope, t
  <2>2. Answers(w, t)
    BY <1>2, <1>5 DEF SpeaksSNMP
  <2> DEFINE all == collectCDP(w.snmp[h], h) \o collectLLDP(w.snmp[h], h)
             e == {"cdp", "lldp"} \subseteq w.snmp[h].unread
  <2>3. a = [[obs |-> all, err |-> e] EXCEPT !.obs = Within(@, {o \in ToSet(@) : o.ip \in w.allowed})]
    BY <1>1, <2>1, <2>2 DEF discoverNeighbors, walkNeighbors
  <2> HIDE DEF all, e
  <2>4. a.err = e
    BY <2>3
  <2>5. Missed(kind, h) <=> SpeaksSNMP(h) /\ {"cdp", "lldp"} \subseteq w.snmp[h].unread
    BY <1>5 DEF Missed
  <2> QED BY <1>5, <2>4, <2>5 DEF e
<1>6. CASE kind = "name_lookup"
  <2>1. a \in {nameLookup(t, w.allowed, nb, md) : nb \in {t.ips \subseteq w.netbios} \cup {}, md \in {t.ips \subseteq w.mdns} \cup {}}
    BY <1>6 DEF Answer, Scope, t
  <2>2. a = nameLookup(t, w.allowed, t.ips \subseteq w.netbios, t.ips \subseteq w.mdns)
    BY <2>1
  <2>3. a.err <=> ~ (t.ips \subseteq w.netbios \/ t.ips \subseteq w.mdns)
    BY <1>1, <2>2 DEF nameLookup
  <2>4. Missed(kind, h) <=> h \notin w.netbios \cup w.mdns
    BY <1>6 DEF Missed
  <2> QED BY <1>1, <2>3, <2>4
<1>7. CASE kind = "dns_lookup"
  <2>1. a \in {dnsLookup(t, w.allowed, ptr, ok) : ptr \in {t.ips \subseteq w.ptr} \cup {}, ok \in {t.ips \subseteq w.forward} \cup {}}
    BY <1>7 DEF Answer, Scope, t
  <2>2. a = dnsLookup(t, w.allowed, t.ips \subseteq w.ptr, t.ips \subseteq w.forward)
    BY <2>1
  <2>3. a.err <=> ~ (t.ips \subseteq w.ptr)
    BY <1>1, <2>2 DEF dnsLookup
  <2>4. Missed(kind, h) <=> h \notin w.ptr
    BY <1>7 DEF Missed
  <2> QED BY <1>1, <2>3, <2>4
<1> QED BY <1>3, <1>4, <1>5, <1>6, <1>7, LabelIs

\* The pass over an empty sequence finds nothing, over any other it keeps the first.
LEMMA FirstKept ==
  ASSUME NEW X, NEW s \in Seq(X)
  PROVE  FoldLeft(addFirst, <<>>, s) = <<>> <=> s = <<>>
<1> DEFINE n == Len(s)
           A == Seq(X)
<1>0. <<>> \in A /\ n \in Nat /\ (n = 0 <=> s = <<>>) /\ \A i \in 1..n : s[i] \in X
  OBVIOUS
<1>1. PICK G : G \in AddTraces(X, <<>>, s)
  BY <1>0, AddFirstTrace
<1>2. /\ G \in [0..n -> A] /\ G[0] = <<>> /\ G[n] = FoldLeft(addFirst, <<>>, s)
      /\ \A i \in 1..n : G[i] = addFirst(G[i - 1], s[i])
  BY <1>1 DEF AddTraces
<1> DEFINE T == {i \in 0..n : i # 0 => G[i] # <<>>}
<1>3. 0 \in T
  BY <1>0
<1>4. ASSUME NEW i \in 0..(n - 1), i \in T PROVE i + 1 \in T
  <2>1. i + 1 \in 1..n /\ i + 1 \in 0..n /\ i \in 0..n /\ (i + 1) - 1 = i
    BY <1>0
  <2>2. G[i + 1] = addFirst(G[i], s[i + 1]) /\ G[i] \in A /\ s[i + 1] \in X
    BY <1>0, <1>2, <2>1
  <2>3. Append(G[i], s[i + 1]) # <<>>
    BY <2>2, AppendSome
  <2>4. G[i] = <<>> => G[i + 1] = Append(G[i], s[i + 1])
    BY <2>2 DEF addFirst
  <2>5. G[i + 1] = G[i] \/ G[i + 1] = Append(G[i], s[i + 1])
    BY <2>2 DEF addFirst
  <2>6. G[i + 1] # <<>>
    BY <2>3, <2>4, <2>5
  <2> QED BY <2>1, <2>6
<1>5. 0..n \subseteq T
  <2> HIDE DEF T
  <2> QED BY <1>0, <1>3, <1>4, UpTo
<1>6. n \in 0..n
  BY <1>0
<1> QED BY <1>0, <1>2, <1>5, <1>6

\* A device that answers has at least its own address to report.
LEMMA InventorySome ==
  ASSUME w \in Worlds, w.v2c, NEW h \in w.allowed, NEW lost,
         NEW a \in Answer("snmp_inventory", HostTarget(h), lost)
  PROVE  Gather("snmp_inventory", <<>>, a.obs) = <<>> <=> ~ SpeaksSNMP(h)
<1> DEFINE t == HostTarget(h)
<1>1. t \in Target /\ TargetIP(t) = h /\ t.kind = "host"
  <2>1. t \in Target
    BY WorldIs DEF Target
  <2> QED BY <2>1, TargetIs DEF HostTarget
<1>2. a = discoverInventory(w, t, w.allowed)
  BY DEF Answer, Scope
<1>3. a.obs \in Seq(ObsOf(w.allowed))
  BY <1>1, <1>2, InventoryType, WorldIs
<1>4. Gather("snmp_inventory", <<>>, a.obs) = FoldLeft(addFirst, <<>>, a.obs)
  BY DEF Gather
<1>5. Gather("snmp_inventory", <<>>, a.obs) = <<>> <=> a.obs = <<>>
  BY <1>3, <1>4, FirstKept
<1> HIDE DEF t
<1>6. CASE ~ SpeaksSNMP(h)
  <2>1. ~ Answers(w, t)
    BY <1>1, <1>6 DEF Answers, SpeaksSNMP
  <2>2. a.obs = <<>>
    BY <1>2, <2>1 DEF discoverInventory
  <2> QED BY <1>5, <1>6, <2>2
<1>7. CASE SpeaksSNMP(h)
  <2>1. Answers(w, t)
    BY <1>1, <1>7 DEF Answers, SpeaksSNMP
  <2> DEFINE inv == walkInventory(w.snmp[TargetIP(t)])
             own == Within(inv.addrs, {q \in ToSet(inv.addrs) : q[1] \in w.allowed})
             back == IF TargetIP(t) \in w.allowed THEN <<<<TargetIP(t), 0>>>> ELSE <<>>
             rows == IF own # <<>> THEN own ELSE back
  <2>2. a.obs = [i \in DOMAIN rows |-> inventoryObservation(inv, rows[i], TargetIP(t))]
    BY <1>2, <2>1 DEF discoverInventory
  <2>3. DOMAIN a.obs = DOMAIN rows
    BY <2>2
  <2>4. back # <<>> /\ DOMAIN back = 1..1
    BY <1>1
  <2>5. own # <<>> => DOMAIN own # {}
    <3> DEFINE Z == {q \in ToSet(inv.addrs) : q[1] \in w.allowed}
    <3>1. inv.addrs \in Seq(Nat \X Nat)
      BY <1>1, <2>1, DeviceAt, WorldIs DEF walkInventory, IsDevice
    <3> HIDE DEF inv, Z
    <3>2. Within(inv.addrs, Z) \in Seq((Nat \X Nat) \cap Z)
      BY <3>1, WithinType
    <3> DEFINE V == (Nat \X Nat) \cap Z
               r == Within(inv.addrs, Z)
    <3> HIDE DEF V, r
    <3>3. r \in Seq(V)
      BY <3>2 DEF V, r
    <3>4. r # <<>> => DOMAIN r # {}
      <4>1. DOMAIN r = 1..Len(r) /\ Len(r) \in Nat /\ (Len(r) = 0 => r = <<>>)
        BY <3>3
      <4>2. Len(r) # 0 => 1 \in 1..Len(r)
        BY <4>1
      <4> QED BY <4>1, <4>2, Zenon
    <3> QED BY <3>4 DEF r, Z
  <2>6. DOMAIN rows # {}
    <3> HIDE DEF own
    <3>1. CASE own # <<>>
      BY <2>5, <3>1
    <3>2. CASE own = <<>>
      BY <2>4, <3>2
    <3> QED BY <3>1, <3>2
  <2>7. DOMAIN <<>> = {}
    OBVIOUS
  <2>8. a.obs # <<>>
    <3> HIDE DEF rows
    <3> QED BY <2>3, <2>6, <2>7
  <2> QED BY <1>5, <1>7, <2>8
<1> QED BY <1>6, <1>7

\* What a pass yields, with answers lost or not, is supported by the claims of the pass.
LEMMA LostBacked ==
  ASSUME w \in Worlds, NEW kind \in Labels, NEW h \in w.allowed, NEW lost \in SUBSET {FALSE},
         NEW a \in Answer(kind, HostTarget(h), lost), kind \in SNMPs => w.v2c
  PROVE  \A o \in ToSet(Gather(kind, <<>>, a.obs)) : \A f \in DOMAIN o.val :
            \E c \in ToSet(PassClaims(kind, h)) : Backs(c, o, f)
<1> DEFINE t == HostTarget(h)
<1>1. t \in Target /\ TargetIP(t) = h /\ t.kind = "host" /\ t.ips = {h} /\ h \in Nat
  <2>1. t \in Target
    BY WorldIs DEF Target
  <2> QED BY <2>1, TargetIs, WorldIs DEF HostTarget
<1>2. PICK b : Answer(kind, t, {}) = {b}
  BY OneAnswer
<1>3. PassClaims(kind, h) = Gather(kind, <<>>, b.obs)
  BY <1>2, ClaimsAre
<1>4. CASE a = b
  BY <1>3, <1>4 DEF Backs
<1>5. CASE kind \in SNMPs
  <2>1. a = b
    BY <1>2, <1>5 DEF Answer, SNMPs
  <2> QED BY <1>4, <2>1
<1> HIDE DEF t
<1>6. CASE kind = "name_lookup"
  <2>1. PICK nb \in {t.ips \subseteq w.netbios} \cup lost, md \in {t.ips \subseteq w.mdns} \cup lost :
           a = nameLookup(t, w.allowed, nb, md)
    BY <1>6 DEF Answer, Scope, t
  <2>2. b \in {nameLookup(t, w.allowed, p, q) : p \in {t.ips \subseteq w.netbios} \cup {}, q \in {t.ips \subseteq w.mdns} \cup {}}
    BY <1>2, <1>6 DEF Answer, Scope
  <2> DEFINE NB == h \in w.netbios
             MD == h \in w.mdns
  <2>3. b = nameLookup(t, w.allowed, NB, MD)
    BY <1>1, <2>2
  <2>4. nb \in BOOLEAN /\ md \in BOOLEAN /\ (nb => NB) /\ (md => MD) /\ NB \in BOOLEAN /\ MD \in BOOLEAN
    <3>1. nb = (t.ips \subseteq w.netbios) \/ nb = FALSE
      BY Zenon
    <3>2. md = (t.ips \subseteq w.mdns) \/ md = FALSE
      BY Zenon
    <3>3. (t.ips \subseteq w.netbios) = NB /\ (t.ips \subseteq w.mdns) = MD
      BY <1>1
    <3>4. nb \in BOOLEAN /\ (nb => NB) /\ NB \in BOOLEAN
      BY <3>1, <3>3
    <3>5. md \in BOOLEAN /\ (md => MD) /\ MD \in BOOLEAN
      BY <3>2, <3>3
    <3> QED BY <3>4, <3>5
  <2> SUFFICES ASSUME NEW o \in ToSet(Gather(kind, <<>>, a.obs)), NEW f \in DOMAIN o.val
               PROVE  \E c \in ToSet(PassClaims(kind, h)) : Backs(c, o, f)
    OBVIOUS
  <2>5. ~ (kind \in {"snmp_inventory", "arp_table"})
    BY <1>6
  <2>6. a.obs \in Seq(Obs) /\ b.obs \in Seq(Obs)
    <3>1. a.obs \in Seq(ObsOf(w.allowed)) /\ b.obs \in Seq(ObsOf(w.allowed))
      BY <1>1, <2>1, <2>3, <2>4, NamesType, WorldIs
    <3> QED BY <3>1, ObsOfNat
  <2>7. Gather(kind, <<>>, a.obs) = a.obs /\ Gather(kind, <<>>, b.obs) = b.obs
    BY <2>5, <2>6 DEF Gather
  <2>8. nb \/ md
    <3> SUFFICES ASSUME ~ (nb \/ md) PROVE FALSE
      OBVIOUS
    <3>1. a.obs = <<>>
      BY <1>1, <2>1 DEF nameLookup
    <3> QED BY <2>7, <3>1 DEF ToSet
  <2>9. a.obs = <<nameObservation(h, nb, md)>>
    BY <1>1, <2>1, <2>8 DEF nameLookup
  <2>10. b.obs = <<nameObservation(h, NB, MD)>>
    BY <1>1, <2>3, <2>4, <2>8 DEF nameLookup
  <2> DEFINE c == nameObservation(h, NB, MD)
  <2>11. o = nameObservation(h, nb, md)
    BY <2>7, <2>9 DEF ToSet
  <2>12. c \in ToSet(PassClaims(kind, h))
    <3>1. PassClaims(kind, h) = <<c>>
      BY <1>3, <2>7, <2>10
    <3> HIDE DEF c
    <3> QED BY <3>1 DEF ToSet
  <2>13. /\ o.ip = h /\ DOMAIN o.val = {"hostname"} /\ o.val["hostname"] = IF nb THEN <<"netbios">> ELSE <<"mdns">>
    BY <1>1, <2>4, <2>11, NameObservationType
  <2>14. /\ c.ip = h /\ DOMAIN c.val = {"hostname"} /\ c.val["hostname"] = IF NB THEN <<"netbios">> ELSE <<"mdns">>
    <3>1. NB \in BOOLEAN /\ MD \in BOOLEAN /\ h \in Nat
      BY <1>1
    <3> HIDE DEF NB, MD
    <3> QED BY <3>1, NameObservationType
  <2> HIDE DEF c
  <2>15. f = "hostname"
    BY <2>13
  <2>16. Backs(c, o, f)
    BY <2>4, <2>8, <2>13, <2>14, <2>15 DEF Backs
  <2> QED BY <2>12, <2>16
<1>7. CASE kind = "dns_lookup"
  <2>1. PICK ptr \in {t.ips \subseteq w.ptr} \cup lost, ok \in {t.ips \subseteq w.forward} \cup lost :
           a = dnsLookup(t, w.allowed, ptr, ok)
    BY <1>7 DEF Answer, Scope, t
  <2>2. b \in {dnsLookup(t, w.allowed, p, q) : p \in {t.ips \subseteq w.ptr} \cup {}, q \in {t.ips \subseteq w.forward} \cup {}}
    BY <1>2, <1>7 DEF Answer, Scope
  <2> DEFINE PT == h \in w.ptr
             OK == h \in w.forward
  <2>3. b = dnsLookup(t, w.allowed, PT, OK)
    BY <1>1, <2>2
  <2>4. ptr \in BOOLEAN /\ ok \in BOOLEAN /\ (ptr => PT) /\ PT \in BOOLEAN /\ OK \in BOOLEAN
    <3>1. ptr = (t.ips \subseteq w.ptr) \/ ptr = FALSE
      BY Zenon
    <3>2. ok = (t.ips \subseteq w.forward) \/ ok = FALSE
      BY Zenon
    <3>3. (t.ips \subseteq w.ptr) = PT /\ (t.ips \subseteq w.forward) = OK
      BY <1>1
    <3>4. ptr \in BOOLEAN /\ (ptr => PT) /\ PT \in BOOLEAN
      BY <3>1, <3>3
    <3>5. ok \in BOOLEAN /\ OK \in BOOLEAN
      BY <3>2, <3>3
    <3> QED BY <3>4, <3>5
  <2> SUFFICES ASSUME NEW o \in ToSet(Gather(kind, <<>>, a.obs)), NEW f \in DOMAIN o.val
               PROVE  \E c \in ToSet(PassClaims(kind, h)) : Backs(c, o, f)
    OBVIOUS
  <2>5. ~ (kind \in {"snmp_inventory", "arp_table"})
    BY <1>7
  <2>6. a.obs \in Seq(Obs) /\ b.obs \in Seq(Obs)
    <3>1. a.obs \in Seq(ObsOf(w.allowed)) /\ b.obs \in Seq(ObsOf(w.allowed))
      BY <1>1, <2>1, <2>3, <2>4, NamesType, WorldIs
    <3> QED BY <3>1, ObsOfNat
  <2>7. Gather(kind, <<>>, a.obs) = a.obs /\ Gather(kind, <<>>, b.obs) = b.obs
    BY <2>5, <2>6 DEF Gather
  <2>8. ptr
    <3> SUFFICES ASSUME ~ ptr PROVE FALSE
      OBVIOUS
    <3>1. a.obs = <<>>
      BY <1>1, <2>1 DEF dnsLookup
    <3> QED BY <2>7, <3>1 DEF ToSet
  <2>9. a.obs = <<dnsObservation(h, ok)>>
    BY <1>1, <2>1, <2>8 DEF dnsLookup
  <2>10. b.obs = <<dnsObservation(h, OK)>>
    BY <1>1, <2>3, <2>4, <2>8 DEF dnsLookup
  <2> DEFINE c == dnsObservation(h, OK)
  <2>11. o = dnsObservation(h, ok)
    BY <2>7, <2>9 DEF ToSet
  <2>12. c \in ToSet(PassClaims(kind, h))
    <3>1. PassClaims(kind, h) = <<c>>
      BY <1>3, <2>7, <2>10
    <3> HIDE DEF c
    <3> QED BY <3>1 DEF ToSet
  <2>13. o.ip = h /\ DOMAIN o.val = {"hostname"} /\ o.val["hostname"] = <<"dns">>
    BY <1>1, <2>4, <2>11, DNSObservationType
  <2>14. c.ip = h /\ DOMAIN c.val = {"hostname"} /\ c.val["hostname"] = <<"dns">>
    BY <1>1, <2>4, DNSObservationType
  <2> HIDE DEF c
  <2>16. Backs(c, o, f)
    BY <2>13, <2>14 DEF Backs
  <2> QED BY <2>12, <2>16
<1> QED BY <1>5, <1>6, <1>7, LabelIs DEF SNMPs

-----------------------------------------------------------------------------
(* What a job in progress holds                                            *)

Worker(I) == [pc : {"idle", "check", "query", "done"}, pass : 1..5, at : Nat,
              got : Seq(ObsOf(I)), errs : Nat, out : Seq(ObsOf(I))]

\* What the state holds, every observation about an address of the allowlist.
ScanTyped ==
  /\ w \in Worlds /\ cancelled \in BOOLEAN
  /\ nm \in [set : 1..Len(Sets), alive : SUBSET w.allowed, obs : Seq(ObsOf(w.allowed)), notes : {nm.notes}]
  /\ hosts \in Distinct(w.allowed)
  /\ wk \in [Slots -> Worker(w.allowed)]
  /\ dhcp \in [pc : {"idle", "run", "done"}, obs : Seq(ObsOf(w.allowed))]
  /\ count \in [Labels -> Nat]

\* A worker between two targets of a pass.
Between(r) == r.at = 1 /\ r.got = <<>> /\ r.errs = 0

\* The worker r of the host i.
HostWorker(r, i) ==
  /\ i < next <=> r.pc # "idle"
  /\ Between(r)
  /\ r.pc = "idle" => r.pass = 1 /\ r.out = <<>>
  /\ r.pc \in {"check", "query"} /\ r.pass \in {2, 3} => SpeaksSNMP(hosts[i])
  /\ r.pc = "query" /\ r.pass <= 3 => w.v2c

\* Which parts of the state are at work at which stage.
ScanShaped ==
  /\ Combined \/ hosts = <<>>
  /\ wk[0].pc # "idle" => w.type \in Labels
  /\ wk[0].at \in 1..Len(w.targets)
  /\ next \in 1..(Len(hosts) + 1)
  /\ \A i \in Slots \ {0} : HostWorker(wk[i], i)
  /\ stage = "acquire" => next <= Len(hosts)
  /\ stage \in {"alive", "services"} => hosts = <<>> /\ dhcp.pc = "idle"
  /\ stage \in {"leases", "solo"} => ~ Combined
  /\ dhcp.obs = IF dhcp.pc = "done" THEN discoverDHCP(w, w.targets).obs ELSE <<>>
  /\ Combined /\ stage \in {"join", "done"} /\ ~ cancelled => next > Len(hosts)
  /\ Combined /\ stage = "done" => dhcp.pc = "done"

ScanInv == ScanTyped /\ ScanShaped

\* The slots of the pool.
LEMMA SlotsAre == 0 \in Slots /\ Slots \subseteq Nat /\ \A hs \in Distinct(w.allowed) : w \in Worlds => 1..Len(hs) \subseteq Slots \ {0}
<1>1. Cardinality(IPs) \in Nat
  BY ScanAssumption, FS_CardinalityType
<1>2. 0 \in Slots /\ Slots \subseteq Nat
  BY <1>1 DEF Slots
<1> QED BY <1>2, HostSlots

\* ScanInv holds before the first step.
LEMMA ScanStarts == Init => ScanInv
<1> SUFFICES ASSUME Init PROVE ScanInv
  OBVIOUS
<1>1. /\ w \in Worlds /\ cancelled = FALSE
      /\ stage = IF w.type \in Labels THEN "solo" ELSE IF w.type = "dhcp_leases" THEN "leases" ELSE "alive"
      /\ nm = [set |-> 1, alive |-> {}, obs |-> <<>>, notes |-> planNotices(w.egress, w.targets)]
      /\ hosts = <<>> /\ next = 1
      /\ wk = [i \in Slots |-> IF i = 0 /\ w.type \in Labels THEN [Idle EXCEPT !.pc = "check"] ELSE Idle]
      /\ dhcp = [pc |-> "idle", obs |-> <<>>] /\ count = [l \in Labels |-> 0]
  BY Zenon DEF Init
<1> DEFINE I == w.allowed
           A == Seq(ObsOf(I))
<1>2. <<>> \in A
  OBVIOUS
<1>3. Len(Sets) \in Nat \ {0} /\ 1 \in 1..Len(Sets)
  BY <1>1, SetsType
<1> HIDE DEF A
<1>4. Idle \in Worker(I) /\ [Idle EXCEPT !.pc = "check"] \in Worker(I)
  <2>1. Worker(I) = [pc : {"idle", "check", "query", "done"}, pass : 1..5, at : Nat, got : A, errs : Nat, out : A]
    BY DEF Worker, A
  <2>2. 1 \in 1..5 /\ 1 \in Nat /\ 0 \in Nat
    OBVIOUS
  <2> QED BY <1>2, <2>1, <2>2 DEF Idle
<1>5. wk \in [Slots -> Worker(I)]
  BY <1>1, <1>4
<1>6. nm \in [set : 1..Len(Sets), alive : SUBSET I, obs : A, notes : {nm.notes}]
  BY <1>1, <1>2, <1>3
<1>7. dhcp \in [pc : {"idle", "run", "done"}, obs : A]
  BY <1>1, <1>2
<1>8. hosts \in Distinct(I)
  BY <1>1 DEF Distinct, IsInjective
<1>9. ScanTyped
  BY <1>1, <1>5, <1>6, <1>7, <1>8 DEF ScanTyped, A
<1>10. \A i \in Slots : Between(wk[i]) /\ wk[i].pass = 1 /\ wk[i].out = <<>>
  BY <1>1 DEF Idle, Between
<1>11. \A i \in Slots \ {0} : wk[i].pc = "idle" /\ ~ (i < next)
  BY <1>1, SlotsAre DEF Idle
<1>12. \A i \in Slots \ {0} : HostWorker(wk[i], i)
  BY <1>10, <1>11 DEF HostWorker
<1>13. (wk[0].pc # "idle" => w.type \in Labels) /\ wk[0].at = 1
  BY <1>1, SlotsAre DEF Idle
<1>14. 1 \in 1..Len(w.targets)
  BY <1>1, WorldIs
<1>15. Len(hosts) = 0 /\ next \in 1..(Len(hosts) + 1)
  BY <1>1
<1>16. stage \in {"solo", "leases", "alive"} /\ (stage \in {"leases", "solo"} => ~ Combined)
  BY <1>1, LabelIs DEF Combined
<1>17. dhcp.pc = "idle" /\ dhcp.obs = <<>>
  BY <1>1
<1>18. ScanShaped
  BY <1>1, <1>12, <1>13, <1>14, <1>15, <1>16, <1>17 DEF ScanShaped
<1> QED BY <1>9, <1>18 DEF ScanInv

\* What depends on the job and the network alone does not change.
LEMMA SameWorld ==
  ASSUME w' = w
  PROVE  /\ Sets' = Sets /\ Combined' = Combined /\ Scope' = Scope
         /\ \A h : SpeaksSNMP(h)' = SpeaksSNMP(h)
<1>1. Sets' = Sets /\ Combined' = Combined /\ Scope' = Scope
  BY DEF Sets, Combined, Scope
<1>2. \A h : SpeaksSNMP(h)' = SpeaksSNMP(h)
  BY DEF SpeaksSNMP
<1> QED BY <1>1, <1>2

\* A step that leaves the loop alone leaves the shape of the workers.
LEMMA SameWorkers ==
  ASSUME w' = w, hosts' = hosts, next' = next
  PROVE  \A r, i : HostWorker(r, i) => HostWorker(r, i)'
<1> SUFFICES ASSUME NEW r, NEW i, HostWorker(r, i) PROVE HostWorker(r, i)'
  OBVIOUS
<1>1. SpeaksSNMP(hosts[i])' = SpeaksSNMP(hosts[i])
  BY SameWorld
<1>2. Between(r)' = Between(r)
  OBVIOUS
<1> QED BY <1>1, <1>2 DEF HostWorker

\* Steps that touch no finding: the context or nmap ends, the loop goes on or ends.
LEMMA QuietKeepsScan ==
  ASSUME ScanInv, Cancel \/ NextHost \/ Collect \/ NmapFails \/ UNCHANGED vars
  PROVE  ScanInv'
<1>1. UNCHANGED <<w, nm, hosts, next, wk, dhcp, count>>
  BY Zenon DEF Cancel, NextHost, Collect, NmapFails, vars
<1>2. /\ Sets' = Sets /\ Combined' = Combined
  BY <1>1, SameWorld
<1>3. cancelled' \in BOOLEAN /\ (cancelled => cancelled')
  BY DEF ScanInv, ScanTyped, Cancel, NextHost, Collect, NmapFails, vars
<1>4. ScanTyped'
  BY <1>1, <1>2, <1>3 DEF ScanInv, ScanTyped
<1>5. \A i \in Slots \ {0} : HostWorker(wk[i], i)'
  <2>1. \A i \in Slots \ {0} : HostWorker(wk[i], i)
    BY DEF ScanInv, ScanShaped
  <2>2. \A r, i : HostWorker(r, i) => HostWorker(r, i)'
    BY <1>1, SameWorkers
  <2> QED BY <1>1, <2>1, <2>2
<1>6. next \in Nat /\ Len(hosts) \in Nat
  BY DEF ScanInv, ScanTyped, ScanShaped, Distinct
<1>7. /\ stage' = "acquire" => next <= Len(hosts)
      /\ Combined /\ stage' \in {"join", "done"} /\ ~ cancelled' => next > Len(hosts)
      /\ Combined /\ stage' = "done" => dhcp.pc = "done"
      /\ stage' \in {"alive", "services"} => hosts = <<>> /\ dhcp.pc = "idle"
      /\ stage' \in {"leases", "solo"} => ~ Combined
  <2>1. CASE Cancel \/ UNCHANGED vars
    <3>1. stage' = stage
      BY <2>1 DEF Cancel, vars
    <3> QED BY <1>3, <3>1 DEF ScanInv, ScanShaped
  <2>2. CASE NextHost
    <3>1. stage' = (IF cancelled \/ next > Len(hosts) THEN "join" ELSE "acquire") /\ cancelled' = cancelled
      BY <2>2 DEF NextHost
    <3> QED BY <1>6, <3>1
  <2>3. CASE Collect
    <3>1. stage = "join" /\ stage' = "done" /\ dhcp.pc = "done" /\ cancelled' = cancelled
      BY <2>3 DEF Collect
    <3> QED BY <3>1 DEF ScanInv, ScanShaped
  <2>4. CASE NmapFails
    BY <2>4 DEF NmapFails
  <2> QED BY <2>1, <2>2, <2>3, <2>4
<1>8. ScanShaped'
  <2>1. /\ Combined \/ hosts = <<>>
        /\ wk[0].pc # "idle" => w.type \in Labels
        /\ wk[0].at \in 1..Len(w.targets)
        /\ next \in 1..(Len(hosts) + 1)
        /\ dhcp.obs = IF dhcp.pc = "done" THEN discoverDHCP(w, w.targets).obs ELSE <<>>
    BY DEF ScanInv, ScanShaped
  <2>2. Labels' = Labels
    BY DEF Labels
  <2> QED BY <1>1, <1>2, <1>5, <1>7, <2>1, <2>2 DEF ScanShaped
<1> QED BY <1>4, <1>8 DEF ScanInv

\* The DHCP read ends.
LEMMA LeasesKeepScan ==
  ASSUME ScanInv, ReadLeases
  PROVE  ScanInv'
<1>1. /\ UNCHANGED <<w, cancelled, nm, hosts, next, wk, count>>
      /\ dhcp.pc = "run" \/ stage = "leases"
      /\ dhcp' = [pc |-> "done", obs |-> discoverDHCP(w, w.targets).obs]
      /\ stage' = IF stage = "leases" THEN "done" ELSE stage
  BY Zenon DEF ReadLeases
<1>2. /\ Sets' = Sets /\ Combined' = Combined /\ Labels' = Labels
  BY <1>1, SameWorld DEF Labels
<1>3. ScanTyped'
  <2>1. discoverDHCP(w, w.targets).obs \in Seq(ObsOf(w.allowed))
    BY DHCPType, WorldIs DEF ScanInv, ScanTyped
  <2> DEFINE A == Seq(ObsOf(w.allowed))
             d == discoverDHCP(w, w.targets).obs
  <2> HIDE DEF A, d
  <2>2. d \in A /\ dhcp' = [pc |-> "done", obs |-> d]
    BY <1>1, <2>1 DEF A, d
  <2>3. dhcp' \in [pc : {"idle", "run", "done"}, obs : A]
    BY <2>2
  <2> QED BY <1>1, <1>2, <2>3 DEF ScanInv, ScanTyped, A
<1>4. \A i \in Slots \ {0} : HostWorker(wk[i], i)'
  <2>1. \A i \in Slots \ {0} : HostWorker(wk[i], i)
    BY DEF ScanInv, ScanShaped
  <2>2. \A r, i : HostWorker(r, i) => HostWorker(r, i)'
    BY <1>1, SameWorkers
  <2> QED BY <1>1, <2>1, <2>2
<1>5. dhcp'.pc = "done" /\ dhcp'.obs = discoverDHCP(w, w.targets).obs
  BY <1>1
<1>6. /\ stage' = "acquire" => next <= Len(hosts)
      /\ Combined /\ stage' \in {"join", "done"} /\ ~ cancelled' => next > Len(hosts)
      /\ ~ (stage' \in {"alive", "services"})
      /\ stage' \in {"leases", "solo"} => ~ Combined
  BY <1>1 DEF ScanInv, ScanShaped
<1>7. ScanShaped'
  <2>1. /\ Combined \/ hosts = <<>>
        /\ wk[0].pc # "idle" => w.type \in Labels
        /\ wk[0].at \in 1..Len(w.targets)
        /\ next \in 1..(Len(hosts) + 1)
    BY DEF ScanInv, ScanShaped
  <2> QED BY <1>1, <1>2, <1>4, <1>5, <1>6, <2>1 DEF ScanShaped
<1> QED BY <1>3, <1>7 DEF ScanInv

\* A worker starts.
LEMMA StartKeepsScan ==
  ASSUME ScanInv, StartWorker
  PROVE  ScanInv'
<1>1. /\ UNCHANGED <<w, cancelled, nm, hosts, dhcp, count>>
      /\ stage = "acquire" /\ stage' = "loop" /\ next' = next + 1
      /\ wk' = [wk EXCEPT ![next].pc = "check"]
  BY Zenon DEF StartWorker
<1>2. /\ Sets' = Sets /\ Combined' = Combined /\ Labels' = Labels
  BY <1>1, SameWorld DEF Labels
<1>3. /\ w \in Worlds /\ hosts \in Distinct(w.allowed) /\ wk \in [Slots -> Worker(w.allowed)]
      /\ Len(hosts) \in Nat /\ next \in 1..(Len(hosts) + 1) /\ next <= Len(hosts)
  BY <1>1 DEF ScanInv, ScanTyped, ScanShaped, Distinct
<1>4. next \in Slots \ {0} /\ next' \in 1..(Len(hosts) + 1) /\ Slots \subseteq Nat /\ 0 \in Slots
  <2>1. next \in 1..Len(hosts)
    BY <1>3
  <2> QED BY <1>1, <1>3, <2>1, SlotsAre
<1>5. \A i \in Slots \ {0} : HostWorker(wk[i], i)
  BY DEF ScanInv, ScanShaped
<1>6. wk[next].pc = "idle"
  <2>1. HostWorker(wk[next], next) /\ next \in Nat
    BY <1>4, <1>5
  <2>2. next < next <=> wk[next].pc # "idle"
    BY <2>1 DEF HostWorker
  <2> QED BY <2>1, <2>2
<1>7. /\ wk' \in [Slots -> Worker(w.allowed)]
      /\ \A j \in Slots : j # next => wk'[j] = wk[j]
      /\ wk'[next] = [wk[next] EXCEPT !.pc = "check"]
  <2>1. wk[next] \in Worker(w.allowed)
    BY <1>3, <1>4
  <2>2. [wk[next] EXCEPT !.pc = "check"] \in Worker(w.allowed)
    BY <2>1 DEF Worker
  <2> QED BY <1>1, <1>3, <1>4, <2>2
<1>8. ScanTyped'
  BY <1>1, <1>2, <1>7 DEF ScanInv, ScanTyped
<1>9. ASSUME NEW i \in Slots \ {0} PROVE HostWorker(wk[i], i)'
  <2>1. HostWorker(wk[i], i) /\ i \in Nat /\ next \in Nat /\ SpeaksSNMP(hosts[i])' = SpeaksSNMP(hosts[i])
    BY <1>1, <1>3, <1>4, <1>5, SameWorld
  <2>2. CASE i # next
    <3>1. wk'[i] = wk[i] /\ (i < next' <=> i < next)
      BY <1>1, <1>7, <2>1, <2>2
    <3> QED BY <1>1, <2>1, <3>1 DEF HostWorker, Between
  <2>3. CASE i = next
    <3>1. wk[i] \in Worker(w.allowed)
      BY <1>3
    <3>2. i < next' /\ wk[i].pass = 1 /\ Between(wk[i])
      BY <1>1, <1>6, <2>1, <2>3 DEF HostWorker
    <3>3. wk'[i].pc = "check" /\ wk'[i].pass = 1 /\ Between(wk'[i])
      BY <1>7, <2>3, <3>1, <3>2 DEF Worker, Between
    <3> QED BY <3>2, <3>3 DEF HostWorker
  <2> QED BY <2>2, <2>3
<1>10. wk'[0] = wk[0]
  BY <1>4, <1>7
<1>11. ScanShaped'
  <2>1. /\ Combined \/ hosts = <<>>
        /\ wk[0].pc # "idle" => w.type \in Labels
        /\ wk[0].at \in 1..Len(w.targets)
        /\ dhcp.obs = IF dhcp.pc = "done" THEN discoverDHCP(w, w.targets).obs ELSE <<>>
    BY DEF ScanInv, ScanShaped
  <2> QED BY <1>1, <1>2, <1>4, <1>9, <1>10, <2>1 DEF ScanShaped
<1> QED BY <1>8, <1>11 DEF ScanInv

\* Observations of addresses in a smaller set.
LEMMA ObsWider ==
  ASSUME NEW I, NEW J \in SUBSET I, NEW s \in Seq(ObsOf(J))
  PROVE  s \in Seq(ObsOf(I))
<1>1. \A o \in ObsOf(J) : o \in ObsOf(I)
  BY DEF ObsOf
<1> DEFINE A == ObsOf(J)
           B == ObsOf(I)
<1> HIDE DEF A, B
<1>2. s \in Seq(A) /\ \A o \in A : o \in B
  BY <1>1 DEF A, B
<1>3. s \in Seq(B)
  BY <1>2
<1> QED BY <1>3 DEF B

\* A set that is finished, the last one or not.
LEMMA SetKeepsScan ==
  ASSUME ScanInv, stage \in {"alive", "services"}, NEW obs \in Seq(ObsOf(w.allowed)), NEW notes, SetDone(obs, notes)
  PROVE  ScanInv'
<1> DEFINE zero == IF obs = <<>> THEN zeroHostNotice(w.egress, Sets[nm.set]) ELSE <<>>
           all  == nm.obs \o obs
           last == nm.set = Len(Sets)
           hs   == unionHosts(observedIPs(mergeObservations(all)), hostTargets(w.targets))
           says == nm.notes \o zero \o notes
           set  == IF last THEN nm.set ELSE nm.set + 1
           I    == w.allowed
           A    == Seq(ObsOf(I))
<1>1. /\ nm' = [nm EXCEPT !.obs = all, !.notes = says, !.set = set, !.alive = {}]
      /\ IF last /\ Combined
         THEN /\ hosts' = hs /\ dhcp' = [dhcp EXCEPT !.pc = "run"]
              /\ stage' = IF hs = <<>> THEN "join" ELSE "loop"
         ELSE stage' = (IF last THEN "done" ELSE "alive") /\ UNCHANGED <<hosts, dhcp>>
      /\ UNCHANGED <<w, cancelled, next, wk, count>>
  BY Zenon DEF SetDone, Combined
<1>2. Sets' = Sets /\ Combined' = Combined /\ Labels' = Labels
  BY <1>1, SameWorld DEF Labels
<1>3. /\ w \in Worlds /\ hosts \in Distinct(I) /\ wk \in [Slots -> Worker(I)] /\ hosts = <<>> /\ dhcp.pc = "idle"
      /\ nm.set \in 1..Len(Sets) /\ nm.alive \in SUBSET I /\ nm.obs \in A
      /\ nm \in [set : 1..Len(Sets), alive : SUBSET I, obs : A, notes : {nm.notes}]
      /\ dhcp \in [pc : {"idle", "run", "done"}, obs : A]
  <2>1. nm \in [set : 1..Len(Sets), alive : SUBSET I, obs : A, notes : {nm.notes}]
    BY DEF ScanInv, ScanTyped
  <2>2. nm.set \in 1..Len(Sets) /\ nm.alive \in SUBSET I /\ nm.obs \in A
    <3> HIDE DEF A, I
    <3> QED BY <2>1
  <2> QED BY <2>1, <2>2 DEF ScanInv, ScanTyped, ScanShaped
<1>4. all \in A
  <2> DEFINE X == ObsOf(I)
  <2>1. nm.obs \in Seq(X) /\ obs \in Seq(X)
    BY <1>3
  <2> HIDE DEF X
  <2>2. nm.obs \o obs \in Seq(X)
    BY <2>1
  <2> QED BY <2>2 DEF X
<1>5. hs \in Distinct(I)
  <2>1. mergeObservations(all) \in A
    BY <1>4, Merged
  <2> QED BY <1>3, <2>1, HostsType
<1>6. set \in 1..Len(Sets)
  BY <1>3, SetsType
<1> HIDE DEF A, all, hs, says, set, zero
<1>7. nm' \in [set : 1..Len(Sets), alive : SUBSET I, obs : A, notes : {nm'.notes}]
  <2>1. nm' \in [set : {set}, alive : {{}}, obs : {all}, notes : {says}]
    BY <1>1, <1>3
  <2>2. nm'.notes = says
    BY <2>1
  <2>3. {} \in SUBSET I
    OBVIOUS
  <2> QED BY <1>4, <1>6, <2>1, <2>2, <2>3
<1>8. /\ hosts' \in Distinct(I) /\ (Combined \/ hosts' = <<>>) /\ dhcp' \in [pc : {"idle", "run", "done"}, obs : A]
      /\ dhcp'.obs = <<>> /\ dhcp'.pc # "done"
      /\ stage' \in {"alive", "services"} => hosts' = <<>> /\ dhcp'.pc = "idle"
      /\ stage' \in {"alive", "join", "loop", "done"} /\ (stage' = "done" => ~ Combined)
      /\ stage' = "join" => hosts' = <<>>
  <2>1. dhcp.obs = <<>>
    BY <1>3 DEF ScanInv, ScanShaped
  <2>2. CASE last /\ Combined
    <3>1. dhcp' = [dhcp EXCEPT !.pc = "run"] /\ hosts' = hs /\ stage' = IF hs = <<>> THEN "join" ELSE "loop"
      BY <1>1, <2>2
    <3>2. dhcp' \in [pc : {"run"}, obs : {<<>>}] /\ dhcp.obs \in A
      BY <1>3, <2>1, <3>1
    <3>3. dhcp' \in [pc : {"idle", "run", "done"}, obs : A]
      BY <2>1, <3>2
    <3> QED BY <1>3, <1>5, <2>2, <3>1, <3>2, <3>3
  <2>3. CASE ~ (last /\ Combined)
    <3>1. dhcp' = dhcp /\ hosts' = hosts /\ stage' = IF last THEN "done" ELSE "alive"
      BY <1>1, <2>3
    <3> QED BY <1>3, <2>1, <2>3, <3>1
  <2> QED BY <2>2, <2>3
<1>9. ScanTyped'
  BY <1>1, <1>2, <1>7, <1>8 DEF ScanInv, ScanTyped, A
<1>10. next = 1 /\ Len(hosts') \in Nat /\ next \in 1..(Len(hosts') + 1) /\ (hosts' = <<>> => Len(hosts') = 0)
  <2>1. Len(hosts') \in Nat /\ Len(<<>>) = 0
    BY <1>8 DEF Distinct
  <2>2. next = 1
    BY <1>3 DEF ScanInv, ScanShaped
  <2> QED BY <2>1, <2>2
<1>11. ASSUME NEW i \in Slots \ {0} PROVE HostWorker(wk[i], i)'
  <2>1. HostWorker(wk[i], i) /\ i \in Nat /\ i # 0
    BY SlotsAre DEF ScanInv, ScanShaped
  <2>2. wk[i].pc = "idle" /\ ~ (i < next)
    BY <1>10, <2>1 DEF HostWorker
  <2> QED BY <1>1, <2>1, <2>2 DEF HostWorker
<1>12. ScanShaped'
  <2>1. /\ wk[0].pc # "idle" => w.type \in Labels
        /\ wk[0].at \in 1..Len(w.targets)
    BY DEF ScanInv, ScanShaped
  <2>2. Combined /\ stage' \in {"join", "done"} /\ ~ cancelled => next > Len(hosts')
    BY <1>8, <1>10
  <2>3. dhcp'.obs = IF dhcp'.pc = "done" THEN discoverDHCP(w, w.targets).obs ELSE <<>>
    BY <1>8
  <2>4. stage' # "acquire" /\ ~ (stage' \in {"leases", "solo"}) /\ (Combined /\ stage' = "done" => dhcp'.pc = "done")
    BY <1>8
  <2> QED BY <1>1, <1>2, <1>8, <1>10, <1>11, <2>1, <2>2, <2>3, <2>4 DEF ScanShaped
<1> QED BY <1>9, <1>12 DEF ScanInv

\* The hosts an nmap run reports are hosts it was given.
LEMMA NmapIPs ==
  ASSUME NEW I, NEW ips \in SUBSET I, NEW r \in runNmap(ips)
  PROVE  r.hosts \in SUBSET I
<1>1. r.hosts \in {ips} \cup ((SUBSET ips) \ {{}})
  <2> DEFINE P == IF cancelled THEN {} ELSE {ips}
             Q == (SUBSET ips) \ {{}}
             R == {<<>>}
             S == {<<"nmap_partial">>}
  <2>1. r \in [hosts : P, notes : R] \cup [hosts : Q, notes : S]
    BY DEF runNmap
  <2>2. r.hosts \in P \cup Q
    <3> HIDE DEF P, Q, R, S
    <3> QED BY <2>1
  <2> QED BY <2>2
<1> QED BY <1>1

\* The two stages of nmap.
LEMMA NmapKeepsScan ==
  ASSUME ScanInv, HostDiscovery \/ ServiceScan
  PROVE  ScanInv'
<1> DEFINE I == w.allowed
           A == Seq(ObsOf(I))
           ips == Alive(w, Sets[nm.set])
<1>1. w \in Worlds /\ IsWorld(w) /\ I \in SUBSET IPs
  BY WorldIs DEF ScanInv, ScanTyped
<1>2. nm.set \in 1..Len(Sets) /\ nm.alive \in SUBSET I /\ nm \in [set : 1..Len(Sets), alive : SUBSET I, obs : A, notes : {nm.notes}]
  <2>1. nm \in [set : 1..Len(Sets), alive : SUBSET I, obs : A, notes : {nm.notes}]
    BY DEF ScanInv, ScanTyped
  <2> HIDE DEF I, A
  <2> QED BY <2>1
<1>3. ips \in SUBSET I
  <2>1. scopeFromTargets(Sets[nm.set].targets) \subseteq I
    BY <1>1, <1>2, SetsType
  <2> QED BY <2>1 DEF Alive
<1>4. \A J \in SUBSET I, k \in {1, 2} : parseNmapXML(w, J, k) \in A
  <2> SUFFICES ASSUME NEW J \in SUBSET I, NEW k \in {1, 2} PROVE parseNmapXML(w, J, k) \in A
    OBVIOUS
  <2>1. J \in SUBSET IPs
    BY <1>1
  <2>2. parseNmapXML(w, J, k) \in Seq(ObsOf(J))
    BY <1>1, <2>1, NmapType
  <2> QED BY <2>2, ObsWider
<1> HIDE DEF ips
<1>5. CASE HostDiscovery
  <2>1. PICK r \in runNmap(ips) :
           /\ stage = "alive"
           /\ IF w.type = "host_discovery" \/ r.hosts = {}
              THEN SetDone(parseNmapXML(w, r.hosts, 1), r.notes)
              ELSE /\ nm' = [nm EXCEPT !.alive = r.hosts, !.notes = @ \o r.notes]
                   /\ stage' = "services"
                   /\ UNCHANGED <<w, cancelled, hosts, next, wk, dhcp, whole, count>>
    BY <1>5, Zenon DEF HostDiscovery, ips
  <2>2. r.hosts \in SUBSET I
    BY <1>3, NmapIPs
  <2>3. CASE SetDone(parseNmapXML(w, r.hosts, 1), r.notes)
    <3>1. parseNmapXML(w, r.hosts, 1) \in A
      BY <1>4, <2>2
    <3> QED BY <2>1, <2>3, <3>1, SetKeepsScan
  <2>4. CASE /\ nm' = [nm EXCEPT !.alive = r.hosts, !.notes = @ \o r.notes] /\ stage' = "services"
             /\ UNCHANGED <<w, cancelled, hosts, next, wk, dhcp, whole, count>>
    <3>1. Sets' = Sets /\ Combined' = Combined /\ Labels' = Labels
      BY <2>4, SameWorld DEF Labels
    <3>2. nm' \in [set : 1..Len(Sets), alive : SUBSET I, obs : A, notes : {nm'.notes}]
      <4> DEFINE says == nm.notes \o r.notes
      <4> HIDE DEF says, A, I
      <4>1. nm' = [nm EXCEPT !.alive = r.hosts, !.notes = says]
        BY <2>4 DEF says
      <4>2. nm' \in [set : 1..Len(Sets), alive : SUBSET I, obs : A, notes : {says}]
        BY <1>2, <2>2, <4>1
      <4>3. nm'.notes = says
        BY <4>2
      <4> QED BY <4>2, <4>3
    <3>3. ScanTyped'
      BY <2>4, <3>1, <3>2 DEF ScanInv, ScanTyped
    <3>4. \A i \in Slots \ {0} : HostWorker(wk[i], i)'
      <4>1. \A i \in Slots \ {0} : HostWorker(wk[i], i)
        BY DEF ScanInv, ScanShaped
      <4>2. \A q, i : HostWorker(q, i) => HostWorker(q, i)'
        BY <2>4, SameWorkers
      <4> QED BY <2>4, <4>1, <4>2
    <3>5. ScanShaped'
      <4>1. /\ Combined \/ hosts = <<>>
            /\ wk[0].pc # "idle" => w.type \in Labels
            /\ wk[0].at \in 1..Len(w.targets)
            /\ next \in 1..(Len(hosts) + 1)
            /\ dhcp.obs = IF dhcp.pc = "done" THEN discoverDHCP(w, w.targets).obs ELSE <<>>
            /\ hosts = <<>> /\ dhcp.pc = "idle"
        BY <2>1 DEF ScanInv, ScanShaped
      <4> QED BY <2>4, <3>1, <3>4, <4>1 DEF ScanShaped
    <3> QED BY <3>3, <3>5 DEF ScanInv
  <2> QED BY <2>1, <2>3, <2>4
<1>6. CASE ServiceScan
  <2>1. PICK r \in runNmap(nm.alive) :
           stage = "services" /\ SetDone(parseNmapXML(w, nm.alive, 1) \o parseNmapXML(w, r.hosts, 2), r.notes)
    BY <1>6, Zenon DEF ServiceScan
  <2>2. r.hosts \in SUBSET I
    BY <1>2, NmapIPs
  <2> DEFINE a == parseNmapXML(w, nm.alive, 1)
             b == parseNmapXML(w, r.hosts, 2)
             X == ObsOf(I)
  <2>3. a \in Seq(X) /\ b \in Seq(X)
    BY <1>2, <1>4, <2>2
  <2> HIDE DEF a, b, X
  <2>4. a \o b \in Seq(X)
    BY <2>3
  <2>5. SetDone(a \o b, r.notes) /\ a \o b \in Seq(ObsOf(w.allowed))
    BY <2>1, <2>4 DEF a, b, X
  <2> QED BY <2>1, <2>5, SetKeepsScan
<1> QED BY <1>5, <1>6

-----------------------------------------------------------------------------
(* The workers                                                             *)

\* What a pass over one host adds to its worker, and the worker after it.
Yield(kind, a) == IF kind = "lldp_cdp" THEN mergeObservations(Gather(kind, <<>>, a.obs)) ELSE Gather(kind, <<>>, a.obs)
Advanced(r, obs) ==
  [pc   |-> IF NextPass(r.pass, obs) > 5 THEN "done" ELSE "check",
   pass |-> IF NextPass(r.pass, obs) > 5 THEN 1 ELSE NextPass(r.pass, obs),
   at |-> 1, got |-> <<>>, errs |-> 0, out |-> r.out \o obs]
Lost == IF cancelled THEN {FALSE} ELSE {}

\* The steps of the worker of host i: it starts a query, the pass fails as a whole, or it
\* ends with an answer.
EndsWith(i, obs, errs) ==
  /\ wk' = [wk EXCEPT ![i] = Advanced(wk[i], obs)]
  /\ count' = [count EXCEPT ![Passes[wk[i].pass]] = @ + errs]
Asks(i) ==
  /\ wk[i].pc = "check" /\ ~ cancelled /\ (Passes[wk[i].pass] \in SNMPs => w.v2c)
  /\ wk' = [wk EXCEPT ![i].pc = "query"] /\ count' = count
GivesUp(i) ==
  /\ wk[i].pc = "check" /\ (cancelled \/ (Passes[wk[i].pass] \in SNMPs /\ ~ w.v2c))
  /\ EndsWith(i, <<>>, 0)
Hears(i, a) ==
  /\ wk[i].pc = "query" /\ a \in Answer(Passes[wk[i].pass], HostTarget(hosts[i]), Lost)
  /\ EndsWith(i, Yield(Passes[wk[i].pass], a), IF a.err THEN 1 ELSE 0)

\* The worker of a host asks, gives up or hears an answer; nothing else.
LEMMA HostSteps ==
  ASSUME ScanInv, NEW i \in Slots \ {0}, CheckContext(i) \/ Query(i)
  PROVE  /\ i \in Hosts /\ UNCHANGED <<w, cancelled, nm, hosts, next, dhcp, stage>>
         /\ Asks(i) \/ GivesUp(i) \/ \E a : Hears(i, a)
<1>1. HostWorker(wk[i], i) /\ next \in 1..(Len(hosts) + 1) /\ wk[i] \in Worker(w.allowed) /\ i # 0
  BY DEF ScanInv, ScanShaped, ScanTyped
<1>2. i \in Hosts
  <2>1. wk[i].pc # "idle" /\ i \in Nat /\ Len(hosts) \in Nat
    <3>1. wk[i].pc # "idle"
      BY DEF CheckContext, Query
    <3>2. Len(hosts) \in Nat
      BY DEF ScanInv, ScanTyped, Distinct
    <3> QED BY <3>1, <3>2, SlotsAre
  <2> QED BY <1>1, <2>1 DEF HostWorker, Hosts
<1>3. Pass(i) = Passes[wk[i].pass] /\ Targets(i) = <<HostTarget(hosts[i])>> /\ wk[i].at = 1 /\ wk[i].got = <<>> /\ wk[i].errs = 0
  BY <1>1 DEF Pass, Targets, HostWorker, Between
<1>4. ASSUME NEW obs, NEW errs, EndPass(i, obs, errs)
      PROVE  EndsWith(i, obs, errs) /\ stage' = stage
  <2> DEFINE p == NextPass(wk[i].pass, obs)
             last == i = 0 \/ p > Len(Passes)
             o == wk[i].out \o obs
  <2>1. /\ wk' = [wk EXCEPT ![i] = [Idle EXCEPT !.out = o, !.pass = IF last THEN 1 ELSE p, !.pc = IF last THEN "done" ELSE "check"]]
        /\ count' = [count EXCEPT ![Pass(i)] = @ + errs]
        /\ stage' = IF i = 0 THEN "done" ELSE stage
    BY <1>4, Zenon DEF EndPass
  <2>2. last <=> p > 5
    BY <1>1, LabelIs
  <2> HIDE DEF p, o, last
  <2>3. [Idle EXCEPT !.out = o, !.pass = IF last THEN 1 ELSE p, !.pc = IF last THEN "done" ELSE "check"]
        = [pc |-> IF last THEN "done" ELSE "check", pass |-> IF last THEN 1 ELSE p,
           at |-> 1, got |-> <<>>, errs |-> 0, out |-> o]
    <3> DEFINE q == IF last THEN 1 ELSE p
               c == IF last THEN "done" ELSE "check"
    <3> HIDE DEF q, c
    <3>1. [Idle EXCEPT !.out = o, !.pass = q, !.pc = c] = [pc |-> c, pass |-> q, at |-> 1, got |-> <<>>, errs |-> 0, out |-> o]
      <4> DEFINE e == <<>>
                 J == [Idle EXCEPT !.out = o, !.pass = q, !.pc = c]
      <4>1. Idle = [pc |-> "idle", pass |-> 1, at |-> 1, got |-> e, errs |-> 0, out |-> e]
        BY DEF Idle
      <4> HIDE DEF e
      <4>2. J \in [pc : {c}, pass : {q}, at : {1}, got : {e}, errs : {0}, out : {o}]
        BY <4>1
      <4> HIDE DEF J
      <4>3. J = [pc |-> c, pass |-> q, at |-> 1, got |-> e, errs |-> 0, out |-> o]
        BY <4>2
      <4> QED BY <4>3 DEF e, J
    <3> QED BY <3>1, Zenon DEF q, c
  <2>4. Advanced(wk[i], obs) = [pc |-> IF last THEN "done" ELSE "check", pass |-> IF last THEN 1 ELSE p,
           at |-> 1, got |-> <<>>, errs |-> 0, out |-> o]
    BY <2>2 DEF Advanced, p, o
  <2> QED BY <1>1, <1>3, <2>1, <2>3, <2>4 DEF EndsWith
<1>5. ASSUME NEW why, PassFails(i, why) PROVE EndsWith(i, <<>>, 0) /\ stage' = stage
  BY <1>1, <1>4, <1>5 DEF PassFails
<1>6. CASE CheckContext(i)
  <2>1. /\ wk[i].pc = "check" /\ UNCHANGED <<w, cancelled, nm, hosts, next, dhcp>>
        /\ IF Pass(i) \in SNMPs /\ ~ w.v2c THEN PassFails(i, "version")
           ELSE IF cancelled THEN PassFails(i, "context")
           ELSE wk' = [wk EXCEPT ![i].pc = "query"] /\ UNCHANGED <<stage, whole, count>>
    BY <1>6, Zenon DEF CheckContext
  <2>2. CASE (Pass(i) \in SNMPs /\ ~ w.v2c) \/ cancelled
    <3>1. EndsWith(i, <<>>, 0) /\ stage' = stage
      BY <1>5, <2>1, <2>2
    <3>2. GivesUp(i)
      BY <1>3, <2>1, <2>2, <3>1 DEF GivesUp
    <3> QED BY <1>2, <2>1, <3>1, <3>2
  <2>3. CASE ~ ((Pass(i) \in SNMPs /\ ~ w.v2c) \/ cancelled)
    <3>1. wk' = [wk EXCEPT ![i].pc = "query"] /\ UNCHANGED <<stage, whole, count>>
      BY <2>1, <2>3
    <3>2. Asks(i)
      BY <1>3, <2>1, <2>3, <3>1 DEF Asks
    <3> QED BY <1>2, <2>1, <3>1, <3>2
  <2> QED BY <2>2, <2>3
<1>7. CASE Query(i)
  <2>1. Targets(i)[wk[i].at] = HostTarget(hosts[i]) /\ wk[i].at = Len(Targets(i))
    BY <1>3
  <2>2. PICK a \in Answer(Pass(i), Targets(i)[wk[i].at], IF cancelled THEN {FALSE} ELSE {}) :
          LET got  == Gather(Pass(i), wk[i].got, a.obs)
              errs == wk[i].errs + IF a.err THEN 1 ELSE 0
          IN  IF wk[i].at = Len(Targets(i))
              THEN EndPass(i, IF Pass(i) = "lldp_cdp" THEN mergeObservations(got) ELSE got, errs)
              ELSE /\ wk' = [wk EXCEPT ![i].pc = "check", ![i].at = @ + 1, ![i].got = got, ![i].errs = errs]
                   /\ UNCHANGED <<stage, count>>
    BY <1>7, Zenon DEF Query
  <2>3. wk[i].pc = "query" /\ UNCHANGED <<w, cancelled, nm, hosts, next, dhcp, whole>>
    BY <1>7, Zenon DEF Query
  <2>4. a \in Answer(Passes[wk[i].pass], HostTarget(hosts[i]), Lost)
    BY <1>3, <2>1, <2>2 DEF Lost
  <2> DEFINE e == wk[i].errs + IF a.err THEN 1 ELSE 0
             g == Gather(Pass(i), wk[i].got, a.obs)
             y == IF Pass(i) = "lldp_cdp" THEN mergeObservations(g) ELSE g
  <2>5. EndPass(i, y, e)
    BY <2>1, <2>2, Zenon
  <2>6. y = Yield(Passes[wk[i].pass], a)
    BY <1>3, Zenon DEF Yield
  <2>7. e = IF a.err THEN 1 ELSE 0
    BY <1>3
  <2> HIDE DEF y, e
  <2>8. EndsWith(i, y, e) /\ stage' = stage
    BY <1>4, <2>5
  <2>9. Hears(i, a)
    BY <2>3, <2>4, <2>6, <2>7, <2>8 DEF Hears
  <2> QED BY <1>2, <2>3, <2>8, <2>9
<1> QED BY <1>6, <1>7

\* The pass that follows.
LEMMA NextPassIs ==
  ASSUME NEW p \in 1..5, NEW obs
  PROVE  /\ NextPass(p, obs) \in 2..6
         /\ NextPass(p, obs) = 2 <=> p = 1 /\ obs # <<>>
         /\ NextPass(p, obs) = 3 <=> p = 2
         /\ NextPass(p, obs) = 4 <=> p = 3 \/ (p = 1 /\ obs = <<>>)
         /\ NextPass(p, obs) = 5 <=> p = 4
         /\ NextPass(p, obs) = 6 <=> p = 5
<1>1. p \in {1, 2, 3, 4, 5}
  OBVIOUS
<1> QED BY <1>1 DEF NextPass

\* The worker after a pass.
LEMMA AdvancedIs ==
  ASSUME NEW I, NEW r \in Worker(I), NEW obs \in Seq(ObsOf(I))
  PROVE  /\ Advanced(r, obs) \in Worker(I) /\ Between(Advanced(r, obs)) /\ Advanced(r, obs).pc \in {"check", "done"}
         /\ Advanced(r, obs).out = r.out \o obs
         /\ Advanced(r, obs).pc = "done" <=> NextPass(r.pass, obs) = 6
         /\ Advanced(r, obs).pass = IF NextPass(r.pass, obs) = 6 THEN 1 ELSE NextPass(r.pass, obs)
<1> DEFINE X == ObsOf(I)
           A == Seq(X)
           p == NextPass(r.pass, obs)
           o == r.out \o obs
           r2 == Advanced(r, obs)
           e == <<>>
<1>1. Worker(I) = [pc : {"idle", "check", "query", "done"}, pass : 1..5, at : Nat, got : A, errs : Nat, out : A]
  BY DEF Worker
<1>2. e \in A
  OBVIOUS
<1> HIDE DEF e
<1>3. o \in A /\ r.pass \in 1..5
  <2>1. r.out \in A /\ r.pass \in 1..5
    <3> HIDE DEF A
    <3> QED BY <1>1
  <2>2. obs \in Seq(X)
    OBVIOUS
  <2> HIDE DEF X
  <2> QED BY <2>1, <2>2
<1>4. p \in 2..6
  BY <1>3, NextPassIs
<1>5. r2 = [pc |-> IF p > 5 THEN "done" ELSE "check", pass |-> IF p > 5 THEN 1 ELSE p,
            at |-> 1, got |-> e, errs |-> 0, out |-> o]
  BY DEF Advanced, e
<1> HIDE DEF A, p, o, r2
<1>6. (p > 5 <=> p = 6) /\ (IF p > 5 THEN 1 ELSE p) \in 1..5 /\ 1 \in Nat /\ 0 \in Nat
  BY <1>4
<1>7. /\ r2.pc = (IF p > 5 THEN "done" ELSE "check") /\ r2.pass = (IF p > 5 THEN 1 ELSE p)
      /\ r2.at = 1 /\ r2.got = e /\ r2.errs = 0 /\ r2.out = o
  BY <1>5
<1>8. r2 \in Worker(I)
  BY <1>1, <1>2, <1>3, <1>5, <1>6
<1> QED BY <1>6, <1>7, <1>8 DEF Between, r2, p, o, e

\* What a pass adds is about allowed addresses.
LEMMA YieldType ==
  ASSUME ScanInv, NEW kind \in Labels, NEW h \in w.allowed, NEW a \in Answer(kind, HostTarget(h), Lost)
  PROVE  Yield(kind, a) \in Seq(ObsOf(w.allowed)) /\ Gather(kind, <<>>, a.obs) \in Seq(ObsOf(w.allowed))
<1>1. w \in Worlds /\ HostTarget(h) \in Target
  BY WorldIs DEF Target, ScanInv, ScanTyped
<1>2. Lost \in SUBSET {FALSE}
  BY DEF Lost
<1>3. a.obs \in Seq(ObsOf(w.allowed))
  BY <1>1, <1>2, AnswerType
<1> DEFINE A == Seq(ObsOf(w.allowed))
<1>4. <<>> \in A
  OBVIOUS
<1>5. Gather(kind, <<>>, a.obs) \in A
  BY <1>3, <1>4, GatherType
<1>6. mergeObservations(Gather(kind, <<>>, a.obs)) \in A
  BY <1>5, Merged
<1> HIDE DEF A
<1>7. Yield(kind, a) \in A
  BY <1>5, <1>6 DEF Yield
<1> QED BY <1>5, <1>7 DEF A

\* The step of a worker, seen from its pass.
LEMMA HostAdvances ==
  ASSUME ScanInv, NEW i \in Hosts, GivesUp(i) \/ \E a : Hears(i, a)
  PROVE  /\ wk[i].pass \in 1..5 /\ Passes[wk[i].pass] \in Labels /\ wk[i] \in Worker(w.allowed)
         /\ hosts[i] \in w.allowed /\ i \in Slots \ {0}
         /\ \E obs \in Seq(ObsOf(w.allowed)), errs \in Nat :
              /\ EndsWith(i, obs, errs)
              /\ wk[i].pass = 1 /\ obs # <<>> => SpeaksSNMP(hosts[i])
<1>1. /\ w \in Worlds /\ hosts \in Distinct(w.allowed) /\ i \in Slots \ {0} /\ hosts[i] \in w.allowed
  BY HostSlots, SlotsAre DEF ScanInv, ScanTyped, Hosts
<1>2. wk[i] \in Worker(w.allowed) /\ HostWorker(wk[i], i)
  BY <1>1 DEF ScanInv, ScanTyped, ScanShaped
<1>3. wk[i].pass \in 1..5
  BY <1>2 DEF Worker
<1>4. Passes[wk[i].pass] \in Labels
  <2>1. wk[i].pass \in {1, 2, 3, 4, 5}
    BY <1>3
  <2> QED BY <2>1, LabelIs
<1> DEFINE A == Seq(ObsOf(w.allowed))
<1>5. <<>> \in A
  OBVIOUS
<1> HIDE DEF A
<1>6. CASE GivesUp(i)
  <2>1. EndsWith(i, <<>>, 0) /\ 0 \in Nat
    BY <1>6 DEF GivesUp
  <2>2. \E obs \in A, errs \in Nat : EndsWith(i, obs, errs) /\ (wk[i].pass = 1 /\ obs # <<>> => SpeaksSNMP(hosts[i]))
    BY <1>5, <2>1
  <2> QED BY <1>1, <1>2, <1>3, <1>4, <2>2 DEF A
<1>7. CASE \E a : Hears(i, a)
  <2>1. PICK a : Hears(i, a)
    BY <1>7
  <2> DEFINE kind == Passes[wk[i].pass]
             obs == Yield(kind, a)
             errs == IF a.err THEN 1 ELSE 0
  <2>2. wk[i].pc = "query" /\ a \in Answer(kind, HostTarget(hosts[i]), Lost) /\ EndsWith(i, obs, errs)
    BY <2>1 DEF Hears
  <2>3. obs \in A /\ errs \in Nat
    BY <1>1, <1>4, <2>2, YieldType DEF A
  <2>4. ASSUME wk[i].pass = 1, obs # <<>> PROVE SpeaksSNMP(hosts[i])
    <3>1. kind = "snmp_inventory"
      BY <2>4, LabelIs
    <3>2. obs = Gather("snmp_inventory", <<>>, a.obs)
      BY <3>1 DEF Yield
    <3>3. w.v2c
      BY <1>2, <2>2, <2>4 DEF HostWorker
    <3> HIDE DEF obs
    <3>4. Gather("snmp_inventory", <<>>, a.obs) = <<>> <=> ~ SpeaksSNMP(hosts[i])
      BY <1>1, <2>2, <3>1, <3>3, InventorySome
    <3> QED BY <2>4, <3>2, <3>4
  <2> HIDE DEF obs, errs
  <2>5. \E o \in A, e \in Nat : EndsWith(i, o, e) /\ (wk[i].pass = 1 /\ o # <<>> => SpeaksSNMP(hosts[i]))
    BY <2>2, <2>3, <2>4
  <2> QED BY <1>1, <1>2, <1>3, <1>4, <2>5 DEF A
<1> QED BY <1>6, <1>7

\* A step of a worker of the pool.
LEMMA WorkerKeepsScan ==
  ASSUME ScanInv, NEW i \in Slots \ {0}, CheckContext(i) \/ Query(i)
  PROVE  ScanInv'
<1>1. /\ i \in Hosts /\ UNCHANGED <<w, cancelled, nm, hosts, next, dhcp, stage>>
      /\ Asks(i) \/ GivesUp(i) \/ \E a : Hears(i, a)
  BY HostSteps
<1>2. Sets' = Sets /\ Combined' = Combined /\ Labels' = Labels /\ 0 \in Slots
  BY <1>1, SameWorld, SlotsAre DEF Labels
<1>3. /\ w \in Worlds /\ wk \in [Slots -> Worker(w.allowed)] /\ HostWorker(wk[i], i) /\ wk[i] \in Worker(w.allowed)
      /\ count \in [Labels -> Nat]
  BY DEF ScanInv, ScanTyped, ScanShaped
<1>4. \E r \in Worker(w.allowed) : wk' = [wk EXCEPT ![i] = r] /\ HostWorker(r, i) /\ r.pc # "idle" /\ count' \in [Labels -> Nat]
  <2>1. CASE Asks(i)
    <3> DEFINE r == [wk[i] EXCEPT !.pc = "query"]
    <3>1. wk' = [wk EXCEPT ![i] = r] /\ count' = count /\ wk[i].pc = "check" /\ (Passes[wk[i].pass] \in SNMPs => w.v2c)
      BY <2>1 DEF Asks
    <3>2. r \in Worker(w.allowed) /\ r.pc = "query" /\ r.pass = wk[i].pass /\ r.at = wk[i].at /\ r.got = wk[i].got /\ r.errs = wk[i].errs
      BY <1>3 DEF Worker
    <3>3. r.pass \in 1..5
      BY <3>2 DEF Worker
    <3>4. r.pass <= 3 => Passes[wk[i].pass] \in SNMPs
      <4>1. r.pass <= 3 => r.pass \in {1, 2, 3}
        BY <3>3
      <4> QED BY <3>2, <4>1, LabelIs DEF SNMPs
    <3> HIDE DEF r
    <3>5. HostWorker(r, i)
      BY <1>3, <3>1, <3>2, <3>4 DEF HostWorker, Between
    <3> QED BY <1>3, <3>1, <3>2, <3>5
  <2>2. CASE GivesUp(i) \/ \E a : Hears(i, a)
    <3>1. /\ wk[i].pass \in 1..5 /\ Passes[wk[i].pass] \in Labels
          /\ \E obs \in Seq(ObsOf(w.allowed)), errs \in Nat :
              /\ EndsWith(i, obs, errs)
              /\ wk[i].pass = 1 /\ obs # <<>> => SpeaksSNMP(hosts[i])
      BY <1>1, <2>2, HostAdvances
    <3>2. PICK obs \in Seq(ObsOf(w.allowed)), errs \in Nat :
              /\ EndsWith(i, obs, errs)
              /\ wk[i].pass = 1 /\ obs # <<>> => SpeaksSNMP(hosts[i])
      BY <3>1
    <3> DEFINE r == Advanced(wk[i], obs)
               p == NextPass(wk[i].pass, obs)
    <3>3. wk' = [wk EXCEPT ![i] = r] /\ count' = [count EXCEPT ![Passes[wk[i].pass]] = @ + errs]
      BY <3>2 DEF EndsWith
    <3>4. count' \in [Labels -> Nat]
      BY <1>3, <3>1, <3>3
    <3>5. /\ r \in Worker(w.allowed) /\ Between(r) /\ r.pc \in {"check", "done"}
          /\ r.pc = "done" <=> p = 6
          /\ r.pass = IF p = 6 THEN 1 ELSE p
      BY <1>3, AdvancedIs
    <3>6. p \in 2..6 /\ (p = 2 <=> wk[i].pass = 1 /\ obs # <<>>) /\ (p = 3 <=> wk[i].pass = 2)
      BY <3>1, NextPassIs
    <3> HIDE DEF r, p
    <3>7. wk[i].pc \in {"check", "query"}
      BY <2>2 DEF GivesUp, Hears
    <3>8. r.pc = "check" /\ r.pass \in {2, 3} => SpeaksSNMP(hosts[i])
      <4>1. CASE p = 2
        BY <3>2, <3>6, <4>1
      <4>2. CASE p = 3
        BY <1>3, <3>6, <3>7, <4>2 DEF HostWorker
      <4>3. CASE p # 2 /\ p # 3
        BY <3>5, <4>3
      <4> QED BY <4>1, <4>2, <4>3
    <3>9. HostWorker(r, i)
      BY <1>3, <3>5, <3>7, <3>8 DEF HostWorker
    <3> QED BY <3>3, <3>4, <3>5, <3>9
  <2> QED BY <1>1, <2>1, <2>2
<1>5. PICK r \in Worker(w.allowed) : wk' = [wk EXCEPT ![i] = r] /\ HostWorker(r, i) /\ count' \in [Labels -> Nat]
  BY <1>4
<1>6. wk' \in [Slots -> Worker(w.allowed)] /\ wk'[0] = wk[0] /\ wk'[i] = r /\ \A j \in Slots : j # i => wk'[j] = wk[j]
  BY <1>2, <1>3, <1>5
<1>7. ScanTyped'
  BY <1>1, <1>2, <1>5, <1>6 DEF ScanInv, ScanTyped
<1>8. \A j \in Slots \ {0} : HostWorker(wk[j], j)'
  <2>1. \A j \in Slots \ {0} : HostWorker(wk'[j], j)
    BY <1>5, <1>6 DEF ScanInv, ScanShaped
  <2>2. \A q, j : HostWorker(q, j) => HostWorker(q, j)'
    BY <1>1, SameWorkers
  <2>3. SUFFICES ASSUME NEW j \in Slots \ {0} PROVE HostWorker(wk[j], j)'
    OBVIOUS
  <2>4. HostWorker(wk'[j], j)
    BY <2>1
  <2>5. PICK q : q = wk'[j]
    OBVIOUS
  <2>6. HostWorker(q, j)'
    BY <2>2, <2>4, <2>5
  <2> QED BY <2>5, <2>6 DEF HostWorker
<1>9. ScanShaped'
  <2>1. /\ Combined \/ hosts = <<>>
        /\ wk[0].pc # "idle" => w.type \in Labels
        /\ wk[0].at \in 1..Len(w.targets)
        /\ next \in 1..(Len(hosts) + 1)
        /\ dhcp.obs = IF dhcp.pc = "done" THEN discoverDHCP(w, w.targets).obs ELSE <<>>
        /\ stage = "acquire" => next <= Len(hosts)
        /\ stage \in {"alive", "services"} => hosts = <<>> /\ dhcp.pc = "idle"
        /\ stage \in {"leases", "solo"} => ~ Combined
        /\ Combined /\ stage \in {"join", "done"} /\ ~ cancelled => next > Len(hosts)
        /\ Combined /\ stage = "done" => dhcp.pc = "done"
    BY DEF ScanInv, ScanShaped
  <2> QED BY <1>1, <1>2, <1>6, <1>8, <2>1 DEF ScanShaped
<1> QED BY <1>7, <1>9 DEF ScanInv

\* A job routed to one backend has no hosts to enrich, and no worker but its own.
LEMMA SoloSteps ==
  ASSUME ScanInv, CheckContext(0) \/ Query(0)
  PROVE  /\ UNCHANGED <<w, cancelled, nm, hosts, next, dhcp>> /\ w.type \in Labels /\ ~ Combined
         /\ \E r \in Worker(w.allowed) : wk' = [wk EXCEPT ![0] = r] /\ r.at \in 1..Len(w.targets)
         /\ count' \in [Labels -> Nat] /\ stage' \in {stage, "done", "failed"}
<1> DEFINE I == w.allowed
           A == Seq(ObsOf(I))
<1>1. /\ w \in Worlds /\ wk \in [Slots -> Worker(I)] /\ count \in [Labels -> Nat] /\ wk[0] \in Worker(I)
      /\ wk[0].at \in 1..Len(w.targets) /\ w.type \in Labels
  <2>1. wk[0].pc # "idle"
    BY DEF CheckContext, Query
  <2> QED BY <2>1, SlotsAre DEF ScanInv, ScanTyped, ScanShaped
<1>2. ~ Combined /\ Pass(0) = w.type /\ Targets(0) = w.targets
  BY <1>1, LabelIs DEF Combined, Pass, Targets
<1>3. w.targets \in Seq(Target) /\ w.targets # <<>> /\ 1 \in 1..Len(w.targets) /\ Len(w.targets) \in Nat
      /\ \A k \in 1..Len(w.targets) : w.targets[k] \in Target
  BY <1>1, WorldIs
<1>4. Worker(I) = [pc : {"idle", "check", "query", "done"}, pass : 1..5, at : Nat, got : A, errs : Nat, out : A]
  BY DEF Worker
<1>5. wk[0].got \in A /\ wk[0].out \in A /\ wk[0].errs \in Nat
  <2> HIDE DEF A
  <2> QED BY <1>1, <1>4
<1> DEFINE Goal == /\ \E r \in Worker(I) : wk' = [wk EXCEPT ![0] = r] /\ r.at \in 1..Len(w.targets)
                   /\ count' \in [Labels -> Nat] /\ stage' \in {stage, "done", "failed"}
<1>6. ASSUME NEW obs \in A, NEW errs \in Nat, EndPass(0, obs, errs) PROVE Goal
  <2> DEFINE p == NextPass(wk[0].pass, obs)
             last == 0 = 0 \/ p > Len(Passes)
             o == wk[0].out \o obs
             r == [Idle EXCEPT !.out = o, !.pass = IF last THEN 1 ELSE p, !.pc = IF last THEN "done" ELSE "check"]
  <2>1. /\ wk' = [wk EXCEPT ![0] = r]
        /\ count' = [count EXCEPT ![Pass(0)] = @ + errs]
        /\ stage' = IF 0 = 0 THEN "done" ELSE stage
    BY <1>6, Zenon DEF EndPass
  <2>2. o \in A
    <3> DEFINE X == ObsOf(I)
    <3>1. wk[0].out \in Seq(X) /\ obs \in Seq(X)
      BY <1>5
    <3> HIDE DEF X
    <3>2. wk[0].out \o obs \in Seq(X)
      BY <3>1
    <3> QED BY <3>2 DEF X
  <2>3. <<>> \in A
    OBVIOUS
  <2>4. r \in Worker(I) /\ r.at = 1
    <3> DEFINE e == <<>>
    <3> HIDE DEF A, o, e, p
    <3>1. Idle = [pc |-> "idle", pass |-> 1, at |-> 1, got |-> e, errs |-> 0, out |-> e]
      BY DEF Idle, e
    <3>2. e \in A
      BY <2>3 DEF e
    <3>3. r = [Idle EXCEPT !.out = o, !.pass = 1, !.pc = "done"]
      OBVIOUS
    <3>4. r \in [pc : {"done"}, pass : {1}, at : {1}, got : {e}, errs : {0}, out : {o}]
      BY <3>1, <3>3
    <3> HIDE DEF r
    <3>5. 1 \in 1..5 /\ 1 \in Nat /\ 0 \in Nat
      OBVIOUS
    <3> QED BY <1>4, <2>2, <3>2, <3>4, <3>5
  <2> HIDE DEF r
  <2>5. count' \in [Labels -> Nat]
    BY <1>1, <1>2, <2>1
  <2> QED BY <1>3, <2>1, <2>4, <2>5
<1>7. ASSUME NEW why, PassFails(0, why) PROVE Goal
  <2> DEFINE r == [wk[0] EXCEPT !.pc = "done"]
  <2>1. stage' = "failed" /\ wk' = [wk EXCEPT ![0] = r] /\ count' = count
    BY <1>7 DEF PassFails
  <2>2. r \in Worker(I) /\ r.at = wk[0].at
    BY <1>1 DEF Worker
  <2> HIDE DEF r
  <2> QED BY <1>1, <2>1, <2>2
<1>8. CASE CheckContext(0)
  <2>1. /\ UNCHANGED <<w, cancelled, nm, hosts, next, dhcp>>
        /\ \/ PassFails(0, "version") \/ PassFails(0, "context")
           \/ wk' = [wk EXCEPT ![0].pc = "query"] /\ UNCHANGED <<stage, whole, count>>
    BY <1>8, Zenon DEF CheckContext
  <2>2. CASE wk' = [wk EXCEPT ![0].pc = "query"] /\ UNCHANGED <<stage, whole, count>>
    <3> DEFINE r == [wk[0] EXCEPT !.pc = "query"]
    <3>1. r \in Worker(I) /\ r.at = wk[0].at
      BY <1>1 DEF Worker
    <3>2. wk' = [wk EXCEPT ![0] = r] /\ count' = count /\ stage' = stage
      BY <2>2
    <3> HIDE DEF r
    <3> QED BY <1>1, <1>2, <2>1, <3>1, <3>2
  <2>3. Goal
    BY <1>7, <2>1, <2>2
  <2> QED BY <1>1, <1>2, <2>1, <2>3
<1>9. CASE Query(0)
  <2>1. UNCHANGED <<w, cancelled, nm, hosts, next, dhcp>>
    BY <1>9, Zenon DEF Query
  <2>2. PICK a \in Answer(Pass(0), Targets(0)[wk[0].at], IF cancelled THEN {FALSE} ELSE {}) :
          LET got  == Gather(Pass(0), wk[0].got, a.obs)
              errs == wk[0].errs + IF a.err THEN 1 ELSE 0
          IN  IF wk[0].at = Len(Targets(0))
              THEN EndPass(0, IF Pass(0) = "lldp_cdp" THEN mergeObservations(got) ELSE got, errs)
              ELSE /\ wk' = [wk EXCEPT ![0].pc = "check", ![0].at = @ + 1, ![0].got = got, ![0].errs = errs]
                   /\ UNCHANGED <<stage, count>>
    BY <1>9, Zenon DEF Query
  <2> DEFINE t == Targets(0)[wk[0].at]
             got == Gather(Pass(0), wk[0].got, a.obs)
             errs == wk[0].errs + IF a.err THEN 1 ELSE 0
             y == IF Pass(0) = "lldp_cdp" THEN mergeObservations(got) ELSE got
  <2>3. t \in Target /\ Pass(0) \in Labels /\ (IF cancelled THEN {FALSE} ELSE {}) \in SUBSET {FALSE}
    BY <1>1, <1>2, <1>3
  <2>4. a.obs \in A
    BY <1>1, <2>2, <2>3, AnswerType
  <2>5. got \in A
    BY <1>5, <2>4, GatherType
  <2>6. mergeObservations(got) \in A
    <3> HIDE DEF got
    <3> QED BY <2>5, Merged
  <2>7. y \in A
    <3> HIDE DEF got, A
    <3> QED BY <2>5, <2>6
  <2>8. errs \in Nat
    BY <1>5
  <2>9. CASE wk[0].at = Len(Targets(0))
    <3>1. EndPass(0, y, errs)
      BY <2>2, <2>9, Zenon
    <3> HIDE DEF y, errs
    <3>2. Goal
      BY <1>6, <2>7, <2>8, <3>1
    <3> QED BY <1>1, <1>2, <2>1, <3>2
  <2>10. CASE wk[0].at # Len(Targets(0))
    <3>1. /\ wk' = [wk EXCEPT ![0].pc = "check", ![0].at = @ + 1, ![0].got = got, ![0].errs = errs]
          /\ stage' = stage /\ count' = count
      BY <2>2, <2>10, Zenon
    <3> DEFINE n == wk[0].at + 1
               r == [wk[0] EXCEPT !.pc = "check", !.at = n, !.got = got, !.errs = errs]
    <3> HIDE DEF got, errs, A
    <3>2. wk' = [wk EXCEPT ![0] = r]
      BY <1>1, <3>1, SlotsAre
    <3>3. n \in 1..Len(w.targets) /\ n \in Nat
      BY <1>1, <1>2, <1>3, <2>10
    <3> HIDE DEF n
    <3>4. r \in Worker(I) /\ r.at = n
      <4>1. wk[0] \in [pc : {"idle", "check", "query", "done"}, pass : 1..5, at : Nat, got : A, errs : Nat, out : A]
        BY <1>1, <1>4
      <4>2. r \in [pc : {"check"}, pass : 1..5, at : {n}, got : {got}, errs : {errs}, out : A]
        BY <4>1
      <4> HIDE DEF r
      <4> QED BY <1>4, <2>5, <2>8, <3>3, <4>2
    <3> HIDE DEF r
    <3>5. Goal
      BY <1>1, <3>1, <3>2, <3>3, <3>4
    <3> QED BY <1>1, <1>2, <2>1, <3>5
  <2> QED BY <2>9, <2>10
<1> QED BY <1>8, <1>9

\* A step of a job routed to one backend.
LEMMA SoloKeepsScan ==
  ASSUME ScanInv, CheckContext(0) \/ Query(0)
  PROVE  ScanInv'
<1>1. /\ UNCHANGED <<w, cancelled, nm, hosts, next, dhcp>> /\ w.type \in Labels /\ ~ Combined
      /\ \E r \in Worker(w.allowed) : wk' = [wk EXCEPT ![0] = r] /\ r.at \in 1..Len(w.targets)
      /\ count' \in [Labels -> Nat] /\ stage' \in {stage, "done", "failed"}
  BY SoloSteps
<1>2. PICK r \in Worker(w.allowed) : wk' = [wk EXCEPT ![0] = r] /\ r.at \in 1..Len(w.targets)
  BY <1>1
<1>3. Sets' = Sets /\ Combined' = Combined /\ Labels' = Labels /\ 0 \in Slots
  BY <1>1, SameWorld, SlotsAre DEF Labels
<1>4. wk' \in [Slots -> Worker(w.allowed)] /\ wk'[0] = r /\ \A j \in Slots : j # 0 => wk'[j] = wk[j]
  BY <1>2, <1>3 DEF ScanInv, ScanTyped
<1>5. ScanTyped'
  BY <1>1, <1>3, <1>4 DEF ScanInv, ScanTyped
<1>6. \A j \in Slots \ {0} : HostWorker(wk[j], j)'
  <2>1. \A j \in Slots \ {0} : HostWorker(wk[j], j)
    BY DEF ScanInv, ScanShaped
  <2>2. \A q, j : HostWorker(q, j) => HostWorker(q, j)'
    BY <1>1, SameWorkers
  <2>3. \A j \in Slots \ {0} : wk'[j] = wk[j]
    BY <1>4
  <2> QED BY <2>1, <2>2, <2>3
<1>7. ScanShaped'
  <2>1. /\ hosts = <<>> /\ next \in 1..(Len(hosts) + 1)
        /\ dhcp.obs = IF dhcp.pc = "done" THEN discoverDHCP(w, w.targets).obs ELSE <<>>
        /\ stage = "acquire" => next <= Len(hosts)
        /\ stage \in {"alive", "services"} => dhcp.pc = "idle"
    BY <1>1 DEF ScanInv, ScanShaped
  <2> QED BY <1>1, <1>2, <1>3, <1>4, <1>6, <2>1 DEF ScanShaped
<1> QED BY <1>5, <1>7 DEF ScanInv

\* Every step keeps ScanInv.
LEMMA ScanKept == ScanInv /\ [Next]_vars => ScanInv'
<1> SUFFICES ASSUME ScanInv, [Next]_vars PROVE ScanInv'
  OBVIOUS
<1>1. ASSUME NEW i \in Slots, CheckContext(i) \/ Query(i) PROVE ScanInv'
  BY <1>1, SoloKeepsScan, WorkerKeepsScan
<1> QED BY <1>1, QuietKeepsScan, LeasesKeepScan, StartKeepsScan, NmapKeepsScan DEF Next, Main

\* ScanInv holds throughout.
LEMMA ScanInvariant == Spec => []ScanInv
BY ScanStarts, ScanKept, PTL DEF Spec

(***************************************************************************)
(* No backend reports an address outside the job's allowlist, not while    *)
(* the job runs and not in its answer, for any network and any job whose   *)
(* targets ValidateJobTargets let through.                                 *)
(***************************************************************************)
THEOREM OnlyAllowedIsReported == Spec => []OnlyAllowedReported
<1>1. ScanInv => OnlyAllowedReported
  <2> SUFFICES ASSUME ScanInv PROVE OnlyAllowedReported
    OBVIOUS
  <2> DEFINE A == Seq(ObsOf(w.allowed))
  <2>1. ASSUME NEW s \in A PROVE Addresses(s) \subseteq w.allowed
    <3>1. DOMAIN s = 1..Len(s) /\ \A k \in 1..Len(s) : s[k] \in ObsOf(w.allowed)
      <4> DEFINE X == ObsOf(w.allowed)
      <4>1. s \in Seq(X)
        OBVIOUS
      <4> HIDE DEF X
      <4>2. DOMAIN s = 1..Len(s) /\ \A k \in 1..Len(s) : s[k] \in X
        BY <4>1
      <4> QED BY <4>2 DEF X
    <3> QED BY <3>1 DEF Addresses, ObsOf
  <2> HIDE DEF A
  <2>2. nm \in [set : 1..Len(Sets), alive : SUBSET w.allowed, obs : A, notes : {nm.notes}]
    BY DEF ScanInv, ScanTyped, A
  <2>3. dhcp \in [pc : {"idle", "run", "done"}, obs : A]
    BY DEF ScanInv, ScanTyped, A
  <2>4. wk \in [Slots -> [pc : {"idle", "check", "query", "done"}, pass : 1..5, at : Nat, got : A, errs : Nat, out : A]]
    BY DEF ScanInv, ScanTyped, Worker, A
  <2>5. nm.obs \in A /\ dhcp.obs \in A
    BY <2>2, <2>3
  <2>6. \A i \in Slots : wk[i].out \in A /\ wk[i].got \in A
    BY <2>4
  <2>7. \A i \in Slots : Addresses(wk[i].out) \cup Addresses(wk[i].got) \subseteq w.allowed
    BY <2>1, <2>6
  <2>8. Addresses(nm.obs) \subseteq w.allowed /\ Addresses(dhcp.obs) \subseteq w.allowed
    BY <2>1, <2>5
  <2> QED BY <2>7, <2>8 DEF OnlyAllowedReported
<1> QED BY <1>1, ScanInvariant, PTL

-----------------------------------------------------------------------------
(* A cancelled scan keeps what nmap found                                  *)

\* Everything a worker holds is supported by a claim about its host.
Supported(out, h) == \A o \in ToSet(out) : \A f \in DOMAIN o.val : \E c \in ToSet(HostClaims(h)) : Backs(c, o, f)
Backed == \A i \in Hosts : Supported(wk[i].out, hosts[i])

\* The claims depend on the network alone.
LEMMA SameClaims ==
  ASSUME w' = w
  PROVE  /\ \A kind, h : PassClaims(kind, h)' = PassClaims(kind, h)
         /\ \A h : HostClaims(h)' = HostClaims(h)
         /\ \A out, h : Supported(out, h)' = Supported(out, h)
<1>1. \A kind, t, lost : Answer(kind, t, lost)' = Answer(kind, t, lost)
  BY DEF Answer, Scope
<1>2. \A kind, h : PassClaims(kind, h)' = PassClaims(kind, h)
  <2> SUFFICES ASSUME NEW kind, NEW h PROVE PassClaims(kind, h)' = PassClaims(kind, h)
    OBVIOUS
  <2>1. Answer(kind, HostTarget(h), {})' = Answer(kind, HostTarget(h), {})
    BY <1>1
  <2>2. (CHOOSE x \in Answer(kind, HostTarget(h), {}) : TRUE)' = (CHOOSE x \in Answer(kind, HostTarget(h), {}) : TRUE)
    BY <2>1, Zenon
  <2> DEFINE a == CHOOSE x \in Answer(kind, HostTarget(h), {}) : TRUE
  <2>3. PassClaims(kind, h) = IF kind \in SNMPs /\ ~ w.v2c THEN <<>> ELSE Gather(kind, <<>>, a.obs)
    BY Zenon DEF PassClaims
  <2>4. PassClaims(kind, h)' = IF kind \in SNMPs /\ ~ w'.v2c THEN <<>> ELSE Gather(kind, <<>>, a'.obs)
    BY Zenon DEF PassClaims
  <2>5. a' = a
    BY <2>2
  <2> HIDE DEF a
  <2> QED BY <2>3, <2>4, <2>5
<1>3. \A h : HostClaims(h)' = HostClaims(h)
  <2>1. \A h : SpeaksSNMP(h)' = SpeaksSNMP(h)
    BY SameWorld
  <2> QED BY <1>2, <2>1 DEF HostClaims
<1>4. \A c, o, f : Backs(c, o, f)' = Backs(c, o, f)
  BY DEF Backs
<1>5. \A out, h : Supported(out, h)' = Supported(out, h)
  BY <1>3, <1>4 DEF Supported
<1> QED BY <1>2, <1>3, <1>5

\* The claims about a host include those of every pass it takes.
LEMMA HostClaimsType ==
  ASSUME w \in Worlds, NEW h \in w.allowed
  PROVE  /\ HostClaims(h) \in Seq(ObsOf(w.allowed))
         /\ \A kind \in Labels : (kind \in SNMPs => SpeaksSNMP(h)) => ToSet(PassClaims(kind, h)) \subseteq ToSet(HostClaims(h))
<1> DEFINE X == ObsOf(w.allowed)
           a == PassClaims("snmp_inventory", h)
           b == PassClaims("arp_table", h)
           c == PassClaims("lldp_cdp", h)
           d == PassClaims("name_lookup", h)
           e == PassClaims("dns_lookup", h)
           s == IF SpeaksSNMP(h) THEN a \o b \o c ELSE <<>>
<1>1. a \in Seq(X) /\ b \in Seq(X) /\ c \in Seq(X) /\ d \in Seq(X) /\ e \in Seq(X)
  BY ClaimsType, LabelIs
<1>2. HostClaims(h) = s \o d \o e
  BY DEF HostClaims
<1> HIDE DEF X, a, b, c, d, e
<1>3. a \o b \in Seq(X) /\ (a \o b) \o c \in Seq(X) /\ s \in Seq(X)
  BY <1>1
<1>4. s \o d \in Seq(X) /\ (s \o d) \o e \in Seq(X)
  <2> HIDE DEF s
  <2> QED BY <1>1, <1>3
<1>5. ToSet((s \o d) \o e) = ToSet(s) \cup ToSet(d) \cup ToSet(e)
  <2> HIDE DEF s
  <2>1. ToSet(s \o d) = ToSet(s) \cup ToSet(d)
    BY <1>1, <1>3, ElementsConcat, SMTT(30)
  <2>2. ToSet((s \o d) \o e) = ToSet(s \o d) \cup ToSet(e)
    <3> DEFINE u == s \o d
    <3>1. u \in Seq(X)
      BY <1>4
    <3> HIDE DEF u
    <3>2. ToSet(u \o e) = ToSet(u) \cup ToSet(e)
      BY <1>1, <3>1, ElementsConcat
    <3> QED BY <3>2 DEF u
  <2> QED BY <2>1, <2>2
<1>6. SpeaksSNMP(h) => ToSet(s) = ToSet(a) \cup ToSet(b) \cup ToSet(c)
  <2>1. ToSet(a \o b) = ToSet(a) \cup ToSet(b)
    BY <1>1, ElementsConcat, SMTT(30)
  <2>2. ToSet((a \o b) \o c) = ToSet(a \o b) \cup ToSet(c)
    <3> DEFINE u == a \o b
    <3>1. u \in Seq(X)
      BY <1>3
    <3> HIDE DEF u
    <3>2. ToSet(u \o c) = ToSet(u) \cup ToSet(c)
      BY <1>1, <3>1, ElementsConcat
    <3> QED BY <3>2 DEF u
  <2> QED BY <2>1, <2>2
<1> HIDE DEF s
<1>7. ASSUME NEW kind \in Labels, kind \in SNMPs => SpeaksSNMP(h)
      PROVE  ToSet(PassClaims(kind, h)) \subseteq ToSet(HostClaims(h))
  <2>1. CASE kind \in SNMPs
    <3>1. kind \in {"snmp_inventory", "arp_table", "lldp_cdp"}
      BY <2>1 DEF SNMPs
    <3>2. PassClaims(kind, h) \in {a, b, c}
      BY <3>1 DEF a, b, c
    <3> QED BY <1>2, <1>5, <1>6, <1>7, <2>1, <3>2
  <2>2. CASE kind \notin SNMPs
    <3>1. kind \in {"name_lookup", "dns_lookup"}
      BY <2>2, LabelIs DEF SNMPs
    <3>2. PassClaims(kind, h) \in {d, e}
      BY <3>1 DEF d, e
    <3> QED BY <1>2, <1>5, <3>2
  <2> QED BY <2>1, <2>2
<1> QED BY <1>2, <1>4, <1>7 DEF X

\* What a pass adds to a worker is supported.
LEMMA YieldSupported ==
  ASSUME ScanInv, NEW kind \in Labels, NEW h \in w.allowed, NEW a \in Answer(kind, HostTarget(h), Lost),
         kind \in SNMPs => w.v2c, kind \in {"arp_table", "lldp_cdp"} => SpeaksSNMP(h)
  PROVE  Supported(Yield(kind, a), h)
<1> DEFINE g == Gather(kind, <<>>, a.obs)
<1>1. w \in Worlds /\ Lost \in SUBSET {FALSE} /\ w.allowed \subseteq Nat
  BY WorldIs DEF ScanInv, ScanTyped, Lost
<1>2. \A o \in ToSet(g) : \A f \in DOMAIN o.val : \E c \in ToSet(PassClaims(kind, h)) : Backs(c, o, f)
  BY <1>1, LostBacked
<1>3. g \in Seq(ObsOf(w.allowed))
  BY YieldType
<1> HIDE DEF g
<1>4. CASE kind = "snmp_inventory" /\ ~ SpeaksSNMP(h)
  <2>1. g = <<>>
    BY <1>1, <1>4, InventorySome DEF g, SNMPs
  <2>2. Yield(kind, a) = <<>>
    BY <1>4, <2>1 DEF Yield, g
  <2>3. ToSet(<<>>) = {}
    BY DEF ToSet
  <2> QED BY <2>2, <2>3 DEF Supported
<1>5. CASE kind \in SNMPs => SpeaksSNMP(h)
  <2>1. ToSet(PassClaims(kind, h)) \subseteq ToSet(HostClaims(h))
    BY <1>1, <1>5, HostClaimsType
  <2>2. Supported(g, h)
    BY <1>2, <2>1 DEF Supported
  <2>3. CASE kind # "lldp_cdp"
    <3>1. Yield(kind, a) = g
      BY <2>3 DEF Yield, g
    <3> QED BY <2>2, <3>1
  <2>4. CASE kind = "lldp_cdp"
    <3> DEFINE m == mergeObservations(g)
    <3>1. Yield(kind, a) = m
      BY <2>4 DEF Yield, g
    <3>2. m \in Seq(ObsOf(w.allowed)) /\ IsMerge(m, g)
      BY <1>3, Merged
    <3>3. g \in Seq(Obs) /\ m \in Seq(Obs)
      BY <1>3, <3>2, ObsOfNat
    <3> HIDE DEF m
    <3> SUFFICES ASSUME NEW o \in ToSet(m), NEW f \in DOMAIN o.val
                 PROVE  \E c \in ToSet(HostClaims(h)) : Backs(c, o, f)
      BY <3>1 DEF Supported
    <3>4. PICK k \in 1..Len(m) : o = m[k]
      BY <3>3 DEF ToSet
    <3>5. o \in Obs
      BY <3>3, <3>4
    <3>6. o.ip \in Nat
      BY <3>5 DEF Obs
    <3>7. o = Reference(g, o.ip)
      BY <3>2, <3>4 DEF IsMerge
    <3>8. f \in DOMAIN Reference(g, o.ip).val
      BY <3>7
    <3>9. PICK q \in ToSet(g) : q.ip = o.ip /\ f \in DOMAIN q.val /\ q.val[f] = Reference(g, o.ip).val[f]
      BY <3>3, <3>6, <3>8, ReferenceSource
    <3>10. q.val[f] = o.val[f]
      BY <3>7, <3>9
    <3>11. PICK c \in ToSet(HostClaims(h)) : Backs(c, q, f)
      BY <2>2, <3>9 DEF Supported
    <3>12. Backs(c, o, f)
      BY <3>9, <3>10, <3>11 DEF Backs
    <3> QED BY <3>11, <3>12
  <2> QED BY <2>3, <2>4
<1> QED BY <1>4, <1>5 DEF SNMPs

\* What is supported in two parts is supported together.
LEMMA SupportedConcat ==
  ASSUME NEW X, NEW a \in Seq(X), NEW b \in Seq(X), NEW h, Supported(a, h), Supported(b, h)
  PROVE  Supported(a \o b, h)
BY ElementsConcat DEF Supported

\* Nothing needs no support.
LEMMA NothingSupported == \A h : Supported(<<>>, h)
<1>1. ToSet(<<>>) = {}
  BY DEF ToSet
<1> QED BY <1>1 DEF Supported

\* Before the enrichment no worker holds anything.
LEMMA FreshWorkers ==
  ASSUME ScanInv, HostDiscovery \/ ServiceScan
  PROVE  /\ UNCHANGED <<w, wk, count, cancelled>> /\ hosts = <<>>
         /\ \A i \in Slots \ {0} : wk[i].pc = "idle" /\ wk[i].pass = 1 /\ wk[i].out = <<>>
<1>1. UNCHANGED <<w, wk, count, cancelled>> /\ stage \in {"alive", "services"}
  BY DEF HostDiscovery, ServiceScan, SetDone
<1>2. hosts = <<>> /\ next \in 1..(Len(hosts) + 1)
  BY <1>1 DEF ScanInv, ScanShaped
<1>3. next = 1
  BY <1>2
<1>4. \A i \in Slots \ {0} : wk[i].pc = "idle" /\ wk[i].pass = 1 /\ wk[i].out = <<>>
  <2> SUFFICES ASSUME NEW i \in Slots \ {0} PROVE wk[i].pc = "idle" /\ wk[i].pass = 1 /\ wk[i].out = <<>>
    OBVIOUS
  <2>1. HostWorker(wk[i], i) /\ i \in Nat /\ i # 0
    BY SlotsAre DEF ScanInv, ScanShaped
  <2> QED BY <1>3, <2>1 DEF HostWorker
<1> QED BY <1>1, <1>2, <1>4

\* The hosts have slots of the pool.
LEMMA HostsAreSlots ==
  ASSUME ScanInv
  PROVE  Hosts \subseteq Slots \ {0} /\ Len(hosts) \in Nat /\ DOMAIN hosts = Hosts /\ \A i \in Hosts : hosts[i] \in w.allowed
BY SlotsAre, HostSlots DEF ScanInv, ScanTyped, Hosts

\* A worker is known by what it hears and asks.
LEMMA WorkerAt ==
  ASSUME ScanInv, NEW i \in Hosts
  PROVE  /\ i \in Slots \ {0} /\ hosts[i] \in w.allowed /\ wk[i] \in Worker(w.allowed) /\ HostWorker(wk[i], i)
         /\ wk[i].pass \in 1..5 /\ Passes[wk[i].pass] \in Labels /\ wk[i].out \in Seq(ObsOf(w.allowed))
         /\ wk[i].pass <= 3 <=> Passes[wk[i].pass] \in SNMPs
         /\ wk[i].pass \in {2, 3} <=> Passes[wk[i].pass] \in {"arp_table", "lldp_cdp"}
<1>1. i \in Slots \ {0} /\ hosts[i] \in w.allowed
  BY HostsAreSlots
<1>2. wk[i] \in Worker(w.allowed) /\ HostWorker(wk[i], i)
  BY <1>1 DEF ScanInv, ScanTyped, ScanShaped
<1>3. wk[i].pass \in 1..5 /\ wk[i].out \in Seq(ObsOf(w.allowed))
  <2> DEFINE A == Seq(ObsOf(w.allowed))
  <2>1. wk[i] \in [pc : {"idle", "check", "query", "done"}, pass : 1..5, at : Nat, got : A, errs : Nat, out : A]
    BY <1>2 DEF Worker
  <2> HIDE DEF A
  <2>2. wk[i].pass \in 1..5 /\ wk[i].out \in A
    BY <2>1
  <2> QED BY <2>2 DEF A
<1>4. wk[i].pass \in {1, 2, 3, 4, 5}
  BY <1>3
<1>5. /\ Passes[wk[i].pass] \in Labels
      /\ wk[i].pass <= 3 <=> Passes[wk[i].pass] \in SNMPs
      /\ wk[i].pass \in {2, 3} <=> Passes[wk[i].pass] \in {"arp_table", "lldp_cdp"}
  BY <1>4, LabelIs DEF SNMPs
<1> QED BY <1>1, <1>2, <1>3, <1>5

\* Every step keeps Backed.
LEMMA BackedKept ==
  ASSUME ScanInv, ScanInv', Backed, [Next]_vars
  PROVE  Backed'
<1>1. CASE Cancel \/ NextHost \/ Collect \/ NmapFails \/ ReadLeases \/ UNCHANGED vars
  <2>1. UNCHANGED <<w, hosts, wk>>
    BY <1>1, Zenon DEF Cancel, NextHost, Collect, NmapFails, ReadLeases, vars
  <2>2. \A out, h : Supported(out, h)' = Supported(out, h)
    BY <2>1, SameClaims
  <2> QED BY <2>1, <2>2 DEF Backed, Hosts
<1>2. CASE HostDiscovery \/ ServiceScan
  <2>1. UNCHANGED <<w, wk>> /\ \A i \in Slots \ {0} : wk[i].out = <<>>
    BY <1>2, FreshWorkers
  <2>2. Hosts' \subseteq Slots \ {0}
    <3>1. w \in Worlds /\ hosts' \in Distinct(w.allowed)
      BY <2>1 DEF ScanInv, ScanTyped
    <3> QED BY <3>1, SlotsAre DEF Hosts
  <2>3. \A h : Supported(<<>>, h)'
    BY <2>1, SameClaims, NothingSupported
  <2>4. \A i \in Hosts' : wk'[i].out = <<>>
    BY <2>1, <2>2
  <2> SUFFICES ASSUME NEW i \in Hosts' PROVE Supported(wk[i].out, hosts[i])'
    BY DEF Backed
  <2>5. \A out, h : Supported(out, h)' = Supported(out, h)
    BY <2>1, SameClaims
  <2> QED BY <2>4, <2>5, NothingSupported
<1>3. CASE StartWorker
  <2>1. UNCHANGED <<w, hosts>> /\ wk' = [wk EXCEPT ![next].pc = "check"]
    BY <1>3, Zenon DEF StartWorker
  <2>2. \A i \in Slots : wk'[i].out = wk[i].out
    BY <2>1 DEF ScanInv, ScanTyped, Worker
  <2>3. \A out, h : Supported(out, h)' = Supported(out, h)
    BY <2>1, SameClaims
  <2>4. Hosts' = Hosts /\ \A i \in Hosts : wk'[i].out = wk[i].out
    BY <2>1, <2>2, HostsAreSlots DEF Hosts
  <2> QED BY <2>1, <2>3, <2>4 DEF Backed
<1>4. CASE CheckContext(0) \/ Query(0)
  <2>1. hosts' = hosts /\ ~ Combined
    BY <1>4, SoloSteps
  <2>2. hosts = <<>>
    BY <2>1 DEF ScanInv, ScanShaped
  <2>3. Hosts' = {}
    BY <2>1, <2>2 DEF Hosts
  <2> QED BY <2>3 DEF Backed
<1>5. ASSUME NEW i \in Slots \ {0}, CheckContext(i) \/ Query(i) PROVE Backed'
  <2>1. /\ i \in Hosts /\ UNCHANGED <<w, cancelled, nm, hosts, next, dhcp, stage>>
        /\ Asks(i) \/ GivesUp(i) \/ \E a : Hears(i, a)
    BY <1>5, HostSteps
  <2>2. /\ i \in Slots \ {0} /\ hosts[i] \in w.allowed /\ wk[i] \in Worker(w.allowed) /\ HostWorker(wk[i], i)
        /\ wk[i].pass \in 1..5 /\ Passes[wk[i].pass] \in Labels /\ wk[i].out \in Seq(ObsOf(w.allowed))
        /\ wk[i].pass <= 3 <=> Passes[wk[i].pass] \in SNMPs
        /\ wk[i].pass \in {2, 3} <=> Passes[wk[i].pass] \in {"arp_table", "lldp_cdp"}
    BY <2>1, WorkerAt
  <2>3. Supported(wk[i].out, hosts[i])
    BY <2>1 DEF Backed
  <2>4. wk \in [Slots -> Worker(w.allowed)]
    BY DEF ScanInv, ScanTyped
  <2>5. (\A j \in Slots : j # i => wk'[j] = wk[j]) /\ Supported(wk'[i].out, hosts[i])
    <3>1. CASE Asks(i)
      <4>1. wk' = [wk EXCEPT ![i].pc = "query"]
        BY <3>1 DEF Asks
      <4>2. wk'[i].out = wk[i].out /\ \A j \in Slots : j # i => wk'[j] = wk[j]
        BY <2>2, <2>4, <4>1 DEF Worker
      <4> QED BY <2>3, <4>2
    <3>2. ASSUME NEW obs \in Seq(ObsOf(w.allowed)), NEW errs, EndsWith(i, obs, errs), Supported(obs, hosts[i])
          PROVE  (\A j \in Slots : j # i => wk'[j] = wk[j]) /\ Supported(wk'[i].out, hosts[i])
      <4>1. wk' = [wk EXCEPT ![i] = Advanced(wk[i], obs)]
        BY <3>2 DEF EndsWith
      <4>2. (\A j \in Slots : j # i => wk'[j] = wk[j]) /\ wk'[i] = Advanced(wk[i], obs)
        BY <2>2, <2>4, <4>1
      <4>3. wk'[i].out = wk[i].out \o obs
        <5>1. wk[i] \in Worker(w.allowed) /\ obs \in Seq(ObsOf(w.allowed))
          BY <2>2
        <5>2. Advanced(wk[i], obs).out = wk[i].out \o obs
          BY <5>1, AdvancedIs
        <5> QED BY <4>2, <5>2
      <4>4. Supported(wk[i].out \o obs, hosts[i])
        BY <2>2, <2>3, <3>2, SupportedConcat
      <4> QED BY <4>2, <4>3, <4>4
    <3>3. CASE GivesUp(i)
      <4>1. EndsWith(i, <<>>, 0) /\ <<>> \in Seq(ObsOf(w.allowed)) /\ Supported(<<>>, hosts[i])
        BY <3>3, NothingSupported DEF GivesUp
      <4> QED BY <3>2, <4>1
    <3>4. CASE \E a : Hears(i, a)
      <4>1. PICK a : Hears(i, a)
        BY <3>4
      <4> DEFINE kind == Passes[wk[i].pass]
      <4>2. wk[i].pc = "query" /\ a \in Answer(kind, HostTarget(hosts[i]), Lost)
            /\ EndsWith(i, Yield(kind, a), IF a.err THEN 1 ELSE 0)
        BY <4>1 DEF Hears
      <4>3. (kind \in SNMPs => w.v2c) /\ (kind \in {"arp_table", "lldp_cdp"} => SpeaksSNMP(hosts[i]))
        BY <2>2, <4>2 DEF HostWorker
      <4>4. Yield(kind, a) \in Seq(ObsOf(w.allowed))
        BY <2>2, <4>2, YieldType
      <4>5. Supported(Yield(kind, a), hosts[i])
        BY <2>2, <4>2, <4>3, YieldSupported
      <4> QED BY <3>2, <4>2, <4>4, <4>5
    <3> QED BY <2>1, <3>1, <3>3, <3>4
  <2>6. \A out, h : Supported(out, h)' = Supported(out, h)
    BY <2>1, SameClaims
  <2>7. Hosts' = Hosts /\ hosts' = hosts /\ \A j \in Hosts : Supported(wk'[j].out, hosts[j])
    BY <2>1, <2>5, HostsAreSlots DEF Hosts, Backed
  <2> QED BY <2>6, <2>7 DEF Backed
<1> QED BY <1>1, <1>2, <1>3, <1>4, <1>5 DEF Next, Main

\* Backed holds throughout.
LEMMA BackedInvariant == Spec => []Backed
<1>1. Init => Backed
  BY DEF Init, Backed, Hosts
<1>2. ScanInv /\ ScanInv' /\ Backed /\ [Next]_vars => Backed'
  BY BackedKept
<1> QED BY <1>1, <1>2, ScanInvariant, PTL DEF Spec

\* What a combined scan returns: what nmap found, what the workers hold, the leases.
Found == FlattenSeq([i \in DOMAIN hosts |-> wk[i].out])
Stated == FlattenSeq([i \in DOMAIN hosts |-> HostClaims(hosts[i])])

\* What an answer is made of.
LEMMA Parts ==
  ASSUME ScanInv, Combined, stage = "done"
  PROVE  /\ nm.obs \in Seq(Obs) /\ dhcp.obs \in Seq(Obs) /\ dhcp.obs = discoverDHCP(w, w.targets).obs
         /\ [i \in DOMAIN hosts |-> wk[i].out] \in Seq(Seq(Obs)) /\ Len([i \in DOMAIN hosts |-> wk[i].out]) = Len(hosts)
         /\ [i \in DOMAIN hosts |-> HostClaims(hosts[i])] \in Seq(Seq(Obs))
         /\ Len([i \in DOMAIN hosts |-> HostClaims(hosts[i])]) = Len(hosts)
         /\ Found \in Seq(Obs) /\ Stated \in Seq(Obs) /\ DOMAIN hosts = Hosts /\ Len(hosts) \in Nat
         /\ Report.obs = mergeObservations(mergeObservations(nm.obs) \o Found \o dhcp.obs)
         /\ Claims = nm.obs \o Stated \o dhcp.obs
<1> DEFINE A == Seq(ObsOf(w.allowed))
           B == Seq(Obs)
           fs == [i \in DOMAIN hosts |-> wk[i].out]
           gs == [i \in DOMAIN hosts |-> HostClaims(hosts[i])]
           n == Len(hosts)
<1>1. A \subseteq B
  BY ObsOfNat
<1>2. Hosts \subseteq Slots \ {0} /\ n \in Nat /\ DOMAIN hosts = Hosts /\ Hosts = 1..n /\ \A i \in Hosts : hosts[i] \in w.allowed
  BY HostsAreSlots DEF Hosts
<1>3. nm.obs \in A /\ dhcp.obs \in A
  <2>1. nm \in [set : 1..Len(Sets), alive : SUBSET w.allowed, obs : A, notes : {nm.notes}]
    BY DEF ScanInv, ScanTyped
  <2>2. dhcp \in [pc : {"idle", "run", "done"}, obs : A]
    BY DEF ScanInv, ScanTyped
  <2> HIDE DEF A
  <2> QED BY <2>1, <2>2
<1>4. dhcp.obs = discoverDHCP(w, w.targets).obs
  BY DEF ScanInv, ScanShaped
<1>5. \A i \in 1..n : wk[i].out \in B
  BY <1>1, <1>2, WorkerAt
<1>6. \A i \in 1..n : HostClaims(hosts[i]) \in B
  BY <1>1, <1>2, HostClaimsType DEF ScanInv, ScanTyped
<1> HIDE DEF B, n
<1>7. fs \in [1..n -> B] /\ gs \in [1..n -> B]
  BY <1>2, <1>5, <1>6
<1> HIDE DEF fs, gs
<1>8. fs \in Seq(B) /\ Len(fs) = n /\ gs \in Seq(B) /\ Len(gs) = n
  BY <1>2, <1>7, FunctionIsSeq
<1>9. FlattenSeq(fs) \in B /\ FlattenSeq(gs) \in B
  BY <1>8, FlattenType DEF B
<1>10. Report.obs = mergeObservations(mergeObservations(nm.obs) \o FlattenSeq(fs) \o dhcp.obs)
  <2>1. w.type = "combined" /\ ~ (w.type \in Labels) /\ ~ (w.type \in NmapOnly) /\ w.type # "dhcp_leases"
    BY LabelIs DEF Combined, NmapOnly
  <2> QED BY <2>1 DEF Report, fs
<1>11. Claims = nm.obs \o FlattenSeq(gs) \o dhcp.obs
  BY <1>4 DEF Claims, gs
<1>12. nm.obs \in B /\ dhcp.obs \in B
  BY <1>1, <1>3
<1> QED BY <1>2, <1>4, <1>8, <1>9, <1>10, <1>11, <1>12 DEF B, fs, gs, n, Found, Stated

(***************************************************************************)
(* Whenever the context ends, a combined scan returns everything nmap      *)
(* found and lets it lead, and no field of the answer holds anything but   *)
(* what a source says of that very address, for any network, pool and      *)
(* schedule (CombinedDiscoverer.Discover, enrichHost, mergeObservations).  *)
(***************************************************************************)
THEOREM CoreFindingsAreKept == Spec => []CoreFindingsKept
<1>1. ScanInv /\ Backed => CoreFindingsKept
  <2> SUFFICES ASSUME ScanInv, Backed, stage = "done", Combined
               PROVE  /\ Addresses(nm.obs) \subseteq Addresses(Report.obs)
                      /\ \A r \in ToSet(Report.obs) :
                           /\ \A f \in DOMAIN Reference(nm.obs, r.ip).val : r.val[f] = Reference(nm.obs, r.ip).val[f]
                           /\ \A f \in DOMAIN r.val : \E o \in ToSet(Claims) :
                                /\ o.ip = r.ip /\ f \in DOMAIN o.val
                                /\ \/ o.val[f] = r.val[f]
                                   \/ f = "hostname" /\ r.ip \in w.mdns /\ r.val[f] = <<"mdns">>
    BY Zenon DEF CoreFindingsKept
  <2> DEFINE N == nm.obs
             M == mergeObservations(N)
             F == Found
             C == Stated
             D == dhcp.obs
             fs == [i \in DOMAIN hosts |-> wk[i].out]
             gs == [i \in DOMAIN hosts |-> HostClaims(hosts[i])]
             rs == Report.obs
             X == (M \o F) \o D
             Y == (N \o F) \o D
  <2>1. /\ N \in Seq(Obs) /\ D \in Seq(Obs) /\ F \in Seq(Obs) /\ C \in Seq(Obs)
        /\ fs \in Seq(Seq(Obs)) /\ Len(fs) = Len(hosts) /\ gs \in Seq(Seq(Obs)) /\ Len(gs) = Len(hosts)
        /\ DOMAIN hosts = Hosts /\ rs = mergeObservations(X) /\ Claims = (N \o C) \o D
    BY Parts
  <2>2. M \in Seq(Obs) /\ Same(M, N) /\ F = FlattenSeq(fs) /\ C = FlattenSeq(gs)
    BY <2>1, SameMerged DEF Found, Stated
  <2>3. M \o F \in Seq(Obs) /\ N \o F \in Seq(Obs) /\ N \o C \in Seq(Obs) /\ X \in Seq(Obs) /\ Y \in Seq(Obs)
    <3> HIDE DEF M, N, F, D, C
    <3> QED BY <2>1, <2>2
  <2>4. rs \in Seq(Obs) /\ IsMerge(rs, X)
    <3>1. X \in Seq(ObsOf(Nat))
      BY <2>3, ObsOfNat
    <3> HIDE DEF X
    <3>2. mergeObservations(X) \in Seq(ObsOf(Nat)) /\ IsMerge(mergeObservations(X), X)
      BY <3>1, Merged
    <3> QED BY <2>1, <3>2, ObsOfNat
  <2> HIDE DEF M, N, F, C, D, rs
  <2>5. Addresses(N) \subseteq Addresses(rs)
    <3>1. Addresses(rs) = Addresses(X) /\ Addresses(M) = Addresses(N)
      BY <2>2, <2>4 DEF IsMerge, Same
    <3>2. Addresses(X) = Addresses(M \o F) \cup Addresses(D) /\ Addresses(M \o F) = Addresses(M) \cup Addresses(F)
      BY <2>1, <2>2, <2>3, AddressesConcat
    <3> QED BY <3>1, <3>2
  <2>6. ASSUME NEW r \in ToSet(rs)
        PROVE  /\ \A f \in DOMAIN Reference(N, r.ip).val : r.val[f] = Reference(N, r.ip).val[f]
               /\ \A f \in DOMAIN r.val : \E o \in ToSet(Claims) :
                    /\ o.ip = r.ip /\ f \in DOMAIN o.val
                    /\ \/ o.val[f] = r.val[f]
                       \/ f = "hostname" /\ r.ip \in w.mdns /\ r.val[f] = <<"mdns">>
    <3>1. PICK k \in 1..Len(rs) : r = rs[k]
      BY <2>4 DEF ToSet
    <3> DEFINE ip == r.ip
    <3>2. r \in Obs
      BY <2>4, <3>1
    <3>3. ip \in Nat /\ r = Reference(X, ip)
      BY <2>4, <3>1, <3>2 DEF Obs, IsMerge
    <3> HIDE DEF ip
    <3>4. Same(M \o F, N \o F)
      <4>1. Same(F, F)
        BY DEF Same
      <4> QED BY <2>1, <2>2, <4>1, SameConcat
    <3>5. Same(X, Y)
      <4>1. Same(D, D)
        BY DEF Same
      <4> QED BY <2>1, <2>3, <3>4, <4>1, SameConcat
    <3>6. r = Reference(Y, ip)
      BY <3>3, <3>5 DEF Same
    <3> DEFINE K == Reference(N, ip)
               L == Reference(F, ip)
               E == Reference(D, ip)
    <3>7. Reference(Y, ip) = mergeInto(Reference(N \o F, ip), E) /\ Reference(N \o F, ip) = mergeInto(K, L)
      <4> DEFINE P == N \o F
      <4>1. P \in Seq(Obs) /\ Y = P \o D
        BY <2>3
      <4>2. Reference(N \o F, ip) = mergeInto(K, L)
        BY <2>1, <3>3, ReferenceConcat
      <4> HIDE DEF P, Y
      <4>3. Reference(P \o D, ip) = mergeInto(Reference(P, ip), Reference(D, ip))
        BY <2>1, <3>3, <4>1, ReferenceConcat
      <4> QED BY <4>1, <4>2, <4>3 DEF P
    <3>8. K \in Obs /\ L \in Obs /\ E \in Obs
      BY <2>1, <3>3, ReferenceType
    <3> HIDE DEF K, L, E
    <3>9. mergeInto(K, L) \in Obs /\ mergeInto(K, L).val = mergeServices(K.val, L.val)
      BY <3>8, MergeInto
    <3>10. r.val = mergeServices(mergeInto(K, L).val, E.val)
      <4> DEFINE G == mergeInto(K, L)
      <4>1. G \in Obs /\ r = mergeInto(G, E)
        BY <3>6, <3>7, <3>9
      <4> HIDE DEF G
      <4>2. mergeInto(G, E).val = mergeServices(G.val, E.val)
        BY <3>8, <4>1, MergeInto
      <4> QED BY <4>1, <4>2 DEF G
    <3>11. ASSUME NEW f \in DOMAIN K.val PROVE r.val[f] = K.val[f]
      <4>1. f \in DOMAIN mergeServices(K.val, L.val) /\ mergeServices(K.val, L.val)[f] = K.val[f]
        BY DEF mergeServices
      <4>2. \A x \in DOMAIN mergeInto(K, L).val : r.val[x] = mergeInto(K, L).val[x]
        <5> DEFINE g == mergeInto(K, L).val
        <5> HIDE DEF g
        <5>1. r.val = mergeServices(g, E.val)
          BY <3>10 DEF g
        <5>2. \A x \in DOMAIN g : r.val[x] = g[x]
          BY <5>1 DEF mergeServices
        <5> QED BY <5>2 DEF g
      <4> QED BY <3>9, <4>1, <4>2
    <3>12. ASSUME NEW f \in DOMAIN r.val
           PROVE  \E o \in ToSet(Claims) :
                    /\ o.ip = ip /\ f \in DOMAIN o.val
                    /\ \/ o.val[f] = r.val[f]
                       \/ f = "hostname" /\ ip \in w.mdns /\ r.val[f] = <<"mdns">>
      <4>1. f \in DOMAIN Reference(Y, ip).val
        BY <3>6
      <4>2. PICK o \in ToSet(Y) : o.ip = ip /\ f \in DOMAIN o.val /\ o.val[f] = Reference(Y, ip).val[f]
        <5> HIDE DEF Y
        <5> QED BY <2>3, <3>3, <4>1, ReferenceSource
      <4>3. o.val[f] = r.val[f]
        BY <3>6, <4>2
      <4>4. ToSet(Y) = ToSet(N) \cup ToSet(F) \cup ToSet(D)
        <5>1. ToSet(Y) = ToSet(N \o F) \cup ToSet(D)
          <6>1. N \o F \in Seq(Obs) /\ D \in Seq(Obs)
            BY <2>1, <2>3
          <6> DEFINE P == N \o F
          <6>2. P \in Seq(Obs) /\ Y = P \o D
            BY <6>1
          <6> HIDE DEF P, Y
          <6>3. ToSet(P \o D) = ToSet(P) \cup ToSet(D)
            BY <6>1, <6>2, ElementsConcat
          <6> QED BY <6>2, <6>3 DEF P
        <5>2. ToSet(N \o F) = ToSet(N) \cup ToSet(F)
          BY <2>1, ElementsConcat, SMTT(30)
        <5> QED BY <5>1, <5>2
      <4>5. ToSet(Claims) = ToSet(N) \cup ToSet(C) \cup ToSet(D)
        <5>1. ToSet((N \o C) \o D) = ToSet(N \o C) \cup ToSet(D)
          <6> DEFINE P == N \o C
          <6>1. P \in Seq(Obs)
            BY <2>3
          <6> HIDE DEF P
          <6>2. ToSet(P \o D) = ToSet(P) \cup ToSet(D)
            BY <2>1, <6>1, ElementsConcat
          <6> QED BY <6>2 DEF P
        <5>2. ToSet(N \o C) = ToSet(N) \cup ToSet(C)
          BY <2>1, ElementsConcat, SMTT(30)
        <5> QED BY <2>1, <5>1, <5>2
      <4>6. CASE o \in ToSet(N) \cup ToSet(D)
        BY <4>2, <4>3, <4>5, <4>6
      <4>7. CASE o \in ToSet(F)
        <5> HIDE DEF fs, gs
        <5>1. PICK i \in 1..Len(fs) : o \in ToSet(fs[i])
          BY <2>1, <2>2, <4>7, ElementsFlatten
        <5>2. i \in Hosts /\ i \in 1..Len(gs)
          BY <2>1, <5>1 DEF Hosts
        <5>3. fs[i] = wk[i].out /\ gs[i] = HostClaims(hosts[i])
          BY <2>1, <5>2 DEF fs, gs
        <5>4. PICK c \in ToSet(HostClaims(hosts[i])) : Backs(c, o, f)
          BY <4>2, <5>1, <5>2, <5>3 DEF Backed, Supported
        <5>5. c \in ToSet(C)
          BY <2>1, <2>2, <5>2, <5>3, <5>4, ElementsFlatten
        <5>6. /\ c.ip = ip /\ f \in DOMAIN c.val
              /\ c.val[f] = r.val[f] \/ (f = "hostname" /\ ip \in w.mdns /\ r.val[f] = <<"mdns">>)
          BY <4>2, <4>3, <5>4 DEF Backs
        <5> QED BY <4>5, <5>5, <5>6
      <4> QED BY <4>2, <4>4, <4>6, <4>7
    <3> QED BY <3>11, <3>12 DEF K, ip
  <2> QED BY <2>5, <2>6 DEF N, rs
<1> QED BY <1>1, ScanInvariant, BackedInvariant, PTL

-----------------------------------------------------------------------------
(* The worker pool of an agent                                             *)

Enriching == {"loop", "acquire", "join"}

\* Workers and the DHCP read are at work only between nmap's end and the join, a routed
\* job only while no pool is.
PoolInv ==
  /\ DOMAIN wk = Slots
  /\ Cardinality(Running) <= enrichWorkers
  /\ stage \notin Enriching => Running = {} /\ dhcp.pc # "run"
  /\ wk[0].pc \in {"check", "query"} => w.type \in Labels
  /\ w.type \in Labels => stage \in {"solo", "done", "failed"}
  /\ next \in Nat \ {0}

\* The pool is finite.
LEMMA SlotsFinite == IsFiniteSet(Slots) /\ IsFiniteSet(Running) /\ 0 \in Slots
<1>1. Cardinality(IPs) \in Nat
  BY ScanAssumption, FS_CardinalityType
<1>2. IsFiniteSet(Slots) /\ 0 \in Slots
  BY <1>1, FS_Interval DEF Slots
<1>3. Running \subseteq Slots
  BY DEF Running
<1> QED BY <1>2, <1>3, FS_Subset

\* Fewer workers at work.
LEMMA FewerRunning ==
  ASSUME Cardinality(Running) <= enrichWorkers, Running' \subseteq Running
  PROVE  Cardinality(Running') <= enrichWorkers /\ (Running = {} => Running' = {})
<1>1. IsFiniteSet(Running)
  BY SlotsFinite
<1>2. Cardinality(Running') <= Cardinality(Running) /\ Cardinality(Running) \in Nat /\ Cardinality(Running') \in Nat
  BY <1>1, FS_Subset, FS_CardinalityType
<1> QED BY <1>2, ScanAssumption

\* A step of the worker of i, to another point of its work or to its end.
LEMMA WorkerMoves ==
  ASSUME PoolInv, NEW i \in Slots, wk[i].pc \in {"check", "query"},
         NEW r, wk' = [wk EXCEPT ![i] = r]
  PROVE  DOMAIN wk' = Slots /\ Running' \subseteq Running /\ (i # 0 => wk'[0] = wk[0])
<1>1. DOMAIN wk = Slots /\ 0 \in Slots
  BY SlotsFinite DEF PoolInv
<1>2. DOMAIN wk' = Slots /\ \A j \in Slots : j # i => wk'[j] = wk[j]
  BY <1>1
<1> QED BY <1>1, <1>2 DEF Running

\* A worker looks at the context or hears an answer.
LEMMA CheckKeepsPool ==
  ASSUME PoolInv, NEW i \in Slots, CheckContext(i) \/ Query(i)
  PROVE  PoolInv'
<1>1. wk[i].pc \in {"check", "query"} /\ UNCHANGED dhcp
  BY DEF CheckContext, Query
<1>2. \E r : wk' = [wk EXCEPT ![i] = r]
  <2>1. ASSUME NEW obs, NEW errs, EndPass(i, obs, errs) PROVE \E r : wk' = [wk EXCEPT ![i] = r]
    BY <2>1 DEF EndPass
  <2>2. ASSUME NEW why, PassFails(i, why) PROVE \E r : wk' = [wk EXCEPT ![i] = r]
    <3>1. CASE i = 0
      BY <2>2, <3>1 DEF PassFails
    <3>2. CASE i # 0
      BY <2>1, <2>2, <3>2 DEF PassFails
    <3> QED BY <3>1, <3>2
  <2>3. CASE CheckContext(i)
    BY <2>2, <2>3 DEF CheckContext
  <2>4. CASE Query(i)
    BY <2>1, <2>4 DEF Query
  <2> QED BY <2>3, <2>4
<1>3. DOMAIN wk' = Slots /\ Running' \subseteq Running /\ (i # 0 => wk'[0] = wk[0])
  BY <1>1, <1>2, WorkerMoves
<1>u. UNCHANGED <<w, next>>
  BY DEF CheckContext, Query
<1>4. stage' = stage \/ (i = 0 /\ stage' \in {"done", "failed"})
  <2>1. ASSUME NEW obs, NEW errs, EndPass(i, obs, errs)
        PROVE  stage' = stage \/ (i = 0 /\ stage' \in {"done", "failed"})
    <3>1. stage' = IF i = 0 THEN "done" ELSE stage
      BY <2>1, Zenon DEF EndPass
    <3> QED BY <3>1
  <2>2. ASSUME NEW why, PassFails(i, why)
        PROVE  stage' = stage \/ (i = 0 /\ stage' \in {"done", "failed"})
    <3>1. CASE i = 0
      BY <2>2, <3>1 DEF PassFails
    <3>2. CASE i # 0
      BY <2>1, <2>2, <3>2 DEF PassFails
    <3> QED BY <3>1, <3>2
  <2>3. CASE CheckContext(i)
    BY <2>2, <2>3 DEF CheckContext
  <2>4. CASE Query(i)
    BY <2>1, <2>4 DEF Query
  <2> QED BY <2>3, <2>4
<1>5. Cardinality(Running') <= enrichWorkers /\ (Running = {} => Running' = {})
  BY <1>3, FewerRunning DEF PoolInv
<1>6. CASE i = 0
  <2>1. w.type \in Labels /\ stage \in {"solo", "done", "failed"} /\ Running = {} /\ dhcp.pc # "run"
    BY <1>1, <1>6 DEF PoolInv, Enriching
  <2> QED BY <1>1, <1>3, <1>4, <1>u, <1>5, <2>1 DEF PoolInv, Enriching, Labels
<1>7. CASE i # 0
  BY <1>1, <1>3, <1>4, <1>u, <1>5, <1>7 DEF PoolInv, Labels
<1> QED BY <1>6, <1>7

\* The stages of nmap.
LEMMA NmapKeepsPool ==
  ASSUME PoolInv, HostDiscovery \/ ServiceScan \/ NmapFails
  PROVE  PoolInv'
<1>1. UNCHANGED <<w, wk, next>> /\ stage \in {"alive", "services"}
  BY DEF HostDiscovery, ServiceScan, NmapFails, SetDone
<1>2. UNCHANGED Running
  BY <1>1 DEF Running
<1>3. Running = {} /\ dhcp.pc # "run" /\ w.type \notin Labels
  BY <1>1 DEF PoolInv, Enriching
<1>4. stage' \in Enriching \/ UNCHANGED dhcp
  BY DEF HostDiscovery, ServiceScan, NmapFails, SetDone, Enriching
<1> QED BY <1>1, <1>2, <1>3, <1>4 DEF PoolInv, Labels

\* A slot of the semaphore is taken only where one is free.
LEMMA StartKeepsPool ==
  ASSUME PoolInv, StartWorker
  PROVE  PoolInv'
<1>0. /\ stage = "acquire" /\ Cardinality(Running) < enrichWorkers /\ stage' = "loop" /\ UNCHANGED <<w, dhcp>>
      /\ wk' = [wk EXCEPT ![next].pc = "check"] /\ next' = next + 1
  BY DEF StartWorker
<1>1. DOMAIN wk = Slots /\ 0 \in Slots /\ w.type \notin Labels /\ next \in Nat \ {0}
  BY <1>0, SlotsFinite DEF PoolInv
<1>2. DOMAIN wk' = Slots /\ (\A j \in Slots : j # next => wk'[j] = wk[j])
  BY <1>0, <1>1
<1>3. wk'[0] = wk[0] /\ next' \in Nat \ {0}
  BY <1>0, <1>1, <1>2
<1>4. Running' \subseteq Running \cup {next}
  BY <1>1, <1>2 DEF Running
<1>5. Cardinality(Running') <= enrichWorkers
  <2>1. IsFiniteSet(Running) /\ Cardinality(Running) \in Nat
    BY SlotsFinite, FS_CardinalityType
  <2>2. IsFiniteSet(Running \cup {next}) /\ Cardinality(Running \cup {next}) <= Cardinality(Running) + 1
    BY <2>1, FS_AddElement
  <2>3. Cardinality(Running') <= Cardinality(Running \cup {next}) /\ Cardinality(Running') \in Nat
        /\ Cardinality(Running \cup {next}) \in Nat
    BY <1>4, <2>2, FS_Subset, FS_CardinalityType
  <2> QED BY <1>0, <2>1, <2>2, <2>3, ScanAssumption
<1> QED BY <1>0, <1>1, <1>2, <1>3, <1>5 DEF PoolInv, Enriching, Labels

\* PoolInv holds throughout.
LEMMA PoolInvariant == Spec => []PoolInv
<1>1. Init => PoolInv
  <2> SUFFICES ASSUME Init PROVE PoolInv
    OBVIOUS
  <2>1. /\ wk = [i \in Slots |-> IF i = 0 /\ w.type \in Labels THEN [Idle EXCEPT !.pc = "check"] ELSE Idle]
        /\ dhcp.pc = "idle" /\ next = 1
        /\ stage = IF w.type \in Labels THEN "solo" ELSE IF w.type = "dhcp_leases" THEN "leases" ELSE "alive"
    BY DEF Init
  <2>2. \A i \in Slots : i # 0 => wk[i].pc = "idle"
    BY <2>1 DEF Idle
  <2>3. Running = {}
    BY <2>2 DEF Running
  <2>4. Cardinality(Running) <= enrichWorkers
    BY <2>3, FS_EmptySet, ScanAssumption
  <2>5. wk[0].pc \in {"check", "query"} => w.type \in Labels
    BY <2>1, SlotsFinite DEF Idle
  <2>6. DOMAIN wk = Slots /\ next \in Nat \ {0} /\ dhcp.pc # "run"
    BY <2>1
  <2>7. w.type \in Labels => stage \in {"solo", "done", "failed"}
    BY <2>1
  <2> QED BY <2>3, <2>4, <2>5, <2>6, <2>7 DEF PoolInv
<1>2. PoolInv /\ [Next]_vars => PoolInv'
  <2> SUFFICES ASSUME PoolInv, [Next]_vars PROVE PoolInv'
    OBVIOUS
  <2>1. CASE Cancel \/ NextHost \/ UNCHANGED vars
    <3>1. UNCHANGED <<w, wk, dhcp, next>>
      BY <2>1 DEF Cancel, NextHost, vars
    <3>2. UNCHANGED Running
      BY <3>1 DEF Running
    <3>3. UNCHANGED stage \/ (stage = "loop" /\ stage' \in Enriching)
      BY <2>1 DEF Cancel, NextHost, vars, Enriching
    <3> QED BY <3>1, <3>2, <3>3 DEF PoolInv, Labels, Enriching
  <2>2. CASE HostDiscovery \/ ServiceScan \/ NmapFails
    BY <2>2, NmapKeepsPool
  <2>3. CASE StartWorker
    BY <2>3, StartKeepsPool
  <2>4. CASE Collect
    <3>1. UNCHANGED <<w, wk, dhcp, next>> /\ Running = {} /\ dhcp.pc = "done" /\ stage' = "done"
      BY <2>4 DEF Collect
    <3>2. UNCHANGED Running
      BY <3>1 DEF Running
    <3> QED BY <3>1, <3>2 DEF PoolInv, Labels, Enriching
  <2>5. CASE ReadLeases
    <3>1. UNCHANGED <<w, wk, next>> /\ dhcp'.pc = "done"
      BY <2>5 DEF ReadLeases
    <3>s. stage' = stage \/ (stage = "leases" /\ stage' = "done")
      BY <2>5 DEF ReadLeases
    <3>2. UNCHANGED Running
      BY <3>1 DEF Running
    <3> QED BY <3>1, <3>s, <3>2 DEF PoolInv, Labels, Enriching
  <2>6. ASSUME NEW i \in Slots, CheckContext(i) \/ Query(i) PROVE PoolInv'
    BY <2>6, CheckKeepsPool
  <2> QED BY <2>1, <2>2, <2>3, <2>4, <2>5, <2>6 DEF Next, Main
<1> QED BY <1>1, <1>2, PTL DEF Spec

(***************************************************************************)
(* At most enrichWorkers hosts are asked at once, and a job that answered  *)
(* leaves no worker and no DHCP read behind (CombinedDiscoverer.enrich),   *)
(* for any network, any pool size and whenever the context ends.           *)
(***************************************************************************)
THEOREM ProbesStayBounded == Spec => []ProbesBounded
<1>1. PoolInv => ProbesBounded
  BY DEF PoolInv, ProbesBounded, Enriching
<1> QED BY <1>1, PoolInvariant, PTL

-----------------------------------------------------------------------------
(* What the workers hold while nothing is cancelled                        *)

\* The hosts that pass p has counted so far.
Counted(p) == {i \in Hosts : At(i) > p /\ Missed(Passes[p], hosts[i])}

\* While the context holds, every worker holds exactly what its host says to the passes it has
\* behind it, and every pass has counted exactly the hosts that did not answer it.
Exact ==
  ~ cancelled /\ Combined =>
    /\ \A i \in Hosts : wk[i].out = SoFar(hosts[i], At(i))
    /\ \A p \in 1..5 : count[Passes[p]] = Cardinality(Counted(p))

\* SoFar, pass by pass.
LEMMA SoFarIs ==
  ASSUME NEW h
  PROVE  /\ SoFar(h, 1) = <<>>
         /\ SoFar(h, 2) = PassClaims("snmp_inventory", h)
         /\ SoFar(h, 3) = PassClaims("snmp_inventory", h) \o PassClaims("arp_table", h)
         /\ SoFar(h, 4) = Asked(h)
         /\ SoFar(h, 5) = Asked(h) \o PassClaims("name_lookup", h)
         /\ SoFar(h, 6) = Asked(h) \o PassClaims("name_lookup", h) \o PassClaims("dns_lookup", h)
BY DEF SoFar

\* SoFar depends on the network alone.
LEMMA SameSoFar ==
  ASSUME w' = w
  PROVE  /\ \A h, p : SoFar(h, p)' = SoFar(h, p)
         /\ \A l, h : Missed(l, h)' = Missed(l, h)
<1>1. /\ \A kind, h : PassClaims(kind, h)' = PassClaims(kind, h)
      /\ \A h : SpeaksSNMP(h)' = SpeaksSNMP(h)
  BY SameClaims, SameWorld
<1>2. \A h : Asked(h)' = Asked(h)
  BY <1>1 DEF Asked
<1>3. \A h, p : SoFar(h, p)' = SoFar(h, p)
  BY <1>1, <1>2 DEF SoFar
<1>4. \A l, h : Missed(l, h)' = Missed(l, h)
  BY <1>1 DEF Missed
<1> QED BY <1>3, <1>4

\* The empty sequence joined to another.
LEMMA NothingLeft ==
  ASSUME NEW X, NEW s \in Seq(X)
  PROVE  <<>> \o s = s /\ s \o <<>> = s
OBVIOUS

\* A pass that ends while the context holds.
LEMMA HostExact ==
  ASSUME ScanInv, ~ cancelled, NEW i \in Hosts, wk[i].out = SoFar(hosts[i], wk[i].pass),
         GivesUp(i) \/ \E a : Hears(i, a)
  PROVE  \E obs \in Seq(ObsOf(w.allowed)) :
           /\ EndsWith(i, obs, IF Missed(Passes[wk[i].pass], hosts[i]) THEN 1 ELSE 0)
           /\ wk[i].out \o obs = SoFar(hosts[i], NextPass(wk[i].pass, obs))
           /\ wk[i].pass = 1 /\ obs = <<>> => ~ SpeaksSNMP(hosts[i])
<1> DEFINE h == hosts[i]
           p == wk[i].pass
           kind == Passes[p]
           A == Seq(ObsOf(w.allowed))
<1>1. /\ h \in w.allowed /\ wk[i] \in Worker(w.allowed) /\ HostWorker(wk[i], i) /\ w \in Worlds
      /\ p \in 1..5 /\ kind \in Labels /\ wk[i].out \in A
      /\ p <= 3 <=> kind \in SNMPs
      /\ p \in {2, 3} <=> kind \in {"arp_table", "lldp_cdp"}
  BY WorkerAt DEF ScanInv, ScanTyped
<1>2. wk[i].pc \in {"check", "query"}
  BY DEF GivesUp, Hears
<1>3. p \in {2, 3} => SpeaksSNMP(h)
  BY <1>1, <1>2 DEF HostWorker
<1>4. <<>> \in A
  OBVIOUS
<1>5. CASE GivesUp(i)
  <2>1. kind \in SNMPs /\ ~ w.v2c /\ EndsWith(i, <<>>, 0)
    BY <1>5 DEF GivesUp
  <2>2. p = 1 /\ ~ SpeaksSNMP(h)
    <3>1. ~ SpeaksSNMP(h)
      BY <2>1 DEF SpeaksSNMP
    <3> QED BY <1>1, <1>3, <2>1, <3>1
  <2>3. kind = "snmp_inventory"
    BY <2>2, LabelIs
  <2>4. ~ Missed(kind, h)
    BY <2>1, <2>3 DEF Missed
  <2>5. EndsWith(i, <<>>, IF Missed(kind, h) THEN 1 ELSE 0)
    BY <2>1, <2>4
  <2>6. wk[i].out \o <<>> = SoFar(h, NextPass(p, <<>>))
    <3>1. NextPass(p, <<>>) = 4
      BY <2>2 DEF NextPass
    <3>2. SoFar(h, 1) = <<>> /\ SoFar(h, 4) = <<>>
      BY <2>2, SoFarIs DEF Asked
    <3> QED BY <2>2, <3>1, <3>2
  <2> HIDE DEF A, h, p, kind
  <2>7. \E obs \in A : /\ EndsWith(i, obs, IF Missed(kind, h) THEN 1 ELSE 0)
                       /\ wk[i].out \o obs = SoFar(h, NextPass(p, obs))
                       /\ p = 1 /\ obs = <<>> => ~ SpeaksSNMP(h)
    BY <1>4, <2>2, <2>5, <2>6
  <2> QED BY <2>7 DEF A, h, p, kind
<1>6. CASE \E a : Hears(i, a)
  <2>1. PICK a : Hears(i, a)
    BY <1>6
  <2> DEFINE obs == Yield(kind, a)
  <2>2. wk[i].pc = "query" /\ a \in Answer(kind, HostTarget(h), Lost) /\ EndsWith(i, obs, IF a.err THEN 1 ELSE 0)
    BY <2>1 DEF Hears
  <2>3. a \in Answer(kind, HostTarget(h), {})
    BY <2>2 DEF Lost
  <2>4. (kind \in SNMPs => w.v2c) /\ (kind \in {"arp_table", "lldp_cdp"} => SpeaksSNMP(h))
    BY <1>1, <1>3, <2>2 DEF HostWorker
  <2>5. a.err <=> Missed(kind, h)
    BY <1>1, <2>3, <2>4, MissedIs
  <2>6. PassClaims(kind, h) = Gather(kind, <<>>, a.obs)
    BY <1>1, <2>3, <2>4, ClaimsAre
  <2>7. obs \in A
    BY <1>1, <2>2, YieldType
  <2>8. obs = IF kind = "lldp_cdp" THEN mergeObservations(PassClaims(kind, h)) ELSE PassClaims(kind, h)
    BY <2>6 DEF Yield
  <2>9. EndsWith(i, obs, IF Missed(kind, h) THEN 1 ELSE 0)
    BY <2>2, <2>5
  <2>10. p = 1 => (obs = <<>> <=> ~ SpeaksSNMP(h))
    <3> SUFFICES ASSUME p = 1 PROVE obs = <<>> <=> ~ SpeaksSNMP(h)
      OBVIOUS
    <3>1. kind = "snmp_inventory" /\ w.v2c
      BY <1>1, <2>4, LabelIs DEF SNMPs
    <3>2. Gather("snmp_inventory", <<>>, a.obs) = <<>> <=> ~ SpeaksSNMP(h)
      BY <1>1, <2>3, <3>1, InventorySome
    <3> QED BY <2>6, <2>8, <3>1, <3>2
  <2> HIDE DEF obs, A
  <2>11. wk[i].out \o obs = SoFar(h, NextPass(p, obs))
    <3> HIDE DEF h
    <3>0. p \in {1, 2, 3, 4, 5}
      BY <1>1
    <3>1. CASE p = 1
      <4>1. kind = "snmp_inventory" /\ wk[i].out = <<>>
        BY <3>1, LabelIs, SoFarIs DEF h
      <4>2. wk[i].out \o obs = obs
        BY <2>7, <4>1, NothingLeft DEF A
      <4>3. CASE SpeaksSNMP(h)
        <5>1. NextPass(p, obs) = 2
          BY <2>10, <3>1, <4>3 DEF NextPass
        <5> QED BY <2>8, <4>1, <4>2, <5>1, SoFarIs
      <4>4. CASE ~ SpeaksSNMP(h)
        <5>1. NextPass(p, obs) = 4 /\ obs = <<>>
          BY <2>10, <3>1, <4>4 DEF NextPass
        <5>2. Asked(h) = <<>>
          BY <4>4 DEF Asked
        <5> QED BY <4>2, <5>1, <5>2, SoFarIs
      <4> QED BY <4>3, <4>4
    <3>2. CASE p = 2
      <4>1. kind = "arp_table" /\ NextPass(p, obs) = 3 /\ wk[i].out = SoFar(h, 2)
        BY <3>2, LabelIs DEF NextPass, h
      <4>2. obs = PassClaims("arp_table", h)
        BY <2>8, <4>1
      <4> QED BY <4>1, <4>2, SoFarIs
    <3>3. CASE p = 3
      <4>1. kind = "lldp_cdp" /\ NextPass(p, obs) = 4 /\ wk[i].out = SoFar(h, 3)
        BY <3>3, LabelIs DEF NextPass, h
      <4>2. obs = mergeObservations(PassClaims("lldp_cdp", h)) /\ SpeaksSNMP(h)
        BY <2>4, <2>8, <4>1
      <4>3. Asked(h) = PassClaims("snmp_inventory", h) \o PassClaims("arp_table", h) \o obs
        BY <4>2 DEF Asked
      <4> QED BY <4>1, <4>3, SoFarIs
    <3>4. CASE p = 4
      <4>1. kind = "name_lookup" /\ NextPass(p, obs) = 5 /\ wk[i].out = SoFar(h, 4)
        BY <3>4, LabelIs DEF NextPass, h
      <4>2. obs = PassClaims("name_lookup", h)
        BY <2>8, <4>1
      <4> QED BY <4>1, <4>2, SoFarIs
    <3>5. CASE p = 5
      <4>1. kind = "dns_lookup" /\ NextPass(p, obs) = 6 /\ wk[i].out = SoFar(h, 5)
        BY <3>5, LabelIs DEF NextPass, h
      <4>2. obs = PassClaims("dns_lookup", h)
        BY <2>8, <4>1
      <4> QED BY <4>1, <4>2, SoFarIs
    <3> QED BY <3>0, <3>1, <3>2, <3>3, <3>4, <3>5
  <2> HIDE DEF h, p, kind
  <2>12. \E o \in A : /\ EndsWith(i, o, IF Missed(kind, h) THEN 1 ELSE 0)
                      /\ wk[i].out \o o = SoFar(h, NextPass(p, o))
                      /\ p = 1 /\ o = <<>> => ~ SpeaksSNMP(h)
    BY <2>7, <2>9, <2>10, <2>11
  <2> QED BY <2>12 DEF A, h, p, kind
<1> QED BY <1>5, <1>6

\* The hosts a pass has counted are finitely many.
LEMMA CountedFinite ==
  ASSUME ScanInv, NEW p
  PROVE  IsFiniteSet(Counted(p)) /\ Cardinality(Counted(p)) \in Nat
<1>1. IsFiniteSet(Hosts)
  BY HostsAreSlots, FS_Interval DEF Hosts
<1>2. Counted(p) \subseteq Hosts
  BY DEF Counted
<1> QED BY <1>1, <1>2, FS_Subset, FS_CardinalityType

\* The worker of host i goes from pass p to q; SNMP passes it skips count nobody.
LEMMA CountedGrows ==
  ASSUME ScanInv, NEW i \in Hosts, w' = w, hosts' = hosts, NEW p \in 1..5, NEW q \in 2..6,
         At(i) = p, At(i)' = q, \A j \in Hosts : j # i => At(j)' = At(j) /\ At(j) \in 1..6,
         q = p + 1 \/ (p = 1 /\ q = 4 /\ ~ SpeaksSNMP(hosts[i]))
  PROVE  /\ \A k \in 1..5 : k # p => Counted(k)' = Counted(k)
         /\ Missed(Passes[p], hosts[i]) => Counted(p)' = Counted(p) \cup {i}
         /\ ~ Missed(Passes[p], hosts[i]) => Counted(p)' = Counted(p)
         /\ i \notin Counted(p)
<1>1. /\ Hosts' = Hosts
      /\ \A l, h : Missed(l, h)' = Missed(l, h)
  BY SameSoFar DEF Hosts
<1>2. i \notin Counted(p)
  BY DEF Counted
<1>3. ASSUME NEW k \in 1..5 PROVE Counted(k)' = {j \in Hosts : At(j)' > k /\ Missed(Passes[k], hosts[j])}
  BY <1>1 DEF Counted
<1>4. ASSUME NEW k \in 1..5, NEW j \in Hosts, j # i PROVE j \in Counted(k)' <=> j \in Counted(k)
  BY <1>3, <1>4 DEF Counted
<1>5. ASSUME NEW k \in 1..5, k # p PROVE i \in Counted(k)' <=> i \in Counted(k)
  <2>1. i \in Counted(k)' <=> q > k /\ Missed(Passes[k], hosts[i])
    BY <1>3
  <2>2. i \in Counted(k) <=> p > k /\ Missed(Passes[k], hosts[i])
    BY DEF Counted
  <2>3. CASE q = p + 1
    BY <1>5, <2>1, <2>2, <2>3
  <2>4. CASE p = 1 /\ q = 4 /\ ~ SpeaksSNMP(hosts[i])
    <3>1. k \in {2, 3, 4, 5}
      BY <1>5, <2>4
    <3>2. k \in {2, 3} => ~ Missed(Passes[k], hosts[i])
      BY <2>4, LabelIs DEF Missed
    <3> QED BY <2>1, <2>2, <2>4, <3>1, <3>2
  <2> QED BY <2>3, <2>4
<1>6. i \in Counted(p)' <=> Missed(Passes[p], hosts[i])
  <2>1. q > p
    OBVIOUS
  <2> QED BY <1>3, <2>1
<1>7. \A k \in 1..5 : Counted(k) \subseteq Hosts /\ Counted(k)' \subseteq Hosts
  BY <1>1 DEF Counted
<1>8. ASSUME NEW k \in 1..5, k # p PROVE Counted(k)' = Counted(k)
  BY <1>4, <1>5, <1>7, <1>8, SMTT(30)
<1>9. Missed(Passes[p], hosts[i]) => Counted(p)' = Counted(p) \cup {i}
  BY <1>4, <1>6, <1>7
<1>10. ~ Missed(Passes[p], hosts[i]) => Counted(p)' = Counted(p)
  BY <1>2, <1>4, <1>6, <1>7
<1> QED BY <1>2, <1>8, <1>9, <1>10

\* Every pass has a label of its own.
LEMMA PassesDistinct == \A p, q \in 1..5 : Passes[p] \in Labels /\ (Passes[p] = Passes[q] => p = q)
<1>1. 1..5 = {1, 2, 3, 4, 5}
  OBVIOUS
<1> QED BY <1>1, LabelIs

\* Nobody moves: a step that leaves the hosts, how far their workers are and what they hold.
LEMMA StillExact ==
  ASSUME Exact, w' = w, hosts' = hosts, count' = count, cancelled' = FALSE => cancelled = FALSE,
         cancelled \in BOOLEAN, cancelled' \in BOOLEAN,
         \A j \in Hosts : wk'[j].out = wk[j].out /\ At(j)' = At(j)
  PROVE  Exact'
<1>1. Hosts' = Hosts /\ Combined' = Combined
  BY SameWorld DEF Hosts
<1>2. /\ \A h, p : SoFar(h, p)' = SoFar(h, p)
      /\ \A l, h : Missed(l, h)' = Missed(l, h)
  BY SameSoFar
<1>3. \A p : Counted(p)' = Counted(p)
  BY <1>1, <1>2 DEF Counted
<1> SUFFICES ASSUME ~ cancelled', Combined
             PROVE  /\ \A i \in Hosts : wk'[i].out = SoFar(hosts[i], At(i))'
                    /\ \A p \in 1..5 : count'[Passes[p]] = Cardinality(Counted(p))'
  BY <1>1 DEF Exact
<1>4. /\ \A i \in Hosts : wk[i].out = SoFar(hosts[i], At(i))
      /\ \A p \in 1..5 : count[Passes[p]] = Cardinality(Counted(p))
  BY DEF Exact
<1>5. \A i \in Hosts : SoFar(hosts[i], At(i))' = SoFar(hosts[i], At(i))
  BY <1>2
<1> QED BY <1>3, <1>4, <1>5

\* Every step keeps Exact.
LEMMA ExactKept ==
  ASSUME ScanInv, ScanInv', Exact, [Next]_vars
  PROVE  Exact'
<1>0. cancelled \in BOOLEAN /\ cancelled' \in BOOLEAN /\ wk \in [Slots -> Worker(w.allowed)] /\ Hosts \subseteq Slots \ {0}
  BY HostsAreSlots DEF ScanInv, ScanTyped
<1>1. CASE Cancel \/ NextHost \/ Collect \/ NmapFails \/ ReadLeases \/ UNCHANGED vars
  <2>1. UNCHANGED <<w, hosts, wk, count>>
    BY <1>1, Zenon DEF Cancel, NextHost, Collect, NmapFails, ReadLeases, vars
  <2>2. cancelled' = FALSE => cancelled = FALSE
    BY <1>0, <1>1 DEF Cancel, NextHost, Collect, NmapFails, ReadLeases, vars
  <2>3. \A j \in Hosts : wk'[j].out = wk[j].out /\ At(j)' = At(j)
    BY <2>1 DEF At
  <2> QED BY <1>0, <2>1, <2>2, <2>3, StillExact
<1>2. CASE HostDiscovery \/ ServiceScan
  <2>1. /\ UNCHANGED <<w, wk, count, cancelled>> /\ hosts = <<>>
        /\ \A i \in Slots \ {0} : wk[i].pc = "idle" /\ wk[i].pass = 1 /\ wk[i].out = <<>>
    BY <1>2, FreshWorkers
  <2>2. Hosts' \subseteq Slots \ {0}
    <3>1. w \in Worlds /\ hosts' \in Distinct(w.allowed)
      BY <2>1 DEF ScanInv, ScanTyped
    <3> QED BY <3>1, SlotsAre DEF Hosts
  <2>3. \A i \in Hosts' : wk'[i].out = <<>> /\ At(i)' = 1
    BY <2>1, <2>2 DEF At
  <2>4. \A p \in 1..5 : Counted(p)' = {} /\ Counted(p) = {}
    <3>1. Hosts = {}
      BY <2>1 DEF Hosts
    <3>2. \A p \in 1..5 : Counted(p) = {}
      BY <3>1 DEF Counted
    <3>3. ASSUME NEW p \in 1..5 PROVE Counted(p)' = {}
      <4>1. \A i \in Hosts' : ~ (At(i)' > p)
        BY <2>3
      <4> QED BY <4>1 DEF Counted
    <3> QED BY <3>2, <3>3
  <2> SUFFICES ASSUME ~ cancelled', Combined'
               PROVE  /\ \A i \in Hosts' : wk'[i].out = SoFar(hosts[i], At(i))'
                      /\ \A p \in 1..5 : count'[Passes[p]] = Cardinality(Counted(p))'
    BY DEF Exact
  <2>5. \A p \in 1..5 : count[Passes[p]] = Cardinality(Counted(p))
    BY <2>1, SameWorld DEF Exact
  <2>6. \A i \in Hosts' : SoFar(hosts[i], At(i))' = <<>>
    <3>1. \A h : SoFar(h, 1)' = <<>>
      BY <2>1, SameSoFar, SoFarIs
    <3> QED BY <2>3, <3>1
  <2> QED BY <2>1, <2>3, <2>4, <2>5, <2>6
<1>3. CASE StartWorker
  <2>1. UNCHANGED <<w, hosts, count, cancelled>> /\ wk' = [wk EXCEPT ![next].pc = "check"] /\ stage = "acquire"
    BY <1>3, Zenon DEF StartWorker
  <2>2. next \in Slots \ {0} /\ wk[next].pc = "idle"
    <3>1. next \in 1..(Len(hosts) + 1) /\ next <= Len(hosts) /\ Len(hosts) \in Nat
      BY <2>1, HostsAreSlots DEF ScanInv, ScanShaped
    <3>2. next \in Hosts
      BY <3>1 DEF Hosts
    <3>3. HostWorker(wk[next], next) /\ next \in Slots \ {0}
      BY <3>2, WorkerAt
    <3> QED BY <3>1, <3>3 DEF HostWorker
  <2>3. \A j \in Slots : wk'[j].out = wk[j].out /\ wk'[j].pass = wk[j].pass /\ (wk'[j].pc = "done" <=> wk[j].pc = "done")
    BY <1>0, <2>1, <2>2 DEF Worker
  <2>4. \A j \in Hosts : wk'[j].out = wk[j].out /\ At(j)' = At(j)
    BY <1>0, <2>3 DEF At
  <2> QED BY <1>0, <2>1, <2>4, StillExact
<1>4. CASE CheckContext(0) \/ Query(0)
  <2>1. w' = w /\ ~ Combined
    BY <1>4, SoloSteps
  <2> QED BY <2>1, SameWorld DEF Exact
<1>5. ASSUME NEW i \in Slots \ {0}, CheckContext(i) \/ Query(i) PROVE Exact'
  <2>1. /\ i \in Hosts /\ UNCHANGED <<w, cancelled, nm, hosts, next, dhcp, stage>>
        /\ Asks(i) \/ GivesUp(i) \/ \E a : Hears(i, a)
    BY <1>5, HostSteps
  <2>2. CASE Asks(i)
    <3>1. wk' = [wk EXCEPT ![i].pc = "query"] /\ count' = count /\ wk[i].pc = "check"
      BY <2>2 DEF Asks
    <3>2. \A j \in Slots : wk'[j].out = wk[j].out /\ wk'[j].pass = wk[j].pass /\ (wk'[j].pc = "done" <=> wk[j].pc = "done")
      BY <1>0, <3>1 DEF Worker
    <3>3. \A j \in Hosts : wk'[j].out = wk[j].out /\ At(j)' = At(j)
      BY <1>0, <3>2 DEF At
    <3> QED BY <1>0, <2>1, <3>1, <3>3, StillExact
  <2>3. CASE GivesUp(i) \/ \E a : Hears(i, a)
    <3>0. Hosts' = Hosts /\ Combined' = Combined
      BY <2>1, SameWorld DEF Hosts
    <3> SUFFICES ASSUME ~ cancelled', Combined
                 PROVE  /\ \A j \in Hosts : wk'[j].out = SoFar(hosts[j], At(j))'
                        /\ \A k \in 1..5 : count'[Passes[k]] = Cardinality(Counted(k))'
      BY <3>0 DEF Exact
    <3>1. /\ \A j \in Hosts : wk[j].out = SoFar(hosts[j], At(j))
          /\ \A k \in 1..5 : count[Passes[k]] = Cardinality(Counted(k))
          /\ ~ cancelled
      BY <2>1 DEF Exact
    <3>p. PICK p : p = wk[i].pass
      OBVIOUS
    <3> DEFINE h == hosts[i]
    <3>2. /\ i \in Slots \ {0} /\ wk[i] \in Worker(w.allowed) /\ p \in 1..5
      BY <2>1, <3>p, WorkerAt
    <3>3. wk[i].pc \in {"check", "query"} /\ At(i) = p
      <4>1. wk[i].pc \in {"check", "query"}
        BY <2>3 DEF GivesUp, Hears
      <4> QED BY <3>p, <4>1 DEF At
    <3>4. wk[i].out = SoFar(h, p)
      BY <2>1, <3>1, <3>3
    <3>5. PICK obs \in Seq(ObsOf(w.allowed)) :
           /\ EndsWith(i, obs, IF Missed(Passes[p], h) THEN 1 ELSE 0)
           /\ wk[i].out \o obs = SoFar(h, NextPass(p, obs))
           /\ p = 1 /\ obs = <<>> => ~ SpeaksSNMP(h)
      BY <2>1, <2>3, <3>p, <3>1, <3>4, HostExact
    <3> DEFINE q == NextPass(p, obs)
               e == IF Missed(Passes[p], h) THEN 1 ELSE 0
               r == Advanced(wk[i], obs)
    <3>6. wk' = [wk EXCEPT ![i] = r] /\ count' = [count EXCEPT ![Passes[p]] = @ + e]
      BY <3>p, <3>5 DEF EndsWith
    <3>7. /\ r.out = wk[i].out \o obs /\ (r.pc = "done" <=> q = 6) /\ r.pass = IF q = 6 THEN 1 ELSE q
      <4> DEFINE v == wk[i]
      <4>1. v \in Worker(w.allowed) /\ v.pass = p
        BY <3>p, <3>2
      <4> HIDE DEF v
      <4>2. /\ Advanced(v, obs).out = v.out \o obs
            /\ Advanced(v, obs).pc = "done" <=> NextPass(v.pass, obs) = 6
            /\ Advanced(v, obs).pass = IF NextPass(v.pass, obs) = 6 THEN 1 ELSE NextPass(v.pass, obs)
        BY <4>1, AdvancedIs
      <4> QED BY <4>1, <4>2 DEF v
    <3>8. q \in 2..6 /\ (q = p + 1 \/ (p = 1 /\ q = 4 /\ ~ SpeaksSNMP(h)))
      <4>1. p \in {1, 2, 3, 4, 5}
        BY <3>2
      <4>2. q = IF p = 1 /\ obs = <<>> THEN 4 ELSE p + 1
        BY DEF NextPass
      <4> HIDE DEF q
      <4> QED BY <3>5, <4>1, <4>2
    <3> HIDE DEF r, q
    <3>9. wk'[i] = r /\ \A j \in Slots : j # i => wk'[j] = wk[j]
      BY <1>0, <3>2, <3>6
    <3>10. At(i)' = q /\ wk'[i].out = SoFar(h, q)
      <4>1. At(i)' = IF wk'[i].pc = "done" THEN 6 ELSE wk'[i].pass
        BY DEF At
      <4>2. wk[i].out \o obs = SoFar(h, q)
        BY <3>5 DEF q
      <4> QED BY <3>7, <3>8, <3>9, <4>1, <4>2
    <3>11. \A j \in Hosts : j # i => At(j)' = At(j) /\ wk'[j].out = wk[j].out /\ At(j) \in 1..6
      <4> SUFFICES ASSUME NEW j \in Hosts, j # i PROVE At(j)' = At(j) /\ wk'[j].out = wk[j].out /\ At(j) \in 1..6
        OBVIOUS
      <4>1. wk'[j] = wk[j] /\ wk[j].pass \in 1..5
        BY <1>0, <3>9, WorkerAt
      <4> QED BY <4>1 DEF At
    <3>12. \A g, k : SoFar(g, k)' = SoFar(g, k)
      BY <2>1, SameSoFar
    <3>13. ASSUME NEW j \in Hosts PROVE wk'[j].out = SoFar(hosts[j], At(j))'
      <4>1. SoFar(hosts[j], At(j))' = SoFar(hosts[j], At(j)')
        BY <2>1, <3>12
      <4>2. CASE j = i
        BY <3>10, <4>1, <4>2
      <4>3. CASE j # i
        BY <3>1, <3>11, <4>1, <4>3
      <4> QED BY <4>2, <4>3
    <3>14. /\ \A k \in 1..5 : k # p => Counted(k)' = Counted(k)
           /\ Missed(Passes[p], h) => Counted(p)' = Counted(p) \cup {i}
           /\ ~ Missed(Passes[p], h) => Counted(p)' = Counted(p)
           /\ i \notin Counted(p)
      <4>1. \A j \in Hosts : j # i => At(j)' = At(j) /\ At(j) \in 1..6
        BY <3>11
      <4> QED BY <2>1, <3>2, <3>3, <3>8, <3>10, <4>1, CountedGrows
    <3>15. count \in [Labels -> Nat] /\ Passes[p] \in Labels
      BY <3>2, PassesDistinct DEF ScanInv, ScanTyped
    <3>16. ASSUME NEW k \in 1..5 PROVE count'[Passes[k]] = Cardinality(Counted(k))'
      <4>1. CASE k # p
        <5>1. Passes[k] # Passes[p] /\ Passes[k] \in Labels
          BY <3>2, <4>1, PassesDistinct
        <5>2. count'[Passes[k]] = count[Passes[k]]
          BY <3>6, <3>15, <5>1
        <5> QED BY <3>1, <3>14, <4>1, <5>2
      <4>2. CASE k = p
        <5>1. count'[Passes[p]] = count[Passes[p]] + e
          BY <3>6, <3>15
        <5>2. IsFiniteSet(Counted(p)) /\ Cardinality(Counted(p)) \in Nat
          BY CountedFinite
        <5>3. CASE Missed(Passes[p], h)
          <6>1. Cardinality(Counted(p) \cup {i}) = Cardinality(Counted(p)) + 1
            BY <3>14, <5>2, FS_AddElement
          <6> QED BY <3>1, <3>2, <3>14, <4>2, <5>1, <5>3, <6>1
        <5>4. CASE ~ Missed(Passes[p], h)
          BY <3>1, <3>2, <3>14, <4>2, <5>1, <5>2, <5>4
        <5> QED BY <5>3, <5>4
      <4> QED BY <4>1, <4>2
    <3> QED BY <3>13, <3>16
  <2> QED BY <2>1, <2>2, <2>3
<1> QED BY <1>1, <1>2, <1>3, <1>4, <1>5 DEF Next, Main

\* Exact holds throughout.
LEMMA ExactInvariant == Spec => []Exact
<1>1. Init => Exact
  <2> SUFFICES ASSUME Init PROVE Exact
    OBVIOUS
  <2>1. hosts = <<>> /\ count = [l \in Labels |-> 0]
    BY DEF Init
  <2>2. Hosts = {}
    BY <2>1 DEF Hosts
  <2>3. \A p \in 1..5 : Cardinality(Counted(p)) = 0
    BY <2>2, FS_EmptySet DEF Counted
  <2>4. \A p \in 1..5 : count[Passes[p]] = 0
    BY <2>1, PassesDistinct
  <2> QED BY <2>2, <2>3, <2>4 DEF Exact
<1>2. ScanInv /\ ScanInv' /\ Exact /\ [Next]_vars => Exact'
  BY ExactKept
<1> QED BY <1>1, <1>2, ScanInvariant, PTL DEF Spec

-----------------------------------------------------------------------------
(* The answer does not depend on the schedule                              *)

\* What a finished worker holds says the same as the claims about its host.
LEMMA SameAsClaimed ==
  ASSUME w \in Worlds, NEW h \in w.allowed
  PROVE  SoFar(h, 6) \in Seq(Obs) /\ HostClaims(h) \in Seq(Obs) /\ Same(SoFar(h, 6), HostClaims(h))
<1> DEFINE A == Seq(Obs)
           a == PassClaims("snmp_inventory", h)
           b == PassClaims("arp_table", h)
           c == PassClaims("lldp_cdp", h)
           d == PassClaims("name_lookup", h)
           e == PassClaims("dns_lookup", h)
           m == mergeObservations(c)
           s == IF SpeaksSNMP(h) THEN a \o b \o c ELSE <<>>
           t == IF SpeaksSNMP(h) THEN a \o b \o m ELSE <<>>
<1>1. a \in A /\ b \in A /\ c \in A /\ d \in A /\ e \in A
  BY ClaimsType, LabelIs, ObsOfNat
<1>2. HostClaims(h) = (s \o d) \o e
  BY DEF HostClaims
<1>3. SoFar(h, 6) = (t \o d) \o e
  BY SoFarIs DEF Asked
<1> HIDE DEF a, b, c, d, e
<1>4. m \in A /\ Same(m, c)
  BY <1>1, SameMerged
<1>5. \A x : Same(x, x)
  BY DEF Same
<1> HIDE DEF m
<1>6. s \in A /\ t \in A /\ Same(t, s)
  <2>1. a \o b \in A /\ (a \o b) \o c \in A /\ (a \o b) \o m \in A /\ <<>> \in A
    BY <1>1, <1>4
  <2>2. Same((a \o b) \o m, (a \o b) \o c)
    BY <1>1, <1>4, <1>5, <2>1, SameConcat
  <2> QED BY <1>5, <2>1, <2>2
<1> HIDE DEF s, t
<1>7. s \o d \in A /\ t \o d \in A /\ (s \o d) \o e \in A /\ (t \o d) \o e \in A
  BY <1>1, <1>6
<1>8. Same(t \o d, s \o d)
  BY <1>1, <1>5, <1>6, SameConcat
<1>9. Same((t \o d) \o e, (s \o d) \o e)
  BY <1>1, <1>5, <1>7, <1>8, SameConcat
<1> QED BY <1>2, <1>3, <1>7, <1>9

\* A merge has exactly the records that the reference has.
LEMMA MergeElements ==
  ASSUME NEW r \in Seq(Obs), NEW c \in Seq(Obs), IsMerge(r, c)
  PROVE  ToSet(r) = {Reference(c, ip) : ip \in Addresses(c)} /\ IsInjective(observedIPs(r))
<1>1. /\ DOMAIN r = 1..Len(r)
      /\ \A i, j \in 1..Len(r) : r[i].ip = r[j].ip => i = j
      /\ Addresses(r) = Addresses(c)
      /\ \A i \in 1..Len(r) : r[i] = Reference(c, r[i].ip)
  BY DEF IsMerge
<1>2. Addresses(c) = {r[i].ip : i \in 1..Len(r)}
  BY <1>1 DEF Addresses
<1>3. ToSet(r) = {r[i] : i \in 1..Len(r)}
  BY <1>1 DEF ToSet
<1>4. ToSet(r) = {Reference(c, ip) : ip \in Addresses(c)}
  <2>1. ASSUME NEW o \in ToSet(r) PROVE o \in {Reference(c, ip) : ip \in Addresses(c)}
    <3>1. PICK i \in 1..Len(r) : o = r[i]
      BY <1>3
    <3>2. r[i].ip \in Addresses(c) /\ o = Reference(c, r[i].ip)
      BY <1>1, <1>2, <3>1
    <3> QED BY <3>2
  <2>2. ASSUME NEW o \in {Reference(c, ip) : ip \in Addresses(c)} PROVE o \in ToSet(r)
    <3>1. PICK ip \in Addresses(c) : o = Reference(c, ip)
      OBVIOUS
    <3>2. PICK i \in 1..Len(r) : ip = r[i].ip
      BY <1>2
    <3>3. o = r[i]
      BY <1>1, <3>1, <3>2
    <3> QED BY <1>3, <3>3
  <2> QED BY <2>1, <2>2
<1>5. IsInjective(observedIPs(r))
  <2> DEFINE f == observedIPs(r)
  <2>1. DOMAIN f = 1..Len(r) /\ \A i \in 1..Len(r) : f[i] = r[i].ip
    BY <1>1 DEF observedIPs
  <2> HIDE DEF f
  <2>2. IsInjective(f)
    BY <1>1, <2>1 DEF IsInjective
  <2> QED BY <2>2 DEF f
<1> QED BY <1>4, <1>5

\* Once a scan whose context holds has answered, every host has been through every pass.
LEMMA AllDone ==
  ASSUME ScanInv, PoolInv, Combined, stage = "done", ~ cancelled
  PROVE  \A i \in Hosts : At(i) = 6
<1> SUFFICES ASSUME NEW i \in Hosts PROVE At(i) = 6
  OBVIOUS
<1>1. i \in Slots \ {0} /\ HostWorker(wk[i], i) /\ wk[i] \in Worker(w.allowed)
  BY WorkerAt
<1>2. Running = {}
  BY DEF PoolInv, Enriching
<1>3. ~ (wk[i].pc \in {"check", "query"})
  BY <1>1, <1>2 DEF Running
<1>4. i < next
  <2>1. next > Len(hosts) /\ next \in 1..(Len(hosts) + 1) /\ Len(hosts) \in Nat
    BY HostsAreSlots DEF ScanInv, ScanShaped
  <2> QED BY <2>1 DEF Hosts
<1>5. wk[i].pc # "idle" /\ wk[i].pc \in {"idle", "check", "query", "done"}
  BY <1>1, <1>4 DEF HostWorker, Worker
<1>6. wk[i].pc = "done"
  BY <1>3, <1>5
<1> QED BY <1>6 DEF At

(***************************************************************************)
(* However the workers, the DHCP read and the loop interleave, a combined  *)
(* scan whose context holds returns one record per address, every field    *)
(* from the leading source that has it, all evidence in that order, and    *)
(* counts every host that did not answer once per pass it was asked, for   *)
(* any network, any pool size and any number of hosts                      *)
(* (CombinedDiscoverer.enrich, enrichHost, mergeObservations).             *)
(***************************************************************************)
THEOREM AnswerIsIndependentOfSchedule == Spec => []AnswerIndependentOfSchedule
<1>1. ScanInv /\ PoolInv /\ Exact => AnswerIndependentOfSchedule
  <2> SUFFICES ASSUME ScanInv, PoolInv, Exact, stage = "done", Combined, ~ cancelled
               PROVE  /\ ToSet(Report.obs) = {Reference(Claims, ip) : ip \in Addresses(Claims)}
                      /\ IsInjective(observedIPs(Report.obs))
                      /\ notices.count = [l \in Labels |-> Cardinality({i \in DOMAIN hosts : Missed(l, hosts[i])})]
    BY Zenon DEF AnswerIndependentOfSchedule, Missed
  <2> DEFINE N == nm.obs
             M == mergeObservations(N)
             F == Found
             C == Stated
             D == dhcp.obs
             fs == [i \in DOMAIN hosts |-> wk[i].out]
             gs == [i \in DOMAIN hosts |-> HostClaims(hosts[i])]
             rs == Report.obs
             X == (M \o F) \o D
             Y == (N \o C) \o D
  <2>1. /\ N \in Seq(Obs) /\ D \in Seq(Obs) /\ F \in Seq(Obs) /\ C \in Seq(Obs)
        /\ fs \in Seq(Seq(Obs)) /\ Len(fs) = Len(hosts) /\ gs \in Seq(Seq(Obs)) /\ Len(gs) = Len(hosts)
        /\ DOMAIN hosts = Hosts /\ rs = mergeObservations(X) /\ Claims = Y
    BY Parts
  <2>2. M \in Seq(Obs) /\ Same(M, N) /\ F = FlattenSeq(fs) /\ C = FlattenSeq(gs)
    BY <2>1, SameMerged DEF Found, Stated
  <2>3. M \o F \in Seq(Obs) /\ N \o C \in Seq(Obs) /\ X \in Seq(Obs) /\ Y \in Seq(Obs)
    <3> HIDE DEF M, N, F, D, C
    <3> QED BY <2>1, <2>2
  <2>4. rs \in Seq(Obs) /\ IsMerge(rs, X)
    <3>1. X \in Seq(ObsOf(Nat))
      BY <2>3, ObsOfNat
    <3> HIDE DEF X
    <3>2. mergeObservations(X) \in Seq(ObsOf(Nat)) /\ IsMerge(mergeObservations(X), X)
      BY <3>1, Merged
    <3> QED BY <2>1, <3>2, ObsOfNat
  <2>5. \A i \in Hosts : At(i) = 6
    BY AllDone
  <2>6. \A i \in Hosts : Same(fs[i], gs[i])
    <3> SUFFICES ASSUME NEW i \in Hosts PROVE Same(fs[i], gs[i])
      OBVIOUS
    <3>1. fs[i] = wk[i].out /\ gs[i] = HostClaims(hosts[i])
      BY <2>1
    <3>2. wk[i].out = SoFar(hosts[i], 6)
      BY <2>5 DEF Exact
    <3>3. hosts[i] \in w.allowed /\ w \in Worlds
      BY HostsAreSlots DEF ScanInv, ScanTyped
    <3>4. Same(SoFar(hosts[i], 6), HostClaims(hosts[i]))
      BY <3>3, SameAsClaimed
    <3> QED BY <3>1, <3>2, <3>4
  <2> HIDE DEF M, N, F, C, D, rs, fs, gs
  <2>7. Same(F, C)
    <3>1. \A i \in 1..Len(fs) : Same(fs[i], gs[i])
      BY <2>1, <2>6 DEF Hosts
    <3>2. Same(FlattenSeq(fs), FlattenSeq(gs))
      BY <2>1, <3>1, SameFlatten
    <3> QED BY <2>2, <3>2
  <2>8. Same(M \o F, N \o C)
    BY <2>1, <2>2, <2>7, SameConcat
  <2>9. Same(X, Y)
    <3>1. Same(D, D)
      BY DEF Same
    <3> QED BY <2>1, <2>3, <2>8, <3>1, SameConcat
  <2>10. ToSet(rs) = {Reference(X, ip) : ip \in Addresses(X)} /\ IsInjective(observedIPs(rs))
    <3> HIDE DEF X
    <3> QED BY <2>3, <2>4, MergeElements
  <2>11. Addresses(Y) = Addresses(X) /\ Addresses(X) \subseteq Nat /\ \A ip \in Nat : Reference(X, ip) = Reference(Y, ip)
    <3>1. Addresses(X) \subseteq Nat
      <4> HIDE DEF X
      <4> QED BY <2>3, AddressesConcat
    <3> QED BY <2>9, <3>1 DEF Same
  <2>12. ToSet(rs) = {Reference(Y, ip) : ip \in Addresses(Y)}
    <3> HIDE DEF X, Y
    <3> QED BY <2>10, <2>11
  <2>13. notices.count = [l \in Labels |-> Cardinality({i \in DOMAIN hosts : Missed(l, hosts[i])})]
    <3>1. notices.count = count /\ count \in [Labels -> Nat]
      BY DEF notices, ScanInv, ScanTyped
    <3>2. ASSUME NEW l \in Labels PROVE count[l] = Cardinality({i \in DOMAIN hosts : Missed(l, hosts[i])})
      <4>1. PICK p \in 1..5 : l = Passes[p]
        BY DEF Labels, Passes
      <4>2. count[l] = Cardinality(Counted(p))
        BY <4>1 DEF Exact
      <4>3. Counted(p) = {i \in DOMAIN hosts : Missed(l, hosts[i])}
        <5>1. DOMAIN hosts = Hosts /\ \A i \in Hosts : At(i) > p
          BY <2>1, <2>5, <4>1
        <5> QED BY <4>1, <5>1 DEF Counted
      <4> QED BY <4>2, <4>3
    <3> QED BY <3>1, <3>2
  <2> QED BY <2>1, <2>10, <2>12, <2>13 DEF rs
<1> QED BY <1>1, ScanInvariant, PoolInvariant, ExactInvariant, PTL
=============================================================================
