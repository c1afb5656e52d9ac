--------------------------- MODULE InputHubProofs ---------------------------
(***************************************************************************)
(* Theorems about InputHub, for any sources, gamepads, buttons and axes,   *)
(* any time-outs and any network.  First the merge: a loop over the        *)
(* sources, whose state after i turns is reasoned about by the least i at  *)
(* which a claim would fail.  Then what a message leaves in the hub, and   *)
(* from it how old the presses are that the hub still knows of, and how    *)
(* recent the hub's picture of a steady gamepad is.                        *)
(***************************************************************************)
EXTENDS InputHub, FiniteSetTheorems, WellFoundedInduction, TLAPS

-----------------------------------------------------------------------------
(* The merge.                                                              *)

LEMMA LeastElement ==
  ASSUME NEW T, T \subseteq Nat, T # {}
  PROVE  \E m \in T : \A k \in T : m <= k
<1> DEFINE R == OpToRel(<, Nat)
<1>1. PICK m \in T : \A k \in T : <<k, m>> \notin R
  <2>1. IsWellFoundedOn(R, Nat)
    BY NatLessThanWellFounded
  <2> HIDE DEF R
  <2> QED
    BY <2>1, WFMin
<1>2. \A k \in T : ~(k < m)
  BY <1>1 DEF OpToRel
<1> QED
  BY <1>2

\* The values of an axis before and after each turn of the loop.
Turns(f, n, c) ==
  /\ f[0] = 0
  /\ \A i \in 1..n : f[i] = dominant_axis(f[i - 1], c[i])

LEMMA AbsIsInt ==
  ASSUME NEW x \in Int
  PROVE  Abs16(x) \in Int
BY HubAssumption DEF Abs16, AxisMin

\* The loop can be run to its end over any values.
LEMMA LoopEnds ==
  ASSUME NEW n \in Nat, NEW c, \A i \in 1..n : c[i] \in Int
  PROVE  \E f : f \in [0..n -> Int] /\ Turns(f, n, c)
<1> DEFINE Stuck == {m \in 0..n : ~ \E f : f \in [0..m -> Int] /\ Turns(f, m, c)}
<1>1. Stuck = {}
  <2> SUFFICES ASSUME Stuck # {} PROVE FALSE
    OBVIOUS
  <2>1. PICK m \in Stuck : \A k \in Stuck : m <= k
    <3>1. Stuck \subseteq Nat
      OBVIOUS
    <3> QED
      BY <3>1, LeastElement
  <2>2. CASE m = 0
    <3>1. [i \in 0..0 |-> 0] \in [0..0 -> Int] /\ Turns([i \in 0..0 |-> 0], 0, c)
      BY DEF Turns
    <3> QED
      BY <2>1, <2>2, <3>1
  <2>3. CASE m # 0
    <3>1. m \in 1..n /\ m - 1 \in 0..n /\ m - 1 \notin Stuck
      BY <2>1, <2>3
    <3>2. PICK f : f \in [0..(m - 1) -> Int] /\ Turns(f, m - 1, c)
      BY <3>1
    <3> DEFINE g == [i \in 0..m |-> IF i = m THEN dominant_axis(f[m - 1], c[m]) ELSE f[i]]
    <3>3. f \in [0..(m - 1) -> Int] /\ f[m - 1] \in Int /\ c[m] \in Int
      BY <3>1, <3>2
    <3>4. dominant_axis(f[m - 1], c[m]) \in Int
      BY <3>3 DEF dominant_axis
    <3>5. g \in [0..m -> Int] /\ g[0] = 0
      BY <3>1, <3>2, <3>3, <3>4 DEF Turns
    <3>6. ASSUME NEW i \in 1..m PROVE g[i] = dominant_axis(g[i - 1], c[i])
      <4>1. CASE i = m
        BY <3>1, <4>1
      <4>2. CASE i # m
        <5>1. i \in 1..(m - 1) /\ i - 1 \in 0..m /\ i - 1 # m /\ i \in 0..m
          BY <3>1, <4>2
        <5> QED
          BY <3>2, <4>2, <5>1 DEF Turns
      <4> QED
        BY <4>1, <4>2
    <3>7. Turns(g, m, c)
      BY <3>5, <3>6 DEF Turns
    <3> QED
      BY <2>1, <3>5, <3>7
  <2> QED
    BY <2>2, <2>3
<1> QED
  BY <1>1

\* What is left at the end is one of the values, and none but i16::MIN
\* deflects the axis further.
LEMMA LoopKeepsStrongest ==
  ASSUME NEW n \in Nat, NEW c, \A i \in 1..n : c[i] \in Int, NEW f, Turns(f, n, c)
  PROVE  /\ f[n] \in Int /\ 0 <= Abs16(f[n])
         /\ f[n] # 0 => \E j \in 1..n : f[n] = c[j]
         /\ \A j \in 1..n : c[j] # AxisMin => Abs16(c[j]) <= Abs16(f[n])
<1> DEFINE Right(i) ==
      /\ f[i] \in Int /\ 0 <= Abs16(f[i])
      /\ f[i] # 0 => \E j \in 1..i : f[i] = c[j]
      /\ \A j \in 1..i : c[j] # AxisMin => Abs16(c[j]) <= Abs16(f[i])
    Wrong == {i \in 0..n : ~Right(i)}
<1>1. Wrong = {}
  <2> SUFFICES ASSUME Wrong # {} PROVE FALSE
    OBVIOUS
  <2>1. PICK m \in Wrong : \A k \in Wrong : m <= k
    <3>1. Wrong \subseteq Nat
      OBVIOUS
    <3> QED
      BY <3>1, LeastElement
  <2>2. CASE m = 0
    <3>1. Abs16(f[0]) = 0 /\ f[0] = 0
      BY HubAssumption DEF Turns, Abs16, AxisMin
    <3> QED
      BY <2>1, <2>2, <3>1
  <2>3. CASE m # 0
    <3>1. m \in 1..n /\ m - 1 \in 0..n /\ m - 1 \notin Wrong
      BY <2>1, <2>3
    <3>2. Right(m - 1)
      BY <3>1
    <3>3. f[m - 1] \in Int /\ c[m] \in Int /\ f[m] = dominant_axis(f[m - 1], c[m])
      BY <3>1, <3>2 DEF Turns
    <3>4. Abs16(f[m - 1]) \in Int /\ Abs16(c[m]) \in Int
      BY <3>3, AbsIsInt
    <3>5. CASE Abs16(c[m]) > Abs16(f[m - 1])
      <4>1. f[m] = c[m]
        BY <3>3, <3>5 DEF dominant_axis
      <4>2. 0 <= Abs16(f[m])
        BY <3>2, <3>4, <3>5, <4>1
      <4>3. \E j \in 1..m : f[m] = c[j]
        BY <3>1, <4>1
      <4>4. ASSUME NEW j \in 1..m, c[j] # AxisMin PROVE Abs16(c[j]) <= Abs16(f[m])
        <5>1. CASE j = m
          BY <3>4, <4>1, <5>1
        <5>2. CASE j # m
          <6>1. j \in 1..(m - 1) /\ c[j] \in Int
            BY <3>1, <5>2
          <6>2. Abs16(c[j]) \in Int /\ Abs16(c[j]) <= Abs16(f[m - 1])
            BY <3>2, <4>4, <6>1, AbsIsInt
          <6> QED
            BY <3>4, <3>5, <4>1, <6>2
        <5> QED
          BY <5>1, <5>2
      <4> QED
        BY <2>1, <3>3, <4>1, <4>2, <4>3, <4>4
    <3>6. CASE ~(Abs16(c[m]) > Abs16(f[m - 1]))
      <4>1. f[m] = f[m - 1]
        BY <3>3, <3>6 DEF dominant_axis
      <4>2. f[m] # 0 => \E j \in 1..m : f[m] = c[j]
        BY <3>1, <3>2, <4>1
      <4>3. ASSUME NEW j \in 1..m, c[j] # AxisMin PROVE Abs16(c[j]) <= Abs16(f[m])
        <5>1. CASE j = m
          BY <3>4, <3>6, <4>1, <5>1
        <5>2. CASE j # m
          <6>1. j \in 1..(m - 1)
            BY <3>1, <5>2
          <6> QED
            BY <3>2, <4>1, <4>3, <6>1
        <5> QED
          BY <5>1, <5>2
      <4> QED
        BY <2>1, <3>2, <4>1, <4>2, <4>3
    <3> QED
      BY <3>5, <3>6
  <2> QED
    BY <2>2, <2>3
<1>2. Right(n)
  BY <1>1
<1> QED
  BY <1>2

\* after_reading is the end of such a loop.
LEMMA ReadingIsALoop ==
  ASSUME NEW order, NEW axis, Len(order) \in Nat,
         \A i \in 1..Len(order) : per_port[order[i]].axes[axis] \in Int
  PROVE  \E f : /\ Turns(f, Len(order), [i \in 1..Len(order) |-> per_port[order[i]].axes[axis]])
                /\ after_reading(order, axis) = f[Len(order)]
<1> DEFINE n == Len(order)
           c == [i \in 1..n |-> per_port[order[i]].axes[axis]]
           Defined(f) == f = [i \in 0..n |->
             IF i = 0 THEN 0 ELSE dominant_axis(f[i - 1], per_port[order[i]].axes[axis])]
<1>1. PICK g : g \in [0..n -> Int] /\ Turns(g, n, c)
  BY LoopEnds
<1>2. Defined(g)
  <2>1. g = [i \in 0..n |-> g[i]]
    BY <1>1
  <2>2. \A i \in 0..n : g[i] = IF i = 0 THEN 0
                               ELSE dominant_axis(g[i - 1], per_port[order[i]].axes[axis])
    BY <1>1 DEF Turns
  <2> QED
    BY <2>1, <2>2
<1> DEFINE merged == CHOOSE f : Defined(f)
<1>3. after_reading(order, axis) = merged[n]
  BY DEF after_reading
<1>4. Defined(merged)
  BY <1>2
<1> HIDE DEF merged
<1>5. Turns(merged, n, c)
  BY <1>4 DEF Turns
<1> QED
  BY <1>3, <1>5

\* The sources the merge does not skip.
FreshSources == {s \in Source : Fresh(s)}

LEMMA OrdersOfTheMap ==
  /\ SetToSeqs(FreshSources) # {}
  /\ \A order \in SetToSeqs(FreshSources) :
       /\ Len(order) = Cardinality(FreshSources) /\ Len(order) \in Nat
       /\ \A i \in 1..Len(order) : order[i] \in FreshSources
       /\ \A s \in FreshSources : \E i \in 1..Len(order) : order[i] = s
<1> DEFINE N == Cardinality(FreshSources)
           Orders == {f \in [1..N -> FreshSources] : \A i, j \in 1..N : i # j => f[i] # f[j]}
<1>1. IsFiniteSet(FreshSources)
  BY HubAssumption, FS_Subset DEF FreshSources
<1>2. N \in Nat /\ ExistsBijection(1..N, FreshSources)
  BY <1>1, FS_CardinalityType
<1>3. SetToSeqs(FreshSources) = Orders
  BY DEF SetToSeqs
<1>4. Orders = Injection(1..N, FreshSources)
  <2>1. ASSUME NEW f \in [1..N -> FreshSources]
        PROVE  f \in Orders <=> f \in Injection(1..N, FreshSources)
    <3>1. f \in Orders <=> \A i, j \in 1..N : i # j => f[i] # f[j]
      OBVIOUS
    <3>2. f \in Injection(1..N, FreshSources) <=> \A i, j \in 1..N : f[i] = f[j] => i = j
      BY DEF Injection, IsInjective
    <3> HIDE DEF Orders
    <3> QED
      BY <3>1, <3>2
  <2> QED
    BY <2>1 DEF Injection
<1>5. Injection(1..N, FreshSources) # {}
  BY <1>2 DEF ExistsBijection, Bijection
<1>6. ASSUME NEW order \in Injection(1..N, FreshSources)
      PROVE  order \in Surjection(1..N, FreshSources)
  <2>1. Cardinality(1..N) = N
    BY <1>2, FS_Interval
  <2> QED
    BY <1>1, <2>1, FS_Injection
<1>7. ASSUME NEW order \in Injection(1..N, FreshSources)
      PROVE  /\ Len(order) = N
             /\ \A i \in 1..N : order[i] \in FreshSources
             /\ \A s \in FreshSources : \E i \in 1..N : order[i] = s
  <2>1. order \in [1..N -> FreshSources]
    BY DEF Injection
  <2>2. order \in Seq(FreshSources)
    BY <1>2, <2>1
  <2>3. Len(order) = N
    BY <1>2, <2>1, <2>2
  <2> QED
    BY <1>6, <2>1, <2>3 DEF Surjection
<1> HIDE DEF N, Orders
<1>8. /\ SetToSeqs(FreshSources) # {}
      /\ \A order \in SetToSeqs(FreshSources) :
           /\ Len(order) = N /\ N \in Nat
           /\ \A i \in 1..N : order[i] \in FreshSources
           /\ \A s \in FreshSources : \E i \in 1..N : order[i] = s
  BY <1>2, <1>3, <1>4, <1>5, <1>7
<1> QED
  BY <1>8 DEF N

\* The axes the hub holds are numbers.
AxesAreInts == \A s \in DOMAIN per_port : \A a \in Axis : per_port[s].axes[a] \in Int

LEMMA MergeIsDominated ==
  ASSUME AxesAreInts, NEW axis \in Axis
  PROVE  /\ merged_axis(axis) # {}
         /\ \A v \in merged_axis(axis) :
              /\ v \in Int /\ 0 <= Abs16(v)
              /\ v # 0 => \E s \in Source : Fresh(s) /\ per_port[s].axes[axis] = v
              /\ \A s \in Source : Fresh(s) /\ per_port[s].axes[axis] # AxisMin
                   => Abs16(per_port[s].axes[axis]) <= Abs16(v)
<1>1. merged_axis(axis) = {after_reading(order, axis) : order \in SetToSeqs(FreshSources)}
  BY DEF merged_axis, FreshSources
<1>2. merged_axis(axis) # {}
  BY <1>1, OrdersOfTheMap
<1>3. ASSUME NEW v \in merged_axis(axis)
      PROVE  /\ v \in Int /\ 0 <= Abs16(v)
             /\ v # 0 => \E s \in FreshSources : per_port[s].axes[axis] = v
             /\ \A s \in FreshSources : per_port[s].axes[axis] # AxisMin
                  => Abs16(per_port[s].axes[axis]) <= Abs16(v)
  <2>1. PICK order \in SetToSeqs(FreshSources) : v = after_reading(order, axis)
    BY <1>1
  <2> DEFINE n == Len(order)
             c == [i \in 1..n |-> per_port[order[i]].axes[axis]]
  <2>2. /\ n \in Nat
        /\ \A i \in 1..n : order[i] \in FreshSources
        /\ \A s \in FreshSources : \E i \in 1..n : order[i] = s
    BY OrdersOfTheMap
  <2>3. \A i \in 1..n : per_port[order[i]].axes[axis] \in Int
    BY <2>2 DEF FreshSources, Fresh, AxesAreInts
  <2>4. PICK f : Turns(f, n, c) /\ v = f[n]
    BY <2>1, <2>2, <2>3, ReadingIsALoop
  <2>5. \A i \in 1..n : c[i] = per_port[order[i]].axes[axis] /\ c[i] \in Int
    BY <2>3
  <2> HIDE DEF n, c
  <2>6. /\ f[n] \in Int /\ 0 <= Abs16(f[n])
        /\ f[n] # 0 => \E j \in 1..n : f[n] = c[j]
        /\ \A j \in 1..n : c[j] # AxisMin => Abs16(c[j]) <= Abs16(f[n])
    BY <2>2, <2>4, <2>5, LoopKeepsStrongest
  <2>7. v # 0 => \E s \in FreshSources : per_port[s].axes[axis] = v
    BY <2>2, <2>4, <2>5, <2>6
  <2>8. ASSUME NEW s \in FreshSources, per_port[s].axes[axis] # AxisMin
        PROVE  Abs16(per_port[s].axes[axis]) <= Abs16(v)
    <3>1. PICK j \in 1..n : order[j] = s
      BY <2>2
    <3> QED
      BY <2>4, <2>5, <2>6, <2>8, <3>1
  <2> QED
    BY <2>4, <2>6, <2>7, <2>8
<1> QED
  BY <1>2, <1>3 DEF FreshSources

-----------------------------------------------------------------------------
(* Axis values.                                                            *)

\* The nearest integer to n * k / u lies between 0 and k.
LEMMA RoundedShare ==
  ASSUME NEW n \in Nat, NEW u \in Nat \ {0}, NEW k \in Nat, n <= u
  PROVE  (2 * (n * k) + u) \div (2 * u) \in 0..k
<1> DEFINE p == n * k
           q == u * k
<1>1. p \in Nat /\ q \in Nat /\ p <= q
  <2>1. (u - n) * k \in Nat
    OBVIOUS
  <2>2. (u - n) * k = u * k - n * k
    OBVIOUS
  <2> QED
    BY <2>1, <2>2
<1> DEFINE d == 2 * u
           x == 2 * p + u
<1>2. d \in Nat /\ d > 0 /\ x \in Nat
  BY <1>1
<1>3. x < d * (k + 1)
  <2>1. d * (k + 1) = 2 * q + 2 * u
    OBVIOUS
  <2> HIDE DEF p, q
  <2> QED
    BY <1>1, <2>1
<1>4. ASSUME NEW y \in Nat, NEW e \in Nat, e > 0, y < e * (k + 1)
      PROVE  y \div e \in 0..k
  <2>1. /\ y \div e \in Int /\ y % e \in 0..(e - 1) /\ y = e * (y \div e) + (y % e)
    BY <1>4
  <2>2. y \div e >= 0
    <3>1. CASE y \div e <= -1
      <4>1. e * (y \div e) <= -e
        <5>1. e * (-1 - (y \div e)) >= 0
          BY <2>1, <3>1, <1>4
        <5>2. e * (-1 - (y \div e)) = -e - e * (y \div e)
          BY <2>1
        <5> QED
          BY <2>1, <5>1, <5>2
      <4> QED
        BY <2>1, <4>1
    <3> QED
      BY <2>1, <3>1
  <2>3. y \div e <= k
    <3>1. CASE y \div e >= k + 1
      <4>1. e * (y \div e) >= e * (k + 1)
        <5>1. e * ((y \div e) - (k + 1)) >= 0
          BY <2>1, <3>1, <1>4
        <5>2. e * ((y \div e) - (k + 1)) = e * (y \div e) - e * (k + 1)
          BY <2>1
        <5> QED
          BY <2>1, <5>1, <5>2
      <4> QED
        BY <1>4, <2>1, <4>1
    <3> QED
      BY <2>1, <3>1
  <2> QED
    BY <2>1, <2>2, <2>3
<1> HIDE DEF d, x
<1>5. x \div d \in 0..k
  BY <1>2, <1>3, <1>4
<1> QED
  BY <1>5 DEF x, d, p

\* A clamped value fits the word, keeps its sign, and 0 is 0.
LEMMA ClampIsAWord ==
  ASSUME NEW n \in Int
  PROVE  /\ clamp_axis(n) \in AxisMin..AxisMax
         /\ n >= 0 => clamp_axis(n) >= 0
         /\ clamp_axis(0) = 0
<1>1. /\ AxisMax \in Nat \ {0} /\ Unit \in Nat \ {0} /\ -AxisMin = AxisMax + 1
      /\ AxisMin \in Int
  BY HubAssumption DEF AxisMin
<1>2. PICK m \in Nat : /\ m <= Unit
                       /\ n >= 0 => clamp_axis(n) = Rounded(m * AxisMax, Unit)
                       /\ n < 0 => m > 0 /\ clamp_axis(n) = Rounded((-m) * (AxisMax + 1), Unit)
  <2>1. CASE n > Unit
    <3>1. clamp_axis(n) = Rounded(Unit * AxisMax, Unit)
      BY <1>1, <2>1 DEF clamp_axis
    <3> QED
      BY <1>1, <2>1, <3>1
  <2>2. CASE n >= 0 /\ n <= Unit
    <3>1. clamp_axis(n) = Rounded(n * AxisMax, Unit)
      BY <1>1, <2>2 DEF clamp_axis
    <3> QED
      BY <1>1, <2>2, <3>1
  <2>3. CASE n < 0 /\ n >= -Unit
    <3>1. clamp_axis(n) = Rounded(n * (AxisMax + 1), Unit)
      BY <1>1, <2>3 DEF clamp_axis
    <3>2. -n \in Nat /\ n = -(-n) /\ -n > 0 /\ -n <= Unit
      BY <1>1, <2>3
    <3> QED
      BY <2>3, <3>1, <3>2
  <2>4. CASE n < -Unit
    <3>1. clamp_axis(n) = Rounded((-Unit) * (AxisMax + 1), Unit)
      BY <1>1, <2>4 DEF clamp_axis
    <3> QED
      BY <1>1, <2>4, <3>1
  <2> QED
    BY <1>1, <2>1, <2>2, <2>3, <2>4
<1>3. clamp_axis(0) = 0
  <2>1. Rounded(0, Unit) = Unit \div (2 * Unit)
    BY <1>1 DEF Rounded
  <2>2. Unit \div (2 * Unit) = 0
    BY <1>1
  <2> QED
    BY <1>1, <2>1, <2>2 DEF clamp_axis
<1>4. CASE n >= 0
  <2>1. m * AxisMax \in Nat
    BY <1>1
  <2>2. clamp_axis(n) = (2 * (m * AxisMax) + Unit) \div (2 * Unit)
    BY <1>2, <1>4, <2>1 DEF Rounded
  <2>3. clamp_axis(n) \in 0..AxisMax
    BY <1>1, <1>2, <2>2, RoundedShare
  <2> QED
    BY <1>1, <1>3, <1>4, <2>3
<1>5. CASE n < 0
  <2>1. (-m) * (AxisMax + 1) < 0 /\ -((-m) * (AxisMax + 1)) = m * (AxisMax + 1)
        /\ (-m) * (AxisMax + 1) \in Int
    BY <1>1, <1>2, <1>5
  <2>2. clamp_axis(n) = -((2 * (m * (AxisMax + 1)) + Unit) \div (2 * Unit))
    BY <1>2, <1>5, <2>1 DEF Rounded
  <2>3. (2 * (m * (AxisMax + 1)) + Unit) \div (2 * Unit) \in 0..(AxisMax + 1)
    <3>1. AxisMax + 1 \in Nat
      BY <1>1
    <3> QED
      BY <1>1, <1>2, <3>1, RoundedShare
  <2> QED
    BY <1>1, <1>3, <1>5, <2>2, <2>3
<1> QED
  BY <1>4, <1>5

-----------------------------------------------------------------------------
(* Types.                                                                  *)

Gamepads == [buttons : SUBSET Button, axes : [Axis -> Int]]
Entries == [buttons : SUBSET Button, axes : [Axis -> AxisMin..AxisMax], age : 0..(Stale + 1)]
Messages(s) ==
  {m \in [pad : Pads[s], age : 0..MaxDelay, buttons : SUBSET Button, axes : SUBSET Axis] :
     s \in Full => m.buttons = Button /\ m.axes = Axis}

\* The axes of a gamepad as the hub holds them.
Clamped(p) == [a \in Axis |-> clamp_axis(p.axes[a])]

\* An entry of the hub says what the gamepad says.
Matches(entry, p) == entry.buttons = p.buttons /\ entry.axes = Clamped(p)

\* A keepalive a while: time in which one gets through.
Span == Keepalive * (Losses + 1)

PlayersOK ==
  /\ pad \in [Source -> Gamepads] /\ \A s \in Source : pad[s] \in Pads[s]
  /\ alive \subseteq Source
  /\ timer \in [Source -> 0..Keepalive] /\ lost \in [Source -> 0..(Losses + 1)]
  /\ steady \in [Source -> 0..Settle]
  /\ held \in [Button -> 0..(Ghost + 1)] /\ coined \subseteq Source

NetworkOK == DOMAIN flight = Source /\ \A s \in Source : flight[s] \subseteq Messages(s)

HubOK ==
  /\ DOMAIN per_port \subseteq Source /\ per_port \in [DOMAIN per_port -> Entries]
  /\ transient_buttons \in [Button -> 0..Pulse]

Types == PlayersOK /\ NetworkOK /\ HubOK

LEMMA Constants ==
  /\ AxisMax \in Nat /\ Unit \in Nat /\ Stale \in Nat /\ Pulse \in Nat /\ Keepalive \in Nat
  /\ Keepalive > 0 /\ MaxDelay \in Nat /\ Losses \in Nat /\ AxisMin \in Int
  /\ Span \in Nat /\ Settle = Span + 2 * MaxDelay + 1 /\ Settle \in Nat
  /\ Ghost = Stale + MaxDelay /\ Ghost \in Nat
  /\ \A s \in Source : Pads[s] \subseteq Gamepads /\ Neutral \in Pads[s]
<1>1. /\ AxisMax \in Nat /\ Unit \in Nat /\ Stale \in Nat /\ Pulse \in Nat /\ Keepalive \in Nat
      /\ Keepalive > 0 /\ MaxDelay \in Nat /\ Losses \in Nat
      /\ \A s \in Source : Pads[s] \subseteq Gamepads /\ Neutral \in Pads[s]
  <2>1. {AxisMax, Unit, Stale, Pulse, Keepalive} \subseteq Nat \ {0}
    BY HubAssumption
  <2>2. {MaxDelay, Losses, port, MAX_PORTS} \subseteq Nat
    BY HubAssumption
  <2>3. \A s \in Source : Pads[s] \subseteq Gamepads /\ Neutral \in Pads[s]
    BY HubAssumption DEF Gamepads
  <2>4. /\ AxisMax \in Nat /\ Unit \in Nat /\ Stale \in Nat /\ Pulse \in Nat
        /\ Keepalive \in Nat /\ Keepalive # 0
    BY <2>1
  <2>5. MaxDelay \in Nat /\ Losses \in Nat
    BY <2>2
  <2> QED
    BY <2>3, <2>4, <2>5
<1>2. Span \in Nat
  BY <1>1 DEF Span
<1>3. Settle = Span + 2 * MaxDelay + 1 /\ Ghost = Stale + MaxDelay /\ AxisMin \in Int
  BY <1>1 DEF Settle, Span, Ghost, AxisMin
<1> QED
  BY <1>1, <1>2, <1>3

\* What a message writes, and what it leaves.
LEMMA MergedEntryIs ==
  ASSUME NEW entry, NEW m, m.buttons \subseteq Button, m.axes \subseteq Axis
  PROVE  LET e == merged_entry(entry, to_input_update(m))
         IN /\ e.age = 0
            /\ e.buttons = {b \in Button : IF b \in m.buttons THEN b \in m.pad.buttons ELSE b \in entry.buttons}
            /\ e.axes = [a \in Axis |-> IF a \in m.axes THEN clamp_axis(m.pad.axes[a]) ELSE entry.axes[a]]
            /\ e = [buttons |-> e.buttons, axes |-> e.axes, age |-> 0]
<1> DEFINE update == to_input_update(m)
<1>1. /\ DOMAIN update.buttons = m.buttons /\ \A b \in m.buttons : update.buttons[b] = (b \in m.pad.buttons)
      /\ DOMAIN update.axes = m.axes /\ \A a \in m.axes : update.axes[a] = m.pad.axes[a]
  BY DEF to_input_update
<1> HIDE DEF update
<1>2. {b \in Button : IF b \in DOMAIN update.buttons THEN update.buttons[b] ELSE b \in entry.buttons}
        = {b \in Button : IF b \in m.buttons THEN b \in m.pad.buttons ELSE b \in entry.buttons}
  BY <1>1
<1>3. [a \in Axis |-> IF a \in DOMAIN update.axes THEN clamp_axis(update.axes[a]) ELSE entry.axes[a]]
        = [a \in Axis |-> IF a \in m.axes THEN clamp_axis(m.pad.axes[a]) ELSE entry.axes[a]]
  BY <1>1
<1> QED
  BY <1>2, <1>3 DEF merged_entry, update

LEMMA ClampedIsAWord ==
  ASSUME NEW p \in Gamepads, NEW a \in Axis
  PROVE  clamp_axis(p.axes[a]) \in AxisMin..AxisMax
BY ClampIsAWord DEF Gamepads

LEMMA EntryOfIsAnEntry == ASSUME HubOK, NEW s PROVE EntryOf(s) \in Entries
<1>1. CASE s \in DOMAIN per_port
  BY <1>1 DEF HubOK, EntryOf
<1>2. CASE s \notin DOMAIN per_port
  BY <1>2, Constants DEF EntryOf, Blank, Entries, AxisMin
<1> QED
  BY <1>1, <1>2

LEMMA UpdateIsAnEntry ==
  ASSUME NEW entry \in Entries, NEW s \in Source, NEW m \in Messages(s)
  PROVE  merged_entry(entry, to_input_update(m)) \in Entries
<1> DEFINE e == merged_entry(entry, to_input_update(m))
<1>1. m.buttons \subseteq Button /\ m.axes \subseteq Axis /\ m.pad \in Gamepads
  BY Constants DEF Messages
<1>2. /\ e.age = 0
      /\ e.buttons = {b \in Button : IF b \in m.buttons THEN b \in m.pad.buttons ELSE b \in entry.buttons}
      /\ e.axes = [a \in Axis |-> IF a \in m.axes THEN clamp_axis(m.pad.axes[a]) ELSE entry.axes[a]]
      /\ e = [buttons |-> e.buttons, axes |-> e.axes, age |-> 0]
  BY <1>1, MergedEntryIs
<1> HIDE DEF e
<1>3. \A a \in Axis : clamp_axis(m.pad.axes[a]) \in AxisMin..AxisMax /\ entry.axes[a] \in AxisMin..AxisMax
  BY <1>1, ClampedIsAWord DEF Entries
<1>4. e.axes \in [Axis -> AxisMin..AxisMax]
  BY <1>2, <1>3
<1>5. e.buttons \subseteq Button
  BY <1>2
<1>6. [buttons |-> e.buttons, axes |-> e.axes, age |-> 0] \in Entries
  BY <1>4, <1>5, Constants DEF Entries
<1>7. e \in Entries
  BY <1>2, <1>6
<1> QED
  BY <1>7 DEF e

LEMMA TypesImply == Types => TypeOK /\ AxesAreInts
<1> SUFFICES ASSUME Types PROVE TypeOK /\ AxesAreInts
  OBVIOUS
<1>1. pad \in [Source -> UNION {Pads[s] : s \in Source}]
  BY DEF Types, PlayersOK
<1>2. \A s \in Source : \A m \in flight[s] :
        m.pad \in Pads[s] /\ m.age \in 0..MaxDelay /\ m.buttons \subseteq Button /\ m.axes \subseteq Axis
  BY DEF Types, NetworkOK, Messages
<1>3. \A s \in DOMAIN per_port :
        /\ per_port[s].buttons \subseteq Button /\ per_port[s].age \in 0..(Stale + 1)
        /\ per_port[s].axes \in [Axis -> AxisMin..AxisMax]
  BY DEF Types, HubOK, Entries
<1>4. AxesAreInts
  BY <1>3, Constants DEF AxesAreInts
<1> QED
  BY <1>1, <1>2, <1>3, <1>4 DEF TypeOK, Types, PlayersOK, HubOK

LEMMA TypesInit == Init => Types
<1> SUFFICES ASSUME Init PROVE Types
  OBVIOUS
<1>1. PlayersOK
  BY Constants DEF Init, PlayersOK
<1>2. NetworkOK
  BY DEF Init, NetworkOK
<1>3. HubOK
  BY Constants DEF Init, HubOK
<1> QED
  BY <1>1, <1>2, <1>3 DEF Types

LEMMA MessageIsAMessage ==
  ASSUME NEW s \in Source, NEW p \in Pads[s]
  PROVE  Message(s, p) \in Messages(s)
<1> DEFINE B == {b \in Button : s \in Full \/ (b \in p.buttons) # (b \in pad[s].buttons)}
           X == {a \in Axis : s \in Full \/ p.axes[a] # pad[s].axes[a]}
<1>1. Message(s, p) = [pad |-> p, age |-> 0, buttons |-> B, axes |-> X]
  BY DEF Message
<1>2. B \subseteq Button /\ X \subseteq Axis /\ (s \in Full => B = Button /\ X = Axis)
  OBVIOUS
<1> HIDE DEF B, X
<1> QED
  BY <1>1, <1>2, Constants DEF Messages

LEMMA SendsKeepsTypes ==
  ASSUME Types, NEW s \in Source, NEW p \in Pads[s], NEW arrives \in BOOLEAN, Sends(s, p, arrives)
  PROVE  NetworkOK' /\ lost' \in [Source -> 0..(Losses + 1)]
<1>1. Message(s, p) \in Messages(s)
  BY MessageIsAMessage
<1>2. NetworkOK'
  BY <1>1 DEF Types, NetworkOK, Sends
<1>3. lost' \in [Source -> 0..(Losses + 1)]
  BY Constants DEF Types, PlayersOK, Sends
<1> QED
  BY <1>2, <1>3

LEMMA TypesStep == Types /\ [Next]_vars => Types'
<1> SUFFICES ASSUME Types, [Next]_vars PROVE Types'
  OBVIOUS
<1> USE Constants
<1>1. ASSUME NEW s \in Source, NEW arrives \in BOOLEAN, NEW p \in Pads[s], move(s, p, arrives)
      PROVE  Types'
  <2>1. NetworkOK' /\ lost' \in [Source -> 0..(Losses + 1)]
    BY <1>1, SendsKeepsTypes DEF move
  <2>2. held' \in [Button -> 0..(Ghost + 1)]
    BY <1>1 DEF move, Types, PlayersOK
  <2>3. pad' \in [Source -> Gamepads] /\ \A x \in Source : pad'[x] \in Pads[x]
    BY <1>1 DEF move, Types, PlayersOK
  <2>4. steady' \in [Source -> 0..Settle]
    BY <1>1 DEF move, Types, PlayersOK
  <2>5. PlayersOK'
    BY <1>1, <2>1, <2>2, <2>3, <2>4 DEF move, Types, PlayersOK
  <2>6. HubOK'
    BY <1>1 DEF move, hub, Types, HubOK
  <2> QED
    BY <2>1, <2>5, <2>6 DEF Types
<1>2. ASSUME NEW s \in Source, NEW arrives \in BOOLEAN, keepalive(s, arrives)
      PROVE  Types'
  <2>1. NetworkOK' /\ lost' \in [Source -> 0..(Losses + 1)]
    BY <1>2, SendsKeepsTypes DEF keepalive, Types, PlayersOK
  <2>2. timer' \in [Source -> 0..Keepalive] /\ steady' \in [Source -> 0..Settle]
    BY <1>2 DEF keepalive, Types, PlayersOK
  <2>3. PlayersOK'
    BY <1>2, <2>1, <2>2 DEF keepalive, Types, PlayersOK
  <2>4. HubOK'
    BY <1>2 DEF keepalive, hub, Types, HubOK
  <2> QED
    BY <2>1, <2>3, <2>4 DEF Types
<1>3. ASSUME NEW s \in Source, Silences(s), held' = held, coined' \subseteq coined PROVE PlayersOK'
  <2>1. pad' \in [Source -> Gamepads] /\ \A x \in Source : pad'[x] \in Pads[x]
    BY <1>3 DEF Silences, Rests, Types, PlayersOK
  <2>2. /\ alive' \subseteq Source /\ timer' \in [Source -> 0..Keepalive]
        /\ lost' \in [Source -> 0..(Losses + 1)] /\ steady' \in [Source -> 0..Settle]
    BY <1>3 DEF Silences, Rests, Types, PlayersOK
  <2> QED
    BY <1>3, <2>1, <2>2 DEF Types, PlayersOK
<1>4. ASSUME NEW s \in Source, falls_silent(s) PROVE Types'
  BY <1>3, <1>4 DEF falls_silent, hub, Types, NetworkOK, HubOK
<1>5. ASSUME NEW s \in Source, NEW m \in flight[s], apply_update(s, m) PROVE Types'
  <2>1. PlayersOK'
    <3>1. coined' \subseteq coined
      BY <1>5 DEF apply_update
    <3> QED
      BY <1>5, <3>1 DEF apply_update, Types, PlayersOK
  <2>2. NetworkOK'
    BY <1>5 DEF apply_update, Types, NetworkOK
  <2>3. HubOK'
    <3>1. CASE port >= MAX_PORTS
      BY <1>5, <3>1 DEF apply_update, Types, HubOK
    <3>2. CASE ~(port >= MAX_PORTS)
      <4> DEFINE e == merged_entry(EntryOf(s), to_input_update(m))
      <4>1. e \in Entries
        BY EntryOfIsAnEntry, UpdateIsAnEntry DEF Types, NetworkOK
      <4>2. per_port' = [x \in DOMAIN per_port \cup {s} |-> IF x = s THEN e ELSE per_port[x]]
        BY <1>5, <3>2 DEF apply_update
      <4> HIDE DEF e
      <4>3. per_port' \in [DOMAIN per_port \cup {s} -> Entries]
        BY <4>1, <4>2 DEF Types, HubOK
      <4> QED
        BY <1>5, <4>3 DEF apply_update, Types, HubOK
    <3> QED
      BY <3>1, <3>2
  <2> QED
    BY <2>1, <2>2, <2>3 DEF Types
<1>6. ASSUME NEW s \in Source, pulse_button(s, Coin) PROVE Types'
  <2>1. PlayersOK' /\ NetworkOK'
    BY <1>6 DEF pulse_button, client, Types, PlayersOK, NetworkOK
  <2> DEFINE e == [EntryOf(s) EXCEPT !.age = 0]
  <2>2. e \in Entries
    BY EntryOfIsAnEntry DEF Types, Entries
  <2>3. per_port' = [x \in DOMAIN per_port \cup {s} |-> IF x = s THEN e ELSE per_port[x]]
    BY <1>6 DEF pulse_button
  <2> HIDE DEF e
  <2>4. per_port' \in [DOMAIN per_port \cup {s} -> Entries]
    BY <2>2, <2>3 DEF Types, HubOK
  <2>5. transient_buttons' \in [Button -> 0..Pulse]
    <3>1. transient_buttons' = [transient_buttons EXCEPT ![Coin] = Pulse]
      BY <1>6 DEF pulse_button
    <3>2. transient_buttons \in [Button -> 0..Pulse] /\ Pulse \in 0..Pulse
      BY DEF Types, HubOK
    <3> QED
      BY <3>1, <3>2
  <2> QED
    BY <2>1, <2>4, <2>5 DEF Types, HubOK
<1>7. ASSUME NEW s \in Source, remove_source(s) PROVE Types'
  <2>1. PlayersOK'
    <3>1. coined' \subseteq coined
      BY <1>7 DEF remove_source
    <3> QED
      BY <1>3, <1>7, <3>1 DEF remove_source
  <2>2. NetworkOK' /\ HubOK'
    BY <1>7 DEF remove_source, Types, NetworkOK, HubOK
  <2> QED
    BY <2>1, <2>2 DEF Types
<1>8. CASE tick
  <2>1. timer' \in [Source -> 0..Keepalive]
    BY <1>8 DEF tick, Types, PlayersOK
  <2>2. steady' \in [Source -> 0..Settle]
    BY <1>8 DEF tick, Older, Types, PlayersOK
  <2>3. held' \in [Button -> 0..(Ghost + 1)]
    BY <1>8 DEF tick, Older, Types, PlayersOK
  <2>4. PlayersOK'
    BY <1>8, <2>1, <2>2, <2>3 DEF tick, Types, PlayersOK
  <2>5. NetworkOK'
    <3>1. ASSUME NEW s \in Source, NEW m \in flight[s]
          PROVE  [m EXCEPT !.age = @ + 1] \in Messages(s)
      BY <1>8 DEF tick, Types, NetworkOK, Messages
    <3>2. flight' = [s \in Source |-> {[m EXCEPT !.age = @ + 1] : m \in flight[s]}]
      BY <1>8 DEF tick
    <3> QED
      BY <3>1, <3>2 DEF NetworkOK
  <2>6. HubOK'
    <3>1. ASSUME NEW s \in DOMAIN per_port
          PROVE  [per_port[s] EXCEPT !.age = Older(@, Stale)] \in Entries
      <4>1. per_port[s] \in Entries /\ per_port[s].age \in 0..(Stale + 1)
        BY DEF Types, HubOK, Entries
      <4>2. Older(per_port[s].age, Stale) \in 0..(Stale + 1)
        BY <4>1 DEF Older
      <4> QED
        BY <4>1, <4>2 DEF Entries
    <3>2. per_port' = [s \in DOMAIN per_port |-> [per_port[s] EXCEPT !.age = Older(@, Stale)]]
      BY <1>8 DEF tick
    <3>3. transient_buttons' \in [Button -> 0..Pulse]
      <4>1. transient_buttons' = [b \in Button |-> IF transient_buttons[b] = 0 THEN 0
                                                  ELSE transient_buttons[b] - 1]
        BY <1>8 DEF tick
      <4>2. \A b \in Button : transient_buttons[b] \in 0..Pulse
        BY DEF Types, HubOK
      <4> QED
        BY <4>1, <4>2
    <3> QED
      BY <3>1, <3>2, <3>3 DEF Types, HubOK
  <2> QED
    BY <2>4, <2>5, <2>6 DEF Types
<1>9. CASE UNCHANGED vars
  BY <1>9 DEF vars, Types, PlayersOK, NetworkOK, HubOK
<1> QED
  BY <1>1, <1>2, <1>4, <1>5, <1>6, <1>7, <1>8, <1>9 DEF Next

(* TypeCorrect: the gamepads, the messages and the hub keep their types, and
   no clamped axis leaves its word. *)
THEOREM TypeCorrect == Spec => []TypeOK
<1>1. Spec => []Types
  BY TypesInit, TypesStep, PTL DEF Spec
<1> QED
  BY <1>1, TypesImply, PTL

-----------------------------------------------------------------------------
(* The strongest stick.                                                    *)

\* A port that does not exist has no sources.
NoSuchPort == port >= MAX_PORTS => DOMAIN per_port = {}

LEMMA PortsAreNumbers == port \in Nat /\ MAX_PORTS \in Nat
<1>1. {MaxDelay, Losses, port, MAX_PORTS} \subseteq Nat
  BY HubAssumption
<1> QED
  BY <1>1

LEMMA NoSuchPortStep == NoSuchPort /\ [Next]_vars => NoSuchPort'
<1> SUFFICES ASSUME NoSuchPort, [Next]_vars, port >= MAX_PORTS PROVE DOMAIN per_port' = {}
  BY DEF NoSuchPort
<1>1. DOMAIN per_port = {}
  BY DEF NoSuchPort
<1>2. ASSUME NEW s \in Source, NEW arrives \in BOOLEAN,
             (\E p \in Pads[s] : move(s, p, arrives)) \/ keepalive(s, arrives)
      PROVE  per_port' = per_port
  BY <1>2 DEF move, keepalive, hub
<1>3. ASSUME NEW s \in Source, falls_silent(s) PROVE per_port' = per_port
  BY <1>3 DEF falls_silent, hub
<1>4. ASSUME NEW s \in Source, NEW m \in flight[s], apply_update(s, m) PROVE per_port' = per_port
  BY <1>4 DEF apply_update
<1>5. ASSUME NEW s \in Source PROVE ~pulse_button(s, Coin)
  BY PortsAreNumbers DEF pulse_button
<1>6. ASSUME NEW s \in Source PROVE ~remove_source(s)
  BY <1>1 DEF remove_source
<1>7. CASE tick
  BY <1>1, <1>7 DEF tick
<1>8. CASE UNCHANGED vars
  BY <1>1, <1>8 DEF vars
<1> QED
  BY <1>1, <1>2, <1>3, <1>4, <1>5, <1>6, <1>7, <1>8 DEF Next

(* StrongestIsRead: whatever the order of the map, the axis the core reads is
   that of the fresh source that deflects it furthest, one at i16::MIN counting
   as centred. *)
THEOREM StrongestIsRead == Spec => []StrongestStickWins
<1>1. Init => NoSuchPort
  BY DEF Init, NoSuchPort
<1>2. Types /\ NoSuchPort => StrongestStickWins
  <2> SUFFICES ASSUME Types, NoSuchPort, NEW a \in Axis, NEW v \in Deflected(a)
               PROVE  LET counted == {per_port[s].axes[a] : s \in {x \in Source : Fresh(x)}} \ {AxisMin}
                      IN /\ v \in counted \cup {0}
                         /\ \A x \in counted : Deflection(x) <= Deflection(v)
    BY DEF StrongestStickWins
  <2> DEFINE counted == {per_port[s].axes[a] : s \in {x \in Source : Fresh(x)}} \ {AxisMin}
  <2>1. CASE port < MAX_PORTS
    <3>1. /\ v \in Int /\ 0 <= Abs16(v)
          /\ v # 0 => \E s \in Source : Fresh(s) /\ per_port[s].axes[a] = v
          /\ \A s \in Source : Fresh(s) /\ per_port[s].axes[a] # AxisMin
               => Abs16(per_port[s].axes[a]) <= Abs16(v)
      BY <2>1, TypesImply, MergeIsDominated DEF Deflected
    <3>2. AxisMin \in Int /\ AxisMin < 0 /\ Abs16(AxisMin) = AxisMin
      BY Constants DEF AxisMin, Abs16
    <3>3. v # AxisMin
      BY <3>1, <3>2
    <3>4. ASSUME NEW x \in counted PROVE Deflection(x) <= Deflection(v)
      <4>1. PICK s \in Source : Fresh(s) /\ x = per_port[s].axes[a] /\ x # AxisMin
        OBVIOUS
      <4>2. x \in Int
        BY <4>1, TypesImply DEF Fresh, AxesAreInts
      <4>3. Abs16(x) <= Abs16(v)
        BY <3>1, <4>1
      <4>4. Abs16(x) = Deflection(x) /\ Abs16(v) = Deflection(v)
        BY <3>3, <4>1 DEF Abs16, Deflection
      <4> QED
        BY <4>3, <4>4
    <3> QED
      BY <3>1, <3>3, <3>4
  <2>2. CASE ~(port < MAX_PORTS)
    <3>1. DOMAIN per_port = {} /\ v = 0
      BY <2>2, PortsAreNumbers DEF NoSuchPort, Deflected
    <3> QED
      BY <3>1 DEF Fresh
  <2> QED
    BY <2>1, <2>2
<1> QED
  BY <1>1, <1>2, TypesInit, TypesStep, NoSuchPortStep, PTL DEF Spec

-----------------------------------------------------------------------------
(* What a message leaves in the hub.  A message of the whole gamepad needs   *)
(* nothing that is there; one that names the changes is right because a      *)
(* WebSocket brings all of them in order.                                    *)

\* The hub's entry is the gamepad as the source last told, the message under
\* way included.
InStep(s) ==
  /\ \A m \in flight[s] : /\ flight[s] = {m} /\ (s \in alive => m.pad = pad[s])
                          /\ Matches(merged_entry(EntryOf(s), to_input_update(m)), m.pad)
  /\ s \in alive /\ flight[s] = {} => Matches(EntryOf(s), pad[s])

OrderedInStep == port < MAX_PORTS => \A s \in Ordered : InStep(s)

LEMMA NeutralMatchesBlank == Matches(Blank, Neutral)
<1>1. clamp_axis(0) = 0
  BY ClampIsAWord, Constants
<1>2. Neutral = [buttons |-> {}, axes |-> [a \in Axis |-> 0]]
  BY HubAssumption
<1> QED
  BY <1>1, <1>2 DEF Matches, Blank, Clamped

\* A whole message is the gamepad, whatever the hub held.
LEMMA WholeMatches ==
  ASSUME NEW entry, NEW p \in Gamepads, NEW m, m.pad = p, m.buttons = Button, m.axes = Axis
  PROVE  Matches(merged_entry(entry, to_input_update(m)), p)
<1> DEFINE e == merged_entry(entry, to_input_update(m))
<1>1. /\ e.buttons = {b \in Button : IF b \in m.buttons THEN b \in m.pad.buttons ELSE b \in entry.buttons}
      /\ e.axes = [a \in Axis |-> IF a \in m.axes THEN clamp_axis(m.pad.axes[a]) ELSE entry.axes[a]]
  BY MergedEntryIs
<1> HIDE DEF e
<1>2. e.buttons = p.buttons
  BY <1>1 DEF Gamepads
<1>3. e.axes = Clamped(p)
  BY <1>1 DEF Clamped
<1> QED
  BY <1>2, <1>3 DEF Matches, e

\* One of the changes is, over an entry that is the gamepad before them.
LEMMA ChangesMatch ==
  ASSUME Types, NEW s \in Source, NEW p \in Pads[s], NEW entry, Matches(entry, pad[s])
  PROVE  Matches(merged_entry(entry, to_input_update(Message(s, p))), p)
<1> DEFINE m == Message(s, p)
           e == merged_entry(entry, to_input_update(m))
<1>1. p \in Gamepads /\ pad[s] \in Gamepads
  BY Constants DEF Types, PlayersOK
<1>2. /\ m.pad = p
      /\ m.buttons = {b \in Button : s \in Full \/ (b \in p.buttons) # (b \in pad[s].buttons)}
      /\ m.axes = {a \in Axis : s \in Full \/ p.axes[a] # pad[s].axes[a]}
  BY DEF Message
<1> HIDE DEF m
<1>3. /\ e.buttons = {b \in Button : IF b \in m.buttons THEN b \in m.pad.buttons ELSE b \in entry.buttons}
      /\ e.axes = [a \in Axis |-> IF a \in m.axes THEN clamp_axis(m.pad.axes[a]) ELSE entry.axes[a]]
  <2>1. m.buttons \subseteq Button /\ m.axes \subseteq Axis
    BY <1>2
  <2> QED
    BY <2>1, MergedEntryIs
<1> HIDE DEF e
<1>4. entry.buttons = pad[s].buttons /\ \A a \in Axis : entry.axes[a] = clamp_axis(pad[s].axes[a])
  BY DEF Matches, Clamped
<1>5. ASSUME NEW b \in Button
      PROVE  (IF b \in m.buttons THEN b \in m.pad.buttons ELSE b \in entry.buttons) <=> b \in p.buttons
  BY <1>2, <1>4
<1>6. e.buttons = p.buttons
  BY <1>1, <1>3, <1>5 DEF Gamepads
<1>7. ASSUME NEW a \in Axis
      PROVE  (IF a \in m.axes THEN clamp_axis(m.pad.axes[a]) ELSE entry.axes[a]) = clamp_axis(p.axes[a])
  BY <1>2, <1>4
<1>8. e.axes = Clamped(p)
  BY <1>3, <1>7 DEF Clamped
<1> QED
  BY <1>6, <1>8 DEF Matches, e, m

\* Only what an entry says counts, not its age.
LEMMA SameWords ==
  ASSUME NEW entry, NEW other, other.buttons = entry.buttons, other.axes = entry.axes
  PROVE  /\ \A p : Matches(entry, p) => Matches(other, p)
         /\ \A m : merged_entry(other, to_input_update(m)) = merged_entry(entry, to_input_update(m))
BY DEF Matches, merged_entry

LEMMA InStepFrame ==
  ASSUME NEW s, InStep(s), flight'[s] = flight[s], s \in alive' => s \in alive /\ pad'[s] = pad[s],
         EntryOf(s)'.buttons = EntryOf(s).buttons, EntryOf(s)'.axes = EntryOf(s).axes
  PROVE  InStep(s)'
<1>1. /\ \A p : Matches(EntryOf(s), p) => Matches(EntryOf(s)', p)
      /\ \A m : merged_entry(EntryOf(s)', to_input_update(m)) = merged_entry(EntryOf(s), to_input_update(m))
  BY SameWords
<1>2. \A m : Matches(merged_entry(EntryOf(s), to_input_update(m)), m.pad)
           => Matches(merged_entry(EntryOf(s), to_input_update(m)), m.pad)'
  <2>1. \A m : merged_entry(EntryOf(s), to_input_update(m))' = merged_entry(EntryOf(s), to_input_update(m))
    BY <1>1 DEF merged_entry, to_input_update, clamp_axis, Rounded, AxisMin
  <2> QED
    BY <2>1 DEF Matches, Clamped, clamp_axis, Rounded, AxisMin
<1>3. \A p : Matches(EntryOf(s), p) => Matches(EntryOf(s), p)'
  BY <1>1 DEF Matches, Clamped, clamp_axis, Rounded, AxisMin
<1> QED
  BY <1>2, <1>3 DEF InStep

LEMMA InStepInit == Init => OrderedInStep
<1> SUFFICES ASSUME Init, NEW s \in Ordered PROVE InStep(s)
  BY DEF OrderedInStep
<1>1. s \in Source /\ flight[s] = {} /\ pad[s] = Neutral /\ EntryOf(s) = Blank
  BY HubAssumption DEF Init, EntryOf
<1> QED
  BY <1>1, NeutralMatchesBlank DEF InStep

\* A message on a WebSocket goes out when the one before it has been read.
LEMMA InStepSends ==
  ASSUME Types, NEW s \in Ordered, InStep(s), s \in alive, NEW p \in Pads[s], NEW arrives \in BOOLEAN,
         Sends(s, p, arrives), per_port' = per_port, pad'[s] = p
  PROVE  InStep(s)'
<1>1. /\ s \in Source /\ flight[s] = {} /\ Matches(EntryOf(s), pad[s])
      /\ flight'[s] = {Message(s, p)} /\ EntryOf(s)' = EntryOf(s)
  BY HubAssumption DEF Sends, InStep, Types, NetworkOK, EntryOf
<1>2. Message(s, p).pad = p
  BY DEF Message
<1>3. Matches(merged_entry(EntryOf(s), to_input_update(Message(s, p))), p)
  BY <1>1, ChangesMatch
<1>4. PICK m : m = Message(s, p)
  OBVIOUS
<1>5. flight'[s] = {m} /\ m.pad = p /\ Matches(merged_entry(EntryOf(s), to_input_update(m)), m.pad)
  BY <1>1, <1>2, <1>3, <1>4
<1>6. merged_entry(EntryOf(s), to_input_update(m))' = merged_entry(EntryOf(s), to_input_update(m))
  BY <1>1 DEF merged_entry, to_input_update, clamp_axis, Rounded, AxisMin
<1>7. Matches(merged_entry(EntryOf(s), to_input_update(m)), m.pad)'
  BY <1>5, <1>6 DEF Matches, Clamped, clamp_axis, Rounded, AxisMin
<1> QED
  BY <1>5, <1>7 DEF InStep

LEMMA InStepStep == Types /\ OrderedInStep /\ [Next]_vars => OrderedInStep'
<1> SUFFICES ASSUME Types, OrderedInStep, [Next]_vars, port < MAX_PORTS, NEW x \in Ordered
             PROVE  InStep(x)'
  BY DEF OrderedInStep
<1>0. x \in Source /\ InStep(x) /\ ~(port >= MAX_PORTS)
  BY HubAssumption, PortsAreNumbers DEF OrderedInStep
<1>1. ASSUME NEW s \in Source, NEW arrives \in BOOLEAN, NEW p \in Pads[s], move(s, p, arrives)
      PROVE  InStep(x)'
  <2>1. per_port' = per_port /\ alive' = alive /\ s \in alive /\ Sends(s, p, arrives)
        /\ pad' = [pad EXCEPT ![s] = p] /\ pad'[s] = p
    BY <1>1 DEF move, hub, Types, PlayersOK
  <2>2. CASE x = s
    BY <1>0, <2>1, <2>2, InStepSends
  <2>3. CASE x # s
    <3>1. flight'[x] = flight[x] /\ pad'[x] = pad[x] /\ EntryOf(x)' = EntryOf(x)
      BY <1>0, <2>1, <2>3 DEF Sends, Types, NetworkOK, EntryOf, PlayersOK
    <3> QED
      BY <1>0, <2>1, <3>1, InStepFrame
  <2> QED
    BY <2>2, <2>3
<1>2. ASSUME NEW s \in Source, NEW arrives \in BOOLEAN, keepalive(s, arrives) PROVE InStep(x)'
  <2>1. per_port' = per_port /\ alive' = alive /\ s \in alive /\ Sends(s, pad[s], arrives)
        /\ pad' = pad /\ pad[s] \in Pads[s]
    BY <1>2 DEF keepalive, hub, Types, PlayersOK
  <2>2. CASE x = s
    BY <1>0, <2>1, <2>2, InStepSends
  <2>3. CASE x # s
    <3>1. flight'[x] = flight[x] /\ EntryOf(x)' = EntryOf(x)
      BY <1>0, <2>1, <2>3 DEF Sends, Types, NetworkOK, EntryOf
    <3> QED
      BY <1>0, <2>1, <3>1, InStepFrame
  <2> QED
    BY <2>2, <2>3
<1>3. ASSUME NEW s \in Source, Silences(s)
      PROVE  x \in alive' => x # s /\ x \in alive /\ pad'[x] = pad[x]
  BY <1>0, <1>3 DEF Silences, Rests, Types, PlayersOK
<1>4. ASSUME NEW s \in Source, falls_silent(s) PROVE InStep(x)'
  <2>1. flight' = flight /\ EntryOf(x)' = EntryOf(x)
    BY <1>4 DEF falls_silent, hub, EntryOf
  <2>2. x \in alive' => x \in alive /\ pad'[x] = pad[x]
    BY <1>3, <1>4 DEF falls_silent
  <2> QED
    BY <1>0, <2>1, <2>2, InStepFrame
<1>5. ASSUME NEW s \in Source, NEW m \in flight[s], apply_update(s, m) PROVE InStep(x)'
  <2>1. /\ alive' = alive /\ pad' = pad /\ flight' = [flight EXCEPT ![s] = @ \ {m}]
        /\ per_port' = [y \in DOMAIN per_port \cup {s} |->
                          IF y # s THEN per_port[y] ELSE merged_entry(EntryOf(s), to_input_update(m))]
    BY <1>0, <1>5 DEF apply_update
  <2>2. CASE x = s
    <3>1. flight'[x] = {} /\ (x \in alive => m.pad = pad[x])
          /\ Matches(merged_entry(EntryOf(x), to_input_update(m)), m.pad)
      BY <1>0, <2>1, <2>2 DEF InStep, Types, NetworkOK
    <3>2. EntryOf(x)' = merged_entry(EntryOf(x), to_input_update(m))
      BY <2>1, <2>2 DEF EntryOf
    <3>3. x \in alive => Matches(EntryOf(x), pad[x])'
      BY <2>1, <3>1, <3>2 DEF Matches, Clamped, clamp_axis, Rounded, AxisMin
    <3> QED
      BY <2>1, <3>1, <3>3 DEF InStep
  <2>3. CASE x # s
    <3>1. flight'[x] = flight[x] /\ EntryOf(x)' = EntryOf(x)
      BY <1>0, <2>1, <2>3 DEF Types, NetworkOK, EntryOf
    <3> QED
      BY <1>0, <2>1, <3>1, InStepFrame
  <2> QED
    BY <2>2, <2>3
<1>6. ASSUME NEW s \in Source, pulse_button(s, Coin) PROVE InStep(x)'
  <2>1. /\ alive' = alive /\ pad' = pad /\ flight' = flight
        /\ per_port' = [y \in DOMAIN per_port \cup {s} |->
                          IF y # s THEN per_port[y] ELSE [EntryOf(s) EXCEPT !.age = 0]]
    BY <1>6 DEF pulse_button, client
  <2>2. CASE x = s
    <3>1. EntryOf(x)' = [EntryOf(x) EXCEPT !.age = 0] /\ EntryOf(x) \in Entries
      BY <2>1, <2>2, EntryOfIsAnEntry DEF EntryOf, Types
    <3>2. EntryOf(x)'.buttons = EntryOf(x).buttons /\ EntryOf(x)'.axes = EntryOf(x).axes
      BY <3>1 DEF Entries
    <3> QED
      BY <1>0, <2>1, <3>2, InStepFrame
  <2>3. CASE x # s
    <3>1. EntryOf(x)' = EntryOf(x)
      BY <2>1, <2>3 DEF EntryOf
    <3> QED
      BY <1>0, <2>1, <3>1, InStepFrame
  <2> QED
    BY <2>2, <2>3
<1>7. ASSUME NEW s \in Source, remove_source(s) PROVE InStep(x)'
  <2>1. /\ flight' = flight /\ (s \in Ordered => flight[s] = {})
        /\ per_port' = [y \in DOMAIN per_port \ {s} |-> per_port[y]]
    BY <1>7 DEF remove_source
  <2>2. x \in alive' => x # s /\ x \in alive /\ pad'[x] = pad[x]
    BY <1>3, <1>7 DEF remove_source
  <2>3. CASE x = s
    BY <2>1, <2>2, <2>3 DEF InStep
  <2>4. CASE x # s
    <3>1. EntryOf(x)' = EntryOf(x)
      BY <2>1, <2>4 DEF EntryOf
    <3> QED
      BY <1>0, <2>1, <2>2, <3>1, InStepFrame
  <2> QED
    BY <2>3, <2>4
<1>8. CASE tick
  <2>1. flight[x] = {} /\ flight'[x] = {} /\ alive' = alive /\ pad' = pad
    BY <1>0, <1>8 DEF tick
  <2>2. EntryOf(x)'.buttons = EntryOf(x).buttons /\ EntryOf(x)'.axes = EntryOf(x).axes
    <3>1. CASE x \in DOMAIN per_port
      <4>1. per_port[x] \in Entries /\ x \in DOMAIN per_port'
            /\ per_port'[x] = [per_port[x] EXCEPT !.age = Older(@, Stale)]
        BY <1>8, <3>1 DEF tick, Types, HubOK
      <4> QED
        BY <3>1, <4>1 DEF EntryOf, Entries
    <3>2. CASE x \notin DOMAIN per_port
      BY <1>8, <3>2 DEF tick, EntryOf
    <3> QED
      BY <3>1, <3>2
  <2> QED
    BY <1>0, <2>1, <2>2, InStepFrame
<1>9. CASE UNCHANGED vars
  <2>1. flight' = flight /\ alive' = alive /\ pad' = pad /\ EntryOf(x)' = EntryOf(x)
    BY <1>9 DEF vars, EntryOf
  <2> QED
    BY <1>0, <2>1, InStepFrame
<1> QED
  BY <1>1, <1>2, <1>4, <1>5, <1>6, <1>7, <1>8, <1>9 DEF Next

\* A message of a reliable source leaves the gamepad it was sent for.
LEMMA AppliedMatches ==
  ASSUME Types, OrderedInStep, port < MAX_PORTS, NEW s \in Reliable, NEW m \in flight[s]
  PROVE  Matches(merged_entry(EntryOf(s), to_input_update(m)), m.pad)
<1>1. s \in Source /\ m \in Messages(s)
  BY HubAssumption DEF Reliable, Types, NetworkOK
<1>2. CASE s \in Full
  <2>1. m.pad \in Gamepads /\ m.buttons = Button /\ m.axes = Axis
    BY <1>1, <1>2, Constants DEF Messages
  <2> QED
    BY <2>1, WholeMatches
<1>3. CASE s \in Ordered
  BY <1>3 DEF OrderedInStep, InStep
<1> QED
  BY <1>2, <1>3 DEF Reliable

-----------------------------------------------------------------------------
(* How old the presses are that the hub knows of.                          *)

\* A player's present presses are held now, those of a message when it was
\* sent, and those of a reliable source's entry when its message was sent,
\* unless a coin has made the entry young again since.
PressesAreDated ==
  /\ \A s \in alive : \A b \in Button : Holds(pad[s], b) => held[b] = 0
  /\ \A s \in Source : \A m \in flight[s] : \A b \in Button : Holds(m.pad, b) => held[b] <= m.age
  /\ \A s \in DOMAIN per_port \cap Reliable : \A b \in Button :
       Keeps(per_port[s], b) => held[b] <= per_port[s].age + MaxDelay \/ s \in coined

LEMMA EntryKeepsWhatIsHeld ==
  ASSUME NEW p \in Gamepads, NEW entry, NEW b \in Button, Matches(entry, p)
  PROVE  Keeps(entry, b) <=> Holds(p, b)
<1>1. \A a \in DOMAIN Trigger : entry.axes[a] = clamp_axis(p.axes[a])
  BY HubAssumption DEF Matches, Clamped
<1> QED
  BY <1>1 DEF Keeps, Holds, Matches

LEMMA NeutralHoldsNothing == \A b \in Button : ~Holds(Neutral, b)
<1>1. Neutral.buttons = {} /\ \A a \in DOMAIN Trigger : Neutral.axes[a] = 0
  BY HubAssumption
<1>2. clamp_axis(0) = 0 /\ ~(0 > AxisMax \div 4)
  BY ClampIsAWord, Constants
<1> QED
  BY <1>1, <1>2 DEF Holds

LEMMA DatedInit == Init => PressesAreDated
BY NeutralHoldsNothing DEF Init, PressesAreDated

\* Presses keep their dates if nothing new is held, sent or entered.
LEMMA DatedFrame ==
  ASSUME PressesAreDated, held' = held,
         alive' \subseteq alive, \A s \in alive' : pad'[s] = pad[s],
         \A s \in Source : flight'[s] \subseteq flight[s],
         \A s \in DOMAIN per_port' : /\ s \in DOMAIN per_port /\ per_port'[s] = per_port[s]
                                     /\ s \in coined => s \in coined'
  PROVE  PressesAreDated'
BY DEF PressesAreDated

LEMMA DatedStep == Types /\ OrderedInStep /\ PressesAreDated /\ [Next]_vars => PressesAreDated'
<1> SUFFICES ASSUME Types, OrderedInStep, PressesAreDated, [Next]_vars PROVE PressesAreDated'
  OBVIOUS
<1> USE Constants
<1>0. \A b \in Button : held[b] \in Nat /\ held[b] <= Ghost + 1
  BY DEF Types, PlayersOK
<1>1. ASSUME NEW s \in Source, NEW arrives \in BOOLEAN, NEW p \in Pads[s], move(s, p, arrives)
      PROVE  PressesAreDated'
  <2>1. \A b \in Button : held'[b] = IF Holds(p, b) THEN 0 ELSE held[b]
    BY <1>1 DEF move
  <2>2. \A b \in Button : held'[b] <= held[b] /\ held'[b] \in Nat
    BY <1>0, <2>1
  <2>3. /\ alive' = alive /\ coined' = coined /\ per_port' = per_port
        /\ pad' = [pad EXCEPT ![s] = p] /\ pad \in [Source -> Gamepads] /\ alive \subseteq Source
    BY <1>1 DEF move, hub, Types, PlayersOK
  <2>4. \A x \in alive' : \A b \in Button : Holds(pad'[x], b) => held'[b] = 0
    <3> TAKE x \in alive'
    <3> TAKE b \in Button
    <3>1. CASE x = s
      BY <2>1, <2>3, <3>1
    <3>2. CASE x # s
      BY <2>1, <2>3, <3>2 DEF PressesAreDated
    <3> QED
      BY <3>1, <3>2
  <2>5. \A x \in Source : \A m \in flight'[x] : m \in flight[x] \/ (m.pad = p /\ m.age = 0)
    BY <1>1 DEF move, Sends, Message, Types, NetworkOK
  <2>6. \A x \in Source : \A m \in flight'[x] : \A b \in Button : Holds(m.pad, b) => held'[b] <= m.age
    <3> TAKE x \in Source
    <3> TAKE m \in flight'[x]
    <3> TAKE b \in Button
    <3>1. CASE m \in flight[x]
      <4>1. m.age \in Nat
        BY <3>1 DEF Types, NetworkOK, Messages
      <4> QED
        BY <1>0, <2>2, <3>1, <4>1 DEF PressesAreDated
    <3>2. CASE m.pad = p /\ m.age = 0
      BY <2>1, <3>2
    <3> QED
      BY <2>5, <3>1, <3>2
  <2>7. \A x \in DOMAIN per_port' \cap Reliable : \A b \in Button : Keeps(per_port'[x], b) =>
          held'[b] <= per_port'[x].age + MaxDelay \/ x \in coined'
    <3> TAKE x \in DOMAIN per_port' \cap Reliable
    <3> TAKE b \in Button
    <3>1. x \in DOMAIN per_port /\ per_port[x].age \in Nat
      BY <2>3 DEF Types, HubOK, Entries
    <3> QED
      BY <1>0, <2>2, <2>3, <3>1 DEF PressesAreDated
  <2> QED
    BY <2>4, <2>6, <2>7 DEF PressesAreDated
<1>2. ASSUME NEW s \in Source, NEW arrives \in BOOLEAN, keepalive(s, arrives)
      PROVE  PressesAreDated'
  <2>1. /\ alive' = alive /\ pad' = pad /\ held' = held /\ coined' = coined
        /\ per_port' = per_port /\ s \in alive
    BY <1>2 DEF keepalive, hub
  <2>2. \A x \in Source : \A m \in flight'[x] : m \in flight[x] \/ (m.pad = pad[s] /\ m.age = 0)
    BY <1>2 DEF keepalive, Sends, Message, Types, NetworkOK
  <2>3. \A x \in Source : \A m \in flight'[x] : \A b \in Button : Holds(m.pad, b) => held'[b] <= m.age
    <3> TAKE x \in Source
    <3> TAKE m \in flight'[x]
    <3> TAKE b \in Button
    <3>1. CASE m \in flight[x]
      BY <2>1, <3>1 DEF PressesAreDated
    <3>2. CASE m.pad = pad[s] /\ m.age = 0
      BY <2>1, <3>2 DEF PressesAreDated
    <3> QED
      BY <2>2, <3>1, <3>2
  <2> QED
    BY <2>1, <2>3 DEF PressesAreDated
<1>3. ASSUME NEW s \in Source, Silences(s)
      PROVE  alive' \subseteq alive /\ \A x \in alive' : pad'[x] = pad[x]
  BY <1>3 DEF Silences, Rests, Types, PlayersOK
<1>4. ASSUME NEW s \in Source, falls_silent(s) PROVE PressesAreDated'
  <2>1. held' = held /\ coined' = coined /\ flight' = flight /\ per_port' = per_port
    BY <1>4 DEF falls_silent, hub
  <2>2. alive' \subseteq alive /\ \A x \in alive' : pad'[x] = pad[x]
    BY <1>3, <1>4 DEF falls_silent
  <2> QED
    BY <2>1, <2>2, DatedFrame
<1>5. ASSUME NEW s \in Source, NEW m \in flight[s], apply_update(s, m) PROVE PressesAreDated'
  <2>1. /\ held' = held /\ alive' = alive /\ pad' = pad
        /\ \A x \in Source : flight'[x] \subseteq flight[x]
    BY <1>5 DEF apply_update, Types, NetworkOK
  <2>2. CASE port >= MAX_PORTS
    <3>1. per_port' = per_port /\ coined' = coined
      BY <1>5, <2>2 DEF apply_update
    <3> QED
      BY <2>1, <3>1, DatedFrame
  <2>3. CASE ~(port >= MAX_PORTS)
    <3> DEFINE e == merged_entry(EntryOf(s), to_input_update(m))
    <3>1. /\ per_port' = [x \in DOMAIN per_port \cup {s} |-> IF x # s THEN per_port[x] ELSE e]
          /\ coined' = coined \ {s}
      BY <1>5, <2>3 DEF apply_update
    <3>2. ASSUME s \in Reliable, NEW b \in Button, Keeps(e, b) PROVE held[b] <= e.age + MaxDelay
      <4>1. m \in Messages(s) /\ m.pad \in Gamepads /\ m.age \in Nat /\ m.age <= MaxDelay
        BY DEF Types, NetworkOK, Messages
      <4>2. Matches(e, m.pad) /\ e.age = 0
        <5>1. port < MAX_PORTS
          BY <2>3, PortsAreNumbers
        <5> QED
          BY <3>2, <5>1, AppliedMatches DEF merged_entry
      <4> HIDE DEF e
      <4>3. Holds(m.pad, b)
        BY <3>2, <4>1, <4>2, EntryKeepsWhatIsHeld
      <4> QED
        BY <1>0, <4>1, <4>2, <4>3 DEF PressesAreDated
    <3> HIDE DEF e
    <3>3. \A x \in DOMAIN per_port' \cap Reliable : \A b \in Button : Keeps(per_port'[x], b) =>
            held'[b] <= per_port'[x].age + MaxDelay \/ x \in coined'
      <4> TAKE x \in DOMAIN per_port' \cap Reliable
      <4> TAKE b \in Button
      <4>1. CASE x = s
        BY <2>1, <3>1, <3>2, <4>1
      <4>2. CASE x # s
        BY <2>1, <3>1, <4>2 DEF PressesAreDated
      <4> QED
        BY <4>1, <4>2
    <3> QED
      BY <2>1, <3>3 DEF PressesAreDated
  <2> QED
    BY <2>2, <2>3
<1>6. ASSUME NEW s \in Source, pulse_button(s, Coin) PROVE PressesAreDated'
  <2>1. /\ held' = held /\ coined' = coined \cup {s} /\ alive' = alive /\ pad' = pad /\ flight' = flight
        /\ \A x \in DOMAIN per_port' : x = s \/ (x \in DOMAIN per_port /\ per_port'[x] = per_port[x])
    BY <1>6 DEF pulse_button, client
  <2> QED
    BY <2>1 DEF PressesAreDated
<1>7. ASSUME NEW s \in Source, remove_source(s) PROVE PressesAreDated'
  <2>1. /\ held' = held /\ flight' = flight
        /\ \A x \in DOMAIN per_port' : /\ x \in DOMAIN per_port /\ per_port'[x] = per_port[x]
                                       /\ x \in coined => x \in coined'
    BY <1>7 DEF remove_source
  <2>2. alive' \subseteq alive /\ \A x \in alive' : pad'[x] = pad[x]
    BY <1>3, <1>7 DEF remove_source
  <2> QED
    BY <2>1, <2>2, DatedFrame
<1>8. CASE tick
  <2>1. alive' = alive /\ pad' = pad
    BY <1>8 DEF tick
  <2>2. ASSUME NEW b \in Button
        PROVE  /\ (\E s \in alive : Holds(pad[s], b)) => held'[b] = 0
               /\ held'[b] \in Nat /\ held'[b] <= held[b] + 1 /\ held'[b] <= Ghost + 1
    <3>1. held'[b] = IF \E s \in alive : Holds(pad[s], b) THEN 0 ELSE Older(held[b], Ghost)
      BY <1>8 DEF tick
    <3> QED
      BY <1>0, <3>1 DEF Older
  <2>3. coined' = coined
    BY <1>8 DEF tick
  <2>4. \A s \in alive' : \A b \in Button : Holds(pad'[s], b) => held'[b] = 0
    BY <2>1, <2>2
  <2>5. \A s \in Source : \A m \in flight'[s] : \A b \in Button : Holds(m.pad, b) => held'[b] <= m.age
    <3> TAKE s \in Source
    <3> TAKE m \in flight'[s]
    <3> TAKE b \in Button
    <3>1. PICK n \in flight[s] : m = [n EXCEPT !.age = @ + 1]
      BY <1>8 DEF tick
    <3>2. n \in Messages(s)
      BY DEF Types, NetworkOK
    <3>3. m.pad = n.pad /\ m.age = n.age + 1 /\ n.age \in Nat
      BY <3>1, <3>2 DEF Messages
    <3> QED
      BY <1>0, <2>2, <3>3 DEF PressesAreDated
  <2>6. \A s \in DOMAIN per_port' \cap Reliable : \A b \in Button : Keeps(per_port'[s], b) =>
          held'[b] <= per_port'[s].age + MaxDelay \/ s \in coined'
    <3> TAKE s \in DOMAIN per_port' \cap Reliable
    <3> TAKE b \in Button
    <3>1. /\ s \in DOMAIN per_port /\ per_port[s] \in Entries
          /\ per_port'[s] = [per_port[s] EXCEPT !.age = Older(@, Stale)]
      BY <1>8 DEF tick, Types, HubOK
    <3>2. /\ per_port'[s].buttons = per_port[s].buttons /\ per_port'[s].axes = per_port[s].axes
          /\ per_port'[s].age = Older(per_port[s].age, Stale) /\ per_port[s].age \in 0..(Stale + 1)
      BY <3>1 DEF Entries
    <3>3. Keeps(per_port'[s], b) => Keeps(per_port[s], b)
      BY <3>2 DEF Keeps
    <3>4. CASE per_port[s].age > Stale
      <4>1. per_port'[s].age = Stale + 1
        <5>1. Older(per_port[s].age, Stale) = per_port[s].age
          BY <3>4 DEF Older
        <5>2. per_port[s].age = Stale + 1
          BY <3>2, <3>4
        <5> QED
          BY <3>2, <5>1, <5>2
      <4> QED
        BY <2>2, <4>1, Constants
    <3>5. CASE ~(per_port[s].age > Stale)
      <4>1. per_port'[s].age = per_port[s].age + 1
        BY <3>2, <3>5 DEF Older
      <4> QED
        BY <1>0, <2>2, <2>3, <3>1, <3>2, <3>3, <4>1 DEF PressesAreDated
    <3> QED
      BY <3>4, <3>5
  <2> QED
    BY <2>4, <2>5, <2>6 DEF PressesAreDated
<1>9. CASE UNCHANGED vars
  BY <1>9 DEF vars, PressesAreDated
<1> QED
  BY <1>1, <1>2, <1>4, <1>5, <1>6, <1>7, <1>8, <1>9 DEF Next

\* What reads pressed is kept by a fresh entry, or a pulse is on.
LEMMA PressedIsKept ==
  ASSUME Types, NEW b \in Button, Pressed(b)
  PROVE  \/ transient_buttons[b] > 0
         \/ \E s \in Source : Fresh(s) /\ Keeps(per_port[s], b)
<1> DEFINE Reported == UNION {per_port[s].buttons : s \in {x \in Source : Fresh(x)}}
           Pulsed == {x \in Button : transient_buttons[x] > 0}
           Pulled == {Trigger[a] : a \in
                       {x \in DOMAIN Trigger : \E v \in merged_axis(x) : v > AxisMax \div 4}}
<1>1. b \in Reported \/ b \in Pulsed \/ b \in Pulled
  <2>1. merged_buttons \subseteq Reported \cup Pulsed \cup Pulled
    <3>1. merged_buttons = IF DOMAIN per_port = {} THEN {} ELSE Reported \cup Pulsed \cup Pulled
      BY DEF merged_buttons
    <3> HIDE DEF Reported, Pulsed, Pulled
    <3> QED
      BY <3>1
  <2> HIDE DEF Reported, Pulsed, Pulled
  <2> QED
    BY <2>1 DEF Pressed
<1>2. CASE b \in Reported
  BY <1>2 DEF Keeps
<1>3. CASE b \in Pulled
  <2>1. PICK a \in DOMAIN Trigger : b = Trigger[a] /\ \E v \in merged_axis(a) : v > AxisMax \div 4
    BY <1>3
  <2>2. PICK v \in merged_axis(a) : v > AxisMax \div 4
    BY <2>1
  <2>3. a \in Axis
    BY HubAssumption
  <2>4. v # 0
    BY <2>2, Constants
  <2>5. PICK s \in Source : Fresh(s) /\ per_port[s].axes[a] = v
    BY <2>3, <2>4, TypesImply, MergeIsDominated
  <2> QED
    BY <2>1, <2>2, <2>5 DEF Keeps
<1> QED
  BY <1>1, <1>2, <1>3 DEF merged_buttons

(* GhostsGo: a button reads pressed only if some player held it within the
   stale time-out and the delay of a message, or a pulse is on, or a source
   keeps it that a coin made young again or that is not reliable. *)
THEOREM GhostsGo == Spec => []GhostsArePruned
<1>1. Types /\ PressesAreDated => GhostsArePruned
  <2> SUFFICES ASSUME Types, PressesAreDated, NEW b \in Button, Pressed(b), ~(transient_buttons[b] > 0)
               PROVE  \/ held[b] <= Ghost
                      \/ \E s \in Source : /\ Fresh(s) /\ Keeps(per_port[s], b)
                                           /\ s \in coined \/ s \notin Reliable
    BY DEF GhostsArePruned
  <2>1. PICK s \in Source : Fresh(s) /\ Keeps(per_port[s], b)
    BY PressedIsKept
  <2>2. s \in DOMAIN per_port /\ per_port[s].age <= Stale /\ per_port[s].age \in Nat
    BY <2>1 DEF Fresh, Types, HubOK, Entries
  <2>3. s \in Reliable => held[b] <= per_port[s].age + MaxDelay \/ s \in coined
    BY <2>1, <2>2 DEF PressesAreDated
  <2>4. held[b] \in Nat
    BY Constants DEF Types, PlayersOK
  <2>5. held[b] <= per_port[s].age + MaxDelay => held[b] <= Ghost
    BY <2>2, <2>4, Constants
  <2> QED
    BY <2>1, <2>3, <2>5
<1> QED
  BY <1>1, TypesInit, TypesStep, InStepInit, InStepStep, DatedInit, DatedStep, PTL DEF Spec

-----------------------------------------------------------------------------
(* How recent the hub's picture of a steady gamepad is.                    *)

\* The hub holds what the player holds.
Current(s) == s \in DOMAIN per_port /\ Matches(per_port[s], pad[s])

LEMMA CurrentFrame ==
  ASSUME NEW s, Current(s), s \in DOMAIN per_port', pad'[s] = pad[s],
         per_port'[s].buttons = per_port[s].buttons, per_port'[s].axes = per_port[s].axes
  PROVE  Current(s)'
BY DEF Current, Matches, Clamped, clamp_axis, Rounded, AxisMin

\* Either the gamepad moved at most x (and a message's delay) ago, or the hub
\* holds what it holds and heard of it at most x ago.
Known(s, x) == steady[s] <= x + MaxDelay \/ (Current(s) /\ per_port[s].age <= x)

\* Units since the last message that was not lost, as far as keepalives tell.
Quiet(s) == lost[s] * Keepalive + timer[s]

\* A message that tells of another gamepad is older than the gamepad's last
\* move; and what the last message told is known, or the message is under way
\* and what the one before it told is known.
SteadyIsKnown(s) ==
  /\ \A m \in flight[s] : m.pad # pad[s] => steady[s] <= m.age
  /\ lost[s] > Losses => steady[s] <= timer[s]
  /\ port < MAX_PORTS => Known(s, Quiet(s)) \/ \E m \in flight[s] : Known(s, m.age + Span)

HoldInv == \A s \in alive \cap Reliable : SteadyIsKnown(s)

LEMMA QuietIsBounded ==
  ASSUME Types, NEW s \in Source
  PROVE  /\ Quiet(s) \in Nat /\ timer[s] \in Nat /\ lost[s] \in Nat /\ steady[s] \in Nat
         /\ timer[s] <= Quiet(s) /\ timer[s] <= Span /\ Keepalive <= Span
         /\ lost[s] <= Losses => Quiet(s) <= Span
<1>1. /\ timer[s] \in 0..Keepalive /\ lost[s] \in Nat /\ steady[s] \in Nat
      /\ Keepalive \in Nat /\ Losses \in Nat
  BY Constants DEF Types, PlayersOK
<1>2. lost[s] * Keepalive \in Nat /\ Losses * Keepalive \in Nat
  BY <1>1
<1>3. Span = Losses * Keepalive + Keepalive
  BY <1>1 DEF Span
<1>4. lost[s] <= Losses => lost[s] * Keepalive <= Losses * Keepalive
  <2> SUFFICES ASSUME lost[s] <= Losses PROVE lost[s] * Keepalive <= Losses * Keepalive
    OBVIOUS
  <2>1. (Losses - lost[s]) * Keepalive >= 0
    BY <1>1
  <2>2. (Losses - lost[s]) * Keepalive = Losses * Keepalive - lost[s] * Keepalive
    BY <1>1
  <2> QED
    BY <1>2, <2>1, <2>2
<1> QED
  BY <1>1, <1>2, <1>3, <1>4 DEF Quiet

LEMMA HoldInit == Init => HoldInv
<1> SUFFICES ASSUME Init, NEW s \in alive \cap Reliable PROVE SteadyIsKnown(s)
  BY DEF HoldInv
<1>1. s \in Source /\ steady[s] = 0 /\ flight[s] = {} /\ lost[s] = 0 /\ timer[s] = 0
  BY DEF Init
<1>2. Quiet(s) = 0
  BY <1>1, Constants DEF Quiet
<1> QED
  BY <1>1, <1>2, Constants DEF SteadyIsKnown, Known

\* What is not the source's own does not change what is known of it.
LEMMA HoldFrame ==
  ASSUME NEW s, SteadyIsKnown(s), pad'[s] = pad[s], steady'[s] = steady[s], lost'[s] = lost[s],
         timer'[s] = timer[s], flight'[s] = flight[s],
         s \in DOMAIN per_port' <=> s \in DOMAIN per_port,
         s \in DOMAIN per_port => per_port'[s] = per_port[s]
  PROVE  SteadyIsKnown(s)'
<1>1. Quiet(s)' = Quiet(s)
  BY DEF Quiet
<1>2. ASSUME NEW x PROVE Known(s, x) => Known(s, x)'
  BY DEF Known, Current, Matches, Clamped, clamp_axis, Rounded, AxisMin
<1> QED
  BY <1>1, <1>2 DEF SteadyIsKnown

LEMMA HoldMove ==
  ASSUME Types, Types', HoldInv, NEW s \in Source, NEW arrives \in BOOLEAN, NEW p \in Pads[s],
         move(s, p, arrives)
  PROVE  HoldInv'
<1> SUFFICES ASSUME NEW x \in alive' \cap Reliable PROVE SteadyIsKnown(x)'
  BY DEF HoldInv
<1>1. x \in alive /\ x \in Source /\ per_port' = per_port
  BY DEF move, hub, Types, PlayersOK
<1>2. CASE x = s
  <2>1. steady'[s] = 0 /\ timer'[s] \in Nat
    BY Constants DEF move, Types, PlayersOK
  <2>2. \A m \in flight'[s] : m.age \in Nat
    BY DEF Types, NetworkOK, Messages
  <2>3. Quiet(s)' \in Nat
    <3>1. lost'[s] \in Nat /\ lost'[s] * Keepalive \in Nat
      BY Constants DEF Types, PlayersOK
    <3> QED
      BY <2>1, <3>1 DEF Quiet
  <2>4. Known(s, Quiet(s))'
    BY <2>1, <2>3, Constants DEF Known
  <2> QED
    BY <1>2, <2>1, <2>2, <2>4 DEF SteadyIsKnown
<1>3. CASE x # s
  <2>1. /\ pad'[x] = pad[x] /\ steady'[x] = steady[x] /\ lost'[x] = lost[x]
        /\ timer'[x] = timer[x] /\ flight'[x] = flight[x]
    BY <1>1, <1>3 DEF move, Sends, Types, PlayersOK, NetworkOK
  <2> QED
    BY <1>1, <2>1, HoldFrame DEF HoldInv
<1> QED
  BY <1>2, <1>3

LEMMA HoldKeepalive ==
  ASSUME Types, Types', HoldInv, NEW s \in Source, NEW arrives \in BOOLEAN, keepalive(s, arrives)
  PROVE  HoldInv'
<1> SUFFICES ASSUME NEW x \in alive' \cap Reliable PROVE SteadyIsKnown(x)'
  BY DEF HoldInv
<1>1. x \in alive /\ x \in Source /\ per_port' = per_port /\ pad' = pad
  BY DEF keepalive, hub, Types, PlayersOK
<1>2. CASE x # s
  <2>1. /\ steady'[x] = steady[x] /\ lost'[x] = lost[x]
        /\ timer'[x] = timer[x] /\ flight'[x] = flight[x]
    BY <1>1, <1>2 DEF keepalive, Sends, Types, PlayersOK, NetworkOK
  <2> QED
    BY <1>1, <2>1, HoldFrame DEF HoldInv
<1>3. CASE x = s
  <2>1. /\ timer'[s] = 0 /\ SteadyIsKnown(s)
        /\ steady'[s] = IF lost'[s] > Losses THEN 0 ELSE steady[s]
        /\ lost'[s] = IF arrives THEN 0 ELSE IF lost[s] > Losses THEN lost[s] ELSE lost[s] + 1
        /\ flight'[s] = IF arrives THEN flight[s] \cup {Message(s, pad[s])} ELSE flight[s]
    BY <1>1, <1>3 DEF HoldInv, keepalive, Sends, Types, PlayersOK, NetworkOK
  <2>2. /\ Quiet(s) \in Nat /\ timer[s] \in Nat /\ lost[s] \in Nat /\ steady[s] \in Nat
        /\ timer[s] <= Quiet(s) /\ timer[s] <= Span /\ Keepalive <= Span
        /\ lost[s] <= Losses => Quiet(s) <= Span
    BY QuietIsBounded
  <2>3. steady'[s] <= steady[s] /\ steady'[s] \in Nat
    BY <2>1, <2>2
  <2>4. /\ \A m \in flight[s] : m.age \in Nat
        /\ Message(s, pad[s]).pad = pad[s] /\ Message(s, pad[s]).age = 0
    BY DEF Types, NetworkOK, Messages, Message
  <2>5. \A m \in flight'[s] : m.pad # pad'[s] => steady'[s] <= m.age
    BY <1>1, <2>1, <2>2, <2>3, <2>4 DEF SteadyIsKnown
  <2>6. lost'[s] > Losses => steady'[s] <= timer'[s]
    BY <2>1
  <2>7. ASSUME NEW q \in Nat, NEW r \in Nat, q <= r, Known(s, q) PROVE Known(s, r)'
    <3>1. Current(s) => Current(s)' /\ per_port'[s].age = per_port[s].age /\ per_port[s].age \in Nat
      <4>1. s \in DOMAIN per_port => per_port[s].age \in Nat
        BY DEF Types, HubOK, Entries
      <4> QED
        BY <1>1, <4>1, CurrentFrame DEF Current
    <3> QED
      BY <2>2, <2>3, <2>7, <3>1, Constants DEF Known
  <2>8. ASSUME port < MAX_PORTS
        PROVE  Known(s, Quiet(s))' \/ \E m \in flight'[s] : Known(s, m.age + Span)'
    <3>1. CASE \E m \in flight[s] : Known(s, m.age + Span)
      <4>1. PICK m \in flight[s] : Known(s, m.age + Span)
        BY <3>1
      <4>2. m \in flight'[s] /\ m.age + Span \in Nat
        BY <2>1, <2>4, Constants
      <4>3. Known(s, m.age + Span)'
        BY <2>7, <4>1, <4>2
      <4> QED
        BY <4>2, <4>3
    <3>2. CASE Known(s, Quiet(s)) /\ arrives
      <4> DEFINE m == Message(s, pad[s])
      <4>1. m \in flight'[s] /\ m.age + Span = Span
        BY <2>1, <2>4, <3>2, Constants
      <4>2. Known(s, Span)'
        <5>1. CASE lost[s] <= Losses
          BY <2>2, <2>7, <3>2, <5>1, Constants
        <5>2. CASE ~(lost[s] <= Losses)
          <6>1. steady[s] <= timer[s]
            BY <2>1, <2>2, <5>2, Constants DEF SteadyIsKnown
          <6> QED
            BY <2>2, <2>3, <6>1, Constants DEF Known
        <5> QED
          BY <5>1, <5>2
      <4> QED
        BY <4>1, <4>2
    <3>3. CASE Known(s, Quiet(s)) /\ ~arrives
      <4>1. CASE lost[s] > Losses
        <5>1. lost'[s] = lost[s] /\ steady'[s] = 0
          BY <2>1, <3>3, <4>1
        <5>2. Quiet(s)' = lost[s] * Keepalive /\ lost[s] * Keepalive \in Nat
          BY <2>1, <2>2, <5>1, Constants DEF Quiet
        <5> QED
          BY <5>1, <5>2, Constants DEF Known
      <4>2. CASE ~(lost[s] > Losses)
        <5>1. Quiet(s)' = (lost[s] + 1) * Keepalive + 0
          BY <2>1, <3>3, <4>2 DEF Quiet
        <5>2. (lost[s] + 1) * Keepalive = lost[s] * Keepalive + Keepalive
              /\ lost[s] * Keepalive \in Nat
          BY <2>2, Constants
        <5>3. timer[s] <= Keepalive
          BY Constants DEF Types, PlayersOK
        <5>4. Quiet(s)' \in Nat /\ Quiet(s) <= Quiet(s)'
          BY <2>2, <5>1, <5>2, <5>3, Constants DEF Quiet
        <5> QED
          BY <2>2, <2>7, <3>3, <5>4
      <4> QED
        BY <4>1, <4>2
    <3> QED
      BY <2>1, <2>8, <3>1, <3>2, <3>3 DEF SteadyIsKnown
  <2> QED
    BY <1>3, <2>5, <2>6, <2>8 DEF SteadyIsKnown
<1> QED
  BY <1>2, <1>3

LEMMA HoldSilence ==
  ASSUME Types, HoldInv, NEW s \in Source, Silences(s), UNCHANGED flight,
         \A x \in Source \ {s} : /\ x \in DOMAIN per_port' <=> x \in DOMAIN per_port
                                 /\ x \in DOMAIN per_port => per_port'[x] = per_port[x]
  PROVE  HoldInv'
<1> SUFFICES ASSUME NEW x \in alive' \cap Reliable PROVE SteadyIsKnown(x)'
  BY DEF HoldInv
<1>1. x \in alive /\ x \in Source /\ x # s
  BY DEF Silences, Types, PlayersOK
<1>2. /\ pad'[x] = pad[x] /\ steady'[x] = steady[x] /\ lost'[x] = lost[x]
      /\ timer'[x] = timer[x] /\ flight'[x] = flight[x]
  BY <1>1 DEF Silences, Rests, Types, PlayersOK
<1> QED
  BY <1>1, <1>2, HoldFrame DEF HoldInv

LEMMA HoldApply ==
  ASSUME Types, OrderedInStep, HoldInv, NEW s \in Source, NEW m \in flight[s], apply_update(s, m)
  PROVE  HoldInv'
<1> SUFFICES ASSUME NEW x \in alive' \cap Reliable PROVE SteadyIsKnown(x)'
  BY DEF HoldInv
<1>1. /\ x \in alive /\ x \in Source /\ pad' = pad /\ steady' = steady /\ lost' = lost /\ timer' = timer
  BY DEF apply_update, Types, PlayersOK
<1>2. CASE x # s
  <2>1. flight'[x] = flight[x]
    BY <1>1, <1>2 DEF apply_update, Types, NetworkOK
  <2>2. x \in DOMAIN per_port' <=> x \in DOMAIN per_port
    BY <1>2 DEF apply_update
  <2>3. x \in DOMAIN per_port => per_port'[x] = per_port[x]
    BY <1>2 DEF apply_update
  <2> QED
    BY <1>1, <2>1, <2>2, <2>3, HoldFrame DEF HoldInv
<1>3. CASE x = s
  <2>1. flight'[s] \subseteq flight[s] /\ SteadyIsKnown(s)
    BY <1>1, <1>3 DEF apply_update, Types, NetworkOK, HoldInv
  <2>2. ASSUME port < MAX_PORTS PROVE Known(s, Quiet(s))'
    <3>1. Quiet(s)' = Quiet(s) /\ Quiet(s) \in Nat /\ steady[s] \in Nat
      BY <1>1, QuietIsBounded DEF Quiet
    <3>2. s \in DOMAIN per_port' /\ Matches(per_port'[s], m.pad) /\ per_port'[s].age = 0
      <4>1. s \in DOMAIN per_port' /\ per_port'[s] = merged_entry(EntryOf(s), to_input_update(m))
        BY <2>2, PortsAreNumbers DEF apply_update
      <4>2. merged_entry(EntryOf(s), to_input_update(m)).age = 0
        BY DEF merged_entry
      <4> QED
        BY <1>3, <2>2, <4>1, <4>2, AppliedMatches
    <3>3. m.age \in Nat /\ m.age <= MaxDelay
      BY Constants DEF Types, NetworkOK, Messages
    <3>4. CASE m.pad = pad[s]
      <4>1. Current(s)'
        BY <1>1, <3>2, <3>4 DEF Current, Matches, Clamped, clamp_axis, Rounded, AxisMin
      <4> QED
        BY <1>1, <3>1, <3>2, <4>1 DEF Known
    <3>5. CASE m.pad # pad[s]
      <4>1. steady[s] <= m.age
        BY <2>1, <3>5 DEF SteadyIsKnown
      <4> QED
        BY <1>1, <3>1, <3>3, <4>1, Constants DEF Known
    <3> QED
      BY <3>4, <3>5
  <2> QED
    BY <1>1, <1>3, <2>1, <2>2 DEF SteadyIsKnown
<1> QED
  BY <1>2, <1>3

LEMMA HoldPulse ==
  ASSUME Types, HoldInv, NEW s \in Source, pulse_button(s, Coin)
  PROVE  HoldInv'
<1> SUFFICES ASSUME NEW x \in alive' \cap Reliable PROVE SteadyIsKnown(x)'
  BY DEF HoldInv
<1>1. /\ x \in alive /\ x \in Source /\ SteadyIsKnown(x) /\ UNCHANGED client
  BY DEF pulse_button, client, Types, PlayersOK, HoldInv
<1>2. ASSUME x \in DOMAIN per_port
      PROVE  /\ x \in DOMAIN per_port' /\ per_port'[x].buttons = per_port[x].buttons
             /\ per_port'[x].axes = per_port[x].axes /\ per_port'[x].age <= per_port[x].age
  <2>1. per_port[x] \in Entries /\ per_port[x].age \in Nat
    BY <1>2 DEF Types, HubOK, Entries
  <2>2. x \in DOMAIN per_port' /\ per_port'[x] = IF x = s THEN [per_port[x] EXCEPT !.age = 0] ELSE per_port[x]
    BY <1>2 DEF pulse_button, EntryOf
  <2> QED
    BY <2>1, <2>2 DEF Entries
<1>3. ASSUME NEW q \in Nat, Known(x, q) PROVE Known(x, q)'
  <2>1. Current(x) => Current(x)' /\ per_port'[x].age <= per_port[x].age
                      /\ per_port[x].age \in Nat /\ per_port'[x].age \in Nat
    <3>1. ASSUME x \in DOMAIN per_port
          PROVE  per_port[x].age \in Nat /\ per_port'[x].age \in {0, per_port[x].age}
      <4>1. per_port[x] \in Entries /\ per_port[x].age \in Nat
        BY <3>1 DEF Types, HubOK, Entries
      <4>2. per_port'[x] = IF x = s THEN [per_port[x] EXCEPT !.age = 0] ELSE per_port[x]
        BY <3>1 DEF pulse_button, EntryOf
      <4> QED
        BY <4>1, <4>2 DEF Entries
    <3> QED
      <4>1. Current(x) => x \in DOMAIN per_port
        BY DEF Current
      <4>2. pad'[x] = pad[x]
        BY <1>1 DEF client
      <4> QED
        BY <1>2, <3>1, <4>1, <4>2, CurrentFrame
  <2> QED
    BY <1>1, <1>3, <2>1 DEF Known, client
<1>4. Quiet(x)' = Quiet(x) /\ Quiet(x) \in Nat
  BY <1>1, QuietIsBounded DEF Quiet, client
<1>5. \A m \in flight[x] : m.age + Span \in Nat
  BY <1>1, Constants DEF Types, NetworkOK, Messages
<1> QED
  BY <1>1, <1>3, <1>4, <1>5 DEF SteadyIsKnown, client

LEMMA HoldTick ==
  ASSUME Types, HoldInv, tick
  PROVE  HoldInv'
<1> SUFFICES ASSUME NEW s \in alive' \cap Reliable PROVE SteadyIsKnown(s)'
  BY DEF HoldInv
<1>1. /\ s \in alive /\ s \in Source /\ pad' = pad /\ lost' = lost /\ SteadyIsKnown(s)
      /\ timer'[s] = timer[s] + 1 /\ steady'[s] = Older(steady[s], Settle - 1)
      /\ flight'[s] = {[m EXCEPT !.age = @ + 1] : m \in flight[s]}
  BY DEF tick, Types, PlayersOK, HoldInv
<1>2. /\ Quiet(s) \in Nat /\ timer[s] \in Nat /\ lost[s] \in Nat /\ steady[s] \in Nat
      /\ lost[s] * Keepalive \in Nat
  BY <1>1, QuietIsBounded, Constants
<1>3. steady'[s] \in Nat /\ steady'[s] <= steady[s] + 1
  BY <1>1, <1>2, Constants DEF Older
<1>4. Quiet(s)' = Quiet(s) + 1
  BY <1>1, <1>2 DEF Quiet
<1>5. ASSUME NEW m \in flight[s]
      PROVE  /\ [m EXCEPT !.age = @ + 1] \in flight'[s] /\ m.age \in Nat
             /\ [m EXCEPT !.age = @ + 1].age = m.age + 1 /\ [m EXCEPT !.age = @ + 1].pad = m.pad
  <2>1. m \in Messages(s)
    BY <1>1 DEF Types, NetworkOK
  <2>2. [m EXCEPT !.age = @ + 1] \in flight'[s]
    BY <1>1
  <2> QED
    BY <2>1, <2>2 DEF Messages
<1>6. \A m \in flight'[s] : m.pad # pad'[s] => steady'[s] <= m.age
  <2> SUFFICES ASSUME NEW n \in flight'[s], n.pad # pad'[s] PROVE steady'[s] <= n.age
    OBVIOUS
  <2>1. PICK m \in flight[s] : n = [m EXCEPT !.age = @ + 1]
    BY <1>1
  <2>2. n.pad = m.pad /\ n.age = m.age + 1 /\ m.age \in Nat
    BY <1>5, <2>1
  <2>3. steady[s] <= m.age
    BY <1>1, <2>2 DEF SteadyIsKnown
  <2> QED
    BY <1>2, <1>3, <2>2, <2>3
<1>7. lost'[s] > Losses => steady'[s] <= timer'[s]
  BY <1>1, <1>2, <1>3 DEF SteadyIsKnown
<1>8. ASSUME NEW q \in Nat, Known(s, q) PROVE Known(s, q + 1)'
  <2>1. ASSUME Current(s)
        PROVE  /\ Current(s)' /\ per_port[s].age \in Nat
               /\ per_port'[s].age \in Nat /\ per_port'[s].age <= per_port[s].age + 1
    <3>1. s \in DOMAIN per_port /\ per_port[s] \in Entries
      BY <2>1 DEF Current, Types, HubOK
    <3>2. s \in DOMAIN per_port' /\ per_port'[s] = [per_port[s] EXCEPT !.age = Older(@, Stale)]
      BY <3>1 DEF tick
    <3>3. /\ per_port'[s].buttons = per_port[s].buttons /\ per_port'[s].axes = per_port[s].axes
          /\ per_port'[s].age = Older(per_port[s].age, Stale) /\ per_port[s].age \in Nat
      BY <3>1, <3>2 DEF Entries
    <3>4. Older(per_port[s].age, Stale) \in {per_port[s].age, per_port[s].age + 1}
      BY DEF Older
    <3>5. Current(s)'
      BY <1>1, <2>1, <3>2, <3>3, CurrentFrame
    <3>6. per_port'[s].age \in Nat /\ per_port'[s].age <= per_port[s].age + 1
      BY <3>3, <3>4
    <3> QED
      BY <3>3, <3>5, <3>6
  <2> QED
    BY <1>2, <1>3, <1>8, <2>1, Constants DEF Known
<1>9. ASSUME port < MAX_PORTS
      PROVE  Known(s, Quiet(s))' \/ \E m \in flight'[s] : Known(s, m.age + Span)'
  <2>1. CASE Known(s, Quiet(s))
    <3>1. PICK q \in Nat : q = Quiet(s)
      BY <1>2
    <3>2. Known(s, q + 1)'
      BY <1>8, <2>1, <3>1
    <3>3. Quiet(s)' = q + 1
      BY <1>4, <3>1
    <3> QED
      BY <3>2, <3>3 DEF Known
  <2>2. CASE \E m \in flight[s] : Known(s, m.age + Span)
    <3>1. PICK m \in flight[s] : Known(s, m.age + Span)
      BY <2>2
    <3> DEFINE n == [m EXCEPT !.age = @ + 1]
    <3>2. n \in flight'[s] /\ n.age = m.age + 1 /\ m.age \in Nat
      BY <1>5
    <3>3. n.age + Span = (m.age + Span) + 1 /\ m.age + Span \in Nat
      BY <3>2, Constants
    <3>4. Known(s, (m.age + Span) + 1)'
      BY <1>8, <3>1, <3>3
    <3> HIDE DEF n
    <3> QED
      BY <3>2, <3>3, <3>4
  <2> QED
    BY <1>1, <1>9, <2>1, <2>2 DEF SteadyIsKnown
<1> QED
  BY <1>6, <1>7, <1>9 DEF SteadyIsKnown

LEMMA HoldStep == Types /\ Types' /\ OrderedInStep /\ HoldInv /\ [Next]_vars => HoldInv'
<1> SUFFICES ASSUME Types, Types', OrderedInStep, HoldInv, [Next]_vars PROVE HoldInv'
  OBVIOUS
<1>1. ASSUME NEW s \in Source, falls_silent(s) PROVE HoldInv'
  BY <1>1, HoldSilence DEF falls_silent, hub
<1>2. ASSUME NEW s \in Source, remove_source(s) PROVE HoldInv'
  <2>1. Silences(s) /\ UNCHANGED flight
    BY <1>2 DEF remove_source
  <2>2. \A x \in Source \ {s} : /\ x \in DOMAIN per_port' <=> x \in DOMAIN per_port
                                /\ x \in DOMAIN per_port => per_port'[x] = per_port[x]
    BY <1>2 DEF remove_source
  <2> QED
    BY <2>1, <2>2, HoldSilence
<1>3. CASE UNCHANGED vars
  <2> SUFFICES ASSUME NEW x \in alive' \cap Reliable PROVE SteadyIsKnown(x)'
    BY DEF HoldInv
  <2> QED
    BY <1>3, HoldFrame DEF vars, HoldInv
<1> QED
  BY <1>1, <1>2, <1>3, HoldMove, HoldKeepalive, HoldApply, HoldPulse, HoldTick DEF Next

-----------------------------------------------------------------------------
\* Triggers are pulled one way: the page clamps them to 0..1 (clamp01 in
\* static/index.html), where sticks go both ways.
TriggersPullOneWay == \A s \in Source : \A p \in Pads[s] : \A a \in DOMAIN Trigger : p.axes[a] >= 0

\* The network is good enough for STALE_TIMEOUT.
NetworkIsGood == Span + MaxDelay <= Stale

TriggersAreUp == \A s \in DOMAIN per_port : \A a \in DOMAIN Trigger : per_port[s].axes[a] >= 0

LEMMA TriggersStep ==
  ASSUME TriggersPullOneWay
  PROVE  Types /\ TriggersAreUp /\ [Next]_vars => TriggersAreUp'
<1> SUFFICES ASSUME Types, TriggersAreUp, [Next]_vars,
                    NEW x \in DOMAIN per_port', NEW a \in DOMAIN Trigger
             PROVE  per_port'[x].axes[a] >= 0
  BY DEF TriggersAreUp
<1>1. ASSUME x \in DOMAIN per_port /\ per_port'[x].axes = per_port[x].axes
      PROVE  per_port'[x].axes[a] >= 0
  BY <1>1 DEF TriggersAreUp
<1>2. ASSUME NEW s \in Source, NEW arrives \in BOOLEAN,
             (\E p \in Pads[s] : move(s, p, arrives)) \/ keepalive(s, arrives)
      PROVE  per_port' = per_port
  BY <1>2 DEF move, keepalive, hub
<1>3. ASSUME NEW s \in Source, falls_silent(s) PROVE per_port' = per_port
  BY <1>3 DEF falls_silent, hub
<1>4. ASSUME NEW s \in Source, NEW m \in flight[s], apply_update(s, m)
      PROVE  per_port'[x].axes[a] >= 0
  <2>1. CASE port >= MAX_PORTS
    BY <1>1, <1>4, <2>1 DEF apply_update
  <2>2. CASE ~(port >= MAX_PORTS) /\ x = s
    <3> DEFINE e == merged_entry(EntryOf(s), to_input_update(m))
    <3>1. per_port'[x] = e
      BY <1>4, <2>2 DEF apply_update
    <3>2. /\ m.pad \in Pads[s] /\ m.pad \in Gamepads /\ a \in Axis
          /\ m.buttons \subseteq Button /\ m.axes \subseteq Axis
      BY Constants, HubAssumption DEF Types, NetworkOK, Messages
    <3>3. m.pad.axes[a] >= 0 /\ m.pad.axes[a] \in Int
      BY <3>2 DEF TriggersPullOneWay, Gamepads
    <3>4. e.axes = [y \in Axis |-> IF y \in m.axes THEN clamp_axis(m.pad.axes[y]) ELSE EntryOf(s).axes[y]]
      BY <3>2, MergedEntryIs
    <3>5. EntryOf(s).axes[a] >= 0
      BY <3>2 DEF EntryOf, Blank, TriggersAreUp
    <3> HIDE DEF e
    <3> QED
      BY <3>1, <3>2, <3>3, <3>4, <3>5, ClampIsAWord
  <2>3. CASE ~(port >= MAX_PORTS) /\ x # s
    BY <1>1, <1>4, <2>3 DEF apply_update
  <2> QED
    BY <2>1, <2>2, <2>3
<1>5. ASSUME NEW s \in Source, pulse_button(s, Coin) PROVE per_port'[x].axes[a] >= 0
  <2>1. CASE x = s /\ x \in DOMAIN per_port
    <3>1. per_port[x] \in Entries /\ per_port'[x] = [per_port[x] EXCEPT !.age = 0]
      BY <1>5, <2>1 DEF pulse_button, EntryOf, Types, HubOK
    <3> QED
      BY <1>1, <2>1, <3>1 DEF Entries
  <2>2. CASE x = s /\ x \notin DOMAIN per_port
    BY <1>5, <2>2, HubAssumption DEF pulse_button, EntryOf, Blank
  <2>3. CASE x # s
    BY <1>1, <1>5, <2>3 DEF pulse_button
  <2> QED
    BY <2>1, <2>2, <2>3
<1>6. ASSUME NEW s \in Source, remove_source(s) PROVE per_port'[x].axes[a] >= 0
  BY <1>1, <1>6 DEF remove_source
<1>7. CASE tick
  <2>1. /\ x \in DOMAIN per_port /\ per_port[x] \in Entries
        /\ per_port'[x] = [per_port[x] EXCEPT !.age = Older(@, Stale)]
    BY <1>7 DEF tick, Types, HubOK
  <2> QED
    BY <1>1, <2>1 DEF Entries
<1>8. CASE UNCHANGED vars
  BY <1>1, <1>8 DEF vars
<1> QED
  BY <1>1, <1>2, <1>3, <1>4, <1>5, <1>6, <1>7, <1>8 DEF Next

\* What a fresh entry keeps, the core reads.
LEMMA KeptIsPressed ==
  ASSUME Types, TriggersAreUp, port < MAX_PORTS, NEW s \in Source, Fresh(s),
         NEW b \in Button, Keeps(per_port[s], b)
  PROVE  Pressed(b)
<1> DEFINE Reported == UNION {per_port[x].buttons : x \in {y \in Source : Fresh(y)}}
           Pulled == {Trigger[a] : a \in
                       {x \in DOMAIN Trigger : \E v \in merged_axis(x) : v > AxisMax \div 4}}
<1>1. Reported \cup Pulled \subseteq merged_buttons
  <2>1. DOMAIN per_port # {}
    BY DEF Fresh
  <2> QED
    BY <2>1 DEF merged_buttons
<1>2. CASE b \in per_port[s].buttons
  <2>1. b \in Reported
    BY <1>2
  <2> HIDE DEF Reported, Pulled
  <2> QED
    BY <1>1, <2>1 DEF Pressed
<1>3. CASE b \notin per_port[s].buttons
  <2>1. PICK a \in DOMAIN Trigger : Trigger[a] = b /\ per_port[s].axes[a] > AxisMax \div 4
    BY <1>3 DEF Keeps
  <2>2. a \in Axis
    BY HubAssumption
  <2>3. PICK v \in merged_axis(a) : TRUE
    BY <2>2, TypesImply, MergeIsDominated
  <2>4. /\ v \in Int
        /\ v # 0 => \E x \in Source : Fresh(x) /\ per_port[x].axes[a] = v
        /\ per_port[s].axes[a] # AxisMin => Abs16(per_port[s].axes[a]) <= Abs16(v)
    BY <2>2, <2>3, TypesImply, MergeIsDominated
  <2>5. v >= 0
    BY <2>4 DEF TriggersAreUp, Fresh
  <2>6. /\ per_port[s].axes[a] \in Int /\ AxisMax \div 4 \in Nat /\ AxisMin < 0 /\ AxisMin \in Int
    <3>1. per_port[s].axes[a] \in Int
      BY <2>2, TypesImply DEF Fresh, AxesAreInts
    <3>2. AxisMin < 0 /\ AxisMin \in Int /\ AxisMax \div 4 \in Nat
      BY Constants DEF AxisMin
    <3> QED
      BY <3>1, <3>2
  <2>7. Abs16(per_port[s].axes[a]) = per_port[s].axes[a] /\ Abs16(v) = v
        /\ per_port[s].axes[a] # AxisMin
    BY <2>1, <2>4, <2>5, <2>6 DEF Abs16
  <2>8. v > AxisMax \div 4
    BY <2>1, <2>4, <2>6, <2>7
  <2>9. b \in Pulled
    BY <2>1, <2>3, <2>8
  <2> HIDE DEF Reported, Pulled
  <2> QED
    BY <1>1, <2>9 DEF Pressed
<1> QED
  BY <1>2, <1>3

\* Of a gamepad that is steady, the hub holds what it holds, and heard of it
\* no longer ago than the next keepalive may take.
LEMMA SteadyIsCurrent ==
  ASSUME Types, HoldInv, port < MAX_PORTS, NEW s \in alive \cap Reliable, steady[s] = Settle
  PROVE  Current(s) /\ per_port[s].age \in Nat /\ per_port[s].age <= Span + MaxDelay
<1>1. s \in Source /\ SteadyIsKnown(s)
  BY DEF Types, PlayersOK, HoldInv
<1>2. /\ Quiet(s) \in Nat /\ timer[s] <= Span /\ timer[s] \in Nat /\ lost[s] \in Nat
      /\ lost[s] <= Losses => Quiet(s) <= Span
  BY <1>1, QuietIsBounded
<1>3. lost[s] <= Losses
  <2>1. ~(steady[s] <= timer[s])
    BY <1>2, Constants
  <2> QED
    BY <1>1, <1>2, <2>1, Constants DEF SteadyIsKnown
<1>4. \E q \in Nat : q <= Span + MaxDelay /\ Known(s, q)
  <2>1. \A m \in flight[s] : m.age + Span \in Nat /\ m.age + Span <= Span + MaxDelay
    BY <1>1, Constants DEF Types, NetworkOK, Messages
  <2>2. Quiet(s) <= Span + MaxDelay
    BY <1>2, <1>3, Constants
  <2> QED
    BY <1>1, <1>2, <2>1, <2>2 DEF SteadyIsKnown
<1>5. PICK q \in Nat : q <= Span + MaxDelay /\ Known(s, q)
  BY <1>4
<1>6. Current(s) /\ per_port[s].age <= q
  <2>1. ~(steady[s] <= q + MaxDelay)
    BY <1>5, Constants
  <2> QED
    BY <1>5, <2>1 DEF Known
<1>7. per_port[s].age \in Nat
  BY <1>6 DEF Current, Types, HubOK, Entries
<1> QED
  BY <1>5, <1>6, <1>7, Constants

(* HeldIsRead: over a network that delays no message by more than MaxDelay
   and loses no more than Losses keepalives in a row, a button that has been
   held for a while reads pressed, without interruption, if the clients pull
   their triggers one way and STALE_TIMEOUT spans that many keepalives and the
   delay of the last: with the documented heartbeat of 250 ms, if none is lost
   and none comes more than 50 ms late. *)
THEOREM HeldIsRead ==
  ASSUME TriggersPullOneWay, NetworkIsGood
  PROVE  Spec => []HoldIsNotInterrupted
<1>1. Init => TriggersAreUp
  BY DEF Init, TriggersAreUp
<1>2. Types /\ TriggersAreUp /\ [Next]_vars => TriggersAreUp'
  BY TriggersStep
<1>3. Types /\ HoldInv /\ TriggersAreUp => HoldIsNotInterrupted
  <2> SUFFICES ASSUME Types, HoldInv, TriggersAreUp, NEW s \in alive \cap Reliable, port < MAX_PORTS,
                      steady[s] = Settle, NEW b \in Button, Holds(pad[s], b)
               PROVE  Pressed(b)
    BY DEF HoldIsNotInterrupted
  <2>1. s \in Source /\ pad[s] \in Gamepads
    BY DEF Types, PlayersOK
  <2>2. Current(s) /\ per_port[s].age \in Nat /\ per_port[s].age <= Span + MaxDelay
    BY SteadyIsCurrent
  <2>3. Fresh(s)
    BY <2>2, Constants DEF Fresh, Current, NetworkIsGood
  <2>4. Keeps(per_port[s], b)
    BY <2>1, <2>2, EntryKeepsWhatIsHeld DEF Current
  <2> QED
    BY <2>1, <2>3, <2>4, KeptIsPressed
<1> QED
  BY <1>1, <1>2, <1>3, TypesInit, TypesStep, InStepInit, InStepStep, HoldInit, HoldStep, PTL DEF Spec

(* ReleasesReach: if every source sends the whole gamepad or uses a WebSocket,
   the hub presses nothing on behalf of a steady gamepad that it does not
   hold, whatever was lost or overtaken before. *)
THEOREM ReleasesReach ==
  ASSUME Source \subseteq Reliable
  PROVE  Spec => []ReleasesAreHeard
<1>1. Init => NoSuchPort
  BY DEF Init, NoSuchPort
<1>2. Types /\ NoSuchPort /\ HoldInv => ReleasesAreHeard
  <2> SUFFICES ASSUME Types, NoSuchPort, HoldInv, NEW s \in alive \cap DOMAIN per_port,
                      steady[s] = Settle, NEW b \in Button, Keeps(per_port[s], b)
               PROVE  Holds(pad[s], b)
    BY DEF ReleasesAreHeard
  <2>1. s \in Source /\ s \in Reliable /\ pad[s] \in Gamepads /\ port < MAX_PORTS
    BY PortsAreNumbers DEF Types, PlayersOK, NoSuchPort
  <2>2. Matches(per_port[s], pad[s])
    BY <2>1, SteadyIsCurrent DEF Current
  <2> QED
    BY <2>1, <2>2, EntryKeepsWhatIsHeld
<1> QED
  BY <1>1, <1>2, NoSuchPortStep, TypesInit, TypesStep, InStepInit, InStepStep, HoldInit, HoldStep, PTL DEF Spec
=============================================================================
