--------------------------- MODULE InverterProofs ----------------------------
(***************************************************************************)
(* Theorems about Inverter, for every configuration of batteries, every    *)
(* request and every way the line is cut into reads.                       *)
(***************************************************************************)
EXTENDS Inverter, SequenceTheorems, FiniteSetTheorems, WellFoundedInduction, TLAPS

-----------------------------------------------------------------------------
(* FlattenSeq *)

\* f holds the concatenations of the first 1, 2, ..., n sequences of ss.
IsFlat(f, ss, n) ==
    f = [i \in 1..n |-> IF i = 1 THEN ss[i] ELSE f[i - 1] \o ss[i]]

\* A counterexample of least length has none before it.
LEMMA FlatExists ==
    ASSUME NEW ss, NEW n \in Nat
    PROVE  \E f : IsFlat(f, ss, n)
<1> DEFINE Bad == {k \in Nat : ~ \E f : IsFlat(f, ss, k)}
<1>1. SUFFICES ASSUME Bad # {} PROVE FALSE
  OBVIOUS
<1>2. PICK k \in Bad : \A j \in Bad : <<j, k>> \notin OpToRel(<, Nat)
  BY <1>1, NatLessThanWellFounded, WFMin
<1>3. \A j \in Nat : j < k => \E f : IsFlat(f, ss, j)
  BY <1>2 DEF OpToRel
<1>4. k \in Nat
  OBVIOUS
<1>5. CASE k = 0
  <2>1. IsFlat([i \in 1..0 |-> ss], ss, 0)
    BY DEF IsFlat
  <2>2. QED  BY <1>5, <2>1
<1>6. CASE k # 0
  <2>1. k - 1 \in Nat /\ k - 1 < k
    BY <1>4, <1>6
  <2>2. PICK f : IsFlat(f, ss, k - 1)
    BY <1>3, <2>1
  <2> DEFINE g == [i \in 1..k |-> IF i = k THEN IF k = 1 THEN ss[k] ELSE f[k - 1] \o ss[k]
                                           ELSE f[i]]
  <2>3. ASSUME NEW i \in 1..k
        PROVE  g[i] = IF i = 1 THEN ss[i] ELSE g[i - 1] \o ss[i]
    <3>1. CASE i = k
      <4>1. i # 1 => i - 1 \in 1..k /\ i - 1 # k /\ g[i - 1] = f[i - 1]
        BY <1>4, <3>1
      <4>2. QED  BY <3>1, <4>1
    <3>2. CASE i # k
      <4>1. i \in 1..(k - 1) /\ g[i] = f[i]
        BY <1>4, <3>2
      <4>2. f[i] = IF i = 1 THEN ss[i] ELSE f[i - 1] \o ss[i]
        BY <2>2, <4>1 DEF IsFlat
      <4>3. i # 1 => i - 1 \in 1..k /\ i - 1 # k /\ g[i - 1] = f[i - 1]
        BY <1>4, <3>2
      <4>4. QED  BY <4>1, <4>2, <4>3
    <3>3. QED  BY <3>1, <3>2
  <2> HIDE DEF g
  <2>4. g = [i \in 1..k |-> g[i]]
    BY DEF g
  <2>5. IsFlat(g, ss, k)
    BY <2>3, <2>4 DEF IsFlat
  <2>6. QED  BY <2>5
<1>7. QED  BY <1>5, <1>6

\* An induction over the parts: G[i] holds what the first i of them may become.
LEMMA FlattenInduction ==
    ASSUME NEW T, NEW ss \in Seq(Seq(T)), NEW G, <<>> \in G[0],
           \A i \in 1..Len(ss) : \A s \in G[i - 1] : s \o ss[i] \in G[i]
    PROVE  FlattenSeq(ss) \in G[Len(ss)]
<1>1. Len(ss) \in Nat /\ DOMAIN ss = 1..Len(ss)
  OBVIOUS
<1>2. CASE Len(ss) = 0
  <2>1. FlattenSeq(ss) = ss /\ ss = <<>>
    BY <1>2 DEF FlattenSeq
  <2>2. QED  BY <1>2, <2>1
<1>3. CASE Len(ss) # 0
  <2> DEFINE f == CHOOSE g : g = [i \in 1..Len(ss) |->
                                     IF i = 1 THEN ss[i] ELSE g[i - 1] \o ss[i]]
  <2>1. IsFlat(f, ss, Len(ss))
    BY <1>1, FlatExists, Zenon DEF IsFlat
  <2>2. FlattenSeq(ss) = f[Len(ss)]
    BY <1>3, Zenon DEF FlattenSeq
  <2> HIDE DEF f
  <2>3. \A i \in 1..Len(ss) : f[i] \in G[i]
    <3> DEFINE Bad == {i \in 1..Len(ss) : f[i] \notin G[i]}
    <3>1. SUFFICES ASSUME Bad # {} PROVE FALSE
      OBVIOUS
    <3>2. PICK i \in Bad : \A j \in Bad : <<j, i>> \notin OpToRel(<, Nat)
      <4>1. Bad \subseteq Nat
        BY <1>1
      <4>2. QED  BY <3>1, <4>1, NatLessThanWellFounded, WFMin
    <3>3. i \in 1..Len(ss) /\ f[i] \notin G[i] /\ ss[i] \in Seq(T)
      BY <1>1
    <3>4. f[i] = IF i = 1 THEN ss[i] ELSE f[i - 1] \o ss[i]
      BY <2>1, <3>3 DEF IsFlat
    <3>5. CASE i = 1
      <4>1. <<>> \o ss[i] = ss[i]
        BY <3>3
      <4>2. i - 1 = 0 /\ G[i - 1] = G[0]
        BY <3>5
      <4>3. <<>> \o ss[i] \in G[i]
        BY <3>3, <4>2, Zenon
      <4>4. QED  BY <3>3, <3>4, <3>5, <4>1, <4>3
    <3>6. CASE i # 1
      <4>1. i - 1 \in 1..Len(ss) /\ i - 1 < i /\ i - 1 \in Nat /\ i \in Nat
        BY <1>1, <3>3, <3>6
      <4>2. f[i - 1] \in G[i - 1]
        BY <3>2, <4>1 DEF OpToRel
      <4>3. QED  BY <3>3, <3>4, <3>6, <4>2
    <3>7. QED  BY <3>5, <3>6
  <2>4. QED  BY <1>1, <1>3, <2>2, <2>3
<1>4. QED  BY <1>2, <1>3

-----------------------------------------------------------------------------
(* Division *)

LEMMA DivBounds ==
    ASSUME NEW x \in Nat, NEW k \in Nat \ {0}
    PROVE  /\ x \div k \in Nat
           /\ k * (x \div k) \in Nat
           /\ k * (x \div k) <= x
           /\ x < k * (x \div k) + k
<1> DEFINE q == x \div k
<1>1. x = k * q + (x % k) /\ x % k \in 0..(k - 1) /\ q \in Nat
  OBVIOUS
<1>2. k * q \in Nat
  BY <1>1
<1> HIDE DEF q
<1>3. q \in Nat /\ k * q \in Nat /\ k * q <= x /\ x < k * q + k
  BY <1>1, <1>2
<1>4. QED  BY <1>3 DEF q

LEMMA Monotone ==
    ASSUME NEW k \in Nat, NEW a \in Int, NEW b \in Int, a <= b
    PROVE  k * a \in Int /\ k * b \in Int /\ k * a <= k * b
OBVIOUS

LEMMA DivUnique ==
    ASSUME NEW x \in Nat, NEW k \in Nat \ {0}, NEW q \in Nat,
           k * q <= x, x < k * q + k
    PROVE  x \div k = q
<1> DEFINE p == x \div k
<1>1. p \in Nat /\ k * p \in Nat /\ k * p <= x /\ x < k * p + k
  BY DivBounds
<1> HIDE DEF p
<1>2. ASSUME p < q PROVE FALSE
  <2>1. k * (p + 1) <= k * q /\ k * (p + 1) = k * p + k
    BY <1>1, <1>2, Monotone
  <2>2. k * q \in Int
    OBVIOUS
  <2>3. QED  BY <1>1, <2>1, <2>2
<1>3. ASSUME q < p PROVE FALSE
  <2>1. k * (q + 1) <= k * p /\ k * (q + 1) = k * q + k
    BY <1>1, <1>3, Monotone
  <2>2. k * q \in Int
    OBVIOUS
  <2>3. QED  BY <1>1, <2>1, <2>2
<1>4. p = q
  BY <1>1, <1>2, <1>3
<1>5. QED  BY <1>4 DEF p

\* Dividing twice is dividing by the product.
LEMMA DivTwice ==
    \A x \in Nat : \A n, k \in Nat \ {0} : (x \div n) \div k = x \div (n * k)
<1> SUFFICES ASSUME NEW x \in Nat, NEW n \in Nat \ {0}, NEW k \in Nat \ {0}
             PROVE  (x \div n) \div k = x \div (n * k)
  OBVIOUS
<1> DEFINE y == x \div n
           z == y \div k
<1>1. y \in Nat /\ n * y \in Nat /\ n * y <= x /\ x < n * y + n
  BY DivBounds
<1>2. z \in Nat /\ k * z \in Nat /\ k * z <= y /\ y < k * z + k
  BY <1>1, DivBounds
<1>3. n * k \in Nat \ {0}
  OBVIOUS
<1> HIDE DEF y, z
<1>4. n * (k * z) <= n * y /\ n * (y + 1) <= n * (k * z + k)
  BY <1>1, <1>2, Monotone
<1>5. /\ n * (k * z) = (n * k) * z /\ n * (k * z + k) = (n * k) * z + n * k
      /\ n * (y + 1) = n * y + n /\ (n * k) * z \in Nat
  BY <1>1, <1>2
<1>6. (n * k) * z <= x /\ x < (n * k) * z + n * k
  BY <1>1, <1>3, <1>4, <1>5
<1>7. x \div (n * k) = z
  BY <1>2, <1>3, <1>6, DivUnique
<1>8. QED  BY <1>3, <1>7 DEF y, z

\* The scale is 1 or just large enough for 16 bits, so the truncation to
\* uint16_t does nothing.
LEMMA ScaledDown ==
    ASSUME NEW total \in Nat, NEW remain \in Nat, remain <= total
    PROVE  \E k \in Nat \ {0} :
               scale_capacity_to_u16(total, remain) =
                   [total |-> total \div k, remain |-> remain \div k]
<1> DEFINE k == IF total <= kCapU16Max THEN 1 ELSE CeilDiv(total, kCapU16Max)
<1>1. k \in Nat \ {0} /\ total <= 65000 * k
  BY DEF kCapU16Max, CeilDiv
<1>2. scale_capacity_to_u16(total, remain) =
          [total  |-> (total \div k) % 65536, remain |-> (remain \div k) % 65536]
  BY DEF scale_capacity_to_u16
<1> HIDE DEF k
<1>3. ASSUME NEW x \in Nat, x <= total PROVE (x \div k) % 65536 = x \div k
  <2> DEFINE q == x \div k
  <2>1. q \in Nat /\ k * q \in Nat /\ k * q <= x
    BY <1>1, DivBounds
  <2> HIDE DEF q
  <2>2. ASSUME q > 65000 PROVE FALSE
    <3>1. k * 65001 <= k * q
      BY <1>1, <2>1, <2>2, Monotone
    <3>2. QED  BY <1>1, <1>3, <2>1, <3>1
  <2>3. q % 65536 = q
    BY <2>1, <2>2
  <2>4. QED  BY <2>3 DEF q
<1>4. (total \div k) % 65536 = total \div k /\ (remain \div k) % 65536 = remain \div k
  <2>1. total <= total
    OBVIOUS
  <2>2. QED  BY <1>3, <2>1
<1>5. scale_capacity_to_u16(total, remain) =
          [total |-> total \div k, remain |-> remain \div k]
  BY <1>2, <1>4
<1>6. k \in Nat \ {0}
  BY <1>1
<1>7. QED  BY <1>5, <1>6, Zenon

\* The hundredths a module computes from what it is told, for a battery of total
\* and remaining, differ from percent by one at most.
LEMMA PercentOfParts ==
    ASSUME NEW total \in Nat, NEW remaining \in Nat, remaining <= total,
           NEW k \in Nat \ {0}, total \div k >= 100
    PROVE  /\ total > 0
           /\ ((remaining \div k) * 100) \div (total \div k)
                  \in ((remaining * 100) \div total - 1)..((remaining * 100) \div total + 1)
<1> DEFINE t == total \div k
           r == remaining \div k
           s == (remaining * 100) \div total
           m == (r * 100) \div t
<1>1. t \in Nat /\ k * t \in Nat /\ k * t <= total /\ total < k * t + k
  BY DivBounds
<1>2. r \in Nat /\ k * r \in Nat /\ k * r <= remaining /\ remaining < k * r + k
  BY DivBounds
<1>3. t >= 100
  OBVIOUS
<1> HIDE DEF t, r
<1>4. total > 0
  <2>1. k * 100 <= k * t
    BY <1>1, <1>3, Monotone
  <2>2. QED  BY <1>1, <2>1
<1>5. r <= t
  <2>1. ASSUME r >= t + 1 PROVE FALSE
    <3>1. k * (t + 1) <= k * r /\ k * (t + 1) = k * t + k
      BY <1>1, <1>2, <2>1, Monotone
    <3>2. QED  BY <1>1, <1>2, <3>1
  <2>2. QED  BY <1>1, <1>2, <2>1
<1>6. s \in Nat /\ total * s \in Nat /\ total * s <= 100 * remaining
          /\ 100 * remaining < total * s + total
  BY <1>4, DivBounds
<1>7. m \in Nat /\ t * m \in Nat /\ t * m <= 100 * r /\ 100 * r < t * m + t
  BY <1>1, <1>2, <1>3, DivBounds
<1> HIDE DEF s, m
<1>8. m <= 100
  <2>1. ASSUME m >= 101 PROVE FALSE
    <3>1. t * 101 <= t * m
      BY <1>1, <1>7, <2>1, Monotone
    <3>2. QED  BY <1>1, <1>2, <1>3, <1>5, <1>7, <3>1
  <2>2. QED  BY <1>7, <2>1
<1>9. s <= m + 1
  <2>1. ASSUME s >= m + 2 PROVE FALSE
    <3>1. total * (m + 2) <= total * s
      BY <1>6, <1>7, <2>1, Monotone
    <3>2. (m + 2) * (k * t) <= (m + 2) * total
      BY <1>1, <1>7, Monotone
    <3>3. k * (100 * r + 100) <= k * (t * m + t + t)
      BY <1>1, <1>2, <1>3, <1>7, Monotone
    <3>4. /\ (m + 2) * (k * t) = k * (t * m + t + t)
          /\ total * (m + 2) = (m + 2) * total
          /\ k * (100 * r + 100) = 100 * (k * r) + 100 * k
      BY <1>1, <1>2, <1>7
    <3>5. /\ total * (m + 2) \in Int /\ (m + 2) * (k * t) \in Int
          /\ k * (100 * r + 100) \in Int
      BY <1>1, <1>2, <1>7
    <3>6. 100 * remaining < 100 * (k * r) + 100 * k
      BY <1>2
    <3>7. QED  BY <1>2, <1>6, <3>1, <3>2, <3>3, <3>4, <3>5, <3>6
  <2>2. QED  BY <1>6, <1>7, <2>1
<1>10. m <= s + 1
  <2>1. ASSUME m >= s + 2 PROVE FALSE
    <3>1. total * (s + 1) <= total * (m - 1)
      BY <1>6, <1>7, <2>1, Monotone
    <3>2. (m - 1) * total <= (m - 1) * (k * t + k)
      BY <1>1, <1>6, <1>7, <2>1, Monotone
    <3>3. k * (m * t) <= k * (100 * r)
      BY <1>1, <1>2, <1>7, Monotone
    <3>4. (m - 1) * (k * t + k) = k * (m * t) + k * (m - t - 1)
      BY <1>1, <1>7
    <3>5. k * (m - t - 1) <= k * (-1)
      BY <1>1, <1>3, <1>7, <1>8, Monotone
    <3>6. /\ total * (s + 1) = total * s + total
          /\ total * (m - 1) = (m - 1) * total
          /\ k * (100 * r) = 100 * (k * r)
      BY <1>2, <1>6, <1>7
    <3>7. /\ (m - 1) * total \in Int /\ (m - 1) * (k * t + k) \in Int
          /\ k * (m * t) \in Int /\ k * (m - t - 1) \in Int
      BY <1>1, <1>7
    <3>8. QED  BY <1>2, <1>6, <3>1, <3>2, <3>3, <3>4, <3>5, <3>6, <3>7
  <2>2. QED  BY <1>6, <1>7, <2>1
<1>11. QED  BY <1>4, <1>6, <1>7, <1>9, <1>10 DEF t, r, s, m

\* The same for a reserve, whose remaining capacity is soc percent of its total.
LEMMA PercentOfReserve ==
    ASSUME NEW total \in Nat, NEW soc \in 0..100, NEW k \in Nat \ {0},
           total \div k >= 100
    PROVE  /\ (total * soc) \div 100 \in Nat /\ (total * soc) \div 100 <= total
           /\ ((((total * soc) \div 100) \div k) * 100) \div (total \div k)
                  \in (soc - 1)..(soc + 1)
<1> DEFINE t == total \div k
           remaining == (total * soc) \div 100
           r == remaining \div k
           m == (r * 100) \div t
<1>0. total * soc \in Nat /\ total * soc <= 100 * total
  <2>1. total * soc <= total * 100 /\ total * 0 <= total * soc
    BY Monotone
  <2>2. QED  BY <2>1
<1>1. t \in Nat /\ k * t \in Nat /\ k * t <= total /\ total < k * t + k
  BY DivBounds
<1>2. remaining \in Nat /\ 100 * remaining <= total * soc
          /\ total * soc < 100 * remaining + 100
  BY <1>0
<1>3. remaining <= total
  BY <1>0, <1>2
<1> HIDE DEF remaining
<1>4. r \in Nat /\ k * r \in Nat /\ k * r <= remaining /\ remaining < k * r + k
  BY <1>2, DivBounds
<1>5. t >= 100
  OBVIOUS
<1> HIDE DEF t, r
<1>6. m \in Nat /\ t * m \in Nat /\ t * m <= 100 * r /\ 100 * r < t * m + t
  BY <1>1, <1>4, <1>5, DivBounds
<1> HIDE DEF m
<1>7. soc <= m + 1
  <2>1. ASSUME soc >= m + 2 PROVE FALSE
    <3>1. k * (100 * r + 100) <= k * (t * m + t + t)
      BY <1>1, <1>4, <1>5, <1>6, Monotone
    <3>2. (k * t) * (m + 2) <= (k * t) * soc
      BY <1>1, <1>6, <2>1, Monotone
    <3>3. soc * (k * t) <= soc * total
      BY <1>1, Monotone
    <3>4. /\ (k * t) * (m + 2) = k * (t * m + t + t)
          /\ (k * t) * soc = soc * (k * t) /\ soc * total = total * soc
          /\ k * (100 * r + 100) = 100 * (k * r) + 100 * k
      BY <1>1, <1>4, <1>6
    <3>5. /\ (k * t) * (m + 2) \in Int /\ soc * (k * t) \in Int
          /\ k * (100 * r + 100) \in Int
      BY <1>1, <1>4, <1>6
    <3>6. 100 * remaining + 100 <= 100 * (k * r) + 100 * k
      BY <1>2, <1>4
    <3>7. QED  BY <1>0, <1>2, <3>1, <3>2, <3>3, <3>4, <3>5, <3>6
  <2>2. QED  BY <1>6, <2>1
<1>8. m <= soc + 1
  <2>1. ASSUME m >= soc + 2 PROVE FALSE
    <3>1. k * (t * m) <= k * (100 * r)
      BY <1>1, <1>4, <1>6, Monotone
    <3>2. (k * t) * (soc + 2) <= (k * t) * m
      BY <1>1, <1>6, <2>1, Monotone
    <3>3. soc * total <= soc * (k * t + k)
      BY <1>1, Monotone
    <3>4. soc * k <= 100 * k /\ soc * k \in Int
      BY Monotone
    <3>5. k * 100 <= k * t
      BY <1>1, <1>5, Monotone
    <3>6. /\ (k * t) * m = k * (t * m) /\ k * (100 * r) = 100 * (k * r)
          /\ (k * t) * (soc + 2) = soc * (k * t) + 2 * (k * t)
          /\ soc * (k * t + k) = soc * (k * t) + soc * k
          /\ soc * total = total * soc
      BY <1>1, <1>4, <1>6
    <3>7. k * (t * m) \in Int /\ soc * (k * t) \in Int
      BY <1>1, <1>6
    <3>8. QED  BY <1>0, <1>1, <1>2, <1>4, <3>1, <3>2, <3>3, <3>4, <3>5, <3>6, <3>7
  <2>2. QED  BY <1>6, <2>1
<1>9. QED  BY <1>2, <1>3, <1>6, <1>7, <1>8 DEF t, remaining, r, m

-----------------------------------------------------------------------------
(* Types *)

TypeInv ==
    state \in [Batteries -> [connected : BOOLEAN, pack : Packs \cup {None},
                             settings : Limits \cup {None}, age : Nat]]

\* The minimum and the maximum of two numbers.
LEMMA MinOfTwo == ASSUME NEW a \in Int, NEW b \in Int
                  PROVE  Min({a, b}) = IF a <= b THEN a ELSE b
BY DEF Min

LEMMA MaxOfTwo == ASSUME NEW a \in Int, NEW b \in Int
                  PROVE  Max({a, b}) = IF a >= b THEN a ELSE b
BY DEF Max

LEMMA InitType == Init => TypeInv
BY DEF Init, TypeInv, NoTelemetry

LEMMA NextType == TypeInv /\ [Next]_vars => TypeInv'
<1> SUFFICES ASSUME TypeInv, [Next]_vars PROVE TypeInv'
  OBVIOUS
<1>1. CASE UNCHANGED state
  BY <1>1 DEF TypeInv, Batteries
<1>2. CASE on_bytes \/ on_read_error \/ on_reopen_tick \/ Replug \/ UNCHANGED vars
  BY <1>1, <1>2 DEF on_bytes, on_read_error, on_reopen_tick, Replug, vars
<1>3. CASE Tick
  <2>1. ASSUME NEW b \in Batteries
        PROVE  [state[b] EXCEPT !.age = IF state[b].pack = None THEN 0
                                         ELSE Min({@ + 1, FreshFor + 1})]
                   \in [connected : BOOLEAN, pack : Packs \cup {None},
                        settings : Limits \cup {None}, age : Nat]
    <3>1. state[b] \in [connected : BOOLEAN, pack : Packs \cup {None},
                        settings : Limits \cup {None}, age : Nat]
      BY DEF TypeInv
    <3>2. Min({state[b].age + 1, FreshFor + 1}) \in Nat
      BY <3>1, MinOfTwo, FreshAssumption
    <3>3. QED  BY <3>1, <3>2
  <2>2. QED  BY <1>3, <2>1 DEF Tick, TypeInv, Batteries
<1>4. ASSUME NEW b \in Batteries, NEW v \in BOOLEAN, set_connected(b, v)
      PROVE  TypeInv'
  BY <1>4 DEF set_connected, SetState, TypeInv, Batteries
<1>5. ASSUME NEW b \in Batteries, NEW p \in Packs, apply_telemetry(b, p)
      PROVE  TypeInv'
  BY <1>5 DEF apply_telemetry, TypeInv, Batteries
<1>6. ASSUME NEW b \in Batteries, NEW s \in Limits, apply_settings(b, s)
      PROVE  TypeInv'
  BY <1>6 DEF apply_settings, SetState, TypeInv, Batteries
<1>7. QED  BY <1>2, <1>3, <1>4, <1>5, <1>6 DEF Next

-----------------------------------------------------------------------------
(* The address map *)

LEMMA CapacityType == \A b \in Batteries : Milli(b) \in Nat
<1> SUFFICES ASSUME NEW b \in Batteries PROVE Milli(b) \in Nat
  OBVIOUS
<1>1. Config[b] \in [capacity : Nat, mirror : Nat]
  BY ConfigAssumption, ElementOfSeq, LenProperties DEF Batteries
<1>2. QED  BY <1>1 DEF Milli

LEMMA ModuleCount ==
    ASSUME NEW total \in Nat
    PROVE  module_count_for_capacity(total) \in 1..255
<1>1. CASE total <= 65000
  BY <1>1 DEF module_count_for_capacity, kCapU16Max
<1>2. CASE total > 65000
  <2> DEFINE c == CeilDiv(total, 65000)
  <2>1. c \in Nat \ {0}
    BY <1>2 DEF CeilDiv
  <2>2. module_count_for_capacity(total) = Min({c, 255})
    BY <1>2 DEF module_count_for_capacity, kCapU16Max
  <2> HIDE DEF c
  <2>3. Min({c, 255}) = IF c <= 255 THEN c ELSE 255
    BY <2>1, MinOfTwo
  <2>4. QED  BY <2>1, <2>2, <2>3
<1>3. QED  BY <1>1, <1>2

SlotSet == [battery : Batteries, module_count : 1..255]

Count(b) == module_count_for_capacity(Milli(b))

LEMMA CountType == \A b \in Batteries : Count(b) \in 1..255
BY CapacityType, ModuleCount DEF Count

\* The slots of the first k batteries: one run of Count(b) of them for each b.
Placed(s, k) ==
    /\ \A p \in DOMAIN s :
           s[p].battery \in 1..k /\ s[p].module_count = Count(s[p].battery)
    /\ \A b \in 1..k : \E o \in Nat : \A p \in Nat :
           (p \in DOMAIN s /\ s[p].battery = b) <=> p \in (o + 1)..(o + Count(b))

\* build_address_map() adds the run of one more battery at the end.
LEMMA PlaceNext ==
    ASSUME NEW k \in Nat, k + 1 \in Batteries, NEW s \in Seq(SlotSet), Placed(s, k)
    PROVE  LET n     == Count(k + 1)
               block == [m \in 1..n |-> [battery |-> k + 1, module_count |-> n]]
           IN  block \in Seq(SlotSet) /\ s \o block \in Seq(SlotSet) /\ Placed(s \o block, k + 1)
<1> DEFINE n     == Count(k + 1)
           block == [m \in 1..n |-> [battery |-> k + 1, module_count |-> n]]
           t     == s \o block
<1>1. n \in 1..255
  BY CountType
<1>2. block \in Seq(SlotSet) /\ Len(block) = n
  <2> HIDE DEF n
  <2>1. n \in Nat /\ [battery |-> k + 1, module_count |-> n] \in SlotSet
    BY <1>1 DEF SlotSet
  <2>2. QED  BY <2>1
<1>3. \A m \in 1..n : block[m].battery = k + 1 /\ block[m].module_count = Count(k + 1)
  OBVIOUS
<1> HIDE DEF block, n
<1>4. /\ t \in Seq(SlotSet) /\ Len(t) = Len(s) + n /\ Len(s) \in Nat
      /\ DOMAIN t = 1..(Len(s) + n) /\ DOMAIN s = 1..Len(s)
  BY <1>1, <1>2, ConcatProperties, LenProperties
<1>5. \A p \in DOMAIN t : t[p] = IF p <= Len(s) THEN s[p] ELSE block[p - Len(s)]
  BY <1>1, <1>2, <1>4, ConcatProperties
<1>6. \A p \in DOMAIN t : IF p <= Len(s) THEN p \in DOMAIN s ELSE p - Len(s) \in 1..n
  BY <1>1, <1>4
<1>7. \A p \in DOMAIN t : p <= Len(s) => t[p] = s[p] /\ p \in DOMAIN s
  BY <1>5, <1>6
<1>8. \A p \in DOMAIN t : ~(p <= Len(s)) =>
          t[p].battery = k + 1 /\ t[p].module_count = Count(k + 1)
  BY <1>3, <1>5, <1>6
<1> HIDE DEF t
<1>9. ASSUME NEW p \in DOMAIN t
      PROVE  t[p].battery \in 1..(k + 1) /\ t[p].module_count = Count(t[p].battery)
  <2>1. CASE p <= Len(s)
    BY <1>7, <2>1 DEF Placed
  <2>2. CASE ~(p <= Len(s))
    BY <1>8, <2>2
  <2>3. QED  BY <2>1, <2>2
<1>10. ASSUME NEW b \in 1..(k + 1)
       PROVE  \E o \in Nat : \A p \in Nat :
                 (p \in DOMAIN t /\ t[p].battery = b) <=> p \in (o + 1)..(o + Count(b))
  <2>1. CASE b = k + 1
    <3>1. ASSUME NEW p \in Nat
          PROVE  (p \in DOMAIN t /\ t[p].battery = b)
                     <=> p \in (Len(s) + 1)..(Len(s) + n)
      <4>1. p \in DOMAIN s => s[p].battery \in 1..k
        BY DEF Placed
      <4>2. p \in DOMAIN t /\ p <= Len(s) => t[p].battery # b
        BY <1>7, <2>1, <4>1
      <4>3. p \in DOMAIN t /\ ~(p <= Len(s)) => t[p].battery = b
        BY <1>8, <2>1
      <4>4. QED  BY <1>1, <1>4, <4>2, <4>3
    <3>2. QED  BY <1>4, <2>1, <3>1 DEF n
  <2>2. CASE b # k + 1
    <3>1. b \in 1..k
      BY <2>2
    <3>2. PICK o \in Nat : \A p \in Nat :
              (p \in DOMAIN s /\ s[p].battery = b) <=> p \in (o + 1)..(o + Count(b))
      BY <3>1 DEF Placed
    <3>3. ASSUME NEW p \in Nat
          PROVE  (p \in DOMAIN t /\ t[p].battery = b)
                     <=> (p \in DOMAIN s /\ s[p].battery = b)
      <4>1. p \in DOMAIN t /\ ~(p <= Len(s)) => t[p].battery # b
        BY <1>8, <2>2
      <4>2. p \in DOMAIN s => p \in DOMAIN t /\ p <= Len(s)
        BY <1>1, <1>4
      <4>3. QED  BY <1>7, <4>1, <4>2
    <3>4. QED  BY <3>2, <3>3
  <2>3. QED  BY <2>1, <2>2
<1>11. QED  BY <1>2, <1>4, <1>9, <1>10 DEF Placed, block, n, t

\* The whole address map.
LEMMA SlotsPlaced == slots \in Seq(SlotSet) /\ Placed(slots, Len(Config))
<1> DEFINE Block(b) == [m \in 1..Count(b) |-> [battery |-> b, module_count |-> Count(b)]]
           blocks == [b \in Batteries |-> Block(b)]
           G == [k \in 0..Len(Config) |-> {s \in Seq(SlotSet) : Placed(s, k)}]
<1>1. Len(Config) \in Nat /\ Batteries = 1..Len(Config)
  BY ConfigAssumption DEF Batteries
<1>2. <<>> \in G[0]
  BY <1>1 DEF Placed
<1>3. ASSUME NEW b \in 1..Len(Config), NEW s \in G[b - 1]
      PROVE  s \o Block(b) \in G[b]
  <2>1. b - 1 \in Nat /\ b - 1 \in 0..Len(Config) /\ b \in 0..Len(Config) /\ (b - 1) + 1 = b
    BY <1>1
  <2>2. s \in Seq(SlotSet) /\ Placed(s, b - 1)
    BY <1>3, <2>1
  <2>3. s \o Block(b) \in Seq(SlotSet) /\ Placed(s \o Block(b), b)
    BY <1>1, <2>1, <2>2, PlaceNext
  <2>4. QED  BY <2>1, <2>3
<1>4. ASSUME NEW b \in Batteries PROVE Block(b) \in Seq(SlotSet)
  <2>1. Count(b) \in 1..255
    BY CountType
  <2>2. Count(b) \in Nat /\ [battery |-> b, module_count |-> Count(b)] \in SlotSet
    BY <2>1 DEF SlotSet
  <2>3. QED  BY <2>2
<1>5. slots = FlattenSeq(blocks)
  BY DEF slots, Count
<1> HIDE DEF Block
<1>6. blocks \in Seq(Seq(SlotSet)) /\ Len(blocks) = Len(Config)
  BY <1>1, <1>4
<1>7. \A b \in 1..Len(Config) : blocks[b] = Block(b)
  BY <1>1
<1> HIDE DEF blocks
<1>8. \A b \in 1..Len(blocks) : \A s \in G[b - 1] : s \o blocks[b] \in G[b]
  BY <1>3, <1>6, <1>7
<1>9. FlattenSeq(blocks) \in G[Len(blocks)]
  <2> HIDE DEF G
  <2>1. QED  BY <1>2, <1>6, <1>8, FlattenInduction
<1>10. QED  BY <1>1, <1>5, <1>6, <1>9

\* Every slot is one of at least one module of a battery.
LEMMA SlotType ==
    ASSUME NEW adr \in Nat, IsOurs(adr)
    PROVE  /\ adr - kBaseAddress + 1 \in DOMAIN slots
           /\ Slot(adr) \in SlotSet
           /\ Slot(adr).battery \in Batteries /\ Slot(adr).module_count \in 1..255
<1>1. slots \in Seq(SlotSet) /\ Len(slots) \in Nat /\ DOMAIN slots = 1..Len(slots)
  BY SlotsPlaced
<1>2. adr - kBaseAddress + 1 \in DOMAIN slots
  BY <1>1 DEF IsOurs, kBaseAddress
<1>3. slots[adr - kBaseAddress + 1] \in SlotSet
  BY <1>1, <1>2, ElementOfSeq
<1>4. QED  BY <1>2, <1>3 DEF Slot, SlotSet

-----------------------------------------------------------------------------
(* The state of charge *)

\* A ready battery shows a pack that holds no more than its total; a reserve's is
\* made of its capacity and the SoC of its mirror.
LEMMA PackType ==
    ASSUME TypeInv, NEW b \in Batteries, IsReady(b)
    PROVE  /\ Pack(b).total \in Nat /\ Pack(b).remaining \in Nat
           /\ Pack(b).remaining <= Pack(b).total
           /\ Config[b].mirror # 0 =>
                  /\ Pack(b).soc \in 0..100
                  /\ Pack(b).remaining = (Pack(b).total * Pack(b).soc) \div 100
<1> DEFINE p == state[Source(b)].pack
<1>1. Source(b) \in Batteries
  BY MirrorAssumption DEF Source, Batteries
<1>2. p \in Packs
  BY <1>1 DEF TypeInv, IsReady, is_fresh
<1>3. /\ p \in [total : Nat, remaining : Nat, soc : 0..100, current : Int]
      /\ p.remaining <= p.total
  BY <1>2, PackAssumption
<1>4. Milli(b) \in Nat
  BY CapacityType
<1> HIDE DEF p
<1>5. CASE Config[b].mirror = 0
  BY <1>3, <1>5 DEF Pack, p
<1>6. CASE Config[b].mirror # 0
  <2>1. /\ Pack(b).total = Milli(b) /\ Pack(b).soc = p.soc
        /\ Pack(b).remaining = (Milli(b) * p.soc) \div 100
    BY <1>3, <1>6 DEF Pack, p
  <2>2. Milli(b) * p.soc \in Nat /\ Milli(b) * p.soc <= 100 * Milli(b)
    <3>1. Milli(b) * p.soc <= Milli(b) * 100 /\ Milli(b) * 0 <= Milli(b) * p.soc
      BY <1>3, <1>4, Monotone
    <3>2. QED  BY <1>3, <1>4, <3>1
  <2>3. QED  BY <1>3, <1>4, <2>1, <2>2
<1>7. QED  BY <1>5, <1>6

\* What a module is told is the pack divided by one number.
LEMMA ModuleShare ==
    ASSUME TypeInv, NEW adr \in Nat, IsOurs(adr), IsReady(Slot(adr).battery)
    PROVE  \E k \in Nat \ {0} :
               LET p == Pack(Slot(adr).battery)
                   m == analog(Slot(adr))
               IN  m.total = p.total \div k /\ m.remain = p.remaining \div k
<1> DEFINE p == Pack(Slot(adr).battery)
           n == Slot(adr).module_count
<1>1. Slot(adr).battery \in Batteries /\ n \in Nat \ {0}
  BY SlotType
<1>2. p.total \in Nat /\ p.remaining \in Nat /\ p.remaining <= p.total
  BY <1>1, PackType
<1> DEFINE t == p.total \div n
           r == p.remaining \div n
<1>3. t \in Nat /\ r \in Nat /\ r <= t
  <2> HIDE DEF n, p
  <2>1. /\ t \in Nat /\ n * t \in Nat /\ n * t <= p.total /\ p.total < n * t + n
        /\ r \in Nat /\ n * r \in Nat /\ n * r <= p.remaining
    BY <1>1, <1>2, DivBounds
  <2> HIDE DEF t, r
  <2>2. ASSUME r >= t + 1 PROVE FALSE
    <3>1. n * (t + 1) <= n * r /\ n * (t + 1) = n * t + n
      BY <1>1, <2>1, <2>2, Monotone
    <3>2. QED  BY <1>1, <1>2, <2>1, <3>1
  <2>3. QED  BY <2>1, <2>2
<1>4. PICK k \in Nat \ {0} :
          scale_capacity_to_u16(t, r) = [total |-> t \div k, remain |-> r \div k]
  BY <1>3, ScaledDown
<1>5. /\ analog(Slot(adr)).total = t \div k
      /\ analog(Slot(adr)).remain = r \div k
  BY <1>4 DEF analog
<1>6. t \div k = p.total \div (n * k) /\ r \div k = p.remaining \div (n * k)
  BY <1>1, <1>2, DivTwice, Zenon
<1>7. n * k \in Nat \ {0}
  BY <1>1
<1>8. QED  BY <1>5, <1>6, <1>7

\* SocSurvives is a matter of arithmetic in every state of the right type.
LEMMA Survival == TypeInv => SocSurvives
<1> SUFFICES ASSUME TypeInv, NEW b \in Batteries, IsReady(b),
                    NEW adr \in Modules(b), analog(Slot(adr)).total >= 100
             PROVE  LET p   == Pack(b)
                        m   == analog(Slot(adr))
                        soc == IF Config[b].mirror # 0 THEN p.soc
                               ELSE (p.remaining * 100) \div Max({p.total, 1})
                    IN  (m.remain * 100) \div m.total \in (soc - 1)..(soc + 1)
  BY DEF SocSurvives
<1> DEFINE p == Pack(b)
           m == analog(Slot(adr))
<1>1. adr \in Nat /\ IsOurs(adr) /\ Slot(adr).battery = b
  BY DEF Modules
<1>2. PICK k \in Nat \ {0} : m.total = p.total \div k /\ m.remain = p.remaining \div k
  BY <1>1, ModuleShare
<1>3. p.total \in Nat /\ p.remaining \in Nat /\ p.remaining <= p.total
  BY PackType
<1>4. m.total >= 100 /\ p.total \div k >= 100
  BY <1>2
<1>5. CASE Config[b].mirror = 0
  <2> HIDE DEF p, m
  <2>1. p.total > 0 /\ (m.remain * 100) \div m.total
            \in ((p.remaining * 100) \div p.total - 1)..((p.remaining * 100) \div p.total + 1)
    BY <1>2, <1>3, <1>4, PercentOfParts
  <2>2. Max({p.total, 1}) = p.total
    BY <1>3, <2>1, MaxOfTwo
  <2>3. QED  BY <1>5, <2>1, <2>2 DEF p, m
<1>6. CASE Config[b].mirror # 0
  <2>1. p.soc \in 0..100 /\ p.remaining = (p.total * p.soc) \div 100
    BY <1>6, PackType
  <2> HIDE DEF p, m
  <2>2. (m.remain * 100) \div m.total \in (p.soc - 1)..(p.soc + 1)
    BY <1>2, <1>3, <1>4, <2>1, PercentOfReserve
  <2>3. QED  BY <1>6, <2>2 DEF p, m
<1>7. QED  BY <1>5, <1>6

\* "The SoC ratio remain/total survives" (inverter.hpp): for any capacities and
\* any telemetry that fit 32 bits, whatever module the inverter asks, scaling to 16 bits and to
\* modules moves the state of charge by a percent at most.
THEOREM SocSafe == Spec => []SocSurvives
BY InitType, NextType, Survival, PTL DEF Spec

-----------------------------------------------------------------------------
(* Sums over the modules of a battery *)

\* The sum of a set is the one function of its subsets with this property, if the
\* values are the same.
IsSum(g, F, S) ==
    g = [s \in SUBSET S |->
            IF s = {} THEN 0
            ELSE LET x == CHOOSE x \in s : TRUE IN F[x] + g[s \ {x}]]

LEMMA WithoutOne ==
    ASSUME NEW S, IsFiniteSet(S), NEW s \in SUBSET S, s # {}
    PROVE  LET x == CHOOSE x \in s : TRUE
           IN  /\ x \in s /\ s \ {x} \in SUBSET S
               /\ Cardinality(s) \in Nat \ {0}
               /\ Cardinality(s \ {x}) = Cardinality(s) - 1
<1> DEFINE x == CHOOSE x \in s : TRUE
<1>1. x \in s
  OBVIOUS
<1> HIDE DEF x
<1>2. IsFiniteSet(s)
  BY FS_Subset
<1>3. Cardinality(s) \in Nat /\ Cardinality(s) # 0
  BY <1>2, FS_CardinalityType, FS_EmptySet
<1>4. Cardinality(s \ {x}) = Cardinality(s) - 1
  BY <1>1, <1>2, FS_RemoveElement
<1>5. x \in s /\ s \ {x} \in SUBSET S /\ Cardinality(s) \in Nat \ {0}
          /\ Cardinality(s \ {x}) = Cardinality(s) - 1
  BY <1>1, <1>3, <1>4
<1>6. QED  BY <1>5 DEF x

LEMMA SumOfEqual ==
    ASSUME NEW S, IsFiniteSet(S), NEW F, NEW v \in Int, \A x \in S : F[x] = v
    PROVE  MapThenSumSet(LAMBDA x : F[x], S) = Cardinality(S) * v
<1> DEFINE g == CHOOSE g : g = [s \in SUBSET S |->
                                   IF s = {} THEN 0
                                   ELSE LET x == CHOOSE x \in s : TRUE
                                        IN  F[x] + g[s \ {x}]]
           h == [s \in SUBSET S |-> Cardinality(s) * v]
<1>1. MapThenSumSet(LAMBDA x : F[x], S) = g[S]
  BY Zenon DEF MapThenSumSet, MapThenFoldSet
<1>2. ASSUME NEW s \in SUBSET S, s # {}
      PROVE  LET x == CHOOSE x \in s : TRUE
             IN  /\ s \ {x} \in SUBSET S /\ F[x] = v
                 /\ Cardinality(s) \in Nat \ {0}
                 /\ Cardinality(s \ {x}) = Cardinality(s) - 1
                 /\ v + Cardinality(s \ {x}) * v = Cardinality(s) * v
  <2> DEFINE x == CHOOSE x \in s : TRUE
  <2>1. /\ x \in s /\ s \ {x} \in SUBSET S /\ Cardinality(s) \in Nat \ {0}
        /\ Cardinality(s \ {x}) = Cardinality(s) - 1
    BY <1>2, WithoutOne
  <2> HIDE DEF x
  <2>2. F[x] = v
    BY <2>1
  <2>3. v + Cardinality(s \ {x}) * v = Cardinality(s) * v
    <3> DEFINE c == Cardinality(s)
    <3>1. c \in Int /\ Cardinality(s \ {x}) = c - 1
      BY <2>1
    <3> HIDE DEF c
    <3>2. v + (c - 1) * v = c * v
      BY <3>1
    <3>3. QED  BY <3>1, <3>2 DEF c
  <2>4. QED  BY <2>1, <2>2, <2>3 DEF x
<1>3. IsSum(h, F, S)
  <2>1. ASSUME NEW s \in SUBSET S
        PROVE  h[s] = IF s = {} THEN 0
                      ELSE LET x == CHOOSE x \in s : TRUE IN F[x] + h[s \ {x}]
    <3>1. CASE s = {}
      BY <3>1, FS_EmptySet
    <3>2. CASE s # {}
      <4> DEFINE x == CHOOSE x \in s : TRUE
      <4>1. /\ s \ {x} \in SUBSET S /\ F[x] = v
            /\ v + Cardinality(s \ {x}) * v = Cardinality(s) * v
        BY <1>2, <3>2
      <4> HIDE DEF x
      <4>2. h[s] = Cardinality(s) * v /\ h[s \ {x}] = Cardinality(s \ {x}) * v
        BY <4>1
      <4>3. h[s] = F[x] + h[s \ {x}]
        BY <4>1, <4>2
      <4>4. QED  BY <3>2, <4>3 DEF x
    <3>3. QED  BY <3>1, <3>2
  <2> HIDE DEF h
  <2>2. h = [s \in SUBSET S |-> h[s]]
    BY DEF h
  <2>3. QED  BY <2>1, <2>2, Zenon DEF IsSum
<1> HIDE DEF h
<1>4. IsSum(g, F, S)
  BY <1>3, Zenon DEF IsSum
<1> HIDE DEF g
<1>5. \A s \in SUBSET S : g[s] = Cardinality(s) * v
  <2> DEFINE Bad == {s \in SUBSET S : g[s] # Cardinality(s) * v}
             Sizes == {Cardinality(s) : s \in Bad}
  <2>1. SUFFICES ASSUME Bad # {} PROVE FALSE
    OBVIOUS
  <2>2. Sizes \subseteq Nat /\ Sizes # {}
    <3>1. \A s \in SUBSET S : Cardinality(s) \in Nat
      BY FS_Subset, FS_CardinalityType
    <3>2. QED  BY <2>1, <3>1
  <2>3. PICK n \in Sizes : \A k \in Sizes : <<k, n>> \notin OpToRel(<, Nat)
    BY <2>2, NatLessThanWellFounded, WFMin
  <2>4. PICK s \in Bad : Cardinality(s) = n
    BY <2>3
  <2>5. g[s] = IF s = {} THEN 0
               ELSE LET x == CHOOSE x \in s : TRUE IN F[x] + g[s \ {x}]
    BY <1>4, Zenon DEF IsSum
  <2>6. CASE s = {}
    BY <2>5, <2>6, FS_EmptySet
  <2>7. CASE s # {}
    <3> DEFINE x == CHOOSE x \in s : TRUE
    <3>1. /\ s \ {x} \in SUBSET S /\ F[x] = v
          /\ Cardinality(s) \in Nat \ {0}
          /\ Cardinality(s \ {x}) = Cardinality(s) - 1
          /\ v + Cardinality(s \ {x}) * v = Cardinality(s) * v
      BY <1>2, <2>7
    <3>2. g[s] = F[x] + g[s \ {x}]
      BY <2>5, <2>7
    <3> HIDE DEF x
    <3>3. s \ {x} \notin Bad
      <4>1. Cardinality(s \ {x}) \in Nat /\ n \in Nat /\ Cardinality(s \ {x}) < n
        BY <2>4, <3>1
      <4>2. Cardinality(s \ {x}) \notin Sizes
        BY <2>3, <4>1 DEF OpToRel
      <4>3. QED  BY <4>2
    <3>4. g[s \ {x}] = Cardinality(s \ {x}) * v
      BY <3>1, <3>3
    <3>5. g[s] = Cardinality(s) * v
      BY <3>1, <3>2, <3>4
    <3>6. QED  BY <3>5
  <2>8. QED  BY <2>6, <2>7
<1>6. QED  BY <1>1, <1>5

\* All modules of a battery report the same, so that their sum is a product.
LEMMA SumOfModules ==
    ASSUME NEW F, IsFiniteSet(DOMAIN F), NEW v \in Int, \A x \in DOMAIN F : F[x] = v
    PROVE  SumOver(F) = Cardinality(DOMAIN F) * v
<1>1. MapThenSumSet(LAMBDA x : F[x], DOMAIN F) = Cardinality(DOMAIN F) * v
  BY SumOfEqual
<1>2. QED  BY <1>1, Zenon DEF SumOver

\* 16 bits of 100 mA.
kCurrentMax == 100 * 32767

\* What nobody checks of a configuration and a BMS: there is an address for every
\* module, and every current fits the wire.
OnTheWire ==
    /\ Len(slots) <= 254
    /\ Limits \subseteq [charge : 0..kCurrentMax, discharge : 0..kCurrentMax]
    /\ \A p \in Packs : p.current \in (-kCurrentMax)..kCurrentMax

\* The addresses of a battery are Count(b), and each reports for that many.
LEMMA ModulesOf ==
    ASSUME OnTheWire, NEW b \in Batteries
    PROVE  /\ IsFiniteSet(Modules(b)) /\ Cardinality(Modules(b)) = Count(b)
           /\ \A adr \in Modules(b) :
                  Slot(adr) = [battery |-> b, module_count |-> Count(b)]
           /\ Count(b) \in 1..254
<1>1. slots \in Seq(SlotSet)
  BY SlotsPlaced
<1>2. PICK l \in Nat : l = Len(slots) /\ l <= 254 /\ DOMAIN slots = 1..l
  <2>1. Len(slots) \in Nat /\ DOMAIN slots = 1..Len(slots)
    BY <1>1, LenProperties
  <2>2. Len(slots) <= 254
    BY DEF OnTheWire
  <2>3. QED  BY <2>1, <2>2
<1>3. PICK c \in Nat : c = Count(b) /\ 1 <= c
  BY CountType
<1>4. b \in 1..Len(Config)
  BY ConfigAssumption DEF Batteries
<1>5. PICK o \in Nat : \A p \in Nat :
          (p \in 1..l /\ slots[p].battery = b) <=> p \in (o + 1)..(o + c)
  BY <1>2, <1>3, <1>4, SlotsPlaced DEF Placed
<1>6. o + c <= l
  <2>1. o + c \in Nat /\ o + c \in (o + 1)..(o + c)
    BY <1>3
  <2>2. o + c \in 1..l
    BY <1>5, <2>1
  <2>3. QED  BY <2>2
<1>7. Modules(b) = (o + 2)..(o + c + 1)
  <2>1. ASSUME NEW adr \in Nat
        PROVE  adr \in Modules(b) <=> adr \in (o + 2)..(o + c + 1)
    <3>1. IsOurs(adr) <=> adr >= 2 /\ adr - 1 \in 1..l
      BY <1>2 DEF IsOurs, kBaseAddress
    <3>2. Slot(adr) = slots[adr - 1]
      <4>1. adr - kBaseAddress + 1 = adr - 1
        BY DEF kBaseAddress
      <4>2. QED  BY <4>1 DEF Slot
    <3>3. CASE adr >= 2
      <4>1. adr - 1 \in Nat
        BY <3>3
      <4>2. (adr - 1 \in 1..l /\ slots[adr - 1].battery = b) <=> adr - 1 \in (o + 1)..(o + c)
        BY <1>5, <4>1
      <4>3. adr - 1 \in (o + 1)..(o + c) <=> adr \in (o + 2)..(o + c + 1)
        OBVIOUS
      <4>4. adr - 1 \in 1..l => adr \in 0..255
        BY <1>2
      <4>5. QED  BY <3>1, <3>2, <3>3, <4>2, <4>3, <4>4 DEF Modules
    <3>4. CASE ~(adr >= 2)
      <4>1. adr \notin (o + 2)..(o + c + 1)
        BY <3>4
      <4>2. QED  BY <3>1, <3>4, <4>1 DEF Modules
    <3>5. QED  BY <3>3, <3>4
  <2>2. \A adr \in Modules(b) : adr \in Nat
    BY DEF Modules
  <2>3. \A adr \in (o + 2)..(o + c + 1) : adr \in Nat
    OBVIOUS
  <2>4. QED  BY <2>1, <2>2, <2>3
<1>8. IsFiniteSet(Modules(b)) /\ Cardinality(Modules(b)) = Count(b)
  <2>1. o + 2 \in Int /\ o + c + 1 \in Int /\ ~(o + 2 > o + c + 1)
            /\ (o + c + 1) - (o + 2) + 1 = c
    BY <1>3
  <2>2. IsFiniteSet((o + 2)..(o + c + 1)) /\ Cardinality((o + 2)..(o + c + 1)) = c
    BY <2>1, FS_Interval
  <2>3. QED  BY <1>3, <1>7, <2>2
<1>9. ASSUME NEW adr \in Modules(b)
      PROVE  Slot(adr) = [battery |-> b, module_count |-> Count(b)]
  <2>1. adr \in Nat /\ IsOurs(adr) /\ Slot(adr).battery = b
    BY DEF Modules
  <2>2. Slot(adr) \in SlotSet /\ adr - kBaseAddress + 1 \in DOMAIN slots
    BY <2>1, SlotType
  <2>3. Slot(adr).module_count = Count(Slot(adr).battery)
    BY <2>2, SlotsPlaced DEF Placed, Slot
  <2>4. QED  BY <2>1, <2>2, <2>3 DEF SlotSet
<1>10. Count(b) \in 1..254
  <2>1. l \in Nat /\ l <= 254 /\ c \in Nat /\ 1 <= c /\ o \in Nat
    BY <1>2, <1>3
  <2>2. c \in 1..254
    BY <1>6, <2>1
  <2>3. QED  BY <1>3, <2>2
<1>11. QED  BY <1>8, <1>9, <1>10, Zenon

\* A quantity x in mA or mAh that is divided among n and shown in units of u.
LEMMA PartsAddUp ==
    ASSUME NEW x \in Nat, NEW n \in Nat \ {0}, NEW u \in Nat \ {0}
    PROVE  LET v == (x \div n) \div u
           IN  /\ v \in Nat
               /\ n * v \in Nat
               /\ n * v <= x \div u
               /\ x \div u - n * v <= n
<1> DEFINE y == x \div u
<1>1. y \in Nat
  BY DivBounds
<1>2. (x \div n) \div u = y \div n
  <2>1. (x \div n) \div u = x \div (n * u)
    BY DivTwice, Zenon
  <2>2. (x \div u) \div n = x \div (u * n)
    BY DivTwice, Zenon
  <2>3. n * u = u * n
    OBVIOUS
  <2>4. QED  BY <2>1, <2>2, <2>3
<1> HIDE DEF y
<1> DEFINE v == y \div n
<1>3. v \in Nat /\ n * v \in Nat /\ n * v <= y /\ y < n * v + n
  BY <1>1, DivBounds
<1> HIDE DEF v
<1>4. y - n * v <= n
  BY <1>1, <1>3
<1>5. QED  BY <1>2, <1>3, <1>4 DEF v, y

LEMMA QuotientBound ==
    ASSUME NEW x \in Nat, NEW n \in Nat \ {0}, NEW a \in Nat, x <= n * a
    PROVE  x \div n <= a
<1> DEFINE q == x \div n
<1>1. q \in Nat /\ n * q \in Nat /\ n * q <= x
  BY DivBounds
<1> HIDE DEF q
<1>2. ASSUME q >= a + 1 PROVE FALSE
  <2>1. n * (a + 1) <= n * q /\ n * (a + 1) = n * a + n /\ n * a \in Int
    BY <1>1, <1>2, Monotone
  <2>2. QED  BY <1>1, <2>1
<1>3. QED  BY <1>1, <1>2 DEF q

LEMMA Between ==
    ASSUME NEW lo \in Int, NEW hi \in Int, NEW v \in Int, lo <= v, v <= hi
    PROVE  Max({lo, Min({hi, v})}) = v
<1>1. Min({hi, v}) = v
  <2>1. Min({hi, v}) = IF hi <= v THEN hi ELSE v
    BY MinOfTwo
  <2>2. QED  BY <2>1
<1>2. Max({lo, v}) = v
  <2>1. Max({lo, v}) = IF lo >= v THEN lo ELSE v
    BY MaxOfTwo
  <2>2. QED  BY <2>1
<1>3. QED  BY <1>1, <1>2

LEMMA NotClamped ==
    ASSUME NEW v \in Nat, v <= 32767
    PROVE  clamp_i16(v) = v /\ clamp_i16(-v) = -v
<1> DEFINE lo == -32768
           hi == 32767
<1>1. /\ lo \in Int /\ hi \in Int /\ v \in Int /\ -v \in Int
      /\ lo <= v /\ v <= hi /\ lo <= -v /\ -v <= hi
  BY SMT
<1>2. clamp_i16(v) = Max({lo, Min({hi, v})}) /\ clamp_i16(-v) = Max({lo, Min({hi, -v})})
  BY SMT DEF clamp_i16
<1> HIDE DEF lo, hi
<1>3. Max({lo, Min({hi, v})}) = v
  BY <1>1, Between
<1>4. Max({lo, Min({hi, -v})}) = -v
  BY <1>1, Between
<1>5. QED  BY <1>2, <1>3, <1>4

\* A quantity in mA that fits 16 bits of 100 mA a module is neither clamped nor
\* wrapped, whatever its sign.
LEMMA Shared ==
    ASSUME NEW x \in Nat, NEW n \in Nat \ {0}, x <= n * kCurrentMax
    PROVE  LET v == (x \div n) \div 100
           IN  /\ v \in Nat /\ clamp_i16(v) = v /\ clamp_i16(-v) = -v
               /\ n * v \in Nat /\ n * (-v) = -(n * v)
               /\ n * v <= x \div 100 /\ x \div 100 - n * v <= n
<1> DEFINE y == x \div n
           v == y \div 100
<1>1. v \in Nat /\ n * v \in Nat /\ n * v <= x \div 100 /\ x \div 100 - n * v <= n
  <2>1. 100 \in Nat \ {0}
    OBVIOUS
  <2>2. QED  BY <2>1, PartsAddUp
<1>2. y \in Nat /\ y <= kCurrentMax
  <2>1. y \in Nat
    BY DivBounds
  <2>2. kCurrentMax \in Nat
    BY DEF kCurrentMax
  <2>3. QED  BY <2>1, <2>2, QuotientBound
<1> HIDE DEF y
<1>3. v <= 32767
  <2>1. 100 \in Nat \ {0} /\ 32767 \in Nat /\ y <= 100 * 32767
    BY <1>2 DEF kCurrentMax
  <2>2. QED  BY <1>2, <2>1, QuotientBound
<1> HIDE DEF v
<1>4. clamp_i16(v) = v /\ clamp_i16(-v) = -v /\ n * (-v) = -(n * v)
  BY <1>1, <1>3, NotClamped
<1>5. QED  BY <1>1, <1>4 DEF v, y

\* A battery with an address for every module has enough of them for 16 bits.
LEMMA EnoughModules ==
    ASSUME NEW b \in Batteries, Count(b) \in 1..254
    PROVE  Milli(b) \in Nat /\ Milli(b) <= Count(b) * 65000
<1> DEFINE x == Milli(b)
           c == CeilDiv(x, 65000)
<1>1. x \in Nat
  BY CapacityType
<1>2. Count(b) = IF x <= 65000 THEN 1 ELSE Min({c, 255})
  BY DEF Count, module_count_for_capacity, kCapU16Max
<1> HIDE DEF x
<1>3. c \in Nat /\ x <= c * 65000
  BY <1>1 DEF CeilDiv
<1> HIDE DEF c
<1>4. Min({c, 255}) = IF c <= 255 THEN c ELSE 255
  BY <1>3, MinOfTwo
<1>5. x <= Count(b) * 65000
  BY <1>1, <1>2, <1>3, <1>4
<1>6. QED  BY <1>1, <1>5 DEF x

\* The pack and the limits of a ready battery fit its modules.
LEMMA Budget ==
    ASSUME TypeInv, OnTheWire, NEW b \in Batteries, IsReady(b)
    PROVE  LET most == Count(b) * kCurrentMax
           IN  /\ Lim(b).charge \in Nat /\ Lim(b).charge <= most
               /\ Lim(b).discharge \in Nat /\ Lim(b).discharge <= most
               /\ Pack(b).current \in Int
               /\ -most <= Pack(b).current /\ Pack(b).current <= most
<1>1. Count(b) \in 1..254 /\ Milli(b) \in Nat /\ Milli(b) <= Count(b) * 65000
  BY ModulesOf, EnoughModules
<1> DEFINE n == Count(b)
           st == state[Source(b)]
<1>2. n * kCurrentMax \in Nat /\ kCurrentMax <= n * kCurrentMax
          /\ Milli(b) <= n * kCurrentMax
  <2> HIDE DEF n
  <2>1. n \in Nat /\ 1 <= n /\ Milli(b) \in Nat /\ Milli(b) <= n * 65000
    BY <1>1 DEF n
  <2>2. QED  BY <2>1 DEF kCurrentMax
<1>3. Source(b) \in Batteries
  BY MirrorAssumption DEF Source, Batteries
<1>4. st.pack \in Packs /\ st.settings \in Limits
  BY <1>3 DEF TypeInv, IsReady, is_fresh
<1>5. /\ st.pack \in [total : Nat, remaining : Nat, soc : 0..100, current : Int]
      /\ st.pack.current \in (-kCurrentMax)..kCurrentMax
      /\ st.settings \in [charge : 0..kCurrentMax, discharge : 0..kCurrentMax]
  BY <1>4, PackAssumption DEF OnTheWire
<1> HIDE DEF n, st
<1>6. kCurrentMax \in Nat
  BY DEF kCurrentMax
<1>7. CASE Config[b].mirror = 0
  <2>1. Pack(b) = st.pack /\ Lim(b) = state[b].settings /\ Source(b) = b
    BY <1>7 DEF Pack, Lim, Source, st
  <2>2. Lim(b) = st.settings
    BY <2>1 DEF st
  <2>3. Pack(b).current \in Int /\ -kCurrentMax <= Pack(b).current
            /\ Pack(b).current <= kCurrentMax
    BY <1>5, <1>6, <2>1
  <2>4. Lim(b).charge \in Nat /\ Lim(b).charge <= kCurrentMax
            /\ Lim(b).discharge \in Nat /\ Lim(b).discharge <= kCurrentMax
    BY <1>5, <1>6, <2>2
  <2> DEFINE k == n * kCurrentMax
  <2>5. k \in Nat /\ kCurrentMax <= k
    BY <1>2
  <2> HIDE DEF k
  <2>6. Lim(b).charge <= k /\ Lim(b).discharge <= k /\ -k <= Pack(b).current
            /\ Pack(b).current <= k
    BY <1>6, <2>3, <2>4, <2>5
  <2>7. QED  BY <2>3, <2>4, <2>6 DEF k, n
<1>8. CASE Config[b].mirror # 0
  <2> DEFINE half == (Milli(b) * 5) \div 10
             k == n * kCurrentMax
  <2>1. Lim(b).charge = half /\ Lim(b).discharge = half
    BY <1>8 DEF Lim
  <2>2. half \in Nat /\ half <= Milli(b)
    BY <1>1
  <2>3. Pack(b).current = 0
    BY <1>5, <1>8 DEF Pack, st
  <2>4. k \in Nat /\ Milli(b) <= k
    BY <1>2
  <2> HIDE DEF half, k
  <2>5. half <= k /\ -k <= 0 /\ 0 <= k
    BY <1>1, <2>2, <2>4
  <2>6. QED  BY <2>1, <2>2, <2>3, <2>5 DEF k, n
<1>9. QED  BY <1>7, <1>8

\* What a module says of a battery with n of them.
LEMMA LimitsOf ==
    ASSUME TypeInv, OnTheWire, NEW b \in Batteries, IsReady(b), NEW adr \in Modules(b)
    PROVE  /\ limits(Slot(adr)).charge = (Lim(b).charge \div Count(b)) \div 100
           /\ limits(Slot(adr)).discharge = -((Lim(b).discharge \div Count(b)) \div 100)
<1> DEFINE n == Count(b)
           c == (Lim(b).charge \div n) \div 100
           d == (Lim(b).discharge \div n) \div 100
<1>1. n \in Nat \ {0} /\ Slot(adr) = [battery |-> b, module_count |-> n]
  BY ModulesOf
<1>2. limits(Slot(adr)) = [charge |-> clamp_i16(c), discharge |-> clamp_i16(-d)]
  BY <1>1 DEF limits
<1>3. clamp_i16(c) = c /\ clamp_i16(-d) = -d
  BY <1>1, Budget, Shared
<1> HIDE DEF c, d
<1>4. limits(Slot(adr)).charge = c /\ limits(Slot(adr)).discharge = -d
  BY <1>2, <1>3
<1>5. QED  BY <1>4 DEF c, d, n

LEMMA CurrentOf ==
    ASSUME TypeInv, OnTheWire, NEW b \in Batteries, IsReady(b), NEW adr \in Modules(b)
    PROVE  LET c == Pack(b).current
           IN  analog(Slot(adr)).current = IF c < 0 THEN -(((-c) \div Count(b)) \div 100)
                                           ELSE (c \div Count(b)) \div 100
<1> DEFINE n == Count(b)
           c == Pack(b).current
           k == n * kCurrentMax
<1>1. n \in Nat \ {0} /\ Slot(adr) = [battery |-> b, module_count |-> n]
  BY ModulesOf
<1>2. analog(Slot(adr)).current = clamp_i16(Quot(Quot(c, n), 100))
  BY <1>1 DEF analog
<1>3. c \in Int /\ -k <= c /\ c <= k
  BY Budget
<1>4. k \in Int
  BY <1>1 DEF kCurrentMax
<1> HIDE DEF n, c, k
<1>5. CASE c < 0
  <2> DEFINE q == (-c) \div n
  <2>1. -c \in Nat /\ -c <= k
    BY <1>3, <1>4, <1>5
  <2>2. /\ q \div 100 \in Nat /\ clamp_i16(-(q \div 100)) = -(q \div 100)
    BY <1>1, <2>1, Shared DEF k
  <2>3. q \in Nat
    BY <1>1, <2>1, DivBounds
  <2>4. Quot(c, n) = -q
    BY <1>5 DEF Quot
  <2> HIDE DEF q
  <2>5. Quot(-q, 100) = -(q \div 100)
    BY <2>3 DEF Quot
  <2>6. analog(Slot(adr)).current = -(q \div 100)
    BY <1>2, <2>2, <2>4, <2>5
  <2>7. QED  BY <1>5, <2>6 DEF q, c, n
<1>6. CASE ~(c < 0)
  <2> DEFINE q == c \div n
  <2>1. c \in Nat /\ c <= k
    BY <1>3, <1>4, <1>6
  <2>2. /\ q \div 100 \in Nat /\ clamp_i16(q \div 100) = q \div 100
    BY <1>1, <2>1, Shared DEF k
  <2>3. q \in Nat
    BY <1>1, <2>1, DivBounds
  <2>4. Quot(c, n) = q
    BY <1>6 DEF Quot
  <2> HIDE DEF q
  <2>5. Quot(q, 100) = q \div 100
    BY <2>3 DEF Quot
  <2>6. analog(Slot(adr)).current = q \div 100
    BY <1>2, <2>2, <2>4, <2>5
  <2>7. QED  BY <1>6, <2>6 DEF q, c, n
<1>7. QED  BY <1>5, <1>6

LEMMA TotalOf ==
    ASSUME TypeInv, OnTheWire, NEW b \in Batteries, IsReady(b), NEW adr \in Modules(b),
           Pack(b).total <= Milli(b)
    PROVE  analog(Slot(adr)).total = Pack(b).total \div Count(b)
<1> DEFINE n == Count(b)
           p == Pack(b)
           t == p.total \div n
<1>1. n \in Nat \ {0} /\ Slot(adr) = [battery |-> b, module_count |-> n]
          /\ Milli(b) \in Nat /\ Milli(b) <= n * 65000
  BY ModulesOf, EnoughModules
<1>2. analog(Slot(adr)).total
          = scale_capacity_to_u16(p.total \div n, p.remaining \div n).total
  BY <1>1 DEF analog
<1>3. p.total \in Nat
  BY PackType
<1> HIDE DEF n, p
<1>4. p.total <= n * 65000
  <2>1. p.total <= Milli(b)
    BY DEF p
  <2>2. QED  BY <1>1, <1>3, <2>1
<1>5. t \in Nat /\ t <= 65000
  <2>1. t \in Nat
    BY <1>1, <1>3, DivBounds
  <2>2. 65000 \in Nat
    OBVIOUS
  <2>3. QED  BY <1>1, <1>3, <1>4, <2>1, <2>2, QuotientBound
<1> HIDE DEF t
<1>6. scale_capacity_to_u16(t, p.remaining \div n).total = (t \div 1) % 65536
  BY <1>5 DEF scale_capacity_to_u16, kCapU16Max
<1>7. (t \div 1) % 65536 = t
  BY <1>5
<1>8. QED  BY <1>2, <1>6, <1>7 DEF t, p, n

-----------------------------------------------------------------------------
(* The modules add up *)

\* The sum of what the modules of a battery say, if they all say v.
LEMMA SumOfBattery ==
    ASSUME OnTheWire, NEW b \in Batteries, NEW v \in Int, NEW F,
           DOMAIN F = Modules(b), \A adr \in Modules(b) : F[adr] = v
    PROVE  SumOver(F) = Count(b) * v
<1>1. IsFiniteSet(DOMAIN F) /\ Cardinality(DOMAIN F) = Count(b)
  BY ModulesOf
<1>2. SumOver(F) = Cardinality(DOMAIN F) * v
  BY <1>1, SumOfModules
<1>3. QED  BY <1>1, <1>2

\* Of every ready battery, if the currents fit the wire.
LEMMA AddUp ==
    ASSUME OnTheWire PROVE TypeInv => ModulesAddUp
<1> SUFFICES ASSUME TypeInv, NEW b \in Batteries, IsReady(b)
             PROVE  LET M         == Modules(b)
                        charge    == SumOver([adr \in M |-> limits(Slot(adr)).charge])
                        discharge == SumOver([adr \in M |-> limits(Slot(adr)).discharge])
                        current   == SumOver([adr \in M |-> analog(Slot(adr)).current])
                        total     == SumOver([adr \in M |-> analog(Slot(adr)).total])
                        whole     == Quot(Pack(b).current, 100)
                        Near(sum, x) == sum <= x /\ x - sum <= Cardinality(M)
                    IN  /\ Near(charge, Lim(b).charge \div 100)
                        /\ Near(-discharge, Lim(b).discharge \div 100)
                        /\ IF whole < 0 THEN Near(-current, -whole) ELSE Near(current, whole)
                        /\ Pack(b).total <= Milli(b) => Near(total, Pack(b).total)
  BY DEF ModulesAddUp
<1> DEFINE M == Modules(b)
           n == Count(b)
<1>1. Cardinality(M) = n /\ n \in Nat \ {0}
  BY ModulesOf
<1>2. SumOver([adr \in M |-> limits(Slot(adr)).charge]) <= Lim(b).charge \div 100
      /\ Lim(b).charge \div 100 - SumOver([adr \in M |-> limits(Slot(adr)).charge]) <= n
  <2> DEFINE F == [adr \in M |-> limits(Slot(adr)).charge]
             v == (Lim(b).charge \div n) \div 100
  <2>1. v \in Nat /\ n * v <= Lim(b).charge \div 100 /\ Lim(b).charge \div 100 - n * v <= n
    BY <1>1, Budget, Shared
  <2>2. DOMAIN F = M /\ \A adr \in M : F[adr] = v
    BY LimitsOf
  <2> HIDE DEF F, v
  <2>3. SumOver(F) = n * v
    BY <2>1, <2>2, SumOfBattery
  <2>4. QED  BY <2>1, <2>3 DEF F
<1>3. -SumOver([adr \in M |-> limits(Slot(adr)).discharge]) <= Lim(b).discharge \div 100
      /\ Lim(b).discharge \div 100 - (-SumOver([adr \in M |-> limits(Slot(adr)).discharge])) <= n
  <2> DEFINE F == [adr \in M |-> limits(Slot(adr)).discharge]
             x == Lim(b).discharge
             v == (x \div n) \div 100
  <2>1. x \in Nat /\ x <= n * kCurrentMax
    BY Budget
  <2>2. DOMAIN F = M /\ \A adr \in M : F[adr] = -v
    BY LimitsOf
  <2> HIDE DEF F, x, n
  <2>3. /\ v \in Nat /\ n * v \in Nat /\ n * (-v) = -(n * v)
        /\ n * v <= x \div 100 /\ x \div 100 - n * v <= n
    BY <1>1, <2>1, Shared
  <2> HIDE DEF v
  <2>4. SumOver(F) = -(n * v)
    <3>1. SumOver(F) = n * (-v)
      BY <2>2, <2>3, SumOfBattery DEF n
    <3>2. QED  BY <2>3, <3>1
  <2>5. -SumOver(F) = n * v
    BY <2>3, <2>4
  <2>6. QED  BY <2>3, <2>5 DEF F, x
<1>4. LET current == SumOver([adr \in M |-> analog(Slot(adr)).current])
          whole   == Quot(Pack(b).current, 100)
      IN  IF whole < 0 THEN -current <= -whole /\ -whole - (-current) <= n
                       ELSE current <= whole /\ whole - current <= n
  <2> DEFINE F == [adr \in M |-> analog(Slot(adr)).current]
             c == Pack(b).current
             most == n * kCurrentMax
  <2>1. c \in Int /\ -most <= c /\ c <= most /\ most \in Int
    BY <1>1, Budget DEF kCurrentMax
  <2>2. DOMAIN F = M /\ \A adr \in M :
            F[adr] = IF c < 0 THEN -(((-c) \div n) \div 100) ELSE (c \div n) \div 100
    BY CurrentOf
  <2> HIDE DEF F, c, n, M
  <2>3. CASE c < 0
    <3> DEFINE v == ((-c) \div n) \div 100
               w == (-c) \div 100
    <3>1. -c \in Nat /\ -c <= n * kCurrentMax
      BY <2>1, <2>3
    <3>2. v \in Nat /\ n * v \in Nat /\ n * (-v) = -(n * v) /\ n * v <= w /\ w - n * v <= n
      BY <1>1, <3>1, Shared
    <3>3. w \in Nat /\ Quot(c, 100) = -w
      BY <2>3, <3>1 DEF Quot
    <3>4. \A adr \in M : F[adr] = -v
      BY <2>2, <2>3
    <3> HIDE DEF v, w
    <3>5. SumOver(F) = -(n * v)
      <4>1. SumOver(F) = Count(b) * (-v)
        BY <2>2, <3>2, <3>4, SumOfBattery DEF M
      <4>2. QED  BY <3>2, <4>1 DEF n
    <3>6. w > 0 => Quot(c, 100) < 0
      BY <3>3
    <3>7. w = 0 => Quot(c, 100) = 0 /\ SumOver(F) = 0
      BY <3>2, <3>3, <3>5
    <3>8. -SumOver(F) = n * v /\ -Quot(c, 100) = w
      BY <3>2, <3>3, <3>5
    <3>9. CASE w > 0
      BY <3>2, <3>3, <3>6, <3>8, <3>9 DEF F, c
    <3>10. CASE w = 0
      BY <1>1, <3>7, <3>10 DEF F, c
    <3>11. QED  BY <3>3, <3>9, <3>10
  <2>4. CASE ~(c < 0)
    <3> DEFINE v == (c \div n) \div 100
               w == c \div 100
    <3>1. c \in Nat /\ c <= n * kCurrentMax
      BY <2>1, <2>4
    <3>2. v \in Nat /\ n * v \in Nat /\ n * v <= w /\ w - n * v <= n
      BY <1>1, <3>1, Shared
    <3>3. w \in Nat /\ Quot(c, 100) = w
      BY <2>4, <3>1 DEF Quot
    <3>4. \A adr \in M : F[adr] = v
      BY <2>2, <2>4
    <3> HIDE DEF v, w
    <3>5. SumOver(F) = n * v
      BY <2>2, <3>2, <3>4, SumOfBattery DEF M, n
    <3>6. ~(Quot(c, 100) < 0)
      BY <3>3
    <3>7. QED  BY <3>2, <3>3, <3>5, <3>6 DEF F, c
  <2>5. QED  BY <2>3, <2>4
<1>5. ASSUME Pack(b).total <= Milli(b)
      PROVE  LET total == SumOver([adr \in M |-> analog(Slot(adr)).total])
             IN  total <= Pack(b).total /\ Pack(b).total - total <= n
  <2> DEFINE F == [adr \in M |-> analog(Slot(adr)).total]
             x == Pack(b).total
             v == x \div n
  <2>1. x \in Nat
    BY PackType
  <2>2. DOMAIN F = M /\ \A adr \in M : F[adr] = v
    BY <1>5, TotalOf
  <2> HIDE DEF x
  <2>3. v \in Nat /\ n * v \in Nat /\ n * v <= x /\ x < n * v + n
    BY <1>1, <2>1, DivBounds
  <2> HIDE DEF F, v
  <2>4. SumOver(F) = n * v
    BY <2>2, <2>3, SumOfBattery
  <2> HIDE DEF n
  <2>5. SumOver(F) <= x /\ x - SumOver(F) <= n
    BY <1>1, <2>1, <2>3, <2>4
  <2>6. QED  BY <2>5 DEF F, x
<1>6. QED  BY <1>1, <1>2, <1>3, <1>4, <1>5

\* "The inverter sums the modules back into the real pack" (inverter.hpp), for any
\* number of batteries of any capacity: with an address for every module and no
\* current beyond 16 bits, the budget over the addresses of a battery is never
\* more than the battery's, and all sums are within a wire unit per module.
THEOREM SumsSafe ==
    ASSUME OnTheWire PROVE Spec => []ModulesAddUp
<1>1. TypeInv => ModulesAddUp
  BY AddUp
<1>2. QED  BY <1>1, InitType, NextType, PTL DEF Spec

-----------------------------------------------------------------------------
(* The stream *)

\* The theorems about folds and frames, for the symbols of this line.
H == INSTANCE StreamTheorems
         WITH Op <- Stream!Hear, Bodies <- Requests, kMaxFrameLen <- kRxBufLimit

LEMMA HearFold ==
    \A base, s : Stream!FoldLeft(Stream!Hear, base, s) = H!FoldLeft(Stream!Hear, base, s)
BY Zenon DEF Stream!FoldLeft, H!FoldLeft, Stream!MapThenFoldSet, H!MapThenFoldSet,
   Stream!Max, H!Max

LEMMA SameTake == TakeFrames = H!TakeFrames /\ Symbols = H!Symbols
<1>1. TakeFrames = H!TakeFrames
  BY Zenon DEF TakeFrames, H!TakeFrames, try_parse_pylontech, H!try_parse_pylontech,
     Symbols, H!Symbols, IsBody, H!IsBody, SelectInSeq, H!SelectInSeq, Min, H!Min
<1>2. Symbols = H!Symbols
  BY Zenon DEF Symbols, H!Symbols
<1>3. QED  BY <1>1, <1>2

Broken      == <<SOI, Other>>
Pair(in, o) == [in |-> in, out |-> o]
Heard(in, o, s) == H!FoldLeft(Stream!Hear, Pair(in, o), s)

\* What FrameStream has between the two ends of a frame, after the symbols s.
Body(s) ==
    IF s = <<>> THEN <<SOI>>
    ELSE IF Len(s) = 1 /\ s[1] \in Requests THEN <<SOI, s[1]>> ELSE Broken

\* One symbol, in each of the situations.
LEMMA HearCases ==
    ASSUME NEW o, NEW x
    PROVE  /\ x # SOI => Stream!Hear(Pair(<<>>, o), x) = Pair(<<>>, o)
           /\ Stream!Hear(Pair(<<>>, o), SOI) = Pair(<<SOI>>, o)
           /\ x # EOI => /\ Stream!Hear(Pair(<<SOI>>, o), x) =
                               Pair(IF x \in Requests THEN <<SOI, x>> ELSE Broken, o)
                         /\ \A y : Stream!Hear(Pair(<<SOI, y>>, o), x) = Pair(Broken, o)
           /\ Stream!Hear(Pair(<<SOI>>, o), EOI) = Pair(<<>>, o)
           /\ \A y : Stream!Hear(Pair(<<SOI, y>>, o), EOI) =
                        Pair(<<>>, IF y # Other THEN Append(o, y) ELSE o)
<1>1. SOI # EOI
  BY SymbolAssumption
<1>2. ASSUME x # SOI PROVE Stream!Hear(Pair(<<>>, o), x) = Pair(<<>>, o)
  BY <1>2 DEF Stream!Hear, Pair
<1>3. Stream!Hear(Pair(<<>>, o), SOI) = Pair(<<SOI>>, o)
  BY <1>1 DEF Stream!Hear, Pair
<1>4. ASSUME x # EOI PROVE Stream!Hear(Pair(<<SOI>>, o), x) =
                               Pair(IF x \in Requests THEN <<SOI, x>> ELSE Broken, o)
  BY <1>4 DEF Stream!Hear, Stream!Broken, Broken, Pair
<1>5. ASSUME x # EOI, NEW y PROVE Stream!Hear(Pair(<<SOI, y>>, o), x) = Pair(Broken, o)
  BY <1>5 DEF Stream!Hear, Stream!Broken, Broken, Pair
<1>6. Stream!Hear(Pair(<<SOI>>, o), EOI) = Pair(<<>>, o)
  BY DEF Stream!Hear, Pair
<1>7. ASSUME NEW y
      PROVE  Stream!Hear(Pair(<<SOI, y>>, o), EOI) =
                Pair(<<>>, IF y # Other THEN Append(o, y) ELSE o)
  BY DEF Stream!Hear, Stream!Broken, Pair
<1>8. QED  BY <1>2, <1>3, <1>4, <1>5, <1>6, <1>7

\* Between frames nothing is heard.
LEMMA HearJunk ==
    ASSUME NEW o
    PROVE  \A s \in Seq(Symbols \ {SOI}) : Heard(<<>>, o, s) = Pair(<<>>, o)
<1> DEFINE A == {Pair(<<>>, o)}
           S == Symbols \ {SOI}
<1>1. \A a \in A, x \in S : Stream!Hear(a, x) \in A
  BY HearCases
<1>2. Pair(<<>>, o) \in A
  OBVIOUS
<1> HIDE DEF A, S
<1>3. \A s \in Seq(S) : H!FoldLeft(Stream!Hear, Pair(<<>>, o), s) \in A
  BY <1>1, <1>2, H!FoldKeeps
<1>4. QED  BY <1>3 DEF A, S, Heard

\* Inside a frame it is remembered what it can still become.
LEMMA HearBody ==
    ASSUME NEW o
    PROVE  \A s \in Seq(Symbols \ {EOI}) : Heard(<<SOI>>, o, s) = Pair(Body(s), o)
<1> DEFINE S == Symbols \ {EOI}
           P == {s \in Seq(S) : Heard(<<SOI>>, o, s) = Pair(Body(s), o)}
<1>1. <<>> \in P
  <2>1. Heard(<<SOI>>, o, <<>>) = Pair(<<SOI>>, o)
    BY H!FoldNil DEF Heard
  <2>2. QED  BY <2>1 DEF Body
<1>2. ASSUME NEW s \in Seq(S), NEW x \in S, s \in P
      PROVE  Append(s, x) \in P
  <2> DEFINE t == Append(s, x)
  <2>1. Heard(<<SOI>>, o, t) = Stream!Hear(Heard(<<SOI>>, o, s), x)
    BY H!FoldAppend DEF Heard
  <2>2. Heard(<<SOI>>, o, s) = Pair(Body(s), o) /\ x # EOI
    BY <1>2
  <2>3. t \in Seq(S) /\ Len(t) = Len(s) + 1 /\ t # <<>> /\ t[Len(s) + 1] = x /\ Len(s) \in Nat
    BY AppendProperties, LenProperties
  <2>4. CASE s = <<>>
    <3>1. Body(s) = <<SOI>>
      BY <2>4 DEF Body
    <3>2. Body(t) = IF x \in Requests THEN <<SOI, x>> ELSE Broken
      BY <2>3, <2>4 DEF Body
    <3>3. Stream!Hear(Pair(<<SOI>>, o), x) = Pair(IF x \in Requests THEN <<SOI, x>> ELSE Broken, o)
      BY <2>2, HearCases
    <3> HIDE DEF t
    <3>4. Heard(<<SOI>>, o, t) = Pair(Body(t), o)
      BY <2>1, <2>2, <3>1, <3>2, <3>3
    <3>5. QED  BY <2>3, <3>4 DEF t
  <2>5. CASE s # <<>>
    <3>1. PICK y : Body(s) = <<SOI, y>>
      BY <2>5 DEF Body, Broken
    <3>2. Body(t) = Broken
      <4>1. Len(t) # 1
        BY <2>3, <2>5, EmptySeq
      <4>2. QED  BY <2>3, <4>1, Zenon DEF Body
    <3>3. Stream!Hear(Pair(<<SOI, y>>, o), x) = Pair(Broken, o)
      BY <2>2, HearCases
    <3> HIDE DEF t
    <3>4. Heard(<<SOI>>, o, t) = Pair(Body(t), o)
      BY <2>1, <2>2, <3>1, <3>2, <3>3
    <3>5. QED  BY <2>3, <3>4 DEF t
  <2>6. QED  BY <2>4, <2>5
<1> HIDE DEF P, S
<1>3. \A s \in Seq(S) : s \in P
  BY <1>1, <1>2, H!AppendInduction
<1>4. QED  BY <1>3 DEF P, S

\* An unfinished frame from its SOI on.
LEMMA HearOpen ==
    ASSUME NEW o, NEW buf \in Seq(Symbols), buf # <<>>, H!IsOpen(buf)
    PROVE  Heard(<<>>, o, buf) = Pair(Essence(buf), o)
<1> DEFINE s == H!Rest(buf, 1)
           S == Symbols \ {EOI}
<1>1. Len(buf) \in Nat /\ Len(buf) >= 1 /\ 1 \in 1..Len(buf)
  BY EmptySeq
<1>2. buf[1] = SOI /\ \A i \in 1..Len(buf) : buf[i] \in S
  BY ElementOfSeq DEF H!IsOpen
<1>3. buf \in Seq(S)
  BY <1>1, <1>2, LenProperties
<1> HIDE DEF S
<1>4. /\ s \in Seq(S) /\ Len(s) = Len(buf) - 1
      /\ \A i \in 1..(Len(buf) - 1) : s[i] = buf[i + 1]
  BY <1>1, <1>3, H!RestIs
<1> HIDE DEF s
<1>5. SOI \in S /\ <<SOI>> \in Seq(S)
  BY <1>1, <1>2 DEF S
<1>6. buf = <<SOI>> \o s
  <2>1. <<SOI>> \o s \in Seq(S) /\ Len(<<SOI>> \o s) = Len(buf)
    BY <1>1, <1>4, <1>5, ConcatProperties
  <2>2. ASSUME NEW i \in 1..Len(buf) PROVE buf[i] = (<<SOI>> \o s)[i]
    <3>1. CASE i = 1
      BY <1>2, <1>4, <1>5, <3>1, ConcatProperties
    <3>2. CASE i # 1
      <4>1. i - 1 \in 1..(Len(buf) - 1) /\ (i - 1) + 1 = i /\ ~(i <= 1)
              /\ i \in 1..(1 + Len(s))
        BY <1>1, <1>4, <3>2
      <4>2. (<<SOI>> \o s)[i] = s[i - 1]
        BY <1>4, <1>5, <4>1, ConcatProperties
      <4>3. QED  BY <1>4, <4>1, <4>2
    <3>3. QED  BY <3>1, <3>2
  <2>3. QED  BY <1>3, <2>1, <2>2, SeqEqual
<1>7. Heard(<<>>, o, buf) = Heard(<<SOI>>, o, s)
  <2> DEFINE p == Pair(<<>>, o)
             q == Pair(<<SOI>>, o)
             r == <<SOI>>
  <2>0. r \in Seq(S)
    BY <1>5
  <2> HIDE DEF r
  <2>1. H!FoldLeft(Stream!Hear, p, r \o s) =
            H!FoldLeft(Stream!Hear, H!FoldLeft(Stream!Hear, p, r), s)
    BY <1>4, <2>0, H!FoldCat
  <2>2. H!FoldLeft(Stream!Hear, p, Append(<<>>, SOI)) = Stream!Hear(H!FoldLeft(Stream!Hear, p, <<>>), SOI)
    BY <1>5, EmptySeq, H!FoldAppend
  <2>3. H!FoldLeft(Stream!Hear, p, <<>>) = p
    BY H!FoldNil
  <2>4. Append(<<>>, SOI) = <<SOI>>
    OBVIOUS
  <2>5. Stream!Hear(p, SOI) = q
    BY HearCases
  <2> HIDE DEF p, q
  <2>6. H!FoldLeft(Stream!Hear, p, r) = q
    BY <2>2, <2>3, <2>4, <2>5 DEF r
  <2>7. QED  BY <1>6, <2>1, <2>6, Zenon DEF Heard, p, q, r
<1>8. Heard(<<SOI>>, o, s) = Pair(Body(s), o)
  BY <1>4, HearBody DEF S
<1> DEFINE n == Len(buf)
           m == Len(s)
<1>9. Body(s) = Essence(buf)
  <2>1. n \in Nat /\ n >= 1 /\ m = n - 1
    BY <1>1, <1>4
  <2>2. (s = <<>> <=> m = 0) /\ m \in Nat
    BY <1>4, EmptySeq, LenProperties
  <2> HIDE DEF n, m
  <2>3. CASE n = 1
    <3>1. s = <<>> /\ n <= 1
      BY <2>1, <2>2, <2>3
    <3>2. buf = <<SOI>>
      BY <1>5, <1>6, <3>1
    <3>3. QED  BY <3>1, <3>2, Zenon DEF Body, Essence, n
  <2>4. CASE n = 2
    <3>1. s # <<>> /\ m = 1 /\ ~(n <= 1) /\ 1 \in 1..(n - 1) /\ 1 + 1 = 2
      BY <2>1, <2>2, <2>4
    <3>2. s[1] = buf[2]
      BY <1>4, <3>1 DEF n
    <3>3. buf = <<SOI, buf[2]>>
      BY <1>2, <1>3, <2>4 DEF n
    <3>4. Essence(buf) = IF buf[2] \in Requests THEN buf ELSE Broken
      BY <2>4, <3>1, Zenon DEF Essence, Broken, n
    <3>5. Body(s) = IF buf[2] \in Requests THEN <<SOI, buf[2]>> ELSE Broken
      BY <3>1, <3>2, Zenon DEF Body, m
    <3>6. QED  BY <3>3, <3>4, <3>5
  <2>5. CASE n > 2
    <3>1. s # <<>> /\ m # 1 /\ ~(n <= 1) /\ n # 2
      BY <2>1, <2>2, <2>5
    <3>2. QED  BY <3>1, Zenon DEF Body, Essence, Broken, n, m
  <2>6. QED  BY <2>1, <2>3, <2>4, <2>5
<1>10. QED  BY <1>7, <1>8, <1>9

\* A frame with its EOI.
LEMMA HearClosed ==
    ASSUME NEW o, NEW buf \in Seq(Symbols), NEW e \in 1..Len(buf), H!Closes(buf, e)
    PROVE  Heard(<<>>, o, SubSeq(buf, 1, e)) =
               Pair(<<>>, IF H!Intact(buf, e) THEN Append(o, buf[2]) ELSE o)
<1> DEFINE pre == SubSeq(buf, 1, e - 1)
           n   == Len(pre)
<1>1. Len(buf) \in Nat
  BY LenProperties
<1>2. /\ buf[1] = SOI /\ buf[e] = EOI /\ SOI # EOI /\ SOI # Other
      /\ \A i \in 1..(e - 1) : buf[i] # EOI
  BY SymbolAssumption DEF H!Closes
<1>3. e - 1 \in 1..Len(buf) /\ e - 1 >= 1
  <2>1. e # 1
    BY <1>2
  <2>2. QED  BY <1>1, <2>1
<1>4. \A i \in 1..(e - 1) : buf[i] \in Symbols
  BY <1>1, <1>3, ElementOfSeq
<1>5. /\ pre \in Seq(Symbols) /\ n = e - 1
      /\ \A i \in 1..(e - 1) : pre[i] = buf[i]
  <2>1. /\ pre \in Seq(Symbols)
        /\ n = IF 1 <= e - 1 THEN e - 1 - 1 + 1 ELSE 0
        /\ \A i \in 1..(e - 1 - 1 + 1) : pre[i] = buf[1 + i - 1]
    BY <1>1, <1>3, <1>4, SubSeqProperties
  <2> HIDE DEF pre
  <2>2. n = e - 1
    BY <1>3, <2>1
  <2>3. \A i \in 1..(e - 1) : pre[i] = buf[i]
    BY <1>3, <2>1
  <2>4. QED  BY <2>1, <2>2, <2>3
<1>6. SubSeq(buf, 1, e) = Append(pre, EOI)
  <2>1. 1 \in 1..Len(buf) /\ e \in 1..Len(buf)
    BY <1>1, <1>3
  <2>2. SubSeq(buf, 1, e) = pre \o <<buf[e]>>
    BY <2>1, SubSeqRecursiveSecond
  <2>3. EOI \in Symbols
    BY DEF Symbols
  <2> HIDE DEF pre
  <2>4. Append(pre, EOI) = pre \o <<EOI>>
    BY <1>5, <2>3, AppendIsConcat
  <2>5. QED  BY <1>2, <2>2, <2>4
<1> HIDE DEF pre
<1>7. pre # <<>> /\ H!IsOpen(pre)
  <2>1. 1 \in 1..(e - 1)
    BY <1>3
  <2>2. pre # <<>>
    BY <1>3, <1>5
  <2>3. QED  BY <1>2, <1>5, <2>1, <2>2 DEF H!IsOpen
<1>8. Heard(<<>>, o, pre) = Pair(Essence(pre), o)
  BY <1>5, <1>7, HearOpen
<1>9. Heard(<<>>, o, SubSeq(buf, 1, e)) = Stream!Hear(Pair(Essence(pre), o), EOI)
  <2>1. EOI \in Symbols
    BY DEF Symbols
  <2>2. Heard(<<>>, o, Append(pre, EOI)) = Stream!Hear(Heard(<<>>, o, pre), EOI)
    BY <1>5, <2>1, H!FoldAppend DEF Heard
  <2>3. QED  BY <1>6, <1>8, <2>2
<1>10. pre[1] = SOI /\ n \in Nat /\ n >= 1
  <2>1. 1 \in 1..(e - 1)
    BY <1>3
  <2>2. QED  BY <1>2, <1>3, <1>5, <2>1
<1>11. CASE n = 1
  <2>1. pre = <<SOI>>
    BY <1>5, <1>10, <1>11
  <2>2. Essence(pre) = pre
    BY <1>11 DEF Essence
  <2>3. ~H!Intact(buf, e)
    <3> HIDE DEF n
    <3>1. e # 3
      BY <1>3, <1>5, <1>11
    <3>2. QED  BY <3>1 DEF H!Intact
  <2>4. Stream!Hear(Pair(<<SOI>>, o), EOI) = Pair(<<>>, o)
    BY HearCases
  <2>5. QED  BY <1>9, <2>1, <2>2, <2>3, <2>4
<1>12. CASE n = 2
  <2>1. 2 \in 1..(e - 1) /\ e = 3
    <3> HIDE DEF n
    <3>1. e = 3
      BY <1>3, <1>5, <1>12
    <3>2. QED  BY <3>1
  <2>2. pre = <<SOI, buf[2]>>
    BY <1>5, <1>10, <1>12, <2>1
  <2>3. Essence(pre) = IF buf[2] \in Requests THEN <<SOI, buf[2]>> ELSE Broken
    BY <1>12, <2>2 DEF Essence, Broken
  <2>4. H!Intact(buf, e) <=> buf[2] \in Requests
    BY <2>1 DEF H!Intact
  <2>5. \A y : Stream!Hear(Pair(<<SOI, y>>, o), EOI) =
                  Pair(<<>>, IF y # Other THEN Append(o, y) ELSE o)
    BY HearCases
  <2>6. Other \notin Requests
    BY SymbolAssumption
  <2>7. CASE buf[2] \in Requests
    BY <1>9, <2>3, <2>4, <2>5, <2>6, <2>7
  <2>8. CASE buf[2] \notin Requests
    BY <1>9, <2>3, <2>4, <2>5, <2>8 DEF Broken
  <2>9. QED  BY <2>7, <2>8
<1>13. CASE n > 2
  <2>1. ~(n <= 1) /\ n # 2 /\ e # 3
    <3> HIDE DEF n
    <3>1. QED  BY <1>3, <1>5, <1>10, <1>13
  <2>2. Essence(pre) = Broken
    BY <2>1, Zenon DEF Essence, Broken
  <2>3. Stream!Hear(Pair(<<SOI, Other>>, o), EOI) = Pair(<<>>, o)
    BY HearCases
  <2>4. QED  BY <1>9, <2>1, <2>2, <2>3 DEF Broken, H!Intact
<1>14. n = 1 \/ n = 2 \/ n > 2
  <2> HIDE DEF n
  <2>1. QED  BY <1>10
<1>15. QED  BY <1>11, <1>12, <1>13, <1>14

LEMMA HearSplit ==
    ASSUME NEW o, NEW buf \in Seq(Symbols), NEW d \in 1..Len(buf), NEW q,
           Heard(<<>>, o, SubSeq(buf, 1, d)) = Pair(<<>>, q)
    PROVE  Heard(<<>>, o, buf) = Heard(<<>>, q, H!Rest(buf, d))
<1> DEFINE a == SubSeq(buf, 1, d)
           b == H!Rest(buf, d)
<1>1. Len(buf) \in Nat
  BY LenProperties
<1>2. b \in Seq(Symbols)
  BY H!RestIs
<1>3. \A i \in 1..d : buf[i] \in Symbols
  BY <1>1, ElementOfSeq
<1>4. a \in Seq(Symbols)
  BY <1>1, <1>3, SubSeqProperties
<1>5. a \o b = buf
  <2>1. 1 \in 1..(Len(buf) + 1) /\ d \in (1 - 1)..Len(buf) /\ Len(buf) \in d..Len(buf)
    BY <1>1
  <2>2. SubSeq(buf, 1, d) \o SubSeq(buf, d + 1, Len(buf)) = SubSeq(buf, 1, Len(buf))
    BY <2>1, ConcatAdjacentSubSeq
  <2>3. SubSeq(buf, 1, Len(buf)) = buf
    BY SubSeqFull
  <2>4. QED  BY <2>2, <2>3 DEF H!Rest
<1> HIDE DEF a, b
<1> DEFINE p == Pair(<<>>, o)
<1> HIDE DEF p
<1>6. H!FoldLeft(Stream!Hear, p, a \o b) = H!FoldLeft(Stream!Hear, H!FoldLeft(Stream!Hear, p, a), b)
  BY <1>2, <1>4, H!FoldCat
<1>7. H!FoldLeft(Stream!Hear, p, a) = Pair(<<>>, q)
  BY Zenon DEF a, p, Heard
<1>8. QED  BY <1>5, <1>6, <1>7, Zenon DEF Heard, p, b

\* TakeFrames against FrameStream: the same requests, and what is left over has
\* the same future.
LEMMA HearTaken ==
    \A buf \in Seq(Symbols) :
        Len(buf) <= kRxBufLimit =>
            \A o \in Seq(Requests) :
                Heard(<<>>, o, buf) =
                    Pair(Essence(H!TakeFrames[buf].rest), o \o H!TakeFrames[buf].bodies)
<1> DEFINE Out(buf, o) == Pair(Essence(H!TakeFrames[buf].rest), o \o H!TakeFrames[buf].bodies)
           Same(buf) == \A o \in Seq(Requests) : Heard(<<>>, o, buf) = Out(buf, o)
           P == {buf \in Seq(Symbols) : Len(buf) <= kRxBufLimit => Same(buf)}
<1>1. ASSUME NEW buf \in Seq(Symbols), \A r \in Seq(Symbols) : Len(r) < Len(buf) => r \in P
      PROVE  buf \in P
  <2>1. SUFFICES ASSUME Len(buf) <= kRxBufLimit, NEW o \in Seq(Requests)
                 PROVE  Heard(<<>>, o, buf) = Out(buf, o)
    OBVIOUS
  <2>2. CASE buf = <<>>
    <3>1. H!TakeFrames[<<>>] = [rest |-> <<>>, bodies |-> <<>>]
      BY H!TakeNil
    <3>2. o \o <<>> = o /\ Essence(<<>>) = <<>>
      BY ConcatEmptySeq DEF Essence
    <3>3. Out(<<>>, o) = Pair(<<>>, o)
      BY <3>1, <3>2
    <3>4. Heard(<<>>, o, <<>>) = Pair(<<>>, o)
      BY H!FoldNil DEF Heard
    <3>5. QED  BY <2>2, <3>3, <3>4
  <2>3. CASE buf # <<>>
    <3>1. Len(buf) \in Nat /\ kRxBufLimit \in Nat /\ buf \in Seq(H!Symbols)
      BY BufferAssumption, LenProperties, SameTake
    <3>2. ASSUME NEW d \in 1..Len(buf), NEW q \in Seq(Requests)
          PROVE  Heard(<<>>, q, H!Rest(buf, d)) = Out(H!Rest(buf, d), q)
      <4>1. H!Rest(buf, d) \in Seq(Symbols) /\ Len(H!Rest(buf, d)) = Len(buf) - d
        BY H!RestIs
      <4>2. Len(H!Rest(buf, d)) < Len(buf) /\ Len(H!Rest(buf, d)) <= kRxBufLimit
        <5> DEFINE n == Len(buf)
                   m == Len(H!Rest(buf, d))
        <5>1. n \in Nat /\ m = n - d /\ d \in 1..n /\ n <= kRxBufLimit /\ kRxBufLimit \in Nat
          BY <2>1, <3>1, <4>1
        <5> HIDE DEF n, m
        <5>2. m < n /\ m <= kRxBufLimit
          BY <5>1
        <5>3. QED  BY <5>2 DEF n, m
      <4>3. Same(H!Rest(buf, d))
        BY <1>1, <4>1, <4>2
      <4>4. QED  BY <4>3
    <3>3. ASSUME NEW d \in 1..Len(buf), H!Junk(buf, d),
                 H!TakeFrames[buf] = H!TakeFrames[H!Rest(buf, d)]
          PROVE  Heard(<<>>, o, buf) = Out(buf, o)
      <4>1. SubSeq(buf, 1, d) \in Seq(Symbols \ {SOI})
        <5>1. \A i \in 1..d : buf[i] \in Symbols \ {SOI}
          BY <3>1, <3>3, ElementOfSeq DEF H!Junk
        <5>2. QED  BY <3>1, <5>1, SubSeqProperties
      <4>2. Heard(<<>>, o, SubSeq(buf, 1, d)) = Pair(<<>>, o)
        BY <4>1, HearJunk
      <4>3. Heard(<<>>, o, buf) = Heard(<<>>, o, H!Rest(buf, d))
        BY <4>2, HearSplit
      <4>4. QED  BY <3>2, <3>3, <4>3
    <3>4. ASSUME NEW e \in 1..Len(buf), H!Closes(buf, e), ~H!Intact(buf, e),
                 H!TakeFrames[buf] = H!TakeFrames[H!Rest(buf, e)]
          PROVE  Heard(<<>>, o, buf) = Out(buf, o)
      <4>1. Heard(<<>>, o, SubSeq(buf, 1, e)) = Pair(<<>>, o)
        BY <3>4, HearClosed
      <4>2. Heard(<<>>, o, buf) = Heard(<<>>, o, H!Rest(buf, e))
        BY <4>1, HearSplit
      <4>3. QED  BY <3>2, <3>4, <4>2
    <3>5. ASSUME NEW e \in 1..Len(buf), H!Closes(buf, e), H!Intact(buf, e),
                 H!TakeFrames[buf] =
                     [H!TakeFrames[H!Rest(buf, e)] EXCEPT !.bodies = <<buf[2]>> \o @]
          PROVE  Heard(<<>>, o, buf) = Out(buf, o)
      <4> DEFINE q == Append(o, buf[2])
                 tail == H!TakeFrames[H!Rest(buf, e)]
      <4>1. buf[2] \in Requests /\ q \in Seq(Requests)
        BY <3>5, AppendProperties DEF H!Intact
      <4>2. Heard(<<>>, o, SubSeq(buf, 1, e)) = Pair(<<>>, q)
        BY <3>5, HearClosed
      <4> HIDE DEF q
      <4>3. Heard(<<>>, o, buf) = Heard(<<>>, q, H!Rest(buf, e))
        BY <4>2, HearSplit
      <4>4. Heard(<<>>, o, buf) = Pair(Essence(tail.rest), q \o tail.bodies)
        BY <3>2, <4>1, <4>3
      <4>5. tail \in [rest : Seq(Symbols), bodies : Seq(Symbols \cap Requests)]
        <5>1. H!Rest(buf, e) \in Seq(Symbols)
          BY H!RestIs
        <5>2. Symbols \in SUBSET H!Symbols
          BY SameTake
        <5>3. QED  BY <3>1, <5>1, <5>2, H!TakeType
      <4> HIDE DEF tail
      <4>6. tail.bodies \in Seq(Requests)
        BY <4>5, SeqMonotonic
      <4>7. H!TakeFrames[buf].rest = tail.rest /\ H!TakeFrames[buf].bodies = <<buf[2]>> \o tail.bodies
        BY <3>5, <4>5 DEF tail
      <4>8. q \o tail.bodies = o \o (<<buf[2]>> \o tail.bodies)
        <5>1. <<buf[2]>> \in Seq(Requests)
          BY <4>1
        <5>2. q = o \o <<buf[2]>>
          BY <4>1, AppendIsConcat DEF q
        <5> DEFINE r == <<buf[2]>>
                   b == tail.bodies
        <5>3. r \in Seq(Requests) /\ q = o \o r /\ b \in Seq(Requests)
          BY <4>6, <5>1, <5>2
        <5> HIDE DEF r, b
        <5>4. (o \o r) \o b = o \o (r \o b)
          BY <5>3, ConcatAssociative
        <5>5. QED  BY <5>3, <5>4, Zenon DEF r, b
      <4>9. QED  BY <4>4, <4>7, <4>8
    <3>6. ASSUME H!IsOpen(buf), H!TakeFrames[buf] = [rest |-> buf, bodies |-> <<>>]
          PROVE  Heard(<<>>, o, buf) = Out(buf, o)
      <4>1. o \o <<>> = o
        BY ConcatEmptySeq
      <4>2. Out(buf, o) = Pair(Essence(buf), o)
        BY <3>6, <4>1
      <4>3. QED  BY <2>3, <3>6, <4>2, HearOpen
    <3>7. ~(Len(buf) > kRxBufLimit)
      BY <2>1, <3>1
    <3> HIDE DEF Out
    <3>8. QED  BY <2>3, <3>1, <3>3, <3>4, <3>5, <3>6, <3>7, H!TakeCases
  <2>4. QED  BY <2>2, <2>3
<1> HIDE DEF P
<1>2. \A buf \in Seq(Symbols) : buf \in P
  BY <1>1, H!LengthInduction
<1>3. QED  BY <1>2 DEF P

\* One read, whether the buffer was kept or dropped: the request symbols of the
\* chunk, and what is left of it, are those that FrameStream tells.
TakenFrom(in) ==
    LET end == Stream!FoldLeft(Stream!Hear, [in |-> in, out |-> <<>>], chunk')
    IN  Essence(rx)' = end.in /\ heard' = end.out

\* A buffer at rest is empty or the start of one frame, within its limit.
RxInv ==
    /\ rx \in Seq(Symbols)
    /\ rx # <<>> => H!IsOpen(rx) /\ Len(rx) <= kRxBufLimit

LEMMA TakeAs == \A in : TakenFrom(in) <=> Stream!Take(in)
BY Zenon DEF TakenFrom, Stream!Take

LEMMA TakenOf ==
    ASSUME NEW in, NEW rest, NEW bodies,
           Heard(in, <<>>, chunk') = Pair(Essence(rest), bodies),
           rx' = rest, heard' = bodies
    PROVE  TakenFrom(in)
<1>1. Stream!FoldLeft(Stream!Hear, [in |-> in, out |-> <<>>], chunk') =
          Pair(Essence(rest), bodies)
  BY HearFold, Zenon DEF Heard, Pair
<1>2. Essence(rx)' = Essence(rest)
  BY DEF Essence
<1>3. Pair(Essence(rest), bodies).in = Essence(rest) /\ Pair(Essence(rest), bodies).out = bodies
  BY DEF Pair
<1>4. QED  BY <1>1, <1>2, <1>3, Zenon DEF TakenFrom

\* A buffer that is processed keeps RxInv, and hears what FrameStream hears.
LEMMA Processed ==
    ASSUME NEW buf \in Seq(Symbols), Len(buf) <= kRxBufLimit
    PROVE  /\ process_buffer(buf).rest \in Seq(Symbols)
           /\ process_buffer(buf).rest # <<>> =>
                  /\ H!IsOpen(process_buffer(buf).rest)
                  /\ Len(process_buffer(buf).rest) <= kRxBufLimit
           /\ Heard(<<>>, <<>>, buf) =
                  Pair(Essence(process_buffer(buf).rest), process_buffer(buf).bodies)
<1> DEFINE t == H!TakeFrames[buf]
<1>1. process_buffer(buf) = t
  BY SameTake DEF process_buffer
<1>2. kRxBufLimit \in Nat /\ Symbols \in SUBSET H!Symbols
  BY BufferAssumption, SameTake
<1>3. /\ t \in [rest : Seq(Symbols), bodies : Seq(Symbols \cap Requests)]
      /\ t.rest # <<>> => H!IsOpen(t.rest) /\ Len(t.rest) <= kRxBufLimit
  BY <1>2, H!TakeType
<1>4. <<>> \in Seq(Requests)
  BY EmptySeq
<1>5. Heard(<<>>, <<>>, buf) = Pair(Essence(t.rest), <<>> \o t.bodies)
  BY <1>4, HearTaken
<1> HIDE DEF t
<1>6. <<>> \o t.bodies = t.bodies
  <2>1. t.bodies \in Seq(Symbols \cap Requests)
    BY <1>3
  <2>2. QED  BY <2>1, ConcatEmptySeq
<1>7. QED  BY <1>1, <1>3, <1>5, <1>6

\* on_bytes() with room in the buffer: the stream goes on.  Otherwise the buffer
\* held more than the start of a frame that can still become intact.
LEMMA ReadHears ==
    RxInv /\ on_bytes => RxInv' /\ Stream!StreamNext
<1> SUFFICES ASSUME RxInv, on_bytes PROVE RxInv' /\ Stream!StreamNext
  OBVIOUS
<1> DEFINE c    == chunk'
           full == Len(rx) + Len(c) > kRxBufLimit
           buf  == IF full THEN c ELSE rx \o c
<1>1. c \in Chunks /\ rx' = process_buffer(buf).rest /\ heard' = process_buffer(buf).bodies
  BY DEF on_bytes
<1>2. c \in Seq(Symbols) /\ c # <<>> /\ Len(c) + 2 <= kRxBufLimit /\ kRxBufLimit \in Nat
  BY <1>1, BufferAssumption, SymbolAssumption
<1>3. rx \in Seq(Symbols) /\ Len(rx) \in Nat /\ Len(c) \in Nat
  BY <1>2, LenProperties DEF RxInv
<1> HIDE DEF c
<1>4. rx \o c \in Seq(Symbols) /\ Len(rx \o c) = Len(rx) + Len(c)
  BY <1>2, <1>3, ConcatProperties
<1>5. buf \in Seq(Symbols) /\ Len(buf) <= kRxBufLimit
  <2> DEFINE n == Len(rx)
             m == Len(c)
  <2>1. n \in Nat /\ m \in Nat /\ kRxBufLimit \in Nat /\ m + 2 <= kRxBufLimit
    BY <1>2, <1>3
  <2>2. CASE full
    <3>1. m <= kRxBufLimit
      <4> HIDE DEF n, m
      <4>1. QED  BY <2>1
    <3>2. QED  BY <1>2, <2>2, <3>1
  <2>3. CASE ~full
    <3>1. n + m <= kRxBufLimit
      <4>1. ~(n + m > kRxBufLimit)
        BY <2>3
      <4> HIDE DEF n, m
      <4>2. QED  BY <2>1, <4>1
    <3>2. QED  BY <1>4, <2>3, <3>1
  <2>4. QED  BY <2>2, <2>3
<1> HIDE DEF buf
<1> DEFINE out == process_buffer(buf)
<1>6. /\ out.rest \in Seq(Symbols)
      /\ out.rest # <<>> => H!IsOpen(out.rest) /\ Len(out.rest) <= kRxBufLimit
      /\ Heard(<<>>, <<>>, buf) = Pair(Essence(out.rest), out.bodies)
  BY <1>5, Processed
<1> HIDE DEF out
<1>7. rx' = out.rest /\ heard' = out.bodies
  BY <1>1 DEF out
<1>8. RxInv'
  BY <1>6, <1>7 DEF RxInv, H!IsOpen
<1>9. CASE full
  <2>1. buf = c
    BY <1>9 DEF buf
  <2>2. TakenFrom(<<>>)
    BY <1>6, <1>7, <2>1, TakenOf DEF c
  <2>3. Essence(rx) = Broken
    <3> DEFINE n == Len(rx)
               m == Len(c)
    <3>1. n + m > kRxBufLimit /\ n \in Nat /\ m \in Nat /\ m + 2 <= kRxBufLimit
      BY <1>2, <1>3, <1>9
    <3> HIDE DEF n, m
    <3>2. ~(n <= 1) /\ n # 2
      BY <1>2, <3>1
    <3>3. QED  BY <3>2, Zenon DEF Essence, Broken, n
  <2>4. Stream!Take(<<>>)
    BY <2>2, TakeAs
  <2>5. Stream!StreamNext
    BY <1>2, <2>3, <2>4 DEF Stream!StreamNext, Stream!Broken, Broken, c
  <2>6. QED  BY <1>8, <2>5
<1>10. CASE ~full
  <2>1. buf = rx \o c
    BY <1>10 DEF buf
  <2>2. Heard(<<>>, <<>>, rx) = Pair(Essence(rx), <<>>)
    <3>1. CASE rx = <<>>
      <4>1. Essence(rx) = <<>> /\ Heard(<<>>, <<>>, <<>>) = Pair(<<>>, <<>>)
        BY <3>1, H!FoldNil DEF Essence, Heard
      <4>2. QED  BY <3>1, <4>1
    <3>2. CASE rx # <<>>
      BY <1>3, <3>2, HearOpen DEF RxInv
    <3>3. QED  BY <3>1, <3>2
  <2>3. Heard(Essence(rx), <<>>, c) = Heard(<<>>, <<>>, buf)
    <3> DEFINE p == Pair(<<>>, <<>>)
               q == Pair(Essence(rx), <<>>)
    <3>1. H!FoldLeft(Stream!Hear, p, rx) = q
      BY <2>2 DEF Heard
    <3> HIDE DEF p, q
    <3>2. H!FoldLeft(Stream!Hear, p, rx \o c) =
              H!FoldLeft(Stream!Hear, H!FoldLeft(Stream!Hear, p, rx), c)
      BY <1>2, <1>3, H!FoldCat
    <3>3. QED  BY <2>1, <3>1, <3>2, Zenon DEF Heard, p, q
  <2>4. TakenFrom(Essence(rx))
    BY <1>6, <1>7, <2>3, TakenOf DEF c
  <2>5. Stream!StreamNext
    BY <2>4, TakeAs DEF Stream!StreamNext
  <2>6. QED  BY <1>8, <2>5
<1>11. QED  BY <1>9, <1>10

\* The other steps read nothing, and leave the buffer alone.
LEMMA QuietHears ==
    RxInv /\ Quiet /\ rx' = rx => RxInv' /\ Stream!StreamNext
<1> SUFFICES ASSUME RxInv, Quiet, rx' = rx PROVE RxInv' /\ Stream!StreamNext
  OBVIOUS
<1>1. RxInv'
  BY DEF RxInv, H!IsOpen
<1>2. Heard(Essence(rx), <<>>, <<>>) = Pair(Essence(rx), <<>>)
  BY H!FoldNil DEF Heard
<1>3. TakenFrom(Essence(rx))
  BY <1>2, TakenOf DEF Quiet
<1>4. QED  BY <1>1, <1>3, TakeAs DEF Stream!StreamNext

\* Every step of the receiver is one of FrameStream.
LEMMA StepHears ==
    RxInv /\ [Next]_vars => RxInv' /\ [Stream!StreamNext]_Stream!streamVars
<1> SUFFICES ASSUME RxInv, [Next]_vars
             PROVE  RxInv' /\ [Stream!StreamNext]_Stream!streamVars
  OBVIOUS
<1>1. ASSUME Quiet, rx' = rx PROVE RxInv' /\ Stream!StreamNext
  BY <1>1, QuietHears
<1>2. CASE on_bytes
  BY <1>2, ReadHears
<1>3. CASE on_read_error \/ on_reopen_tick \/ Replug \/ Tick
  BY <1>1, <1>3 DEF on_read_error, on_reopen_tick, Replug, Tick
<1>4. ASSUME NEW b \in Batteries, NEW v \in BOOLEAN, set_connected(b, v)
      PROVE  RxInv' /\ Stream!StreamNext
  BY <1>1, <1>4 DEF set_connected, SetState
<1>5. ASSUME NEW b \in Batteries, NEW p \in Packs, apply_telemetry(b, p)
      PROVE  RxInv' /\ Stream!StreamNext
  BY <1>1, <1>5 DEF apply_telemetry
<1>6. ASSUME NEW b \in Batteries, NEW s \in Limits, apply_settings(b, s)
      PROVE  RxInv' /\ Stream!StreamNext
  BY <1>1, <1>6 DEF apply_settings, SetState
<1>7. CASE UNCHANGED vars
  BY <1>7 DEF vars, RxInv, H!IsOpen, Essence, Stream!streamVars
<1>8. QED  BY <1>2, <1>3, <1>4, <1>5, <1>6, <1>7 DEF Next

\* Whatever the inverter sends, however the line is cut into reads and wherever
\* the port is lost and opened again, the buffer of on_bytes() with its limit
\* hears what FrameStream lets a receiver hear.
THEOREM HearsSafe == Spec => HearsTheStream
<1>1. Init => RxInv /\ Stream!StreamInit
  BY EmptySeq DEF Init, RxInv, Essence, Stream!StreamInit
<1>2. QED
  BY <1>1, StepHears, PTL DEF Spec, HearsTheStream, Stream!StreamSpec
=============================================================================
