-------------------------- MODULE MpuRegionTheorems --------------------------
(***************************************************************************)
(* Word arithmetic, alignment and regions, for every word and granule size. *)
(***************************************************************************)
EXTENDS MpuRegion, WellFoundedInduction, TLAPS

(* Division with remainder.                                                *)
LEMMA DivMod ==
    ASSUME NEW a \in Int, NEW b \in Nat \ {0}
    PROVE  /\ a \div b \in Int
           /\ a % b \in Nat /\ a % b < b
           /\ a = b * (a \div b) + (a % b)
BY SMT

LEMMA DivNat ==
    ASSUME NEW a \in Nat, NEW b \in Nat \ {0}
    PROVE  /\ a \div b \in Nat
           /\ a \div b <= a
           /\ a % b <= a
BY SMT

(* The quotient is the only one: b * q <= a < b * (q + 1).                 *)
LEMMA DivUnique ==
    ASSUME NEW a \in Int, NEW b \in Nat \ {0}, NEW q \in Int,
           b * q <= a, a < b * q + b
    PROVE  a \div b = q /\ a % b = a - b * q
BY SMT

LEMMA ModOnce ==
    ASSUME NEW a \in Nat, NEW b \in Nat \ {0}, b <= a, a < 2 * b
    PROVE  a % b = a - b
BY SMT

(* Multiples: exact quotients, sums, products, and the gap between two.    *)
LEMMA ExactQuotient ==
    ASSUME NEW a \in Nat, NEW b \in Nat \ {0}, a % b = 0
    PROVE  a \div b \in Nat /\ a = b * (a \div b)
BY SMT

LEMMA Multiple ==
    ASSUME NEW k \in Nat, NEW b \in Nat \ {0}
    PROVE  (b * k) % b = 0 /\ (b * k) \div b = k
<1>1. b * k \in Int /\ b * k <= b * k /\ b * k < b * k + b
  OBVIOUS
<1> QED
  BY <1>1, DivUnique

LEMMA MultipleSum ==
    ASSUME NEW a \in Nat, NEW c \in Nat, NEW b \in Nat \ {0}, a % b = 0, c % b = 0
    PROVE  (a + c) % b = 0
<1>1. PICK i \in Nat, j \in Nat : a = b * i /\ c = b * j
  BY ExactQuotient
<1>2. a + c = b * (i + j) /\ i + j \in Nat
  BY <1>1
<1> QED
  BY <1>2, Multiple

LEMMA MultipleProduct ==
    ASSUME NEW a \in Nat, NEW k \in Nat, NEW b \in Nat \ {0}, a % b = 0
    PROVE  (k * a) % b = 0
<1>1. PICK i \in Nat : a = b * i
  BY ExactQuotient
<1>2. k * a = b * (k * i) /\ k * i \in Nat
  BY <1>1
<1> QED
  BY <1>2, Multiple

LEMMA MultipleGap ==
    ASSUME NEW a \in Nat, NEW c \in Nat, NEW b \in Nat \ {0},
           a % b = 0, c % b = 0, a < c
    PROVE  a + b <= c
<1>1. PICK i \in Nat, j \in Nat : a = b * i /\ c = b * j
  BY ExactQuotient
<1>2. i < j
  BY <1>1
<1>3. b * i + b <= b * j
  BY <1>2
<1> QED
  BY <1>1, <1>3

LEMMA ProductMonotonic ==
    ASSUME NEW i \in Nat, NEW j \in Nat, NEW b \in Nat, i <= j
    PROVE  i * b <= j * b
BY SMT

LEMMA Constants ==
    /\ WordSize \in Nat \ {0}
    /\ Granule \in Nat \ {0}
    /\ Granule >= 2
    /\ 8 * Granule <= WordSize
    /\ \A p \in PowersOfTwo : p \in Nat \ {0}
BY WordAssumption

(* A wrapped value is an address, and a value in range does not wrap.      *)
LEMMA WrapAddress ==
    ASSUME NEW x \in Int
    PROVE  /\ Wrap(x) \in Addresses
           /\ x \in Addresses => Wrap(x) = x
BY Constants, DivMod, DivUnique DEF Wrap, Addresses

LEMMA AlignDownAddress ==
    ASSUME NEW x \in Addresses, NEW size \in Nat
    PROVE  AlignDown(x, size) \in Addresses /\ AlignDown(x, size) <= x
<1>1. CASE size = 0
  BY <1>1, Constants DEF AlignDown, Addresses
<1>2. CASE size # 0
  <2>1. x \in Nat /\ size \in Nat \ {0}
    BY <1>2, Constants DEF Addresses
  <2>2. x % size \in Nat /\ x % size <= x
    BY <2>1
  <2>3. AlignDown(x, size) = x - (x % size)
    BY <1>2 DEF AlignDown
  <2> QED
    BY <2>1, <2>2, <2>3, Constants DEF Addresses
<1> QED
  BY <1>1, <1>2

------------------------------------------------------------------------------
(* Half of a power of two, and twice one, are powers of two.               *)
LEMMA HalfPower ==
    ASSUME NEW p \in PowersOfTwo, p # 1
    PROVE  p \div 2 \in PowersOfTwo /\ p = 2 * (p \div 2)
BY WordAssumption

LEMMA DoublePower ==
    ASSUME NEW p \in PowersOfTwo, 2 * p <= WordSize
    PROVE  2 * p \in PowersOfTwo
<1>1. p \in Nat \ {0}
  BY Constants
<1>2. PICK q \in PowersOfTwo : 2 * p <= q /\ q < 4 * p
  <2>1. 2 * p \in 1 .. WordSize
    BY <1>1, Constants
  <2>2. \E q \in PowersOfTwo : 2 * p <= q /\ q < 2 * (2 * p)
    BY <2>1, WordAssumption
  <2> QED
    BY <1>1, <2>2, Constants
<1>3. /\ q \div 2 \in PowersOfTwo
      /\ q = 2 * (q \div 2)
      /\ q \div 2 \in Nat
  BY <1>1, <1>2, HalfPower, Constants
<1>4. p <= q \div 2 /\ q \div 2 < 2 * p
  BY <1>1, <1>2, <1>3, Constants
<1>5. (q \div 2) % p = 0
  BY <1>3, <1>4, WordAssumption
<1>6. (q \div 2) % p = (q \div 2) - p
  BY <1>1, <1>3, <1>4, ModOnce
<1> QED
  BY <1>1, <1>2, <1>3, <1>5, <1>6

(* CeilingPower is defined for every size up to the word.                  *)
LEMMA CeilingPowerType ==
    ASSUME NEW x \in 1 .. WordSize
    PROVE  /\ CeilingPower(x) \in PowersOfTwo
           /\ x <= CeilingPower(x)
           /\ CeilingPower(x) < 2 * x
<1>1. \E p \in PowersOfTwo : x <= p /\ p < 2 * x
  BY WordAssumption
<1> QED
  BY <1>1 DEF CeilingPower

------------------------------------------------------------------------------
(***************************************************************************)
(* Regions                                                                 *)
(***************************************************************************)
(* A smaller power of two divides a larger one.                            *)
LEMMA PowerDivides ==
    ASSUME NEW p \in PowersOfTwo, NEW q \in PowersOfTwo, p <= q
    PROVE  q % p = 0
BY WordAssumption

(* Subregion sizes whose region fits the address space, and those larger.  *)
LEMMA EightFold ==
    ASSUME NEW sub \in PowersOfTwo, 8 * sub <= WordSize
    PROVE  8 * sub \in PowersOfTwo /\ WordSize % (8 * sub) = 0
<1>1. sub \in Nat \ {0} /\ WordSize \in PowersOfTwo
  BY Constants, WordAssumption
<1>2. 2 * sub \in PowersOfTwo
  BY <1>1, DoublePower, Constants
<1>3. 2 * (2 * sub) \in PowersOfTwo
  BY <1>1, <1>2, DoublePower, Constants
<1>4. 2 * (2 * (2 * sub)) \in PowersOfTwo
  BY <1>1, <1>3, DoublePower, Constants
<1>5. 8 * sub = 2 * (2 * (2 * sub))
  BY <1>1
<1> QED
  BY <1>1, <1>4, <1>5, PowerDivides

(* A smaller multiple of a subregion's size is at least one subregion away *)
(* from the end of the address space.                                      *)
LEMMA GapToTop ==
    ASSUME NEW p \in PowersOfTwo, p <= WordSize,
           NEW z \in Nat, (z % p) = 0, z < WordSize
    PROVE  z + p <= WordSize
<1>1. p \in Nat \ {0} /\ WordSize \in Nat /\ WordSize \in PowersOfTwo
  BY Constants, WordAssumption
<1>2. (WordSize % p) = 0
  BY <1>1, PowerDivides
<1> QED
  BY <1>1, <1>2, MultipleGap

(* An entry maps nothing outside its enabled subregions.                   *)
LEMMA MappedBounds ==
    ASSUME NEW e, NEW base \in Nat, NEW sub \in Nat \ {0}, NEW i \in Nat, NEW k \in Nat,
           RegionBase(e) = base, SubregionBytes(e) = sub,
           Subregions \ e.srd \subseteq i .. i + k - 1
    PROVE  Mapped(e) \subseteq base + i * sub .. base + i * sub + k * sub - 1
<1> SUFFICES ASSUME NEW j \in Subregions \ e.srd, NEW x \in Subregion(e, j)
             PROVE  x \in base + i * sub .. base + i * sub + k * sub - 1
  BY DEF Mapped
<1>1. j \in Nat /\ i <= j /\ j + 1 <= i + k
  BY DEF Subregions
<1>2. x \in base + j * sub .. base + (j + 1) * sub - 1
  BY DEF Subregion
<1>3. i * sub <= j * sub /\ (j + 1) * sub <= (i + k) * sub
  <2>1. j + 1 \in Nat /\ i + k \in Nat
    BY <1>1
  <2> QED
    BY <1>1, <2>1, ProductMonotonic
<1>4. (i + k) * sub = i * sub + k * sub
  BY <1>1
<1> DEFINE a == i * sub
           b == k * sub
           c == j * sub
           d == (j + 1) * sub
<1>5. a \in Nat /\ b \in Nat /\ c \in Nat /\ d \in Nat
  BY <1>1
<1>6. a <= c /\ d <= a + b /\ x \in base + c .. base + d - 1
  BY <1>2, <1>3, <1>4
<1> HIDE DEF a, b, c, d
<1>7. x \in base + a .. base + a + b - 1
  BY <1>5, <1>6
<1> QED
  BY <1>7 DEF a, b

(* An entry maps all of its enabled subregions.                            *)
LEMMA MappedCovers ==
    ASSUME NEW e, NEW base \in Nat, NEW sub \in Nat \ {0}, NEW i \in Nat, NEW k \in Nat,
           i + k <= 8, RegionBase(e) = base, SubregionBytes(e) = sub,
           e.srd \cap (i .. i + k - 1) = {}
    PROVE  base + i * sub .. base + i * sub + k * sub - 1 \subseteq Mapped(e)
<1> SUFFICES ASSUME NEW x \in base + i * sub .. base + i * sub + k * sub - 1
             PROVE  x \in Mapped(e)
  OBVIOUS
<1> DEFINE a == i * sub
           b == k * sub
           y == x - base
           j == y \div sub
           r == y % sub
           c == j * sub
<1>1. a \in Nat /\ b \in Nat
  OBVIOUS
<1>2. y \in Nat /\ a <= y /\ y < a + b
  <2> HIDE DEF a, b
  <2> QED
    BY <1>1 DEF a, b
<1> HIDE DEF y
<1>3. j \in Nat /\ r \in Nat /\ r < sub /\ y = sub * j + r
  BY <1>2, DivMod, DivNat
<1> HIDE DEF j, r
<1>4. c \in Nat /\ y = c + r
  BY <1>3
<1>5. i <= j
  <2> SUFFICES ASSUME j + 1 <= i PROVE FALSE
    BY <1>3
  <2>1. (j + 1) * sub <= i * sub /\ (j + 1) * sub = c + sub
    BY <1>3, ProductMonotonic
  <2> HIDE DEF a, b, c
  <2> QED
    BY <1>1, <1>2, <1>3, <1>4, <2>1 DEF a
<1>6. j < i + k
  <2> SUFFICES ASSUME i + k <= j PROVE FALSE
    BY <1>3
  <2>1. (i + k) * sub <= j * sub /\ (i + k) * sub = a + b
    BY <1>3, ProductMonotonic
  <2> HIDE DEF a, b, c
  <2> QED
    BY <1>1, <1>2, <1>3, <1>4, <2>1 DEF c
<1>7. j \in Subregions \ e.srd
  <2>1. j \in i .. i + k - 1 /\ j \in 0 .. 7
    BY <1>3, <1>5, <1>6
  <2> QED
    BY <2>1 DEF Subregions
<1>8. x \in Subregion(e, j)
  <2>1. (j + 1) * sub = c + sub
    BY <1>3
  <2>2. x = base + y /\ x \in Int
    BY DEF y
  <2> HIDE DEF c
  <2>3. x \in base + c .. base + (c + sub) - 1
    BY <1>3, <1>4, <2>2
  <2> QED
    BY <2>1, <2>3 DEF Subregion, c
<1> QED
  BY <1>7, <1>8 DEF Mapped

------------------------------------------------------------------------------
(***************************************************************************)
(* The largest piece of a range                                            *)
(***************************************************************************)
(* Every nonempty set of numbers has a least one.                          *)
LEMMA LeastElement ==
    ASSUME NEW T \in SUBSET Nat, T # {}
    PROVE  \E x \in T : \A y \in T : x <= y
<1> DEFINE R == OpToRel(<, Nat)
<1>1. IsWellFoundedOn(R, Nat)
  BY NatLessThanWellFounded
<1>2. \A x, y \in Nat : x < y => <<x, y>> \in R
  BY DEF OpToRel
<1> HIDE DEF R
<1>3. PICK x \in T : \A y \in T : ~ (<<y, x>> \in R)
  BY <1>1, WFMin
<1>4. ASSUME NEW y \in T PROVE x <= y
  <2>1. x \in Nat /\ y \in Nat /\ ~(y < x)
    BY <1>2, <1>3
  <2> QED
    BY <2>1
<1> QED
  BY <1>4

(* No power of two lies between a half and the whole of another one.       *)
LEMMA NoneBetween ==
    ASSUME NEW p \in PowersOfTwo, NEW q \in PowersOfTwo, p < 2 * q
    PROVE  p <= q
<1>1. p \in Nat \ {0} /\ q \in Nat \ {0}
  BY Constants
<1> SUFFICES ASSUME q < p PROVE FALSE
  BY <1>1
<1>2. (p % q) = 0 /\ (q % q) = 0
  BY <1>1, PowerDivides
<1>3. q + q <= p
  BY <1>1, <1>2, MultipleGap
<1> QED
  BY <1>1, <1>3

(* A multiple of a power of two is one of every smaller power of two.      *)
LEMMA MultipleOfSmaller ==
    ASSUME NEW p \in PowersOfTwo, NEW q \in PowersOfTwo, p <= q,
           NEW z \in Nat, (z % q) = 0
    PROVE  (z % p) = 0
<1>1. p \in Nat \ {0} /\ q \in Nat \ {0}
  BY Constants
<1>2. (q % p) = 0
  BY PowerDivides
<1> DEFINE d == z \div q
<1>3. d \in Nat /\ z = q * d
  BY <1>1, ExactQuotient
<1> HIDE DEF d
<1>4. ((d * q) % p) = 0
  BY <1>1, <1>2, <1>3, MultipleProduct
<1>5. d * q = z
  BY <1>1, <1>3
<1> QED
  BY <1>4, <1>5

(* The gap between two multiples is a multiple.                            *)
LEMMA MultipleDifference ==
    ASSUME NEW a \in Nat, NEW c \in Nat, NEW b \in Nat \ {0},
           (a % b) = 0, (c % b) = 0, a <= c
    PROVE  c - a \in Nat /\ ((c - a) % b) = 0
<1>1. PICK i \in Nat, j \in Nat : a = b * i /\ c = b * j
  BY ExactQuotient
<1>2. i <= j
  BY <1>1
<1>3. j - i \in Nat /\ b * (j - i) = c - a
  BY <1>1, <1>2
<1>4. ((b * (j - i)) % b) = 0
  BY <1>3, Multiple
<1> QED
  BY <1>3, <1>4

(* The power of two at or below a number.                                  *)
LEMMA FloorPower ==
    ASSUME NEW n \in Nat \ {0}, n < WordSize
    PROVE  \E p \in PowersOfTwo : 2 * p \in PowersOfTwo /\ p <= n /\ n < 2 * p
<1>1. n + 1 \in 1 .. WordSize
  BY Constants
<1> DEFINE c == CeilingPower(n + 1)
<1>2. c \in PowersOfTwo /\ n + 1 <= c /\ c < 2 * (n + 1)
  BY <1>1, CeilingPowerType
<1> HIDE DEF c
<1>3. c # 1 /\ c \in Nat
  BY <1>2, Constants
<1>4. c \div 2 \in PowersOfTwo /\ c = 2 * (c \div 2)
  BY <1>2, <1>3, HalfPower
<1> DEFINE p == c \div 2
<1>5. p \in PowersOfTwo /\ p \in Nat /\ c = 2 * p
  BY <1>4, Constants
<1> HIDE DEF p
<1>6. p <= n /\ n < 2 * p
  BY <1>2, <1>3, <1>5
<1> QED
  BY <1>2, <1>5, <1>6

(* Subregions next to each other: what one entry of this size can map.     *)
Piece(sub, first, next) ==
    /\ sub \in PowersOfTwo /\ Granule <= sub /\ 8 * sub <= WordSize
    /\ first \in Nat /\ next \in Nat /\ first < next
    /\ (first % sub) = 0 /\ (next % sub) = 0
    /\ \E base \in Nat : /\ (base % (8 * sub)) = 0 /\ base + 8 * sub <= WordSize
                         /\ base <= first /\ next <= base + 8 * sub

(* No piece of the range start .. limit - 1 is longer.                     *)
Longest(start, limit, size) ==
    \A sub \in PowersOfTwo, first, next \in Nat :
        Piece(sub, first, next) /\ start <= first /\ next <= limit => next - first <= size

(* The piece first .. next - 1 is one of the longest of the range.         *)
Picked(start, limit, first, next) ==
    /\ start \in Nat /\ limit \in Nat /\ limit <= WordSize
    /\ (start % Granule) = 0 /\ (limit % Granule) = 0
    /\ start <= first /\ next <= limit
    /\ \E sub \in PowersOfTwo : Piece(sub, first, next)
    /\ Longest(start, limit, next - first)

(* The range start .. limit - 1 ends (begins) at a multiple of power and is *)
(* shorter than it.                                                        *)
EndsBelow(start, limit, power) == (limit % power) = 0 /\ limit - start < power
StartsBelow(start, limit, power) == (start % power) = 0 /\ limit - start < power

(* At most an eighth, or nothing but a part of a granule.                  *)
Eighth(small, power) ==
    small \in PowersOfTwo /\ Granule <= small /\ (small = Granule \/ 8 * small <= power)

LEMMA NextMultiple ==
    ASSUME NEW z \in Nat, NEW p \in Nat \ {0}
    PROVE  \E x \in Nat : (x % p) = 0 /\ z <= x /\ x < z + p
<1> DEFINE k == (z + (p - 1)) \div p
           r == (z + (p - 1)) % p
<1>1. k \in Nat /\ r \in Nat /\ r < p /\ z + (p - 1) = p * k + r
  <2>1. z + (p - 1) \in Nat
    OBVIOUS
  <2> QED
    BY <2>1, DivMod, DivNat
<1> HIDE DEF k, r
<1> DEFINE x == p * k
<1>2. x \in Nat /\ (x % p) = 0
  <2>1. p * k \in Nat
    BY <1>1
  <2>2. ((p * k) % p) = 0
    BY <1>1, Multiple
  <2> QED
    BY <2>1, <2>2
<1> HIDE DEF x
<1>3. z <= x /\ x < z + p
  BY <1>1, <1>2 DEF x
<1> QED
  BY <1>2, <1>3

LEMMA LastMultiple ==
    ASSUME NEW z \in Nat, NEW p \in Nat \ {0}
    PROVE  \E x \in Nat : (x % p) = 0 /\ x <= z /\ z < x + p
<1> DEFINE x == p * (z \div p)
<1>1. x \in Nat /\ (x % p) = 0 /\ x <= z /\ z < x + p
  <2>1. z \div p \in Nat /\ (z % p) \in Nat /\ (z % p) < p /\ z = p * (z \div p) + (z % p)
    BY DivMod, DivNat
  <2>2. x \in Nat /\ (x % p) = 0
    BY <2>1, Multiple
  <2> DEFINE r == z % p
  <2>3. r \in Nat /\ r < p /\ z = x + r
    BY <2>1
  <2> HIDE DEF x, r
  <2> QED
    BY <2>2, <2>3
<1> QED
  BY <1>1

(* What a pick and the size of its subregions are made of.                 *)
LEMMA PickedFacts ==
    ASSUME NEW start, NEW limit, NEW first, NEW next, Picked(start, limit, first, next)
    PROVE  /\ start \in Nat /\ limit \in Nat /\ first \in Nat /\ next \in Nat
           /\ start <= first /\ first < next /\ next <= limit /\ limit <= WordSize
           /\ (start % Granule) = 0 /\ (limit % Granule) = 0
           /\ start + Granule <= limit
           /\ \E sub \in PowersOfTwo, base \in Nat :
                 /\ Piece(sub, first, next)
                 /\ (base % (8 * sub)) = 0 /\ base + 8 * sub <= WordSize
                 /\ base <= first /\ next <= base + 8 * sub
<1>1. PICK sub \in PowersOfTwo : Piece(sub, first, next)
  BY DEF Picked
<1>2. first \in Nat /\ next \in Nat /\ first < next
  BY <1>1 DEF Piece
<1>3. PICK base \in Nat : /\ (base % (8 * sub)) = 0 /\ base + 8 * sub <= WordSize
                         /\ base <= first /\ next <= base + 8 * sub
  BY <1>1 DEF Piece
<1>4. /\ start \in Nat /\ limit \in Nat /\ limit <= WordSize
      /\ (start % Granule) = 0 /\ (limit % Granule) = 0
      /\ start <= first /\ next <= limit
  BY DEF Picked
<1>5. start < limit
  BY <1>2, <1>4
<1>6. start + Granule <= limit
  BY <1>4, <1>5, Constants, MultipleGap
<1> QED
  BY <1>1, <1>2, <1>3, <1>4, <1>6

(* In a range that ends at a multiple of a power of two and is shorter, the *)
(* longest piece reaches the end; what it leaves is shorter than an eighth *)
(* of the power, and ends at a multiple of that.                           *)
LEMMA EndPicked ==
    ASSUME NEW start, NEW limit, NEW first, NEW next, Picked(start, limit, first, next),
           NEW power \in PowersOfTwo, EndsBelow(start, limit, power)
    PROVE  /\ Granule < power /\ power <= WordSize
           /\ next = limit
           /\ \E small : Eighth(small, power) /\ EndsBelow(start, first, small)
<1> DEFINE n == limit - start
           size == next - first
<1>1. /\ start \in Nat /\ limit \in Nat /\ first \in Nat /\ next \in Nat
      /\ start <= first /\ first < next /\ next <= limit /\ limit <= WordSize
      /\ (start % Granule) = 0 /\ (limit % Granule) = 0
      /\ start + Granule <= limit
  BY PickedFacts
<1>2. PICK sub \in PowersOfTwo, base \in Nat :
         /\ Piece(sub, first, next)
         /\ (base % (8 * sub)) = 0 /\ base <= first /\ next <= base + 8 * sub
  BY PickedFacts
<1>3. /\ Granule \in Nat \ {0} /\ WordSize \in Nat \ {0} /\ 8 * Granule <= WordSize
      /\ power \in Nat \ {0} /\ sub \in Nat \ {0}
      /\ Granule \in PowersOfTwo
  BY Constants, WordAssumption
<1>4. (limit % power) = 0 /\ limit - start < power
  BY DEF EndsBelow
<1>5. n \in Nat \ {0} /\ n < power /\ Granule <= n /\ Granule < power
      /\ size \in Nat \ {0} /\ size <= n
  BY <1>1, <1>3, <1>4
<1>6. power <= limit /\ power <= WordSize /\ n < WordSize
  <2>1. 0 + power <= limit
    <3>1. (0 % power) = 0 /\ 0 < limit
      BY <1>1, <1>3
    <3> QED
      BY <1>1, <1>3, <1>4, <3>1, MultipleGap
  <2> QED
    BY <1>1, <1>3, <1>5, <2>1
<1>7. PICK p \in PowersOfTwo : 2 * p \in PowersOfTwo /\ p <= n /\ n < 2 * p
  BY <1>5, <1>6, FloorPower
<1>8. p \in Nat \ {0} /\ 2 * p <= power
  <2>1. p \in Nat \ {0}
    BY Constants
  <2>2. ~(power < 2 * p)
    <3> SUFFICES ASSUME power < 2 * p PROVE FALSE
      OBVIOUS
    <3>1. power <= p
      BY NoneBetween
    <3> QED
      BY <1>3, <1>5, <1>7, <2>1, <3>1
  <2> QED
    BY <1>3, <2>1, <2>2
<1>9. (limit % (2 * p)) = 0
  BY <1>1, <1>4, <1>7, <1>8, MultipleOfSmaller
<1>10. /\ (first % sub) = 0 /\ (next % sub) = 0 /\ Granule <= sub
       /\ sub \in PowersOfTwo /\ 8 * sub <= WordSize
  BY <1>2 DEF Piece
<1>11. first + sub <= next /\ sub <= size
  <2>1. first + sub <= next
    BY <1>1, <1>3, <1>10, MultipleGap
  <2> QED
    BY <1>1, <1>3, <2>1
<1>12. ASSUME NEW q \in PowersOfTwo, NEW x \in Nat, Piece(q, x, limit), start <= x
       PROVE  limit - x <= size
  BY <1>1, <1>12 DEF Picked, Longest
<1>13. CASE 4 * Granule <= p
  <2>1. PICK r \in PowersOfTwo : r \in Nat \ {0} /\ p = 4 * r
    <3>1. p # 1 /\ p \div 2 \in PowersOfTwo /\ p = 2 * (p \div 2)
      BY <1>3, <1>8, <1>13, HalfPower
    <3> DEFINE h == p \div 2
    <3>2. h \in PowersOfTwo /\ h \in Nat \ {0} /\ p = 2 * h
      BY <3>1, Constants
    <3> HIDE DEF h
    <3>3. h # 1
      BY <1>3, <1>13, <3>2
    <3>4. h \div 2 \in PowersOfTwo /\ h = 2 * (h \div 2)
      BY <3>2, <3>3, HalfPower
    <3> DEFINE r == h \div 2
    <3>5. r \in PowersOfTwo /\ r \in Nat \ {0} /\ h = 2 * r
      BY <3>4, Constants
    <3> HIDE DEF r
    <3> QED
      BY <3>2, <3>5
  <2>2. Granule <= r /\ 8 * r = 2 * p /\ 8 * r <= power /\ 8 * r <= WordSize
    BY <1>3, <1>6, <1>8, <1>13, <2>1
  <2>3. /\ 8 * r \in PowersOfTwo /\ (limit % (8 * r)) = 0 /\ (limit % r) = 0
    <3>1. r <= 8 * r
      BY <2>1
    <3> QED
      BY <1>1, <1>7, <1>9, <2>2, <3>1, MultipleOfSmaller
  <2> DEFINE b == limit - 8 * r
  <2>4. b \in Nat /\ (b % (8 * r)) = 0 /\ b <= start /\ b + 8 * r = limit
    <3>1. 8 * r <= limit
      BY <1>1, <1>3, <1>6, <2>1, <2>2
    <3>2. ((8 * r) % (8 * r)) = 0
      BY <2>1, Multiple
    <3>3. b \in Nat /\ (b % (8 * r)) = 0
      BY <1>1, <2>1, <2>3, <3>1, <3>2, MultipleDifference
    <3> QED
      BY <1>1, <1>7, <2>1, <2>2, <3>3
  <2> HIDE DEF b
  <2>5. ASSUME NEW x \in Nat, (x % r) = 0, start <= x, x < limit
        PROVE  limit - x <= size
    <3>1. b + 8 * r <= WordSize /\ b <= x /\ limit <= b + 8 * r
      BY <1>1, <1>3, <2>1, <2>4, <2>5
    <3>2. Piece(r, x, limit)
      BY <1>1, <2>2, <2>3, <2>4, <2>5, <3>1 DEF Piece
    <3> QED
      BY <1>12, <2>5, <3>2
  <2>6. 4 * r <= size
    <3>1. limit - 4 * r \in Nat /\ start <= limit - 4 * r /\ limit - 4 * r < limit
      BY <1>1, <1>7, <2>1
    <3>2. ((4 * r) % r) = 0 /\ 4 * r \in Nat /\ 4 * r <= limit
      <4>1. ((r * 4) % r) = 0
        BY <2>1, Multiple
      <4> QED
        BY <1>1, <2>1, <3>1, <4>1
    <3>3. ((limit - 4 * r) % r) = 0
      BY <1>1, <2>1, <2>3, <3>2, MultipleDifference
    <3>4. limit - (limit - 4 * r) <= size
      BY <2>5, <3>1, <3>3
    <3> QED
      BY <1>1, <1>5, <2>1, <3>4
  <2>7. n < size + r
    <3>1. PICK x \in Nat : (x % r) = 0 /\ start <= x /\ x < start + r
      BY <1>1, <2>1, NextMultiple
    <3>2. x < limit
      BY <1>1, <1>7, <2>1, <3>1
    <3>3. limit - x <= size
      BY <2>5, <3>1, <3>2
    <3> QED
      BY <1>1, <2>1, <3>1, <3>3
  <2>8. sub <= 4 * r
    <3>1. sub < 2 * p
      BY <1>3, <1>5, <1>7, <1>8, <1>11
    <3>2. sub <= p
      BY <3>1, NoneBetween
    <3> QED
      BY <2>1, <3>2
  <2>9. (limit % sub) = 0
    <3>1. sub <= 8 * r
      BY <1>3, <2>1, <2>8
    <3> QED
      BY <1>1, <2>3, <3>1, MultipleOfSmaller
  <2>10. next = limit /\ (first % r) = 0
    <3>1. CASE r <= sub
      <4>1. (first % r) = 0
        BY <1>1, <1>10, <3>1, MultipleOfSmaller
      <4>2. ASSUME next < limit PROVE FALSE
        <5>1. next + sub <= limit
          BY <1>1, <1>3, <1>10, <2>9, <4>2, MultipleGap
        <5> QED
          BY <1>1, <1>3, <2>1, <2>7, <3>1, <5>1
      <4> QED
        BY <1>1, <4>1, <4>2
    <3>2. CASE ~(r <= sub)
      <4>1. 2 * sub <= r
        <5>1. ~(r < 2 * sub)
          <6>1. r < 2 * sub => r <= sub
            BY NoneBetween
          <6> QED
            BY <3>2, <6>1
        <5> QED
          BY <1>3, <2>1, <5>1
      <4>2. r = 2 * sub /\ first = base /\ next = base + 8 * sub
        BY <1>1, <1>2, <1>3, <2>1, <2>6, <4>1
      <4>3. 8 * sub \in PowersOfTwo /\ 8 * sub \in Nat \ {0} /\ r <= 8 * sub /\ 8 * sub <= 8 * r
        BY <1>3, <1>10, <2>1, <4>2, EightFold
      <4>4. (first % r) = 0
        BY <1>1, <1>2, <4>2, <4>3, MultipleOfSmaller
      <4>5. (next % (8 * sub)) = 0 /\ (limit % (8 * sub)) = 0
        <5>1. ((8 * sub) % (8 * sub)) = 0
          BY <4>3, PowerDivides
        <5> QED
          BY <1>1, <1>2, <2>3, <4>2, <4>3, <5>1, MultipleSum, MultipleOfSmaller
      <4>6. ASSUME next < limit PROVE FALSE
        <5>1. next + 8 * sub <= limit
          BY <1>1, <4>3, <4>5, <4>6, MultipleGap
        <5> QED
          BY <1>1, <1>3, <1>7, <2>1, <4>2, <5>1
      <4> QED
        BY <1>1, <4>4, <4>6
    <3> QED
      BY <3>1, <3>2
  <2>11. Eighth(r, power) /\ EndsBelow(start, first, r)
    <3>1. first - start < r
      BY <1>1, <2>1, <2>7, <2>10
    <3> QED
      BY <2>2, <2>10, <3>1 DEF Eighth, EndsBelow
  <2> QED
    BY <1>5, <1>6, <2>10, <2>11
<1>14. CASE ~(4 * Granule <= p)
  <2>1. 2 * p <= 4 * Granule /\ 2 * p <= 8 * Granule
    <3>1. 2 * Granule \in PowersOfTwo
      <4>1. 2 * Granule <= WordSize
        BY <1>3
      <4> QED
        BY <1>3, <4>1, DoublePower
    <3>2. p < 2 * (2 * Granule)
      BY <1>3, <1>8, <1>14
    <3>3. p <= 2 * Granule
      BY <3>1, <3>2, NoneBetween
    <3> QED
      BY <1>3, <1>8, <3>3
  <2>2. 8 * Granule \in PowersOfTwo /\ 8 * Granule \in Nat \ {0} /\ (WordSize % (8 * Granule)) = 0
    BY <1>3, EightFold
  <2>3. PICK b \in Nat : (b % (8 * Granule)) = 0 /\ b <= limit - 1 /\ limit - 1 < b + 8 * Granule
    <3>1. limit - 1 \in Nat
      BY <1>1, <1>3
    <3> QED
      BY <2>2, <3>1, LastMultiple
  <2>4. (b % (2 * p)) = 0 /\ b < limit
    BY <1>1, <1>7, <2>1, <2>2, <2>3, MultipleOfSmaller
  <2>5. b + 2 * p <= limit
    <3>1. 2 * p \in Nat \ {0}
      BY <1>8
    <3> QED
      BY <1>1, <1>9, <2>4, <3>1, MultipleGap
  <2>6. b + 8 * Granule <= WordSize
    <3>1. b < WordSize
      BY <1>1, <1>3, <2>4
    <3> QED
      BY <1>3, <2>2, <2>3, <3>1, MultipleGap
  <2>7. b <= start /\ limit <= b + 8 * Granule /\ start < limit
    BY <1>1, <1>3, <1>7, <1>8, <2>3, <2>5
  <2>8. Piece(Granule, start, limit)
    BY <1>1, <1>3, <2>3, <2>6, <2>7 DEF Piece
  <2>9. n <= size
    BY <1>1, <1>3, <1>12, <2>8
  <2>10. first = start /\ next = limit
    BY <1>1, <2>9
  <2>11. Eighth(Granule, power) /\ EndsBelow(start, first, Granule)
    <3>1. first - start < Granule
      BY <1>1, <1>3, <2>10
    <3> QED
      BY <1>1, <1>3, <2>10, <3>1 DEF Eighth, EndsBelow
  <2> QED
    BY <1>5, <1>6, <2>10, <2>11
<1> QED
  BY <1>13, <1>14


(* Seen from the top of the address space, first and next change places.   *)
LEMMA MultipleMirror ==
    ASSUME NEW p \in PowersOfTwo, p <= WordSize,
           NEW z \in Nat, z <= WordSize, (z % p) = 0
    PROVE  WordSize - z \in Nat /\ ((WordSize - z) % p) = 0
<1>1. WordSize \in Nat /\ p \in Nat \ {0} /\ (WordSize % p) = 0
  BY Constants, PowerDivides, WordAssumption
<1> QED
  BY <1>1, MultipleDifference

LEMMA PieceMirror ==
    ASSUME NEW sub \in PowersOfTwo, NEW first \in Nat, NEW next \in Nat, Piece(sub, first, next)
    PROVE  /\ first <= WordSize /\ next <= WordSize
           /\ WordSize - next \in Nat /\ WordSize - first \in Nat
           /\ Piece(sub, WordSize - next, WordSize - first)
<1>1. /\ Granule <= sub /\ 8 * sub <= WordSize /\ first < next
      /\ (first % sub) = 0 /\ (next % sub) = 0
  BY DEF Piece
<1>2. PICK base \in Nat : /\ (base % (8 * sub)) = 0 /\ base + 8 * sub <= WordSize
                         /\ base <= first /\ next <= base + 8 * sub
  BY DEF Piece
<1>3. WordSize \in Nat \ {0} /\ sub \in Nat \ {0}
  BY Constants
<1>4. first <= WordSize /\ next <= WordSize /\ sub <= WordSize
  BY <1>1, <1>2, <1>3
<1>5. /\ WordSize - next \in Nat /\ ((WordSize - next) % sub) = 0
      /\ WordSize - first \in Nat /\ ((WordSize - first) % sub) = 0
  BY <1>1, <1>4, MultipleMirror
<1> DEFINE width == 8 * sub
           b == WordSize - (base + 8 * sub)
<1>6. b \in Nat /\ (b % (8 * sub)) = 0
  <2>1. width \in PowersOfTwo /\ width \in Nat \ {0} /\ (width % width) = 0
    BY <1>1, <1>3, EightFold, PowerDivides, Constants
  <2>2. (base % width) = 0
    BY <1>2
  <2>3. base + width <= WordSize /\ width <= WordSize /\ b = WordSize - (base + width)
    BY <1>1, <1>2
  <2> HIDE DEF width, b
  <2>4. base + width \in Nat
    BY <2>1
  <2>5. ((base + width) % width) = 0
    BY <2>1, <2>2, MultipleSum
  <2>6. b \in Nat /\ (b % width) = 0
    BY <2>1, <2>3, <2>4, <2>5, MultipleMirror
  <2> QED
    BY <2>6 DEF width
<1>7. b + 8 * sub <= WordSize /\ b <= WordSize - next /\ WordSize - first <= b + 8 * sub
  BY <1>2, <1>3
<1> HIDE DEF b
<1>8. WordSize - next < WordSize - first
  BY <1>1, <1>3
<1> QED
  BY <1>1, <1>4, <1>5, <1>6, <1>7, <1>8 DEF Piece

LEMMA PickedMirror ==
    ASSUME NEW start, NEW limit, NEW first, NEW next, Picked(start, limit, first, next)
    PROVE  Picked(WordSize - limit, WordSize - start, WordSize - next, WordSize - first)
<1>1. /\ start \in Nat /\ limit \in Nat /\ first \in Nat /\ next \in Nat
      /\ start <= first /\ first < next /\ next <= limit /\ limit <= WordSize
      /\ (start % Granule) = 0 /\ (limit % Granule) = 0
  BY PickedFacts
<1>2. PICK sub \in PowersOfTwo : Piece(sub, first, next)
  BY PickedFacts
<1>3. WordSize \in Nat /\ Granule \in PowersOfTwo /\ Granule <= WordSize
  BY Constants, WordAssumption
<1>4. /\ WordSize - limit \in Nat /\ ((WordSize - limit) % Granule) = 0
      /\ WordSize - start \in Nat /\ ((WordSize - start) % Granule) = 0
      /\ WordSize - start <= WordSize
  <2>1. start <= WordSize
    BY <1>1, <1>3
  <2> QED
    BY <1>1, <1>3, <2>1, MultipleMirror
<1>5. WordSize - limit <= WordSize - next /\ WordSize - first <= WordSize - start
  BY <1>1, <1>3
<1>6. Piece(sub, WordSize - next, WordSize - first)
  BY <1>1, <1>2, PieceMirror
<1>7. ASSUME NEW q \in PowersOfTwo, NEW x \in Nat, NEW y \in Nat,
             Piece(q, x, y), WordSize - limit <= x, y <= WordSize - start
      PROVE  y - x <= (WordSize - first) - (WordSize - next)
  <2>1. /\ x <= WordSize /\ y <= WordSize
        /\ WordSize - y \in Nat /\ WordSize - x \in Nat
        /\ Piece(q, WordSize - y, WordSize - x)
    BY <1>7, PieceMirror
  <2>2. start <= WordSize - y /\ WordSize - x <= limit
    BY <1>1, <1>3, <1>7, <2>1
  <2>3. (WordSize - x) - (WordSize - y) <= next - first
    BY <2>1, <2>2 DEF Picked, Longest
  <2> QED
    BY <1>1, <1>3, <2>1, <2>3
<1>8. Longest(WordSize - limit, WordSize - start, (WordSize - first) - (WordSize - next))
  BY <1>7 DEF Longest
<1> QED
  BY <1>4, <1>5, <1>6, <1>8 DEF Picked

(* The same for a range that begins at a multiple of a power of two.       *)
LEMMA StartPicked ==
    ASSUME NEW start, NEW limit, NEW first, NEW next, Picked(start, limit, first, next),
           NEW power \in PowersOfTwo, power <= WordSize, StartsBelow(start, limit, power)
    PROVE  /\ Granule < power
           /\ first = start
           /\ \E small : Eighth(small, power) /\ StartsBelow(next, limit, small)
<1>1. /\ start \in Nat /\ limit \in Nat /\ first \in Nat /\ next \in Nat
      /\ start <= first /\ first < next /\ next <= limit /\ limit <= WordSize
  BY PickedFacts
<1>2. WordSize \in Nat /\ power \in Nat \ {0}
  BY Constants
<1>3. Picked(WordSize - limit, WordSize - start, WordSize - next, WordSize - first)
  BY PickedMirror
<1>4. EndsBelow(WordSize - limit, WordSize - start, power)
  <2>1. (start % power) = 0 /\ limit - start < power /\ start <= WordSize
    BY <1>1, <1>2 DEF StartsBelow
  <2>2. ((WordSize - start) % power) = 0
    BY <1>1, <2>1, MultipleMirror
  <2>3. (WordSize - start) - (WordSize - limit) < power
    BY <1>1, <1>2, <2>1
  <2> QED
    BY <2>2, <2>3 DEF EndsBelow
<1>5. /\ Granule < power /\ WordSize - first = WordSize - start
      /\ \E small : Eighth(small, power) /\ EndsBelow(WordSize - limit, WordSize - next, small)
  BY <1>3, <1>4, EndPicked
<1>6. first = start
  BY <1>1, <1>2, <1>5
<1>7. PICK small : Eighth(small, power) /\ EndsBelow(WordSize - limit, WordSize - next, small)
  BY <1>5
<1>8. StartsBelow(next, limit, small)
  <2>1. /\ small \in PowersOfTwo /\ small \in Nat \ {0} /\ small <= WordSize
        /\ ((WordSize - next) % small) = 0 /\ (WordSize - next) - (WordSize - limit) < small
    <3>1. small \in PowersOfTwo /\ (small = Granule \/ 8 * small <= power)
      BY <1>7 DEF Eighth
    <3>2. small \in Nat \ {0} /\ Granule \in Nat /\ 8 * Granule <= WordSize
      BY <3>1, Constants
    <3>3. small <= WordSize
      BY <1>2, <3>1, <3>2
    <3> QED
      BY <1>7, <3>1, <3>2, <3>3 DEF EndsBelow
  <2>2. WordSize - next \in Nat /\ WordSize - next <= WordSize
    BY <1>1, <1>2
  <2>3. ((WordSize - (WordSize - next)) % small) = 0
    BY <2>1, <2>2, MultipleMirror
  <2>4. WordSize - (WordSize - next) = next /\ limit - next < small
    BY <1>1, <1>2, <2>1
  <2> QED
    BY <2>3, <2>4 DEF StartsBelow
<1> QED
  BY <1>5, <1>6, <1>7, <1>8


(* A range with both sides of the middle of a region of 8 * r, and nothing *)
(* beyond that region; the longest piece lies before the middle.           *)
LEMMA LeftHalfPicked ==
    ASSUME NEW start, NEW limit, NEW first, NEW next, Picked(start, limit, first, next),
           NEW r \in PowersOfTwo, Granule <= r, 8 * r <= WordSize,
           NEW c \in Nat, (c % (8 * r)) = 0, c + 8 * r <= WordSize,
           c <= start, limit <= c + 8 * r,
           start < c + 4 * r, c + 4 * r < limit, next <= c + 4 * r
    PROVE  /\ \E small : Eighth(small, WordSize) /\ EndsBelow(start, first, small)
           /\ \E small : Eighth(small, WordSize) /\ StartsBelow(next, limit, small)
<1> DEFINE mid == c + 4 * r
           size == next - first
<1>1. /\ start \in Nat /\ limit \in Nat /\ first \in Nat /\ next \in Nat
      /\ start <= first /\ first < next /\ next <= limit /\ limit <= WordSize
      /\ (start % Granule) = 0 /\ (limit % Granule) = 0
  BY PickedFacts
<1>2. r \in Nat \ {0} /\ WordSize \in Nat \ {0} /\ Granule \in Nat \ {0} /\ Granule \in PowersOfTwo
  BY Constants, WordAssumption
<1>3. /\ mid \in Nat /\ mid <= WordSize /\ mid = c + 4 * r
      /\ start < mid /\ mid < limit /\ next <= mid
  BY <1>1, <1>2
<1>4. 8 * r \in PowersOfTwo /\ 4 * r \in PowersOfTwo /\ 4 * r \in Nat \ {0}
  <2>1. 2 * r \in PowersOfTwo
    <3>1. 2 * r <= WordSize
      BY <1>2
    <3> QED
      BY <3>1, DoublePower
  <2>2. 2 * (2 * r) \in PowersOfTwo
    <3>1. 2 * (2 * r) <= WordSize
      BY <1>2
    <3> QED
      BY <2>1, <3>1, DoublePower
  <2> QED
    BY <1>2, <2>2, EightFold
<1>5. (mid % (4 * r)) = 0 /\ (mid % r) = 0 /\ (mid % Granule) = 0
  <2>1. (c % (4 * r)) = 0 /\ ((4 * r) % (4 * r)) = 0
    BY <1>2, <1>4, MultipleOfSmaller, PowerDivides
  <2>2. (mid % (4 * r)) = 0
    BY <1>4, <2>1, MultipleSum
  <2>3. r <= 4 * r /\ Granule <= 4 * r
    BY <1>2
  <2> HIDE DEF mid
  <2> QED
    BY <1>2, <1>3, <1>4, <2>2, <2>3, MultipleOfSmaller
<1> HIDE DEF mid
<1>6. PICK x \in Nat : (x % r) = 0 /\ start <= x /\ x < start + r
  BY <1>1, <1>2, NextMultiple
<1>7. PICK y \in Nat : (y % r) = 0 /\ y <= limit /\ limit < y + r
  BY <1>1, <1>2, LastMultiple
<1>8. x <= mid
  <2> SUFFICES ASSUME mid < x PROVE FALSE
    BY <1>3
  <2>1. mid + r <= x
    BY <1>2, <1>3, <1>5, <1>6, MultipleGap
  <2> QED
    BY <1>1, <1>2, <1>3, <1>6, <2>1
<1>9. mid <= y
  <2> SUFFICES ASSUME y < mid PROVE FALSE
    BY <1>3
  <2>1. y + r <= mid
    BY <1>2, <1>3, <1>5, <1>7, MultipleGap
  <2> QED
    BY <1>1, <1>2, <1>3, <1>7, <2>1
<1>10. y - x <= size
  <2>1. CASE x < y
    <3>1. c <= x /\ y <= c + 8 * r
      BY <1>1, <1>2, <1>6, <1>7
    <3>2. Piece(r, x, y)
      BY <1>6, <1>7, <2>1, <3>1 DEF Piece
    <3> QED
      BY <1>6, <1>7, <3>2 DEF Picked, Longest
  <2>2. CASE ~(x < y)
    BY <1>1, <2>2
  <2> QED
    BY <2>1, <2>2
<1>11. y = mid /\ limit - mid < r
  <2>1. size <= mid - start
    BY <1>1, <1>3
  <2>2. y < mid + r
    BY <1>1, <1>2, <1>3, <1>6, <1>10, <2>1
  <2>3. ASSUME mid < y PROVE FALSE
    <3>1. mid + r <= y
      BY <1>2, <1>3, <1>5, <1>7, <2>3, MultipleGap
    <3> QED
      BY <1>2, <1>3, <2>2, <3>1
  <2> QED
    BY <1>1, <1>2, <1>3, <1>7, <1>9, <2>3
<1>12. Eighth(r, WordSize)
  BY DEF Eighth
<1>13. next = mid => StartsBelow(next, limit, r)
  BY <1>5, <1>11 DEF StartsBelow
<1>14. CASE mid - start < 4 * r
  <2>1. Longest(start, mid, size)
    <3> SUFFICES ASSUME NEW q \in PowersOfTwo, NEW u \in Nat, NEW v \in Nat,
                        Piece(q, u, v), start <= u, v <= mid
                 PROVE  v - u <= size
      BY DEF Longest
    <3>1. v <= limit
      BY <1>1, <1>3
    <3> QED
      BY <3>1 DEF Picked, Longest
  <2>2. Picked(start, mid, first, next)
    BY <1>1, <1>3, <1>5, <2>1 DEF Picked
  <2>3. EndsBelow(start, mid, 4 * r)
    BY <1>5, <1>14 DEF EndsBelow
  <2>4. /\ next = mid
        /\ \E small : Eighth(small, 4 * r) /\ EndsBelow(start, first, small)
    BY <1>4, <2>2, <2>3, EndPicked
  <2>5. PICK small : Eighth(small, 4 * r) /\ EndsBelow(start, first, small)
    BY <2>4
  <2>6. Eighth(small, WordSize)
    <3>1. small \in PowersOfTwo /\ Granule <= small /\ (small = Granule \/ 8 * small <= 4 * r)
      BY <2>5 DEF Eighth
    <3>2. small \in Nat
      BY <3>1, Constants
    <3>3. small = Granule \/ 8 * small <= WordSize
      BY <1>2, <3>1, <3>2
    <3> QED
      BY <3>1, <3>3 DEF Eighth
  <2> QED
    BY <1>12, <1>13, <2>4, <2>5, <2>6
<1>15. CASE ~(mid - start < 4 * r)
  <2>1. start = c
    BY <1>1, <1>2, <1>3, <1>15
  <2>2. x = start
    <3>1. (start % r) = 0
      <4>1. r <= 8 * r
        BY <1>2
      <4> QED
        BY <1>4, <2>1, <4>1, MultipleOfSmaller
    <3>2. ASSUME start < x PROVE FALSE
      <4>1. start + r <= x
        BY <1>1, <1>2, <1>6, <3>1, <3>2, MultipleGap
      <4> QED
        BY <1>1, <1>2, <1>6, <4>1
    <3> QED
      BY <1>1, <1>6, <3>2
  <2>3. next = mid /\ first = start
    BY <1>1, <1>3, <1>10, <1>11, <2>2
  <2>4. Eighth(Granule, WordSize) /\ EndsBelow(start, first, Granule)
    <3>1. Granule <= Granule /\ first - start < Granule
      BY <1>1, <1>2, <2>3
    <3> QED
      BY <1>1, <1>2, <2>3, <3>1 DEF Eighth, EndsBelow
  <2> QED
    BY <1>12, <1>13, <2>3, <2>4
<1> QED
  BY <1>14, <1>15

LEMMA EighthPower ==
    ASSUME NEW p \in PowersOfTwo, 8 * Granule <= p
    PROVE  \E r \in PowersOfTwo : r \in Nat \ {0} /\ Granule <= r /\ p = 8 * r
<1>1. p \in Nat \ {0} /\ Granule \in Nat \ {0}
  BY Constants
<1>2. PICK h \in PowersOfTwo : h \in Nat \ {0} /\ p = 2 * h
  <2>1. p # 1
    BY <1>1
  <2>2. p \div 2 \in PowersOfTwo /\ p = 2 * (p \div 2)
    BY <2>1, HalfPower
  <2> QED
    BY <2>2, Constants
<1>3. PICK q \in PowersOfTwo : q \in Nat \ {0} /\ h = 2 * q
  <2>1. h # 1
    BY <1>1, <1>2
  <2>2. h \div 2 \in PowersOfTwo /\ h = 2 * (h \div 2)
    BY <2>1, HalfPower
  <2> QED
    BY <2>2, Constants
<1>4. PICK r \in PowersOfTwo : r \in Nat \ {0} /\ q = 2 * r
  <2>1. q # 1
    BY <1>1, <1>2, <1>3
  <2>2. q \div 2 \in PowersOfTwo /\ q = 2 * (q \div 2)
    BY <2>1, HalfPower
  <2> QED
    BY <2>2, Constants
<1>5. Granule <= r /\ p = 8 * r
  BY <1>1, <1>2, <1>3, <1>4
<1> QED
  BY <1>4, <1>5


LEMMA EndsMirror ==
    ASSUME NEW start \in Nat, NEW limit \in Nat, start <= WordSize, limit <= WordSize,
           NEW power \in PowersOfTwo, power <= WordSize
    PROVE  /\ EndsBelow(WordSize - limit, WordSize - start, power)
                => StartsBelow(start, limit, power)
           /\ StartsBelow(WordSize - limit, WordSize - start, power)
                => EndsBelow(start, limit, power)
<1>1. WordSize \in Nat /\ power \in Nat \ {0}
  BY Constants
<1>2. /\ WordSize - start \in Nat /\ WordSize - start <= WordSize
      /\ WordSize - limit \in Nat /\ WordSize - limit <= WordSize
      /\ WordSize - (WordSize - start) = start /\ WordSize - (WordSize - limit) = limit
      /\ (WordSize - start) - (WordSize - limit) = limit - start
  BY <1>1
<1>3. ((WordSize - start) % power) = 0 => (start % power) = 0
  <2>1. ((WordSize - start) % power) = 0 => ((WordSize - (WordSize - start)) % power) = 0
    BY <1>2, MultipleMirror
  <2> QED
    BY <1>2, <2>1
<1>4. ((WordSize - limit) % power) = 0 => (limit % power) = 0
  <2>1. ((WordSize - limit) % power) = 0 => ((WordSize - (WordSize - limit)) % power) = 0
    BY <1>2, MultipleMirror
  <2> QED
    BY <1>2, <2>1
<1> QED
  BY <1>2, <1>3, <1>4 DEF EndsBelow, StartsBelow

LEMMA EighthSmall ==
    ASSUME NEW small, Eighth(small, WordSize)
    PROVE  small \in PowersOfTwo /\ small <= WordSize
<1>1. small \in PowersOfTwo /\ (small = Granule \/ 8 * small <= WordSize)
  BY DEF Eighth
<1>2. small \in Nat \ {0} /\ Granule \in Nat /\ WordSize \in Nat /\ 8 * Granule <= WordSize
  BY <1>1, Constants
<1> QED
  BY <1>1, <1>2

LEMMA RightHalfPicked ==
    ASSUME NEW start, NEW limit, NEW first, NEW next, Picked(start, limit, first, next),
           NEW r \in PowersOfTwo, Granule <= r, 8 * r <= WordSize,
           NEW c \in Nat, (c % (8 * r)) = 0, c + 8 * r <= WordSize,
           c <= start, limit <= c + 8 * r,
           start < c + 4 * r, c + 4 * r < limit, c + 4 * r <= first
    PROVE  /\ \E small : Eighth(small, WordSize) /\ EndsBelow(start, first, small)
           /\ \E small : Eighth(small, WordSize) /\ StartsBelow(next, limit, small)
<1> DEFINE s == WordSize - limit
           l == WordSize - start
           f == WordSize - next
           n == WordSize - first
           d == WordSize - (c + 8 * r)
<1>1. /\ start \in Nat /\ limit \in Nat /\ first \in Nat /\ next \in Nat
      /\ start <= first /\ first < next /\ next <= limit /\ limit <= WordSize
  BY PickedFacts
<1>2. WordSize \in Nat \ {0} /\ r \in Nat \ {0}
  BY Constants
<1>3. Picked(s, l, f, n)
  BY PickedMirror
<1>4. d \in Nat /\ (d % (8 * r)) = 0
  <2>1. 8 * r \in PowersOfTwo /\ 8 * r \in Nat \ {0} /\ ((8 * r) % (8 * r)) = 0
    BY <1>2, EightFold, PowerDivides
  <2>2. c + 8 * r \in Nat /\ ((c + 8 * r) % (8 * r)) = 0
    BY <2>1, MultipleSum
  <2> QED
    BY <2>1, <2>2, MultipleMirror
<1>5. /\ d + 8 * r <= WordSize /\ d <= s /\ l <= d + 8 * r
      /\ s < d + 4 * r /\ d + 4 * r < l /\ n <= d + 4 * r
  BY <1>1, <1>2
<1> HIDE DEF s, l, f, n, d
<1>6. /\ \E small : Eighth(small, WordSize) /\ EndsBelow(s, f, small)
      /\ \E small : Eighth(small, WordSize) /\ StartsBelow(n, l, small)
  BY <1>3, <1>4, <1>5, LeftHalfPicked
<1>7. PICK small : Eighth(small, WordSize) /\ EndsBelow(s, f, small)
  BY <1>6
<1>8. PICK tiny : Eighth(tiny, WordSize) /\ StartsBelow(n, l, tiny)
  BY <1>6
<1>9. start <= WordSize /\ first <= WordSize /\ next <= WordSize
  BY <1>1, <1>2
<1>10. StartsBelow(next, limit, small)
  <2>1. small \in PowersOfTwo /\ small <= WordSize
    BY <1>7, EighthSmall
  <2> QED
    BY <1>1, <1>7, <1>9, <2>1, EndsMirror DEF s, f
<1>11. EndsBelow(start, first, tiny)
  <2>1. tiny \in PowersOfTwo /\ tiny <= WordSize
    BY <1>8, EighthSmall
  <2> QED
    BY <1>1, <1>8, <1>9, <2>1, EndsMirror DEF n, l
<1> QED
  BY <1>7, <1>8, <1>10, <1>11

(* Of any range the longest piece leaves less than an eighth of the address *)
(* space on its left, and less on its right, next to a multiple of it.     *)
LEMMA BothPicked ==
    ASSUME NEW start, NEW limit, NEW first, NEW next, Picked(start, limit, first, next)
    PROVE  /\ \E small : Eighth(small, WordSize) /\ EndsBelow(start, first, small)
           /\ \E small : Eighth(small, WordSize) /\ StartsBelow(next, limit, small)
<1> DEFINE size == next - first
           Holds(p, b) == (b % p) = 0 /\ b + p <= WordSize /\ b <= start /\ limit <= b + p
           T == {p \in PowersOfTwo : \E b \in Nat : Holds(p, b)}
<1>1. /\ start \in Nat /\ limit \in Nat /\ first \in Nat /\ next \in Nat
      /\ start <= first /\ first < next /\ next <= limit /\ limit <= WordSize
      /\ (start % Granule) = 0 /\ (limit % Granule) = 0
  BY PickedFacts
<1>2. PICK sub \in PowersOfTwo, base \in Nat :
         /\ Piece(sub, first, next)
         /\ (base % (8 * sub)) = 0 /\ base <= first /\ next <= base + 8 * sub
  BY PickedFacts
<1>3. /\ Granule \in Nat \ {0} /\ WordSize \in Nat \ {0} /\ 8 * Granule <= WordSize
      /\ sub \in Nat \ {0} /\ Granule \in PowersOfTwo /\ WordSize \in PowersOfTwo
  BY Constants, WordAssumption
<1>4. /\ (first % sub) = 0 /\ (next % sub) = 0 /\ Granule <= sub /\ 8 * sub <= WordSize
  BY <1>2 DEF Piece
<1>5. PICK p \in T : \A q \in T : p <= q
  <2>1. T \in SUBSET Nat
    BY Constants
  <2>2. Holds(WordSize, 0)
    BY <1>1, <1>3
  <2>3. T # {}
    BY <1>3, <2>2
  <2> HIDE DEF T
  <2> QED
    BY <2>1, <2>3, LeastElement
<1>6. p \in PowersOfTwo /\ p \in Nat \ {0}
  BY Constants
<1>7. PICK c \in Nat : (c % p) = 0 /\ c + p <= WordSize /\ c <= start /\ limit <= c + p
  BY <1>5
<1>8. ASSUME NEW q \in PowersOfTwo, q < p, NEW b \in Nat,
             (b % q) = 0, b + q <= WordSize, b <= start
      PROVE  b + q < limit
  <2> SUFFICES ASSUME ~(b + q < limit) PROVE FALSE
    OBVIOUS
  <2>1. q \in Nat
    BY Constants
  <2>2. limit <= b + q
    BY <1>1, <2>1
  <2>3. q \in T
    BY <1>8, <2>2
  <2>4. p <= q
    BY <1>5, <2>3
  <2> QED
    BY <1>6, <1>8, <2>1, <2>4
<1> HIDE DEF T, Holds
<1>9. CASE ~(8 * Granule <= p)
  <2>1. 8 * Granule \in PowersOfTwo /\ 8 * Granule \in Nat \ {0} /\ p <= 8 * Granule
        /\ (WordSize % (8 * Granule)) = 0
    BY <1>3, <1>6, <1>9, EightFold
  <2>2. PICK b \in Nat : (b % (8 * Granule)) = 0 /\ b <= c /\ c < b + 8 * Granule
    BY <2>1, LastMultiple
  <2>3. c + p <= b + 8 * Granule
    <3>1. ((8 * Granule) % (8 * Granule)) = 0
      BY <2>1, PowerDivides
    <3> DEFINE g == 8 * Granule
    <3>a. g \in Nat \ {0} /\ (b % g) = 0 /\ (g % g) = 0
      BY <2>1, <2>2, <3>1
    <3> HIDE DEF g
    <3>b. b + g \in Nat /\ ((b + g) % g) = 0
      BY <3>a, MultipleSum
    <3>2. b + 8 * Granule \in Nat /\ ((b + 8 * Granule) % (8 * Granule)) = 0
      BY <3>b DEF g
    <3>3. ((b + 8 * Granule) % p) = 0
      BY <1>6, <2>1, <3>2, MultipleOfSmaller
    <3> QED
      BY <1>6, <1>7, <2>2, <3>2, <3>3, MultipleGap
  <2>4. b + 8 * Granule <= WordSize
    <3>1. b < WordSize
      BY <1>1, <1>3, <1>6, <1>7, <2>2
    <3> QED
      BY <1>3, <2>1, <2>2, <3>1, MultipleGap
  <2>5. b <= start /\ limit <= b + 8 * Granule /\ start < limit
    BY <1>1, <1>3, <1>6, <1>7, <2>2, <2>3
  <2>6. Piece(Granule, start, limit)
    <3>1. Granule <= Granule
      BY <1>3
    <3> QED
      BY <1>1, <1>3, <2>2, <2>4, <2>5, <3>1 DEF Piece
  <2>7. limit - start <= size
    BY <1>1, <1>3, <2>6 DEF Picked, Longest
  <2>8. first = start /\ next = limit
    BY <1>1, <2>7
  <2>9. Eighth(Granule, WordSize)
    <3>1. Granule <= Granule
      BY <1>3
    <3> QED
      BY <1>3, <3>1 DEF Eighth
  <2>10. EndsBelow(start, first, Granule) /\ StartsBelow(next, limit, Granule)
    <3>1. first - start < Granule /\ limit - next < Granule
      BY <1>1, <1>3, <2>8
    <3> QED
      BY <1>1, <2>8, <3>1 DEF EndsBelow, StartsBelow
  <2> QED
    BY <2>9, <2>10
<1>10. CASE 8 * Granule <= p
  <2>1. PICK r \in PowersOfTwo : r \in Nat \ {0} /\ Granule <= r /\ p = 8 * r
    BY <1>6, <1>10, EighthPower
  <2>2. 8 * r <= WordSize
    BY <1>3, <1>7, <2>1
  <2>3. 4 * r \in PowersOfTwo /\ 4 * r \in Nat \ {0} /\ 4 * r < p
    <3>1. 2 * r \in PowersOfTwo
      <4>1. 2 * r <= WordSize
        BY <1>3, <2>1, <2>2
      <4> QED
        BY <4>1, DoublePower
    <3>2. 2 * (2 * r) \in PowersOfTwo
      <4>1. 2 * (2 * r) <= WordSize
        BY <1>3, <2>1, <2>2
      <4> QED
        BY <3>1, <4>1, DoublePower
    <3> QED
      BY <2>1, <3>2
  <2> DEFINE mid == c + 4 * r
  <2>4. (c % (4 * r)) = 0
    BY <1>6, <1>7, <2>1, <2>3, MultipleOfSmaller
  <2>5. mid \in Nat /\ (mid % (4 * r)) = 0
    <3>1. ((4 * r) % (4 * r)) = 0
      BY <2>3, PowerDivides
    <3> QED
      BY <2>3, <2>4, <3>1, MultipleSum
  <2>6. mid = c + 4 * r
    OBVIOUS
  <2> HIDE DEF mid
  <2>7. mid < limit
    <3>1. c + 4 * r <= WordSize
      BY <1>3, <1>7, <2>1
    <3> QED
      BY <1>7, <1>8, <2>3, <2>4, <2>6, <3>1
  <2>8. start < mid
    <3> SUFFICES ASSUME mid <= start PROVE FALSE
      BY <1>1, <2>5
    <3>1. mid + 4 * r <= WordSize /\ limit <= mid + 4 * r
      BY <1>1, <1>3, <1>7, <2>1, <2>6
    <3>2. mid + 4 * r < limit
      BY <1>8, <2>3, <2>5, <3>1
    <3> QED
      BY <1>1, <2>1, <2>5, <3>1, <3>2
  <2>9. CASE r <= sub
    <3>1. (first % r) = 0 /\ (next % r) = 0
      BY <1>1, <1>4, <2>9, MultipleOfSmaller
    <3>2. PICK x \in Nat : (x % r) = 0 /\ start <= x /\ x < start + r
      BY <1>1, <2>1, NextMultiple
    <3>3. PICK y \in Nat : (y % r) = 0 /\ y <= limit /\ limit < y + r
      BY <1>1, <2>1, LastMultiple
    <3>4. x <= first
      <4> SUFFICES ASSUME first < x PROVE FALSE
        BY <1>1
      <4>1. first + r <= x
        BY <1>1, <2>1, <3>1, <3>2, MultipleGap
      <4> QED
        BY <1>1, <2>1, <3>2, <4>1
    <3>5. next <= y
      <4> SUFFICES ASSUME y < next PROVE FALSE
        BY <1>1
      <4>1. y + r <= next
        BY <1>1, <2>1, <3>1, <3>3, MultipleGap
      <4> QED
        BY <1>1, <2>1, <3>3, <4>1
    <3>6. Piece(r, x, y)
      <4>1. x < y /\ c <= x /\ y <= c + 8 * r /\ c + 8 * r <= WordSize
        BY <1>1, <1>7, <2>1, <3>2, <3>3, <3>4, <3>5
      <4> QED
        BY <1>7, <2>1, <2>2, <3>2, <3>3, <4>1 DEF Piece
    <3>7. y - x <= size
      BY <3>2, <3>3, <3>6 DEF Picked, Longest
    <3>8. first = x /\ next = y
      BY <1>1, <3>4, <3>5, <3>7
    <3>9. Eighth(r, WordSize) /\ EndsBelow(start, first, r) /\ StartsBelow(next, limit, r)
      <4>1. first - start < r /\ limit - next < r
        BY <1>1, <2>1, <3>2, <3>3, <3>8
      <4> QED
        BY <2>1, <2>2, <3>1, <4>1 DEF Eighth, EndsBelow, StartsBelow
    <3> QED
      BY <3>9
  <2>10. CASE ~(r <= sub)
    <3>1. 2 * sub <= r
      <4>1. r < 2 * sub => r <= sub
        BY NoneBetween
      <4> QED
        BY <1>3, <2>1, <2>10, <4>1
    <3>2. 8 * sub \in PowersOfTwo /\ 8 * sub \in Nat \ {0} /\ 8 * sub <= 4 * r
      BY <1>3, <1>4, <2>1, <3>1, EightFold
    <3>3. (mid % (8 * sub)) = 0
      BY <2>3, <2>5, <3>2, MultipleOfSmaller
    <3>4. CASE base < mid
      <4>1. base + 8 * sub <= mid
        BY <1>2, <2>5, <3>2, <3>3, <3>4, MultipleGap
      <4>2. next <= c + 4 * r
        BY <1>1, <1>2, <1>3, <2>5, <2>6, <4>1
      <4> QED
        BY <1>7, <2>1, <2>2, <2>6, <2>7, <2>8, <4>2, LeftHalfPicked
    <3>5. CASE ~(base < mid)
      <4>1. c + 4 * r <= first
        BY <1>1, <1>2, <2>5, <2>6, <3>5
      <4> QED
        BY <1>7, <2>1, <2>2, <2>6, <2>7, <2>8, <4>1, RightHalfPicked
    <3> QED
      BY <3>4, <3>5
  <2> QED
    BY <2>9, <2>10
<1> QED
  BY <1>9, <1>10

==============================================================================
