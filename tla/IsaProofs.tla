-------------------------------- MODULE IsaProofs --------------------------------
(***************************************************************************)
(* The simulated and the hardware processor do the same, the operands of   *)
(* the assembler come through the prefixes, and the disassembler lists     *)
(* them, for any width of a word, any size of either memory and any        *)
(* programs.                                                               *)
(***************************************************************************)
EXTENDS Isa, FiniteSetTheorems, WellFoundedInduction, TLAPS

Word == 0 .. WordSize - 1

Octet == 0 .. 255

--------------------------------------------------------------------------------
(***************************************************************************)
(* Induction.                                                              *)
(***************************************************************************)
\* A set of numbers that has 0, and with each number the next, has them all.
LEMMA SetInduction ==
  ASSUME NEW S, 0 \in S, \A n \in Nat : n \in S => n + 1 \in S
  PROVE  Nat \subseteq S
<1>. DEFINE T == {n \in Nat : n \notin S}
            R == OpToRel(<, Nat)
<1>. SUFFICES ASSUME T # {} PROVE FALSE
  OBVIOUS
<1>1. IsWellFoundedOn(R, Nat)
  BY NatLessThanWellFounded
<1>2. \A x, y \in Nat : x < y => <<x, y>> \in R
  BY DEF OpToRel
<1>3. T \subseteq Nat /\ \A x \in Nat : x \in T <=> x \notin S
  OBVIOUS
<1>. HIDE DEF R, T
<1>4. PICK x \in T : \A y \in T : ~(<<y, x>> \in R)
  BY <1>1, <1>3, WFMin
<1>5. x # 0 /\ x \in Nat /\ x - 1 \in Nat /\ x - 1 < x /\ (x - 1) + 1 = x
  BY <1>3, <1>4
<1>6. x - 1 \in S
  BY <1>2, <1>3, <1>4, <1>5
<1>. QED  BY <1>3, <1>4, <1>5, <1>6

\* A function of numbers, by what each step makes of the value before.
Unfolds(f, c, m, g) == f[0] = c /\ \A n \in 1 .. m : f[n] = g[n][f[n - 1]]

\* There is a function for every recursion.
LEMMA Recursion ==
  ASSUME NEW S, NEW c \in S, NEW m \in Nat, NEW g \in [1 .. m -> [S -> S]]
  PROVE  \E f \in [0 .. m -> S] : Unfolds(f, c, m, g)
<1>. DEFINE K == {k \in Nat : k =< m => \E f \in [0 .. k -> S] : Unfolds(f, c, k, g)}
<1>1. 0 \in K
  <2>1. [n \in 0 .. 0 |-> c] \in [0 .. 0 -> S] /\ Unfolds([n \in 0 .. 0 |-> c], c, 0, g)
    BY DEF Unfolds
  <2>. QED  BY <2>1
<1>2. ASSUME NEW k \in Nat, k \in K PROVE k + 1 \in K
  <2>. SUFFICES ASSUME k + 1 =< m PROVE \E f \in [0 .. k + 1 -> S] : Unfolds(f, c, k + 1, g)
    OBVIOUS
  <2>1. PICK f \in [0 .. k -> S] : Unfolds(f, c, k, g)
    BY <1>2
  <2>. DEFINE h == [n \in 0 .. k + 1 |-> IF n = k + 1 THEN g[k + 1][f[k]] ELSE f[n]]
  <2>2. g[k + 1] \in [S -> S] /\ f[k] \in S
    BY <2>1
  <2>3. h \in [0 .. k + 1 -> S]
    BY <2>1, <2>2
  <2>4. Unfolds(h, c, k + 1, g)
    BY <2>1 DEF Unfolds
  <2>. QED  BY <2>3, <2>4
<1>3. m \in K
  BY <1>1, <1>2, SetInduction
<1>. QED  BY <1>3

\* The values are numbers.
LEMMA NatRecursion ==
  ASSUME NEW m \in Nat, NEW g \in [1 .. m -> [Nat -> Nat]]
  PROVE  \E f \in [0 .. m -> Nat] : Unfolds(f, 0, m, g)
<1>. DEFINE S == Nat
            c == 0
<1>1. c \in S /\ g \in [1 .. m -> [S -> S]]
  OBVIOUS
<1>. HIDE DEF S, c
<1>2. \E f \in [0 .. m -> S] : Unfolds(f, c, m, g)
  BY <1>1, Recursion
<1>. QED  BY <1>2 DEF S, c

--------------------------------------------------------------------------------
(***************************************************************************)
(* Arithmetic of words and addresses.                                      *)
(***************************************************************************)
\* A remainder is the only number below the modulus at a distance that the modulus
\* divides.
LEMMA Remainder ==
  ASSUME NEW m \in Nat \ {0}, NEW x \in Int, NEW q \in Int, NEW r \in 0 .. m - 1,
         x = m * q + r
  PROVE  x % m = r
OBVIOUS

\* Numbers are what a division makes of them.
LEMMA Division ==
  ASSUME NEW m \in Nat \ {0}, NEW x \in Int
  PROVE  /\ x \div m \in Int /\ x % m \in 0 .. m - 1
         /\ x = m * (x \div m) + (x % m)
         /\ x >= 0 => x \div m >= 0
OBVIOUS

\* The low bits of the low bits are the low bits.
LEMMA RemainderTwice ==
  ASSUME NEW w \in Nat \ {0}, NEW m \in Nat \ {0}, w % m = 0, NEW x \in Int
  PROVE  (x % w) % m = x % m
<1>. DEFINE k == w \div m
            q == x \div w
            r == x % w
            p == r \div m
            s == r % m
<1>1. k \in Int /\ w = m * k
  BY Division
<1>2. q \in Int /\ r \in Int /\ x = w * q + r
  BY Division
<1>3. p \in Int /\ s \in 0 .. m - 1 /\ r = m * p + s
  BY <1>2, Division
<1>. HIDE DEF k, q, r, p, s
<1>4. x = m * (k * q + p) + s
  BY <1>1, <1>2, <1>3
<1>5. x % m = s
  BY <1>1, <1>2, <1>3, <1>4, Remainder
<1>. QED  BY <1>5 DEF s, r

\* The powers of a base that a word has: positive, growing, each made of the one before.
LEMMA Powers ==
  ASSUME NEW b \in Nat, b >= 2, NEW m \in Nat, b ^ 0 = 1,
         \A i \in 0 .. m - 1 : b ^ (i + 1) = b * b ^ i
  PROVE  /\ \A i \in 0 .. m : b ^ i \in Nat \ {0}
         /\ \A i \in 0 .. m, j \in 0 .. m : i =< j => b ^ i =< b ^ j
<1>1. \A i \in 0 .. m : b ^ i \in Nat \ {0}
  <2>. DEFINE K == {i \in Nat : i =< m => b ^ i \in Nat \ {0}}
  <2>1. 0 \in K
    OBVIOUS
  <2>2. ASSUME NEW i \in Nat, i \in K PROVE i + 1 \in K
    <3>. SUFFICES ASSUME i + 1 =< m PROVE b ^ (i + 1) \in Nat \ {0}
      OBVIOUS
    <3>1. b ^ (i + 1) = b * b ^ i /\ b ^ i \in Nat \ {0}
      BY <2>2
    <3>2. \A x \in Nat \ {0} : b * x \in Nat \ {0}
      OBVIOUS
    <3>. QED  BY <3>1, <3>2
  <2>3. Nat \subseteq K
    BY <2>1, <2>2, SetInduction
  <2>. QED  BY <2>3
<1>2. ASSUME NEW i \in 0 .. m, NEW j \in 0 .. m, i =< j PROVE b ^ i =< b ^ j
  <2>. DEFINE K == {d \in Nat : i + d =< m => b ^ i =< b ^ (i + d)}
  <2>1. 0 \in K
    BY <1>1
  <2>2. ASSUME NEW d \in Nat, d \in K PROVE d + 1 \in K
    <3>. SUFFICES ASSUME i + (d + 1) =< m PROVE b ^ i =< b ^ (i + (d + 1))
      OBVIOUS
    <3>1. i + d \in 0 .. m - 1 /\ i + (d + 1) = (i + d) + 1
      OBVIOUS
    <3>2. b ^ (i + (d + 1)) = b * b ^ (i + d) /\ b ^ i =< b ^ (i + d)
      BY <2>2, <3>1
    <3>3. b ^ i \in Nat /\ b ^ (i + d) \in Nat
      BY <1>1, <3>1
    <3>4. \A x \in Nat : x =< b * x
      OBVIOUS
    <3>. QED  BY <3>2, <3>3, <3>4
  <2>3. Nat \subseteq K
    BY <2>1, <2>2, SetInduction
  <2>4. j - i \in Nat /\ i + (j - i) = j
    BY <1>2
  <2>5. j - i \in K
    BY <2>3, <2>4
  <2>. QED  BY <2>4, <2>5
<1>. QED  BY <1>1, <1>2

\* A word is made of bytes, each of two nibbles.
LEMMA WordOfBytes ==
  ASSUME WordNibbles = 2 * WordBytes, WordBytes \in Nat
  PROVE  256 ^ WordBytes = WordSize
<1>. DEFINE K == {i \in Nat : i =< WordBytes => 256 ^ i = 16 ^ (2 * i) /\ 256 ^ i \in Nat}
<1>1. 0 \in K
  BY PowersAssumption
<1>2. ASSUME NEW i \in Nat, i \in K PROVE i + 1 \in K
  <2>. SUFFICES ASSUME i + 1 =< WordBytes
                PROVE  256 ^ (i + 1) = 16 ^ (2 * (i + 1)) /\ 256 ^ (i + 1) \in Nat
    OBVIOUS
  <2>1. 256 ^ i = 16 ^ (2 * i) /\ 256 ^ i \in Nat
    BY <1>2
  <2>2. i \in 0 .. WordBytes - 1 /\ 2 * i \in 0 .. WordNibbles - 1
        /\ 2 * i + 1 \in 0 .. WordNibbles - 1 /\ (2 * i + 1) + 1 = 2 * (i + 1)
    OBVIOUS
  <2>3. 256 ^ (i + 1) = 256 * 256 ^ i
    BY <2>2, PowersAssumption
  <2>4. 16 ^ (2 * i + 1) = 16 * 16 ^ (2 * i) /\ 16 ^ ((2 * i + 1) + 1) = 16 * 16 ^ (2 * i + 1)
    BY <2>2, PowersAssumption
  <2>5. \A x \in Nat : 16 * (16 * x) = 256 * x /\ 256 * x \in Nat
    OBVIOUS
  <2>6. 16 ^ (2 * (i + 1)) = 16 * (16 * 256 ^ i)
    BY <2>1, <2>2, <2>4
  <2>. QED  BY <2>1, <2>3, <2>5, <2>6
<1>3. WordBytes \in K
  BY <1>1, <1>2, SetInduction
<1>. QED  BY <1>3 DEF WordSize

\* The powers that are sizes of words and of their parts.
LEMMA Sizes ==
  /\ WordNibbles \in Nat /\ WordNibbles >= 4 /\ WordBytes \in 2 .. 8
  /\ WordNibbles = 2 * WordBytes
  /\ \A i \in 0 .. WordNibbles : 16 ^ i \in Nat \ {0}
  /\ \A i \in 0 .. WordNibbles, j \in 0 .. WordNibbles : i =< j => 16 ^ i =< 16 ^ j
  /\ \A i \in 0 .. WordBytes : 256 ^ i \in Nat \ {0}
  /\ WordSize \in Nat \ {0} /\ WordSize % 256 = 0 /\ WordSize >= 65536
  /\ AddressSize \in Nat \ {0}
<1>1. WordNibbles \in Nat /\ WordNibbles = 2 * WordBytes /\ WordBytes \in 2 .. 8
  BY IsaAssumption, WordAssumption
<1>2. /\ \A i \in 0 .. WordNibbles : 16 ^ i \in Nat \ {0}
      /\ \A i \in 0 .. WordNibbles, j \in 0 .. WordNibbles : i =< j => 16 ^ i =< 16 ^ j
  <2>. DEFINE b == 16
  <2>1. b \in Nat /\ b >= 2 /\ b ^ 0 = 1 /\ \A i \in 0 .. WordNibbles - 1 : b ^ (i + 1) = b * b ^ i
    BY PowersAssumption
  <2>2. WordNibbles \in Nat
    BY <1>1
  <2>. HIDE DEF b
  <2>3. /\ \A i \in 0 .. WordNibbles : b ^ i \in Nat \ {0}
        /\ \A i \in 0 .. WordNibbles, j \in 0 .. WordNibbles : i =< j => b ^ i =< b ^ j
    BY <2>1, <2>2, Powers
  <2>. QED  BY <2>3 DEF b
<1>3. /\ \A i \in 0 .. WordBytes : 256 ^ i \in Nat \ {0}
      /\ \A i \in 0 .. WordBytes, j \in 0 .. WordBytes : i =< j => 256 ^ i =< 256 ^ j
  <2>. DEFINE b == 256
  <2>1. b \in Nat /\ b >= 2 /\ b ^ 0 = 1 /\ \A i \in 0 .. WordBytes - 1 : b ^ (i + 1) = b * b ^ i
    BY PowersAssumption
  <2>2. WordBytes \in Nat
    BY <1>1
  <2>. HIDE DEF b
  <2>3. /\ \A i \in 0 .. WordBytes : b ^ i \in Nat \ {0}
        /\ \A i \in 0 .. WordBytes, j \in 0 .. WordBytes : i =< j => b ^ i =< b ^ j
    BY <2>1, <2>2, Powers
  <2>. QED  BY <2>3 DEF b
<1>4. WordSize = 256 * 256 ^ (WordBytes - 1) /\ 256 ^ (WordBytes - 1) \in Nat \ {0}
  <2>1. WordBytes - 1 \in 0 .. WordBytes - 1 /\ (WordBytes - 1) + 1 = WordBytes
    BY <1>1
  <2>2. 256 ^ WordBytes = WordSize
    BY <1>1, WordOfBytes
  <2>. QED  BY <1>1, <1>3, <2>1, <2>2, PowersAssumption
<1>5. 256 ^ (WordBytes - 1) >= 256
  <2>1. 256 ^ 1 = 256
    <3>1. 0 + 1 = 1 /\ 0 \in 0 .. WordBytes - 1
      BY <1>1
    <3>. QED  BY <3>1, PowersAssumption
  <2>2. 1 \in 0 .. WordBytes /\ WordBytes - 1 \in 0 .. WordBytes /\ 1 =< WordBytes - 1
    BY <1>1
  <2>. QED  BY ZenonT(30), <1>3, <2>1, <2>2
<1>6. \A x \in Nat \ {0} : (256 * x) % 256 = 0 /\ 256 * x \in Nat \ {0}
  OBVIOUS
<1>7. WordSize >= 65536
  <2>. DEFINE x == 256 ^ (WordBytes - 1)
  <2>1. x \in Nat /\ x >= 256 /\ WordSize = 256 * x
    BY <1>4, <1>5
  <2>. HIDE DEF x
  <2>. QED  BY <2>1
<1>. QED  BY <1>1, <1>2, <1>3, <1>4, <1>6, <1>7, PowersAssumption

\* A hardware address has bits of a word that the processor computes with.
LEMMA Addresses ==
  /\ WordBytes \in Nat \ {0} /\ HwWords \in Nat \ {0}
  /\ MemoryWords \in Nat /\ MemoryWords > 2 /\ MemoryWords =< HwWords
  /\ AddressSize =< WordSize /\ HwWords =< AddressSize
  /\ \A x \in Int : (x % WordSize) % AddressSize = x % AddressSize
  /\ \A x \in Int : (x % WordSize) % HwWords = x % HwWords
  /\ \A a \in Nat : a \div WordBytes < MemoryWords => a < AddressSize
  /\ \A a \in Nat : a < AddressSize => a \div WordBytes \in 0 .. HwWords - 1
<1>1. WordBytes \in Nat \ {0} /\ WordSize \in Nat \ {0} /\ AddressSize \in Nat \ {0}
  BY Sizes
<1>2. MemoryWords \in Nat /\ MemoryWords > 2
  BY IsaAssumption
<1>3. HwWords \in Nat
  BY <1>1, Division DEF HwWords
<1>4. AddressSize = WordBytes * HwWords
  BY <1>1, <1>3, AddressAssumption
<1>5. MemoryWords =< HwWords
  <2>. SUFFICES ASSUME MemoryWords >= HwWords + 1 PROVE FALSE
    BY <1>2, <1>3
  <2>1. WordBytes * MemoryWords >= WordBytes * (HwWords + 1)
    BY <1>1, <1>2, <1>3
  <2>2. WordBytes * (HwWords + 1) = WordBytes * HwWords + WordBytes
    BY <1>1, <1>3
  <2>3. WordBytes * MemoryWords =< AddressSize
    BY <1>1, <1>2, IsaAssumption
  <2>. QED  BY <1>1, <1>2, <1>4, <1>3, <2>1, <2>2, <2>3
<1>6. AddressSize =< WordSize
  <2>. DEFINE k == WordSize \div AddressSize
  <2>1. k \in Int /\ WordSize = AddressSize * k
    BY <1>1, Division, AddressAssumption
  <2>. HIDE DEF k
  <2>2. k >= 1
    BY <1>1, <2>1
  <2>. QED  BY <1>1, <2>1, <2>2
<1>7. HwWords =< AddressSize
  BY <1>1, <1>4, <1>3
<1>8. \A x \in Int : (x % WordSize) % AddressSize = x % AddressSize
  BY <1>1, AddressAssumption, RemainderTwice
<1>9. \A x \in Int : (x % WordSize) % HwWords = x % HwWords
  <2>1. HwWords \in Nat \ {0}
    BY <1>2, <1>3, <1>5
  <2>. QED  BY <1>1, <2>1, AddressAssumption, RemainderTwice
<1>10. ASSUME NEW a \in Nat, a \div WordBytes < MemoryWords PROVE a < AddressSize
  <2>. DEFINE q == a \div WordBytes
  <2>1. q \in Nat /\ a < WordBytes * q + WordBytes
    BY <1>1, Division
  <2>2. q + 1 =< MemoryWords
    BY <1>2, <1>10, <2>1
  <2>. HIDE DEF q
  <2>3. WordBytes * (q + 1) =< WordBytes * MemoryWords
    BY <1>1, <1>2, <2>1, <2>2
  <2>4. WordBytes * MemoryWords =< AddressSize
    BY <1>1, <1>2, IsaAssumption
  <2>. QED  BY <1>1, <1>2, <2>1, <2>3, <2>4
<1>11. ASSUME NEW a \in Nat, a < AddressSize PROVE a \div WordBytes \in 0 .. HwWords - 1
  <2>. DEFINE q == a \div WordBytes
  <2>1. q \in Nat /\ a >= WordBytes * q
    BY <1>1, Division
  <2>. HIDE DEF q
  <2>2. ~(q >= HwWords)
    BY <1>1, <1>4, <1>3, <1>11, <2>1
  <2>. QED  BY <1>3, <2>1, <2>2 DEF q
<1>. QED  BY <1>1, <1>2, <1>3, <1>5, <1>6, <1>7, <1>8, <1>9, <1>10, <1>11

\* The low bits of a word.
LEMMA LowBits == \A x \in Int : x % 256 \in 0 .. 255 /\ x % 16 \in 0 .. 15
OBVIOUS

\* A word has two bytes, and a whole number of nibbles.
LEMMA WordIsWide == WordSize \in Nat /\ WordSize >= 256 /\ WordSize % 16 = 0
<1>. DEFINE k == WordSize \div 256
<1>1. k \in Int /\ WordSize = 256 * k /\ WordSize \in Nat \ {0}
  BY Sizes, Division
<1>. HIDE DEF k
<1>. QED  BY <1>1

--------------------------------------------------------------------------------
(***************************************************************************)
(* Recursive functions over data, and the memory that the loaders make.    *)
(***************************************************************************)
\* The quotient of a division, from what is left.
LEMMA Quotient ==
  ASSUME NEW p \in Nat \ {0}, NEW q \in Int, NEW r \in 0 .. p - 1
  PROVE  (p * q + r) \div p = q
OBVIOUS

\* The byte of the image at a place, which is zero behind its end.
Cell(bytes, k) == IF k \in DOMAIN bytes THEN bytes[k] ELSE 0

\* The function by which WordAt puts a word together, byte by byte.
Low(bytes, address) ==
  CHOOSE low : low = [n \in 0 .. WordBytes |->
    IF n = 0 THEN 0
    ELSE low[n - 1] + 256 ^ (n - 1) * (IF address * WordBytes + n \in DOMAIN bytes
                                       THEN bytes[address * WordBytes + n] ELSE 0)]

\* A word is what its lowest byte and each byte after it add up to.
LEMMA LowFacts ==
  ASSUME NEW bytes \in Seq(Octet), NEW address \in Nat
  PROVE  LET f == Low(bytes, address)
         IN  /\ f[0] = 0
             /\ \A n \in 1 .. WordBytes :
                  f[n] = f[n - 1] + 256 ^ (n - 1) * Cell(bytes, address * WordBytes + n)
             /\ WordAt(bytes, address) = f[WordBytes]
             /\ \A k : Cell(bytes, k) \in Octet
<1>. DEFINE Part(n) == 256 ^ (n - 1) * Cell(bytes, address * WordBytes + n)
            g == [n \in 1 .. WordBytes |-> [x \in Nat |-> x + Part(n)]]
            f == Low(bytes, address)
<1>1. WordBytes \in Nat /\ 0 \in Nat
  BY Sizes
<1>2. \A k : Cell(bytes, k) \in Octet
  <2>1. \A k \in DOMAIN bytes : bytes[k] \in Octet
    OBVIOUS
  <2>2. 0 \in Octet
    BY DEF Octet
  <2>. QED  BY ONLY <2>1, <2>2 DEF Cell
<1>3. ASSUME NEW n \in 1 .. WordBytes PROVE Part(n) \in Nat
  <2>1. n - 1 \in 0 .. WordBytes
    BY <1>1
  <2>2. 256 ^ (n - 1) \in Nat
    BY <2>1, Sizes
  <2>3. Cell(bytes, address * WordBytes + n) \in Nat
    <3>1. \A c \in Octet : c \in Nat
      BY DEF Octet
    <3>. QED  BY ONLY <1>2, <3>1
  <2>4. \A x \in Nat, y \in Nat : x * y \in Nat
    OBVIOUS
  <2>. QED  BY <2>2, <2>3, <2>4
<1>. HIDE DEF Part
<1>4. g \in [1 .. WordBytes -> [Nat -> Nat]]
  BY <1>3
<1>5. PICK h \in [0 .. WordBytes -> Nat] :
        Unfolds(h, 0, WordBytes, g)
  <2>. HIDE DEF g
  <2>. QED  BY <1>1, <1>4, NatRecursion
<1>6. h = [n \in 0 .. WordBytes |-> IF n = 0 THEN 0 ELSE h[n - 1] + Part(n)]
  <2>1. ASSUME NEW n \in 1 .. WordBytes PROVE h[n] = h[n - 1] + Part(n)
    <3>1. n - 1 \in 0 .. WordBytes
      BY <1>1
    <3>. QED  BY <1>5, <3>1 DEF Unfolds
  <2>. QED  BY <1>5, <2>1 DEF Unfolds
<1>7. f = [n \in 0 .. WordBytes |-> IF n = 0 THEN 0 ELSE f[n - 1] + Part(n)]
  BY ZenonT(30), <1>6 DEF Low, Part, Cell
<1>8. WordAt(bytes, address) = f[WordBytes]
  BY DEF WordAt, Low
<1>. HIDE DEF f, g
<1>9. f[0] = 0 /\ \A n \in 1 .. WordBytes : f[n] = f[n - 1] + Part(n)
  BY <1>1, <1>7
<1>. QED  BY <1>2, <1>8, <1>9 DEF Part, f

\* Its bytes are those of the image.
LEMMA Digits ==
  ASSUME NEW bytes \in Seq(Octet), NEW address \in Nat
  PROVE  /\ WordAt(bytes, address) \in Word
         /\ \A j \in 0 .. WordBytes - 1 :
              (WordAt(bytes, address) \div 256 ^ j) % 256
                = Cell(bytes, address * WordBytes + (j + 1))
<1>. DEFINE f == Low(bytes, address)
            cell(n) == Cell(bytes, address * WordBytes + n)
<1>1. /\ f[0] = 0
      /\ \A n \in 1 .. WordBytes : f[n] = f[n - 1] + 256 ^ (n - 1) * cell(n)
      /\ WordAt(bytes, address) = f[WordBytes]
  BY LowFacts
<1>2. \A n : cell(n) \in 0 .. 255
  BY ZenonT(30), LowFacts DEF Octet
<1>3. /\ WordBytes \in Nat /\ WordBytes >= 2
      /\ \A n \in 0 .. WordBytes : 256 ^ n \in Nat \ {0}
      /\ \A n \in 0 .. WordBytes - 1 : 256 ^ (n + 1) = 256 * 256 ^ n
      /\ 256 ^ 0 = 1 /\ 256 ^ WordBytes = WordSize
  BY Sizes, WordOfBytes, PowersAssumption
<1>. HIDE DEF f, cell
<1>4. \A n \in 0 .. WordBytes : f[n] \in 0 .. 256 ^ n - 1
  <2>. DEFINE K == {n \in Nat : n =< WordBytes => f[n] \in 0 .. 256 ^ n - 1}
  <2>1. 0 \in K
    BY <1>1, <1>3
  <2>2. ASSUME NEW n \in Nat, n \in K PROVE n + 1 \in K
    <3>. SUFFICES ASSUME n + 1 =< WordBytes PROVE f[n + 1] \in 0 .. 256 ^ (n + 1) - 1
      OBVIOUS
    <3>1. n \in 0 .. WordBytes /\ n \in 0 .. WordBytes - 1 /\ n + 1 \in 1 .. WordBytes
          /\ (n + 1) - 1 = n
      BY <1>3
    <3>2. f[n + 1] = f[n] + 256 ^ n * cell(n + 1) /\ 256 ^ (n + 1) = 256 * 256 ^ n
      BY <1>1, <1>3, <3>1
    <3>3. f[n] \in 0 .. 256 ^ n - 1 /\ 256 ^ n \in Nat \ {0}
      BY <1>3, <2>2, <3>1
    <3>. DEFINE p == 256 ^ n
                l == f[n]
                c == cell(n + 1)
    <3>4. p \in Nat \ {0} /\ l \in 0 .. p - 1 /\ c \in 0 .. 255
      BY <1>2, <3>3
    <3>. HIDE DEF p, l, c
    <3>5. l + p * c \in 0 .. 256 * p - 1
      BY <3>4
    <3>. QED  BY <3>2, <3>5 DEF p, l, c
  <2>3. Nat \subseteq K
    BY <2>1, <2>2, SetInduction
  <2>. QED  BY <2>3
<1>5. WordAt(bytes, address) \in Word
  BY <1>1, <1>3, <1>4 DEF Word
<1>6. ASSUME NEW j \in 0 .. WordBytes - 1
      PROVE  (WordAt(bytes, address) \div 256 ^ j) % 256 = cell(j + 1)
  <2>. DEFINE p == 256 ^ j
              c == cell(j + 1)
              above == j + 1
              K == {n \in Nat : above + n =< WordBytes =>
                      \E m \in Nat, k \in Nat : /\ f[above + n] = f[j] + p * (c + 256 * m)
                                                /\ 256 ^ (above + n) = p * (256 * k)}
  <2>1. /\ p \in Nat \ {0} /\ f[j] \in 0 .. p - 1 /\ c \in 0 .. 255
        /\ f[above] = f[j] + p * c /\ 256 ^ above = 256 * p /\ above \in 1 .. WordBytes
    <3>1. j \in 0 .. WordBytes /\ j + 1 \in 1 .. WordBytes /\ (j + 1) - 1 = j
      BY <1>3
    <3>2. p \in Nat \ {0} /\ f[j] \in 0 .. p - 1 /\ c \in 0 .. 255
      BY <1>2, <1>3, <1>4, <3>1
    <3>3. f[j + 1] = f[(j + 1) - 1] + 256 ^ ((j + 1) - 1) * cell(j + 1)
      BY <1>1, <3>1
    <3>4. 256 ^ (j + 1) = 256 * 256 ^ j
      BY <1>3
    <3>. QED  BY <3>1, <3>2, <3>3, <3>4
  <2>. HIDE DEF p, c, above
  <2>2. 0 \in K
    <3>1. above + 0 = above /\ p * c = p * (c + 256 * 0) /\ 256 * p = p * (256 * 1)
      BY <2>1
    <3>2. f[above + 0] = f[j] + p * (c + 256 * 0) /\ 256 ^ (above + 0) = p * (256 * 1)
      BY <2>1, <3>1
    <3>. QED  BY ZenonT(30), <3>2
  <2>3. ASSUME NEW n \in Nat, n \in K PROVE n + 1 \in K
    <3>. SUFFICES ASSUME above + (n + 1) =< WordBytes
                  PROVE  \E m \in Nat, k \in Nat :
                           /\ f[above + (n + 1)] = f[j] + p * (c + 256 * m)
                           /\ 256 ^ (above + (n + 1)) = p * (256 * k)
      OBVIOUS
    <3>1. /\ above + n \in 0 .. WordBytes - 1 /\ above + (n + 1) = (above + n) + 1
          /\ (above + n) + 1 \in 1 .. WordBytes /\ ((above + n) + 1) - 1 = above + n
      BY <1>3, <2>1
    <3>2. PICK m \in Nat, k \in Nat : /\ f[above + n] = f[j] + p * (c + 256 * m)
                                      /\ 256 ^ (above + n) = p * (256 * k)
      BY <1>3, <2>3, <3>1
    <3>. DEFINE d == cell(above + (n + 1))
    <3>3. /\ f[above + (n + 1)] = f[above + n] + 256 ^ (above + n) * d
          /\ 256 ^ (above + (n + 1)) = 256 * 256 ^ (above + n) /\ d \in 0 .. 255
      <4>1. f[(above + n) + 1] = f[((above + n) + 1) - 1]
                                   + 256 ^ (((above + n) + 1) - 1) * cell((above + n) + 1)
        BY <1>1, <3>1
      <4>2. 256 ^ ((above + n) + 1) = 256 * 256 ^ (above + n)
        BY SMTT(30), <1>3, <3>1
      <4>. QED  BY SMTT(30), <1>2, <3>1, <4>1, <4>2
    <3>. HIDE DEF d
    <3>4. f[j] \in Nat
      BY <2>1
    <3>5. ASSUME NEW l \in Nat, NEW x \in Nat, NEW y \in Nat, NEW z \in Nat,
                 NEW u \in Nat, NEW v \in Nat
          PROVE  /\ (l + x * (y + 256 * u)) + (x * (256 * v)) * z = l + x * (y + 256 * (u + v * z))
                 /\ 256 * (x * (256 * v)) = x * (256 * (256 * v))
                 /\ u + v * z \in Nat /\ 256 * v \in Nat
      OBVIOUS
    <3>6. p \in Nat /\ c \in Nat /\ d \in Nat
      BY <2>1, <3>3
    <3>7. /\ f[above + (n + 1)] = f[j] + p * (c + 256 * (m + k * d)) /\ m + k * d \in Nat
          /\ 256 ^ (above + (n + 1)) = p * (256 * (256 * k)) /\ 256 * k \in Nat
      BY SMTT(30), <3>2, <3>3, <3>4, <3>5, <3>6
    <3>. DEFINE M == m + k * d
                J == 256 * k
    <3>8. /\ f[above + (n + 1)] = f[j] + p * (c + 256 * M) /\ M \in Nat
          /\ 256 ^ (above + (n + 1)) = p * (256 * J) /\ J \in Nat
      BY <3>7
    <3>. HIDE DEF M, J
    <3>. QED  BY <3>8
  <2>4. WordBytes - above \in K /\ above + (WordBytes - above) = WordBytes
    <3>1. Nat \subseteq K
      BY ZenonT(30), <2>2, <2>3, SetInduction
    <3>2. WordBytes - above \in Nat /\ above + (WordBytes - above) = WordBytes
      BY <1>3, <2>1
    <3>. HIDE DEF K
    <3>. QED  BY <3>1, <3>2
  <2>5. PICK m \in Nat : f[WordBytes] = f[j] + p * (c + 256 * m)
    BY <1>3, <2>4
  <2>6. (p * (c + 256 * m) + f[j]) \div p = c + 256 * m
    <3>1. c + 256 * m \in Int
      BY <2>1
    <3>. QED  BY ZenonT(30), <2>1, <3>1, Quotient
  <2>7. (c + 256 * m) % 256 = c
    BY <2>1
  <2>8. f[WordBytes] = p * (c + 256 * m) + f[j]
    <3>1. \A x \in Nat, y \in Nat : x + y = y + x
      OBVIOUS
    <3>2. \A x \in Nat, y \in Nat : x * y \in Nat
      OBVIOUS
    <3>3. p \in Nat /\ c + 256 * m \in Nat /\ f[j] \in Nat
      BY <2>1
    <3>. QED  BY <2>5, <3>1, <3>2, <3>3
  <2>. QED  BY <1>1, <2>6, <2>7, <2>8 DEF p, c
<1>. QED  BY <1>5, <1>6 DEF cell

\* The byte at an address is that of the image, as far as the image goes.
LEMMA ByteOfImage ==
  ASSUME NEW bytes \in Seq(Octet), NEW a \in Nat, a \div WordBytes < MemoryWords
  PROVE  ByteAt(Image(bytes), a) = Cell(bytes, a + 1)
<1>. DEFINE q == a \div WordBytes
            r == a % WordBytes
<1>1. q \in Nat /\ r \in 0 .. WordBytes - 1 /\ a = q * WordBytes + r
  <2>1. WordBytes \in Nat \ {0}
    BY Sizes
  <2>2. q \in Int /\ q >= 0 /\ r \in 0 .. WordBytes - 1 /\ a = WordBytes * q + r
    <3>1. a \in Int /\ a >= 0
      OBVIOUS
    <3>. QED  BY <2>1, <3>1, Division
  <2>. HIDE DEF q, r
  <2>. QED  BY <2>1, <2>2
<1>2. q \in 0 .. MemoryWords - 1
  BY <1>1, IsaAssumption
<1>. HIDE DEF q, r
<1>3. q * WordBytes + (r + 1) = a + 1
  BY <1>1, Sizes
<1>4. (WordAt(bytes, q) \div 256 ^ r) % 256 = Cell(bytes, q * WordBytes + (r + 1))
  BY <1>1, Digits
<1>. QED  BY <1>2, <1>3, <1>4 DEF ByteAt, Image, q, r

\* The memory of words.
LEMMA ImageType ==
  ASSUME NEW bytes \in Seq(Octet)
  PROVE  Image(bytes) \in [0 .. MemoryWords - 1 -> Word]
<1>1. \A i \in 0 .. MemoryWords - 1 : WordAt(bytes, i) \in Word
  BY Digits
<1>. QED  BY <1>1 DEF Image

--------------------------------------------------------------------------------
(***************************************************************************)
(* The bytes of a program.                                                 *)
(***************************************************************************)
\* The code of an operation is its place.
LEMMA Coded ==
  ASSUME NEW c \in 0 .. 15
  PROVE  Code[Opcode[c + 1]] = c
<1>1. \A d \in 0 .. 15 : Opcode[d + 1] = Opcode[c + 1] => d = c
  BY DEF Opcode
<1>2. Opcode[c + 1] \in ToSet(Opcode)
  BY DEF Opcode, ToSet
<1>. QED  BY <1>1, <1>2 DEF Code

\* The ones a program is made of.
LEMMA Codes ==
  /\ Code["LDAC"] = 3 /\ Code["LDBC"] = 4 /\ Code["BR"] = 9
  /\ Code["OPR"] = 13 /\ Code["PFIX"] = 14 /\ Code["NFIX"] = 15
<1>1. /\ Opcode[3 + 1] = "LDAC" /\ Opcode[4 + 1] = "LDBC" /\ Opcode[9 + 1] = "BR"
      /\ Opcode[13 + 1] = "OPR" /\ Opcode[14 + 1] = "PFIX" /\ Opcode[15 + 1] = "NFIX"
  BY DEF Opcode
<1>. QED  BY <1>1, Coded

\* A number has as many nibbles as it takes to be less than their power.
LEMMA Nibbles ==
  ASSUME NEW x \in Int, x < WordSize
  PROVE  /\ NibblesOf(x) \in 1 .. WordNibbles
         /\ x < 16 ^ NibblesOf(x)
         /\ x < 16 => NibblesOf(x) = 1
<1>. DEFINE S == {n \in 1 .. WordNibbles - 1 : x >= 16 ^ n}
            c == Cardinality(S)
<1>1. /\ WordNibbles \in Nat /\ WordNibbles >= 4
      /\ \A i \in 0 .. WordNibbles : 16 ^ i \in Nat \ {0}
      /\ \A i \in 0 .. WordNibbles, j \in 0 .. WordNibbles : i =< j => 16 ^ i =< 16 ^ j
  BY Sizes
<1>2. /\ IsFiniteSet(1 .. WordNibbles - 1)
      /\ Cardinality(1 .. WordNibbles - 1) = WordNibbles - 1
  BY <1>1, FS_Interval
<1>3. S \subseteq 1 .. WordNibbles - 1
  OBVIOUS
<1>4. IsFiniteSet(S) /\ c \in Nat /\ c =< WordNibbles - 1
  BY <1>2, <1>3, FS_Subset, FS_CardinalityType
<1>5. NibblesOf(x) = 1 + c
  BY DEF NibblesOf
<1>6. x < 16 ^ (1 + c)
  <2>. SUFFICES ASSUME 1 + c =< WordNibbles - 1, x >= 16 ^ (1 + c) PROVE FALSE
    <3>1. 1 + c \in 0 .. WordNibbles /\ WordNibbles \in 0 .. WordNibbles
      BY <1>1, <1>4
    <3>2. 1 + c = WordNibbles \/ 1 + c =< WordNibbles - 1
      BY <1>1, <1>4
    <3>3. 16 ^ (1 + c) \in Int
      BY <1>1, <3>1
    <3>. QED  BY <3>2, <3>3 DEF WordSize
  <2>1. \A n \in 1 .. 1 + c : n \in 1 .. WordNibbles - 1 /\ x >= 16 ^ n
    <3>. SUFFICES ASSUME NEW n \in 1 .. 1 + c PROVE n \in 1 .. WordNibbles - 1 /\ x >= 16 ^ n
      OBVIOUS
    <3>1. n \in 0 .. WordNibbles /\ 1 + c \in 0 .. WordNibbles /\ n =< 1 + c
      BY <1>1, <1>4
    <3>2. 16 ^ n =< 16 ^ (1 + c) /\ 16 ^ n \in Nat /\ 16 ^ (1 + c) \in Nat
      BY <1>1, <3>1
    <3>. QED  BY <1>1, <1>4, <3>2
  <2>2. 1 .. 1 + c \subseteq S
    BY <2>1
  <2>3. Cardinality(1 .. 1 + c) = 1 + c
    BY <1>4, FS_Interval
  <2>4. Cardinality(1 .. 1 + c) =< c
    BY <1>4, <2>2, FS_Subset
  <2>. QED  BY <1>4, <2>3, <2>4
<1>7. ASSUME x < 16 PROVE c = 0
  <2>1. 16 ^ 1 = 16
    <3>1. 0 \in 0 .. WordNibbles - 1 /\ 0 + 1 = 1
      BY <1>1
    <3>. QED  BY <3>1, PowersAssumption
  <2>2. S = {}
    <3>. SUFFICES ASSUME NEW n \in S PROVE FALSE
      OBVIOUS
    <3>1. n \in 0 .. WordNibbles /\ 1 \in 0 .. WordNibbles /\ 1 =< n
      BY <1>1
    <3>2. 16 ^ 1 =< 16 ^ n /\ 16 ^ n \in Nat
      BY <1>1, <3>1
    <3>. QED  BY <1>7, <2>1, <3>2
  <2>. QED  BY <2>2, FS_EmptySet
<1>. QED  BY <1>1, <1>4, <1>5, <1>6, <1>7

\* The size of an operand, and what its nibbles are worth.
LEMMA SizeFacts ==
  ASSUME NEW v \in Int32
  PROVE  /\ Size(v) \in 1 .. WordNibbles
         /\ v < 0 => Size(v) >= 2
         /\ v # MinInt => v < 16 ^ Size(v) /\ -(16 ^ Size(v)) < v
         /\ 0 =< v /\ v < 16 => Size(v) = 1
<1>1. /\ WordNibbles \in Nat /\ WordNibbles >= 4 /\ WordSize \in Nat /\ WordSize >= 65536
      /\ \A i \in 0 .. WordNibbles : 16 ^ i \in Nat \ {0}
      /\ \A i \in 0 .. WordNibbles, j \in 0 .. WordNibbles : i =< j => 16 ^ i =< 16 ^ j
  BY Sizes
<1>2. PICK half \in Nat : half = WordSize \div 2 /\ half =< WordSize /\ half > 16
  BY <1>1
<1>3. v \in Int /\ v < half /\ -half =< v /\ MinInt = -half
  BY <1>2 DEF Int32, MinInt
<1>4. Abs(v) \in Int /\ Abs(v) < WordSize
  BY <1>1, <1>2, <1>3 DEF Abs
<1>. DEFINE n == NibblesOf(Abs(v))
<1>5. n \in 1 .. WordNibbles /\ Abs(v) < 16 ^ n /\ (Abs(v) < 16 => n = 1)
  BY <1>4, Nibbles
<1>. HIDE DEF n
<1>6. NumNibbles(v) = IF v < 0 /\ Abs(v) < 16 THEN 2 ELSE n
  BY DEF NumNibbles, n
<1>7. Size(v) = IF v < 0 /\ (Abs(v) < 16 \/ n = 1) THEN 2 ELSE n
  BY <1>6 DEF Size
<1>8. Size(v) \in 1 .. WordNibbles /\ (v < 0 => Size(v) >= 2)
  BY <1>1, <1>3, <1>5, <1>7
<1>9. 0 =< v /\ v < 16 => Size(v) = 1
  BY <1>3, <1>5, <1>7 DEF Abs
<1>10. n =< Size(v)
  BY <1>5, <1>7
<1>11. 16 ^ n =< 16 ^ Size(v) /\ 16 ^ n \in Nat /\ 16 ^ Size(v) \in Nat
  <2>1. n \in 0 .. WordNibbles /\ Size(v) \in 0 .. WordNibbles
    BY <1>5, <1>8
  <2>. QED  BY <1>1, <1>10, <2>1
<1>12. v # MinInt => v < 16 ^ Size(v) /\ -(16 ^ Size(v)) < v
  BY <1>3, <1>4, <1>5, <1>11 DEF Abs
<1>. QED  BY <1>8, <1>9, <1>12

\* An instruction with its prefixes is bytes.
LEMMA AssembledType ==
  ASSUME NEW v \in Int32, NEW op \in {"BR", "LDAC", "LDBC", "OPR"}
  PROVE  /\ Assembled(op, v) \in Seq(Octet)
         /\ Len(Assembled(op, v)) = Size(v)
         /\ \A i \in 1 .. Size(v) :
              /\ Nibble(v, Size(v) - i) \in 0 .. 15
              /\ Assembled(op, v)[i]
                   = 16 * (IF i = Size(v) THEN Code[op]
                           ELSE IF i = 1 /\ v < 0 THEN 15 ELSE 14) + Nibble(v, Size(v) - i)
<1>1. Size(v) \in 1 .. WordNibbles /\ WordNibbles \in Nat /\ v \in Int
  BY SizeFacts, Sizes DEF Int32, MinInt
<1>2. ASSUME NEW i \in 1 .. Size(v) PROVE Nibble(v, Size(v) - i) \in 0 .. 15
  <2>1. Size(v) - i \in 0 .. WordNibbles
    BY <1>1
  <2>. DEFINE p == 16 ^ (Size(v) - i)
  <2>2. p \in Nat \ {0}
    BY <2>1, Sizes
  <2>. HIDE DEF p
  <2>3. v \div p \in Int
    BY <1>1, <2>2, Division
  <2>. QED  BY <2>3, LowBits DEF Nibble, p
<1>3. Code[op] \in 0 .. 15 /\ Code["PFIX"] = 14 /\ Code["NFIX"] = 15
  BY Codes
<1>4. \A i \in 1 .. Size(v) :
        Assembled(op, v)[i] = 16 * (IF i = Size(v) THEN Code[op]
                                    ELSE IF i = 1 /\ v < 0 THEN 15 ELSE 14) + Nibble(v, Size(v) - i)
  BY <1>3 DEF Assembled, Prefix
<1>5. \A i \in 1 .. Size(v) : Assembled(op, v)[i] \in Octet
  <2>1. \A c \in 0 .. 15, x \in 0 .. 15 : 16 * c + x \in Octet
    BY DEF Octet
  <2>. QED  BY <1>2, <1>3, <1>4, <2>1
<1>6. DOMAIN Assembled(op, v) = 1 .. Size(v)
  BY DEF Assembled
<1>7. Assembled(op, v) = [i \in 1 .. Size(v) |-> Assembled(op, v)[i]]
  BY DEF Assembled
<1>8. Size(v) \in Nat
  BY <1>1
<1>9. Assembled(op, v) \in Seq(Octet) /\ Len(Assembled(op, v)) = Size(v)
  <2>1. ASSUME NEW m \in Nat, NEW f, f = [i \in 1 .. m |-> f[i]], \A i \in 1 .. m : f[i] \in Octet
        PROVE  f \in Seq(Octet) /\ Len(f) = m
    BY <2>1
  <2>. QED  BY <1>5, <1>7, <1>8, <2>1
<1>. QED  BY <1>2, <1>4, <1>9

\* One sequence behind another.
LEMMA Joined ==
  ASSUME NEW s \in Seq(Octet), NEW t \in Seq(Octet)
  PROVE  /\ s \o t \in Seq(Octet) /\ Len(s \o t) = Len(s) + Len(t)
         /\ \A i \in 1 .. Len(s) : (s \o t)[i] = s[i]
         /\ \A i \in 1 .. Len(t) : (s \o t)[Len(s) + i] = t[i]
OBVIOUS

\* The bytes of the first three parts of every program: a branch over a stack pointer.
LEMMA Header ==
  LET br == Assembled("BR", 2 * WordBytes - 1)
      pad == [i \in 1 .. WordBytes - 1 |-> 0]
      sp == [i \in 1 .. WordBytes |-> (StackPointer \div 256 ^ (i - 1)) % 256]
      header == br \o pad \o sp
  IN  /\ header \in Seq(Octet) /\ Len(header) = 2 * WordBytes
      /\ header[1] = 144 + (2 * WordBytes - 1)
      /\ header[2 * WordBytes] \in 0 .. 127
<1>. DEFINE v == 2 * WordBytes - 1
            br == Assembled("BR", v)
            pad == [i \in 1 .. WordBytes - 1 |-> 0]
            sp == [i \in 1 .. WordBytes |-> (StackPointer \div 256 ^ (i - 1)) % 256]
<1>1. /\ WordBytes \in 2 .. 8 /\ WordSize \in Nat /\ WordSize >= 65536
      /\ \A i \in 0 .. WordBytes : 256 ^ i \in Nat \ {0}
  BY Sizes
<1>2. v \in Int32 /\ 0 =< v /\ v < 16
  <2>1. WordSize \div 2 >= 16 /\ WordSize \div 2 \in Int
    BY <1>1
  <2>. QED  BY <1>1, <2>1 DEF Int32, MinInt
<1>3. Size(v) = 1
  BY <1>2, SizeFacts
<1>4. br \in Seq(Octet) /\ Len(br) = 1 /\ br[1] = 144 + v
  <2>1. v \div 16 ^ 0 = v /\ v % 16 = v
    BY <1>2, PowersAssumption DEF Int32, MinInt
  <2>2. Nibble(v, 1 - 1) = v
    BY <2>1 DEF Nibble
  <2>. HIDE DEF v
  <2>3. Assembled("BR", v)[1] = 16 * Code["BR"] + Nibble(v, 1 - 1)
    BY <1>2, <1>3, AssembledType
  <2>4. Assembled("BR", v) \in Seq(Octet) /\ Len(Assembled("BR", v)) = 1
    BY <1>2, <1>3, AssembledType
  <2>. QED  BY <1>2, <2>2, <2>3, <2>4, Codes
<1>5. pad \in Seq(Octet) /\ Len(pad) = WordBytes - 1
  BY <1>1 DEF Octet
<1>6. sp \in Seq(Octet) /\ Len(sp) = WordBytes
  <2>1. ASSUME NEW i \in 1 .. WordBytes PROVE sp[i] \in Octet
    <3>1. i - 1 \in 0 .. WordBytes /\ StackPointer \in Int
      BY <1>1, IsaAssumption
    <3>. DEFINE p == 256 ^ (i - 1)
    <3>2. p \in Nat \ {0}
      BY <1>1, <3>1
    <3>. HIDE DEF p
    <3>3. StackPointer \div p \in Int
      BY <3>1, <3>2, Division
    <3>4. (StackPointer \div p) % 256 \in Octet
      BY <3>3, LowBits DEF Octet
    <3>. QED  BY <3>4 DEF p
  <2>. QED  BY <1>1, <2>1
<1>7. sp[WordBytes] \in 0 .. 127
  <2>. DEFINE p == 256 ^ (WordBytes - 1)
              q == StackPointer \div p
  <2>1. p \in Nat \ {0} /\ WordSize = 256 * p
    <3>1. WordBytes - 1 \in 0 .. WordBytes - 1 /\ (WordBytes - 1) + 1 = WordBytes
      BY <1>1
    <3>2. 256 ^ WordBytes = WordSize
      BY Sizes, WordOfBytes
    <3>. QED  BY <1>1, <3>1, <3>2, PowersAssumption
  <2>2. StackPointer \in Nat /\ 2 * StackPointer < WordSize
    <3>1. /\ MemoryWords \in Nat /\ StackPointer \in Nat /\ StackPointer < MemoryWords
          /\ MemoryWords * WordBytes =< AddressSize /\ AddressSize =< WordSize
          /\ AddressSize \in Nat
      BY IsaAssumption, Addresses, Sizes
    <3>2. 2 * MemoryWords =< MemoryWords * WordBytes /\ MemoryWords * WordBytes \in Nat
      BY <1>1, <3>1
    <3>. QED  BY <1>1, <3>1, <3>2
  <2>. HIDE DEF p
  <2>3. q \in Nat /\ StackPointer >= p * q
    BY <2>1, <2>2, Division
  <2>4. q =< 127
    <3>. SUFFICES ASSUME q >= 128 PROVE FALSE
      BY <2>3
    <3>. HIDE DEF q
    <3>1. p * q >= p * 128 /\ p * q \in Nat
      BY <2>1, <2>3
    <3>. QED  BY <2>1, <2>2, <2>3, <3>1
  <2>. HIDE DEF q
  <2>5. q % 256 = q
    BY <2>3, <2>4
  <2>6. sp[WordBytes] = q % 256
    BY <1>1 DEF p, q
  <2>7. q \in 0 .. 127
    BY <2>3, <2>4
  <2>. QED  BY ONLY <2>5, <2>6, <2>7
<1>. HIDE DEF br, pad, sp
<1>. DEFINE two == br \o pad
            three == two \o sp
<1>8. /\ two \in Seq(Octet) /\ Len(two) = Len(br) + Len(pad)
      /\ \A i \in 1 .. Len(br) : two[i] = br[i]
  BY <1>4, <1>5, Joined
<1>9. Len(two) = WordBytes /\ two[1] = 144 + v
  BY <1>1, <1>4, <1>5, <1>8
<1>. HIDE DEF two
<1>10. /\ three \in Seq(Octet) /\ Len(three) = Len(two) + Len(sp)
       /\ \A i \in 1 .. Len(two) : three[i] = two[i]
       /\ \A i \in 1 .. Len(sp) : three[Len(two) + i] = sp[i]
  BY <1>6, <1>8, Joined
<1>11. Len(three) = 2 * WordBytes /\ three[1] = 144 + v /\ three[2 * WordBytes] = sp[WordBytes]
  <2>1. WordBytes + WordBytes = 2 * WordBytes /\ WordBytes \in 1 .. WordBytes /\ 1 \in 1 .. WordBytes
    BY <1>1
  <2>. HIDE DEF three
  <2>. QED  BY <1>6, <1>9, <1>10, <2>1
<1>. QED  BY <1>7, <1>10, <1>11 DEF two, br, pad, sp

\* The bytes of a program.
LEMMA Layout ==
  ASSUME NEW p \in Programs
  PROVE  /\ p.a \in Int32 /\ p.b \in Int32
         /\ CodeBytes(p) \in Seq(Octet) /\ Len(CodeBytes(p)) =< MemoryWords * WordBytes
         /\ 2 * WordBytes + (Size(p.a) + Size(p.b)) < Len(CodeBytes(p))
         /\ CodeBytes(p)[1] = 144 + (2 * WordBytes - 1)
         /\ CodeBytes(p)[2 * WordBytes] \in 0 .. 127
         /\ \A j \in 1 .. Size(p.a) :
              CodeBytes(p)[2 * WordBytes + j] = Assembled("LDAC", p.a)[j]
         /\ \A j \in 1 .. Size(p.b) :
              CodeBytes(p)[(2 * WordBytes + Size(p.a)) + j] = Assembled("LDBC", p.b)[j]
<1>. DEFINE header == Assembled("BR", 2 * WordBytes - 1) \o [i \in 1 .. WordBytes - 1 |-> 0]
                        \o [i \in 1 .. WordBytes |-> (StackPointer \div 256 ^ (i - 1)) % 256]
            s1 == header \o Assembled("LDAC", p.a)
            s2 == s1 \o Assembled("LDBC", p.b)
            s3 == s2 \o p.body
            s4 == s3 \o Assembled("LDAC", 0)
            s5 == s4 \o Assembled("OPR", 3)
            n == 2 * WordBytes
<1>1. /\ p.a \in Int32 /\ p.b \in Int32 /\ p.body \in Seq(Octet)
      /\ Len(CodeBytes(p)) =< MemoryWords * WordBytes
  BY ProgramsAssumption, FitAssumption DEF IsProgramSource, Octet
<1>2. CodeBytes(p) = s5
  BY DEF CodeBytes
<1>3. /\ header \in Seq(Octet) /\ Len(header) = n /\ n \in Nat /\ n >= 4
      /\ header[1] = 144 + (2 * WordBytes - 1) /\ header[n] \in 0 .. 127
  <2>1. n \in Nat /\ n >= 4
    BY Sizes
  <2>2. /\ header \in Seq(Octet) /\ Len(header) = n
        /\ header[1] = 144 + (2 * WordBytes - 1) /\ header[n] \in 0 .. 127
    BY Header
  <2>. QED  BY <2>1, <2>2
<1>4. 0 \in Int32 /\ 3 \in Int32
  <2>1. WordSize \div 2 >= 16 /\ WordSize \div 2 \in Int
    BY Sizes
  <2>. QED  BY <2>1 DEF Int32, MinInt
<1>5. /\ Size(0) = 1 /\ Size(3) = 1 /\ Size(p.a) \in Nat /\ Size(p.b) \in Nat
  BY <1>1, <1>4, SizeFacts, Sizes
<1>6. /\ Assembled("LDAC", p.a) \in Seq(Octet) /\ Len(Assembled("LDAC", p.a)) = Size(p.a)
      /\ Assembled("LDBC", p.b) \in Seq(Octet) /\ Len(Assembled("LDBC", p.b)) = Size(p.b)
      /\ Assembled("LDAC", 0) \in Seq(Octet) /\ Len(Assembled("LDAC", 0)) = 1
      /\ Assembled("OPR", 3) \in Seq(Octet) /\ Len(Assembled("OPR", 3)) = 1
  BY <1>1, <1>4, <1>5, AssembledType
<1>. HIDE DEF header, n
<1>7. /\ s1 \in Seq(Octet) /\ Len(s1) = n + Size(p.a)
      /\ \A i \in 1 .. n : s1[i] = header[i]
      /\ \A j \in 1 .. Size(p.a) : s1[n + j] = Assembled("LDAC", p.a)[j]
  <2>1. /\ s1 \in Seq(Octet) /\ Len(s1) = Len(header) + Len(Assembled("LDAC", p.a))
        /\ \A i \in 1 .. Len(header) : s1[i] = header[i]
        /\ \A j \in 1 .. Len(Assembled("LDAC", p.a)) : s1[Len(header) + j] = Assembled("LDAC", p.a)[j]
    BY <1>3, <1>6, Joined
  <2>. HIDE DEF s1
  <2>. QED  BY <1>3, <1>6, <2>1
<1>. HIDE DEF s1
<1>8. /\ s2 \in Seq(Octet) /\ Len(s2) = (n + Size(p.a)) + Size(p.b)
      /\ \A i \in 1 .. n + Size(p.a) : s2[i] = s1[i]
      /\ \A j \in 1 .. Size(p.b) : s2[(n + Size(p.a)) + j] = Assembled("LDBC", p.b)[j]
  <2>1. /\ s2 \in Seq(Octet) /\ Len(s2) = Len(s1) + Len(Assembled("LDBC", p.b))
        /\ \A i \in 1 .. Len(s1) : s2[i] = s1[i]
        /\ \A j \in 1 .. Len(Assembled("LDBC", p.b)) : s2[Len(s1) + j] = Assembled("LDBC", p.b)[j]
    BY <1>6, <1>7, Joined
  <2>. HIDE DEF s2
  <2>. QED  BY <1>6, <1>7, <2>1
<1>. HIDE DEF s2
<1>9. /\ s3 \in Seq(Octet) /\ Len(s3) = Len(s2) + Len(p.body) /\ Len(p.body) \in Nat
      /\ \A i \in 1 .. Len(s2) : s3[i] = s2[i]
  <2>1. /\ s3 \in Seq(Octet) /\ Len(s3) = Len(s2) + Len(p.body)
        /\ \A i \in 1 .. Len(s2) : s3[i] = s2[i]
        /\ \A j \in 1 .. Len(p.body) : s3[Len(s2) + j] = p.body[j]
    BY <1>1, <1>8, Joined
  <2>. HIDE DEF s3
  <2>. QED  BY <1>1, <1>8, <2>1
<1>. HIDE DEF s3
<1>10. /\ s4 \in Seq(Octet) /\ Len(s4) = Len(s3) + 1
       /\ \A i \in 1 .. Len(s3) : s4[i] = s3[i]
  <2>1. /\ s4 \in Seq(Octet) /\ Len(s4) = Len(s3) + Len(Assembled("LDAC", 0))
        /\ \A i \in 1 .. Len(s3) : s4[i] = s3[i]
        /\ \A j \in 1 .. Len(Assembled("LDAC", 0)) : s4[Len(s3) + j] = Assembled("LDAC", 0)[j]
    BY <1>6, <1>9, Joined
  <2>. HIDE DEF s4
  <2>. QED  BY <1>6, <1>9, <2>1
<1>. HIDE DEF s4
<1>11. /\ s5 \in Seq(Octet) /\ Len(s5) = Len(s4) + 1
       /\ \A i \in 1 .. Len(s4) : s5[i] = s4[i]
  <2>1. /\ s5 \in Seq(Octet) /\ Len(s5) = Len(s4) + Len(Assembled("OPR", 3))
        /\ \A i \in 1 .. Len(s4) : s5[i] = s4[i]
        /\ \A j \in 1 .. Len(Assembled("OPR", 3)) : s5[Len(s4) + j] = Assembled("OPR", 3)[j]
    BY <1>6, <1>10, Joined
  <2>. HIDE DEF s5
  <2>. QED  BY <1>6, <1>10, <2>1
<1>. HIDE DEF s5
<1>12. /\ \A i \in 1 .. (n + Size(p.a)) + Size(p.b) : s5[i] = s2[i]
       /\ Len(s5) > (n + Size(p.a)) + Size(p.b)
  <2>1. Len(s2) \in Nat /\ Len(s3) \in Nat /\ Len(s4) \in Nat
    BY <1>3, <1>5, <1>8, <1>9, <1>10
  <2>. QED  BY <1>8, <1>9, <1>10, <1>11, <2>1
<1>13. /\ \A i \in 1 .. n : i \in 1 .. n + Size(p.a) /\ i \in 1 .. (n + Size(p.a)) + Size(p.b)
       /\ \A j \in 1 .. Size(p.a) : /\ n + j \in 1 .. n + Size(p.a)
                                    /\ n + j \in 1 .. (n + Size(p.a)) + Size(p.b)
       /\ \A j \in 1 .. Size(p.b) : (n + Size(p.a)) + j \in 1 .. (n + Size(p.a)) + Size(p.b)
       /\ (n + Size(p.a)) + Size(p.b) = n + (Size(p.a) + Size(p.b))
       /\ 1 \in 1 .. n /\ n \in 1 .. n
  BY <1>3, <1>5
<1>14. \A i \in 1 .. n : s5[i] = header[i]
  BY <1>7, <1>8, <1>12, <1>13
<1>15. \A j \in 1 .. Size(p.a) : s5[n + j] = Assembled("LDAC", p.a)[j]
  BY <1>7, <1>8, <1>12, <1>13
<1>16. \A j \in 1 .. Size(p.b) : s5[(n + Size(p.a)) + j] = Assembled("LDBC", p.b)[j]
  BY <1>8, <1>12, <1>13
<1>17. s5[1] = 144 + (2 * WordBytes - 1) /\ s5[n] \in 0 .. 127
  BY <1>3, <1>13, <1>14
<1>. QED  BY <1>1, <1>2, <1>11, <1>12, <1>13, <1>15, <1>16, <1>17 DEF n

\* The first instruction is the branch.
LEMMA FirstIsBranch ==
  ASSUME NEW p \in Programs
  PROVE  /\ ByteAt(Image(CodeBytes(p)), 0) = 144 + (2 * WordBytes - 1)
         /\ ByteAt(Image(CodeBytes(p)), 0) \div 16 = 9
<1>1. /\ CodeBytes(p) \in Seq(Octet) /\ CodeBytes(p)[1] = 144 + (2 * WordBytes - 1)
      /\ 1 \in DOMAIN CodeBytes(p)
  <2>1. /\ CodeBytes(p) \in Seq(Octet) /\ CodeBytes(p)[1] = 144 + (2 * WordBytes - 1)
        /\ 2 * WordBytes + (Size(p.a) + Size(p.b)) < Len(CodeBytes(p))
        /\ Size(p.a) \in Nat /\ Size(p.b) \in Nat
    BY Layout, SizeFacts, Sizes
  <2>2. DOMAIN CodeBytes(p) = 1 .. Len(CodeBytes(p)) /\ Len(CodeBytes(p)) \in Nat
    BY <2>1
  <2>. QED  BY <2>1, <2>2, Sizes
<1>2. 0 \div WordBytes < MemoryWords /\ 0 + 1 = 1
  BY Sizes, IsaAssumption
<1>3. ByteAt(Image(CodeBytes(p)), 0) = CodeBytes(p)[1]
  BY <1>1, <1>2, ByteOfImage DEF Cell
<1>. QED  BY <1>1, <1>3, Sizes

\* A loaded program.
LEMMA Loaded ==
  ASSUME Init
  PROVE  \E p \in Programs :
           /\ program = [a |-> p.a, b |-> p.b, bytes |-> CodeBytes(p),
                         listing |-> Listing(CodeBytes(p))]
           /\ memory = Image(CodeBytes(p))
BY DEF Init

--------------------------------------------------------------------------------
(***************************************************************************)
(* Types.                                                                  *)
(***************************************************************************)
Shifted == {o \in Word : o % 16 = 0}

HostType == [out : Seq((0 .. 255) \X Word), reads : Nat, exit : Seq(Word)]

HwType ==
  [pc : 0 .. AddressSize - 1, areg : Word, breg : Word, oreg : Shifted, host : HostType,
   memory : [0 .. HwWords - 1 -> Word]]

\* What TypeOK leaves to the rest of the machine.
TypeInv ==
  /\ {pc, areg, breg} \subseteq Word
  /\ oreg \in Shifted
  /\ memory \in [0 .. MemoryWords - 1 -> Word]
  /\ host \in HostType
  /\ hw \in HwType

\* An instruction is a byte.
LEMMA ByteType ==
  ASSUME NEW n \in Nat, NEW mem \in [0 .. n - 1 -> Word], NEW a \in Nat,
         a \div WordBytes \in 0 .. n - 1
  PROVE  ByteAt(mem, a) \in 0 .. 255 /\ ByteAt(mem, a) % 16 \in 0 .. 15
<1>1. a % WordBytes \in 0 .. WordBytes - 1
  BY Addresses, Division
<1>2. 256 ^ (a % WordBytes) \in Nat \ {0}
  BY <1>1, Sizes
<1>3. mem[a \div WordBytes] \in Int
  BY WordIsWide DEF Word
<1>. DEFINE p == 256 ^ (a % WordBytes)
<1>4. mem[a \div WordBytes] \div p \in Int
  BY ZenonT(30), <1>2, <1>3, Division
<1>. HIDE DEF p
<1>5. (mem[a \div WordBytes] \div p) % 256 \in 0 .. 255
  BY ZenonT(30), <1>4, LowBits
<1>6. ByteAt(mem, a) \in 0 .. 255
  BY <1>5 DEF ByteAt, p
<1>7. \A b \in 0 .. 255 : b % 16 \in 0 .. 15
  OBVIOUS
<1>. QED  BY <1>6, <1>7

\* oreg and the nibble of an instruction do not overlap, and what a prefix makes of
\* them leaves room for the next one.
LEMMA OperandType ==
  ASSUME NEW o \in Shifted, NEW nibble \in 0 .. 15
  PROVE  /\ o + nibble \in Word
         /\ ((o + nibble) * 16) % WordSize \in Shifted
         /\ (WordSize - 256) + (((o + nibble) * 16) % 256) \in Shifted
<1>1. PICK k \in Int : WordSize = 16 * k
  BY WordIsWide, Division
<1>2. PICK j \in Int : o = 16 * j /\ o \in Word
  BY WordIsWide, Division DEF Shifted, Word
<1>3. o + nibble \in Word
  BY <1>1, <1>2 DEF Word
<1>. DEFINE x == (o + nibble) * 16
<1>4. x \in Nat /\ x % 16 = 0
  BY <1>3, WordIsWide DEF Word
<1>. HIDE DEF x
<1>5. x % WordSize \in Word /\ (x % WordSize) % 16 = 0
  <2>1. WordSize \in Nat \ {0} /\ x \in Int
    BY <1>4, WordIsWide
  <2>2. x % WordSize \in 0 .. WordSize - 1
    BY <2>1, Division
  <2>3. (x % WordSize) % 16 = x % 16
    <3>1. 16 \in Nat \ {0} /\ WordSize % 16 = 0
      BY WordIsWide
    <3>. QED  BY <2>1, <3>1, RemainderTwice
  <2>. QED  BY <1>4, <2>2, <2>3 DEF Word
<1>6. x % 256 \in 0 .. 255 /\ (x % 256) % 16 = 0
  BY <1>4
<1>7. (WordSize - 256) + (x % 256) \in Word /\ ((WordSize - 256) + (x % 256)) % 16 = 0
  BY <1>6, WordIsWide DEF Word
<1>. QED  BY <1>3, <1>5, <1>7 DEF Shifted, x

\* A system call leaves memory and host well-formed.
LEMMA SyscallType ==
  ASSUME NEW n \in Nat, n > 2, NEW mem \in [0 .. n - 1 -> Word], NEW call \in 0 .. 2,
         NEW h \in HostType, SyscallWords(call, mem) \subseteq 0 .. n - 1
  PROVE  /\ SyscallHost(call, mem, h) \in HostType
         /\ SyscallMemory(call, mem, h) \in [0 .. n - 1 -> Word]
<1>1. (h.reads + 1) % 256 \in Word /\ h.reads + 1 \in Nat
  BY WordIsWide DEF HostType, Word
<1>2. SyscallMemory(call, mem, h) \in [0 .. n - 1 -> Word]
  BY <1>1 DEF SyscallMemory
<1>3. CASE call = 0
  <2>1. mem[SP(mem) + 2] \in Word
    BY <1>3 DEF SyscallWords
  <2>3. <<mem[SP(mem) + 2]>> \in Seq(Word)
    BY <2>1
  <2>2. SyscallHost(call, mem, h) = [h EXCEPT !.exit = <<mem[SP(mem) + 2]>>]
    BY <1>3 DEF SyscallHost
  <2>. QED  BY ZenonT(30), <1>2, <2>2, <2>3 DEF HostType
<1>4. CASE call = 1
  <2>1. mem[SP(mem) + 2] \in Word /\ mem[SP(mem) + 3] \in Word
    BY <1>4 DEF SyscallWords
  <2>2. mem[SP(mem) + 2] % 256 \in 0 .. 255
    <3>1. \A w \in Word : w % 256 \in 0 .. 255
      BY WordIsWide DEF Word
    <3>. QED  BY <2>1, <3>1
  <2>4. <<mem[SP(mem) + 2] % 256, mem[SP(mem) + 3]>> \in (0 .. 255) \X Word
    BY <2>1, <2>2
  <2>5. Append(h.out, <<mem[SP(mem) + 2] % 256, mem[SP(mem) + 3]>>) \in Seq((0 .. 255) \X Word)
    <3>1. h.out \in Seq((0 .. 255) \X Word)
      BY DEF HostType
    <3>2. ASSUME NEW S, NEW s \in Seq(S), NEW x \in S PROVE Append(s, x) \in Seq(S)
      OBVIOUS
    <3>. QED  BY SMTT(30), <2>4, <3>1, <3>2
  <2>3. SyscallHost(call, mem, h) =
          [h EXCEPT !.out = Append(@, <<mem[SP(mem) + 2] % 256, mem[SP(mem) + 3]>>)]
    BY <1>4 DEF SyscallHost
  <2>. QED  BY ZenonT(60), <1>2, <2>3, <2>5 DEF HostType
<1>5. CASE call = 2
  <2>1. SyscallHost(call, mem, h) = [h EXCEPT !.reads = @ + 1]
    BY <1>5 DEF SyscallHost
  <2>. QED  BY ZenonT(30), <1>1, <1>2, <2>1 DEF HostType
<1>. QED  BY <1>3, <1>4, <1>5

\* The simulated processor, where there is an instruction to fetch.
LEMMA FetchedFacts ==
  ASSUME TypeInv, Fetched
  PROVE  /\ pc \div WordBytes \in 0 .. MemoryWords - 1
         /\ Byte % 16 \in 0 .. 15
         /\ Operand \in Word
<1>1. pc \in Nat /\ pc \div WordBytes \in 0 .. MemoryWords - 1
  <2>1. pc \in Nat
    BY WordIsWide DEF TypeInv, Word
  <2>2. pc \div WordBytes \in Int /\ pc \div WordBytes >= 0
    <3>1. WordBytes \in Nat \ {0}
      BY Addresses
    <3>. QED  BY <2>1, <3>1, Division
  <2>. QED  BY <2>1, <2>2, Addresses DEF Fetched, InMemory
<1>2. Byte % 16 \in 0 .. 15
  BY <1>1, Addresses, ByteType DEF Byte, TypeInv
<1>. QED  BY <1>1, <1>2, OperandType DEF Operand, TypeInv

\* Every result of an instruction is a word.
LEMMA WordResults ==
  ASSUME NEW x \in Word, NEW y \in Word
  PROVE  /\ (x + 1) % WordSize \in Word
         /\ (x + 1 + y) % WordSize \in Word
         /\ (x + y) % WordSize \in Word
         /\ (x - y) % WordSize \in Word
         /\ x % WordSize \in Word
<1>1. x \in Int /\ y \in Int /\ WordSize \in Nat \ {0}
  BY WordIsWide DEF Word
<1>2. \A z \in Int : z % WordSize \in Word
  BY <1>1, Division DEF Word
<1>3. x + 1 \in Int /\ x + 1 + y \in Int /\ x + y \in Int /\ x - y \in Int
  BY <1>1
<1>4. (x + 1) % WordSize \in Word
  BY <1>2, <1>3
<1>5. (x + 1 + y) % WordSize \in Word
  BY <1>2, <1>3
<1>6. (x + y) % WordSize \in Word /\ (x - y) % WordSize \in Word
  BY <1>2, <1>3
<1>. QED  BY <1>1, <1>2, <1>4, <1>5, <1>6

\* The word a load or a store is about is a word of memory, when it is checked.
LEMMA DataAddressType ==
  ASSUME TypeInv, Operand \in Word, InMemory(DataAddress),
         Op \in {"LDAM", "LDBM", "STAM", "LDAI", "LDBI", "STAI"}
  PROVE  DataAddress \in 0 .. MemoryWords - 1
<1>1. (areg + Operand) % WordSize \in Word /\ (breg + Operand) % WordSize \in Word
  BY WordResults DEF TypeInv
<1>2. DataAddress \in Word
  BY <1>1 DEF DataAddress
<1>. QED  BY <1>2, Addresses, WordIsWide DEF InMemory, Word

\* So are the words of a system call.
LEMMA SyscallWordsType ==
  ASSUME TypeInv, areg \in 0 .. 2,
         \A word \in SyscallWords(areg, memory) : InMemory(word)
  PROVE  SyscallWords(areg, memory) \subseteq 0 .. MemoryWords - 1
<1>1. SP(memory) \in Nat
  <2>1. 1 \in 0 .. MemoryWords - 1
    BY Addresses
  <2>2. memory[1] \in Word
    BY <2>1 DEF TypeInv
  <2>. QED  BY <2>2, WordIsWide DEF SP, Word
<1>2. SyscallWords(areg, memory) \subseteq Nat
  BY <1>1 DEF SyscallWords
<1>. QED  BY <1>2, Addresses DEF InMemory

\* The simulated processor keeps its types.
LEMMA StepType ==
  ASSUME TypeInv, Step
  PROVE  /\ {pc', areg', breg'} \subseteq Word
         /\ oreg' \in Shifted
         /\ memory' \in [0 .. MemoryWords - 1 -> Word]
         /\ host' \in HostType
<1>. USE DEF TypeInv
<1>1. 0 \in Shifted
  BY WordIsWide DEF Shifted, Word
<1>2. CASE LeavesByFetch
  BY <1>2 DEF LeavesByFetch
<1>. SUFFICES ASSUME Fetched,
                     \/ Load \/ Store \/ Constant \/ Branch \/ Prefixed \/ Operate \/ Svc
                     \/ Throws \/ Leaves
              PROVE  /\ {pc', areg', breg'} \subseteq Word
                     /\ oreg' \in Shifted
                     /\ memory' \in [0 .. MemoryWords - 1 -> Word]
                     /\ host' \in HostType
  BY <1>2 DEF Step
<1>3. Byte % 16 \in 0 .. 15 /\ Operand \in Word
  BY FetchedFacts
<1>4. /\ (pc + 1) % WordSize \in Word /\ (pc + 1 + Operand) % WordSize \in Word
      /\ (areg + breg) % WordSize \in Word /\ (areg - breg) % WordSize \in Word
      /\ breg % WordSize \in Word
  BY <1>3, WordResults
<1>5. CASE Load
  <2>1. DataAddress \in 0 .. MemoryWords - 1
    BY <1>3, <1>5, DataAddressType DEF Load
  <2>. QED  BY <1>1, <1>4, <1>5, <2>1 DEF Load, Goes, Clears
<1>6. CASE Store
  BY <1>1, <1>4, <1>6 DEF Store, Goes, Clears
<1>7. CASE Constant
  BY <1>1, <1>3, <1>4, <1>7 DEF Constant, Goes, Clears
<1>8. CASE Branch
  BY <1>1, <1>4, <1>8 DEF Branch, Goes, Clears
<1>9. CASE Prefixed
  <2>1. ASSUME NEW o \in Shifted, NEW nibble \in 0 .. 15
        PROVE  /\ ((o + nibble) * 16) % WordSize \in Shifted
               /\ (WordSize - 256) + (((o + nibble) * 16) % 256) \in Shifted
    BY ZenonT(30), OperandType
  <2>2. oreg' \in Shifted
    <3>1. oreg \in Shifted
      OBVIOUS
    <3>. QED  BY ZenonT(30), <1>3, <1>9, <2>1, <3>1 DEF Prefixed, Operand
  <2>. QED  BY <1>4, <1>9, <2>2 DEF Prefixed, Goes
<1>10. CASE Operate
  BY <1>1, <1>4, <1>10 DEF Operate, Goes, Clears
<1>11. CASE Svc
  <2>1. areg \in 0 .. 2 /\ SyscallWords(areg, memory) \subseteq 0 .. MemoryWords - 1
    BY <1>11, SyscallWordsType DEF Svc
  <2>. QED  BY <1>1, <1>4, <1>11, <2>1, Addresses, SyscallType DEF Svc, Goes, Clears
<1>12. CASE Throws
  BY <1>12 DEF Throws
<1>13. CASE Leaves
  BY <1>13 DEF Leaves
<1>. QED  BY <1>5, <1>6, <1>7, <1>8, <1>9, <1>10, <1>11, <1>12, <1>13

\* The hardware processor always has an instruction, and a word to load or to store.
LEMMA HwFacts ==
  ASSUME NEW h \in HwType
  PROVE  /\ HwByte(h) % 16 \in 0 .. 15
         /\ HwOperand(h) \in Word
         /\ (HwOp(h) \in {"LDAM", "LDBM", "STAM", "LDAI", "LDBI", "STAI"} =>
               HwDataAddress(h) \in 0 .. HwWords - 1)
<1>1. h.pc \in Nat /\ h.pc \div WordBytes \in 0 .. HwWords - 1
  <2>1. h.pc \in Nat /\ h.pc < AddressSize
    BY Sizes DEF HwType
  <2>. QED  BY <2>1, Addresses
<1>2. HwByte(h) % 16 \in 0 .. 15
  BY <1>1, Addresses, ByteType DEF HwByte, HwType
<1>3. HwOperand(h) \in Word
  BY <1>2, OperandType DEF HwOperand, HwType
<1>4. \A x \in Int : x % HwWords \in 0 .. HwWords - 1
  BY Addresses, Division
<1>5. /\ HwOperand(h) \in Int /\ h.areg + HwOperand(h) \in Int
      /\ h.breg + HwOperand(h) \in Int
  BY <1>3, WordIsWide DEF HwType, Word
<1>6. /\ HwOperand(h) % HwWords \in 0 .. HwWords - 1
      /\ (h.areg + HwOperand(h)) % HwWords \in 0 .. HwWords - 1
      /\ (h.breg + HwOperand(h)) % HwWords \in 0 .. HwWords - 1
  BY <1>4, <1>5
<1>. QED  BY <1>2, <1>3, <1>6 DEF HwDataAddress

\* Every address the hardware computes is one it has.
LEMMA HwAddresses ==
  ASSUME NEW h \in HwType
  PROVE  /\ (h.pc + 1) % AddressSize \in 0 .. AddressSize - 1
         /\ (h.pc + 1 + HwOperand(h)) % AddressSize \in 0 .. AddressSize - 1
         /\ h.breg % AddressSize \in 0 .. AddressSize - 1
<1>1. AddressSize \in Nat \ {0}
  BY Sizes
<1>2. \A x \in Int : x % AddressSize \in 0 .. AddressSize - 1
  BY <1>1, Division
<1>3. h.pc + 1 \in Int /\ h.pc + 1 + HwOperand(h) \in Int /\ h.breg \in Int
  BY <1>1, HwFacts, WordIsWide DEF HwType, Word
<1>4. (h.pc + 1) % AddressSize \in 0 .. AddressSize - 1
  BY <1>2, <1>3
<1>5. (h.pc + 1 + HwOperand(h)) % AddressSize \in 0 .. AddressSize - 1
  BY <1>2, <1>3
<1>. QED  BY <1>2, <1>3, <1>4, <1>5

\* So does an edge of the hardware one,
LEMMA HwClockedType ==
  ASSUME NEW h \in HwType
  PROVE  HwClocked(h) \in HwType
<1>1. /\ h.pc \in 0 .. AddressSize - 1 /\ h.areg \in Word /\ h.breg \in Word
      /\ h.oreg \in Shifted /\ h.memory \in [0 .. HwWords - 1 -> Word]
  BY DEF HwType
<1>2. HwNextPc(h) \in 0 .. AddressSize - 1
  BY HwAddresses DEF HwNextPc
<1>3. HwNextOreg(h) \in Shifted
  <2>1. 0 \in Shifted
    BY WordIsWide DEF Shifted, Word
  <2>2. HwByte(h) % 16 \in 0 .. 15
    BY HwFacts
  <2>. QED  BY <1>1, <2>1, <2>2, OperandType DEF HwNextOreg, HwOperand
<1>4. HwNextAreg(h) \in Word
  <2>1. (h.areg + h.breg) % WordSize \in Word /\ (h.areg - h.breg) % WordSize \in Word
    BY <1>1, WordResults
  <2>2. (h.pc + 1 + HwOperand(h)) % AddressSize \in Word
    <3>1. \A a \in 0 .. AddressSize - 1 : a \in Word
      BY Addresses, Sizes, WordIsWide DEF Word
    <3>. QED  BY <3>1, HwAddresses
  <2>3. HwOp(h) \in {"LDAM", "LDAI"} => h.memory[HwDataAddress(h)] \in Word
    BY <1>1, HwFacts
  <2>. QED  BY <1>1, <2>1, <2>2, <2>3, HwFacts DEF HwNextAreg
<1>5. HwNextBreg(h) \in Word
  BY <1>1, HwFacts DEF HwNextBreg
<1>6. HwNextMemory(h) \in [0 .. HwWords - 1 -> Word]
  BY <1>1 DEF HwNextMemory
<1>. QED  BY <1>2, <1>3, <1>4, <1>5, <1>6 DEF HwClocked, HwType

\* and the testbench.
LEMMA HwServedType ==
  ASSUME NEW h \in HwType
  PROVE  HwServed(h) \in HwType
<1>1. CASE HwCalls(h)
  <2>. DEFINE call == h.areg % 4
  <2>1. call \in 0 .. 2
    <3>1. \A w \in Word : w % 4 \in 0 .. 3
      BY WordIsWide DEF Word
    <3>. QED  BY <1>1, <3>1 DEF HwCalls, HwType
  <2>2. SyscallWords(call, h.memory) \subseteq 0 .. HwWords - 1
    BY <1>1 DEF HwCalls, HwType
  <2>. HIDE DEF call
  <2>3. /\ SyscallHost(call, h.memory, h.host) \in HostType
        /\ SyscallMemory(call, h.memory, h.host) \in [0 .. HwWords - 1 -> Word]
    <3>1. HwWords \in Nat /\ HwWords > 2
      BY Addresses
    <3>2. h.memory \in [0 .. HwWords - 1 -> Word] /\ h.host \in HostType
      BY DEF HwType
    <3>. QED  BY <2>1, <2>2, <3>1, <3>2, SyscallType
  <2>4. HwServed(h) = [h EXCEPT !.memory = SyscallMemory(call, h.memory, h.host),
                                !.host = SyscallHost(call, h.memory, h.host)]
    BY <1>1 DEF HwServed, call, HwType
  <2>. QED  BY <2>3, <2>4 DEF HwType
<1>2. CASE ~HwCalls(h)
  BY <1>2 DEF HwServed
<1>. QED  BY <1>1, <1>2

\* The loaders write words.
LEMMA TypeInit == Init => TypeInv
<1>. SUFFICES ASSUME Init PROVE TypeInv
  OBVIOUS
<1>1. 0 \in Word /\ 0 \in Shifted /\ 0 \in 0 .. AddressSize - 1
  BY WordIsWide, Sizes DEF Word, Shifted
<1>2. memory \in [0 .. MemoryWords - 1 -> Word]
  BY Loaded, Layout, ImageType
<1>3. NewHost \in HostType
  BY DEF NewHost, HostType
<1>4. hw.memory \in [0 .. HwWords - 1 -> Word]
  BY <1>1, <1>2, Addresses DEF Init
<1>. QED  BY <1>1, <1>2, <1>3, <1>4 DEF Init, TypeInv, HwType

\* Both together.
LEMMA TypeNext ==
  ASSUME TypeInv, Tick
  PROVE  TypeInv'
<1>1. Step /\ hw' = HwServed(HwClocked(hw))
  BY DEF Tick
<1>2. hw' \in HwType
  BY <1>1, HwClockedType, HwServedType DEF TypeInv
<1>. QED  BY <1>1, <1>2, StepType DEF TypeInv

\* Types, in every state.
LEMMA TypeInvCorrect == Spec => []TypeInv
<1>1. TypeInv /\ [Next]_vars => TypeInv'
  BY TypeNext DEF Next, Ended, vars, TypeInv
<1>. QED  BY <1>1, TypeInit, PTL DEF Spec

\* The registers of either machine (Processor::step, processor.sv) hold words, memory
\* does, oreg leaves room for a nibble, and the hardware has an address it has.
THEOREM RegistersAreWords == Spec => []TypeOK
<1>1. TypeInv => TypeOK
  BY DEF TypeInv, TypeOK, HwType, Word, Shifted
<1>. QED  BY <1>1, TypeInvCorrect, PTL

--------------------------------------------------------------------------------
(***************************************************************************)
(* The hardware follows.                                                   *)
(***************************************************************************)
SameRegisters(h) ==
  h.pc = pc % AddressSize /\ h.areg = areg /\ h.breg = breg /\ h.oreg = oreg

Same(h) == h.host = host /\ \A i \in 0 .. MemoryWords - 1 : h.memory[i] = memory[i]

\* The call the simulator is about to make, if it is a proper one, has been served.
Ahead ==
  areg \in 0 .. 2 /\ (\A word \in SyscallWords(areg, memory) : InMemory(word)) =>
    /\ hw.host = SyscallHost(areg, memory, host)
    /\ \A i \in 0 .. MemoryWords - 1 : hw.memory[i] = SyscallMemory(areg, memory, host)[i]

\* HardwareFollows, what the hardware is ahead by, and that it is about to execute the
\* same instruction.
Follows ==
  status \in {"running", "halted"} /\ ~strayed =>
    /\ SameRegisters(hw)
    /\ status = "halted" \/ ~HwIs(hw, "SVC") => Same(hw)
    /\ Fetched => HwByte(hw) = Byte /\ (HwIs(hw, "SVC") => Ahead)

\* The testbench serves a core until it exits.
NotExited == status = "running" => host.exit = <<>>

IInv == TypeInv /\ NotExited /\ Follows

\* A number below the modulus is its own remainder.
LEMMA SmallRemainder ==
  ASSUME NEW m \in Nat \ {0}, NEW x \in 0 .. m - 1
  PROVE  x % m = x
<1>1. x = m * 0 + x
  OBVIOUS
<1>. QED  BY <1>1, Remainder

\* What a step that leads on starts from: both machines at the same instruction.
Onward ==
  /\ Fetched /\ SameRegisters(hw) /\ hw.pc = pc
  /\ HwByte(hw) = Byte /\ HwOp(hw) = Op /\ HwOperand(hw) = Operand
  /\ ~HwIs(hw, "SVC") => Same(hw)
  /\ HwIs(hw, "SVC") => Ahead

\* An instruction that the simulator does not reject, at an address the two agree on.
LEMMA OnwardFacts ==
  ASSUME IInv, Tick, ~strayed', status' \in {"running", "halted"}
  PROVE  /\ Onward
         /\ Load \/ Store \/ Constant \/ Branch \/ Prefixed \/ Operate \/ Svc
<1>1. ~strayed
  BY DEF Tick
<1>2. /\ Fetched
      /\ Load \/ Store \/ Constant \/ Branch \/ Prefixed \/ Operate \/ Svc
  BY DEF Tick, Step, LeavesByFetch, Throws, Leaves
<1>3. status = "running"
  BY <1>2 DEF Fetched
<1>4. SameRegisters(hw) /\ HwByte(hw) = Byte
  BY <1>1, <1>2, <1>3 DEF IInv, Follows
<1>5. hw.pc = pc
  <2>1. pc \in Nat
    BY WordIsWide DEF IInv, TypeInv, Word
  <2>2. pc \in 0 .. AddressSize - 1
    <3>1. pc \div WordBytes < MemoryWords
      BY <1>2 DEF Fetched, InMemory
    <3>2. pc < AddressSize
      BY <2>1, <3>1, Addresses
    <3>. QED  BY <2>1, <3>2, Sizes
  <2>3. pc % AddressSize = pc
    BY <2>2, Sizes, SmallRemainder
  <2>. QED  BY <1>4, <2>3 DEF SameRegisters
<1>. QED  BY <1>1, <1>2, <1>3, <1>4, <1>5
          DEF Onward, IInv, Follows, HwOp, Op, HwOperand, Operand, SameRegisters

\* Where both machines go, when they go to the same place.
LEMMA PlacesAgree ==
  ASSUME TypeInv, Operand \in Word
  PROVE  /\ ((pc + 1) % WordSize) % AddressSize = (pc + 1) % AddressSize
         /\ ((pc + 1 + Operand) % WordSize) % AddressSize = (pc + 1 + Operand) % AddressSize
         /\ (breg % WordSize) % AddressSize = breg % AddressSize
<1>1. pc + 1 \in Int /\ pc + 1 + Operand \in Int /\ breg \in Int
  BY WordIsWide DEF TypeInv, Word
<1>2. \A x \in Int : (x % WordSize) % AddressSize = x % AddressSize
  BY Addresses
<1>3. ((pc + 1) % WordSize) % AddressSize = (pc + 1) % AddressSize
  BY <1>1, <1>2
<1>4. ((pc + 1 + Operand) % WordSize) % AddressSize = (pc + 1 + Operand) % AddressSize
  BY <1>1, <1>2
<1>. QED  BY <1>1, <1>2, <1>3, <1>4

\* A word of the simulator's memory is at the same place in the hardware's.
LEMMA DataAgree ==
  ASSUME TypeInv, Onward, Operand \in Word, InMemory(DataAddress),
         Op \in {"LDAM", "LDBM", "STAM", "LDAI", "LDBI", "STAI"}
  PROVE  HwDataAddress(hw) = DataAddress /\ DataAddress \in 0 .. MemoryWords - 1
<1>1. DataAddress \in 0 .. MemoryWords - 1
  BY DataAddressType
<1>2. HwWords \in Nat \ {0} /\ DataAddress \in 0 .. HwWords - 1
  BY <1>1, Addresses
<1>3. DataAddress % HwWords = DataAddress
  BY <1>2, SmallRemainder
<1>4. areg + Operand \in Int /\ breg + Operand \in Int
  BY WordIsWide DEF TypeInv, Word
<1>5. /\ ((areg + Operand) % WordSize) % HwWords = (areg + Operand) % HwWords
      /\ ((breg + Operand) % WordSize) % HwWords = (breg + Operand) % HwWords
  BY <1>4, Addresses
<1>. QED  BY <1>1, <1>3, <1>5 DEF DataAddress, HwDataAddress, Onward, SameRegisters

\* An operation that the simulator knows is the one the hardware takes from the low
\* four bits.
LEMMA OprAgree ==
  ASSUME TypeInv, Onward, Opr # "NONE"
  PROVE  HwOpr(hw) = Opr
<1>1. Byte % 16 \in 0 .. 15 /\ oreg \in Nat /\ oreg % 16 = 0
  BY FetchedFacts, WordIsWide DEF Onward, TypeInv, Shifted, Word
<1>2. Operand % 256 < 6
  BY DEF Opr
<1>3. \A n \in 0 .. 15, o \in Nat : o % 16 = 0 /\ (o + n) % 256 < 6 => (o + n) % 256 = n
  OBVIOUS
<1>4. Operand % 256 = Byte % 16
  BY ZenonT(60), <1>1, <1>2, <1>3 DEF Operand
<1>. QED  BY <1>2, <1>4 DEF Opr, HwOpr, Onward

\* After the edge, and before the testbench looks, the machines are the same.
Matched ==
  /\ HwNextPc(hw) = pc' % AddressSize
  /\ HwNextAreg(hw) = areg' /\ HwNextBreg(hw) = breg' /\ HwNextOreg(hw) = oreg'
  /\ hw.host = host'
  /\ \A i \in 0 .. MemoryWords - 1 : HwNextMemory(hw)[i] = memory'[i]

\* The hardware executes it to the same effect.
LEMMA EdgeMatches ==
  ASSUME IInv, Tick, ~strayed', status' \in {"running", "halted"}
  PROVE  Matched
<1>1. /\ Onward /\ TypeInv
      /\ Load \/ Store \/ Constant \/ Branch \/ Prefixed \/ Operate \/ Svc
  BY OnwardFacts DEF IInv
<1>2. Operand \in Word
  BY <1>1, FetchedFacts DEF Onward
<1>3. /\ HwOp(hw) = Op /\ HwOperand(hw) = Operand /\ HwByte(hw) = Byte
      /\ hw.pc = pc /\ hw.areg = areg /\ hw.breg = breg /\ hw.oreg = oreg
  BY <1>1 DEF Onward, SameRegisters
<1>4. /\ ((pc + 1) % WordSize) % AddressSize = (pc + 1) % AddressSize
      /\ ((pc + 1 + Operand) % WordSize) % AddressSize = (pc + 1 + Operand) % AddressSize
      /\ (breg % WordSize) % AddressSize = breg % AddressSize
  BY <1>1, <1>2, PlacesAgree
<1>5. Op # "OPR" \/ Opr \in {"BRB", "ADD", "SUB"} => Same(hw)
  BY <1>1, <1>3, OprAgree DEF Onward, HwIs
<1>6. Op # "OPR" => \A opr : ~HwIs(hw, opr)
  BY <1>3 DEF HwIs
<1>. USE DEF Matched, Goes, Clears
<1>7. CASE Load
  <2>1. HwDataAddress(hw) = DataAddress /\ DataAddress \in 0 .. MemoryWords - 1
    BY <1>1, <1>2, <1>7, DataAgree DEF Load
  <2>2. Same(hw) /\ Op \in {"LDAM", "LDBM", "LDAI", "LDBI"}
    BY <1>5, <1>7 DEF Load
  <2>3. hw.memory[HwDataAddress(hw)] = memory[DataAddress]
    BY <2>1, <2>2 DEF Same
  <2>4. HwNextPc(hw) = pc' % AddressSize /\ HwNextOreg(hw) = oreg'
    BY <1>3, <1>4, <1>6, <1>7, <2>2 DEF Load, HwNextPc, HwTaken, HwNextOreg
  <2>5. HwNextAreg(hw) = areg' /\ HwNextBreg(hw) = breg'
    BY <1>3, <1>6, <1>7, <2>2, <2>3 DEF Load, HwNextAreg, HwNextBreg
  <2>. QED  BY <1>3, <1>7, <2>2, <2>4, <2>5 DEF Load, HwNextMemory, Same
<1>8. CASE Store
  <2>1. HwDataAddress(hw) = DataAddress /\ DataAddress \in 0 .. MemoryWords - 1
    BY <1>1, <1>2, <1>8, DataAgree DEF Store
  <2>2. Same(hw) /\ Op \in {"STAM", "STAI"}
    BY <1>5, <1>8 DEF Store
  <2>3. HwNextPc(hw) = pc' % AddressSize /\ HwNextOreg(hw) = oreg'
    BY <1>3, <1>4, <1>6, <1>8, <2>2 DEF Store, HwNextPc, HwTaken, HwNextOreg
  <2>4. HwNextAreg(hw) = areg' /\ HwNextBreg(hw) = breg'
    BY <1>3, <1>6, <1>8, <2>2 DEF Store, HwNextAreg, HwNextBreg
  <2>5. \A i \in 0 .. MemoryWords - 1 : HwNextMemory(hw)[i] = memory'[i]
    <3>1. DOMAIN memory = 0 .. MemoryWords - 1 /\ DOMAIN hw.memory = 0 .. HwWords - 1
      BY <1>1 DEF TypeInv, HwType
    <3>2. 0 .. MemoryWords - 1 \subseteq 0 .. HwWords - 1
      BY Addresses
    <3>. QED  BY <1>3, <1>8, <2>1, <2>2, <3>1, <3>2 DEF Store, HwNextMemory, Same
  <2>. QED  BY <1>8, <2>2, <2>3, <2>4, <2>5 DEF Store, Same
<1>9. CASE Constant
  <2>1. Same(hw) /\ Op \in {"LDAC", "LDBC", "LDAP"}
    BY <1>5, <1>9 DEF Constant
  <2>2. HwNextPc(hw) = pc' % AddressSize /\ HwNextOreg(hw) = oreg' /\ HwNextBreg(hw) = breg'
    BY <1>3, <1>4, <1>6, <1>9, <2>1
       DEF Constant, HwNextPc, HwTaken, HwNextOreg, HwNextBreg
  <2>3. CASE Op = "LDAP"
    <3>. DEFINE wide == (pc + 1 + Operand) % WordSize
    <3>1. areg' = wide /\ wide \in Word
      BY <1>1, <1>2, <1>9, <2>3, WordResults DEF Constant, TypeInv
    <3>2. ~(areg' >= AddressSize)
      BY <1>1, <2>3 DEF Tick, WideAddress, Onward
    <3>3. AddressSize \in Nat \ {0} /\ wide \in 0 .. AddressSize - 1
      BY <3>1, <3>2, Sizes, WordIsWide DEF Word
    <3>4. wide % AddressSize = wide
      BY <3>3, SmallRemainder
    <3>5. HwNextAreg(hw) = (pc + 1 + Operand) % AddressSize
      BY <1>3, <2>3 DEF HwNextAreg, HwIs
    <3>. QED  BY <1>3, <1>4, <1>9, <2>1, <2>2, <3>1, <3>4, <3>5
              DEF Constant, HwNextMemory, Same
  <2>4. CASE Op # "LDAP"
    <3>1. HwNextAreg(hw) = areg'
      BY <1>3, <1>6, <1>9, <2>1, <2>4 DEF Constant, HwNextAreg
    <3>. QED  BY <1>3, <1>9, <2>1, <2>2, <3>1 DEF Constant, HwNextMemory, Same
  <2>. QED  BY <2>3, <2>4
<1>10. CASE Branch
  <2>1. Same(hw) /\ Op \in {"BR", "BRZ", "BRN"}
    BY <1>5, <1>10 DEF Branch
  <2>2. HwTaken(hw) <=> Taken
    BY <1>3 DEF HwTaken, Taken
  <2>3. HwNextPc(hw) = pc' % AddressSize
    BY <1>3, <1>4, <1>6, <1>10, <2>1, <2>2 DEF Branch, HwNextPc
  <2>4. HwNextAreg(hw) = areg' /\ HwNextBreg(hw) = breg' /\ HwNextOreg(hw) = oreg'
    BY <1>3, <1>6, <1>10, <2>1 DEF Branch, HwNextAreg, HwNextBreg, HwNextOreg
  <2>. QED  BY <1>3, <1>10, <2>1, <2>3, <2>4 DEF Branch, HwNextMemory, Same
<1>11. CASE Prefixed
  <2>1. Same(hw) /\ Op \in {"PFIX", "NFIX"}
    BY <1>5, <1>11 DEF Prefixed
  <2>2. HwNextPc(hw) = pc' % AddressSize
    BY <1>3, <1>4, <1>6, <1>11, <2>1 DEF Prefixed, HwNextPc, HwTaken
  <2>3. HwNextAreg(hw) = areg' /\ HwNextBreg(hw) = breg' /\ HwNextOreg(hw) = oreg'
    BY <1>3, <1>6, <1>11, <2>1 DEF Prefixed, HwNextAreg, HwNextBreg, HwNextOreg
  <2>. QED  BY <1>3, <1>11, <2>1, <2>2, <2>3 DEF Prefixed, HwNextMemory, Same
<1>12. CASE Operate
  <2>1. Same(hw) /\ Op = "OPR" /\ Opr \in {"BRB", "ADD", "SUB"}
    BY <1>5, <1>12 DEF Operate
  <2>2. \A opr : HwIs(hw, opr) <=> Opr = opr
    BY <1>1, <1>3, <2>1, OprAgree DEF HwIs
  <2>3. HwNextPc(hw) = pc' % AddressSize
    BY <1>3, <1>4, <1>12, <2>1, <2>2 DEF Operate, HwNextPc, HwTaken
  <2>4. HwNextAreg(hw) = areg' /\ HwNextBreg(hw) = breg' /\ HwNextOreg(hw) = oreg'
    BY <1>3, <1>12, <2>1, <2>2 DEF Operate, HwNextAreg, HwNextBreg, HwNextOreg
  <2>. QED  BY <1>3, <1>12, <2>1, <2>3, <2>4 DEF Operate, HwNextMemory, Same
<1>13. CASE Svc
  <2>1. Op = "OPR" /\ Opr = "SVC"
    BY <1>13 DEF Svc
  <2>2. \A opr : HwIs(hw, opr) <=> Opr = opr
    BY <1>1, <1>3, <2>1, OprAgree DEF HwIs
  <2>3. Ahead
    BY <1>1, <2>1, <2>2 DEF Onward
  <2>4. HwNextPc(hw) = pc' % AddressSize
    BY <1>3, <1>4, <1>13, <2>1, <2>2 DEF Svc, HwNextPc, HwTaken
  <2>5. HwNextAreg(hw) = areg' /\ HwNextBreg(hw) = breg' /\ HwNextOreg(hw) = oreg'
    BY <1>3, <1>13, <2>1, <2>2 DEF Svc, HwNextAreg, HwNextBreg, HwNextOreg
  <2>. QED  BY <1>3, <1>13, <2>1, <2>3, <2>4, <2>5 DEF Svc, HwNextMemory, Ahead
<1>. QED  BY <1>1, <1>7, <1>8, <1>9, <1>10, <1>11, <1>12, <1>13

\* A system call does the same in two memories, when the words it looks at are the
\* same.
LEMMA CallsAgree ==
  ASSUME NEW n \in Nat, n >= MemoryWords, NEW big \in [0 .. n - 1 -> Word],
         NEW mem \in [0 .. MemoryWords - 1 -> Word],
         \A i \in 0 .. MemoryWords - 1 : big[i] = mem[i],
         NEW call \in 0 .. 2, NEW h
  PROVE  /\ SP(big) = SP(mem) /\ SP(mem) \in Nat
         /\ SyscallWords(call, big) = SyscallWords(call, mem)
         /\ SyscallWords(call, mem) \subseteq Nat
         /\ SyscallWords(call, mem) \subseteq 0 .. MemoryWords - 1 =>
              SyscallHost(call, big, h) = SyscallHost(call, mem, h)
         /\ \A i \in 0 .. MemoryWords - 1 :
              SyscallMemory(call, big, h)[i] = SyscallMemory(call, mem, h)[i]
<1>1. 1 \in 0 .. MemoryWords - 1
  BY Addresses
<1>2. SP(big) = SP(mem) /\ SP(mem) \in Nat
  BY <1>1, WordIsWide DEF SP, Word
<1>3. SyscallWords(call, big) = SyscallWords(call, mem) /\ SyscallWords(call, mem) \subseteq Nat
  BY <1>2 DEF SyscallWords
<1>4. ASSUME SyscallWords(call, mem) \subseteq 0 .. MemoryWords - 1
      PROVE  SyscallHost(call, big, h) = SyscallHost(call, mem, h)
  <2>1. CASE call = 0
    <3>1. big[SP(mem) + 2] = mem[SP(mem) + 2]
      BY <1>4, <2>1 DEF SyscallWords
    <3>. QED  BY <1>2, <2>1, <3>1 DEF SyscallHost
  <2>2. CASE call = 1
    <3>1. big[SP(mem) + 2] = mem[SP(mem) + 2] /\ big[SP(mem) + 3] = mem[SP(mem) + 3]
      BY <1>4, <2>2 DEF SyscallWords
    <3>. QED  BY <1>2, <2>2, <3>1 DEF SyscallHost
  <2>3. CASE call = 2
    BY <2>3 DEF SyscallHost
  <2>. QED  BY <2>1, <2>2, <2>3
<1>5. \A i \in 0 .. MemoryWords - 1 :
        SyscallMemory(call, big, h)[i] = SyscallMemory(call, mem, h)[i]
  <2>1. \A i \in 0 .. MemoryWords - 1 : i \in 0 .. n - 1
    BY Addresses
  <2>. QED  BY <1>2, <2>1 DEF SyscallMemory
<1>. QED  BY <1>2, <1>3, <1>4, <1>5

\* The simulator stops at the EXIT it executes.
LEMMA NotExitedNext ==
  ASSUME TypeInv, NotExited, Tick
  PROVE  /\ NotExited'
         /\ status' = "halted" => host'.exit # <<>>
<1>1. Step
  BY DEF Tick
<1>2. CASE Fetched /\ Svc
  <2>1. areg \in 0 .. 2 /\ host \in HostType /\ host.exit = <<>>
    BY <1>2 DEF TypeInv, NotExited, Fetched, Svc
  <2>2. areg # 0 => host'.exit = <<>> /\ status' = "running"
    BY <1>2, <2>1 DEF Svc, Fetched, SyscallHost, HostType
  <2>3. ASSUME areg = 0 PROVE host'.exit # <<>> /\ status' = "halted"
    <3>1. status' = "halted" /\ host' = [host EXCEPT !.exit = <<memory[SP(memory) + 2]>>]
      BY <1>2, <2>3 DEF Svc, SyscallHost
    <3>2. \A w : <<w>> # <<>>
      OBVIOUS
    <3>. QED  BY <2>1, <3>1, <3>2 DEF HostType
  <2>. QED  BY <2>2, <2>3 DEF NotExited
<1>3. CASE /\ Fetched
           /\ Load \/ Store \/ Constant \/ Branch \/ Prefixed \/ Operate
  BY <1>3 DEF Fetched, NotExited, Load, Store, Constant, Branch, Prefixed, Operate
<1>4. CASE LeavesByFetch \/ (Fetched /\ (Throws \/ Leaves))
  BY <1>4 DEF LeavesByFetch, Throws, Leaves, NotExited
<1>. QED  BY <1>1, <1>2, <1>3, <1>4 DEF Step

\* The testbench has served what the simulator is about to execute, and nothing else.
LEMMA FollowsNext ==
  ASSUME IInv, TypeInv', Tick, ~strayed', status' \in {"running", "halted"}
  PROVE  Follows'
<1>. DEFINE e == HwClocked(hw)
            call == e.areg % 4
<1>1. /\ Matched
      /\ hw' = HwServed(e) /\ ~HwReadsOverItself(e)
  BY EdgeMatches DEF Tick
<1>2. /\ e \in HwType
      /\ e.pc = pc' % AddressSize
      /\ e.areg = areg' /\ e.breg = breg' /\ e.oreg = oreg' /\ e.host = host'
      /\ \A i \in 0 .. MemoryWords - 1 : e.memory[i] = memory'[i]
  BY <1>1, HwClockedType DEF Matched, HwClocked, IInv, TypeInv, HwType
<1>3. /\ NotExited' /\ (status' = "halted" => host'.exit # <<>>)
      /\ memory' \in [0 .. MemoryWords - 1 -> Word] /\ areg' \in Word /\ pc' \in Nat
  BY NotExitedNext, WordIsWide DEF IInv, TypeInv, Word
<1>. HIDE DEF e
<1>4. /\ HwWords \in Nat /\ HwWords >= MemoryWords /\ MemoryWords \in Nat
      /\ e.memory \in [0 .. HwWords - 1 -> Word]
  BY <1>2, Addresses DEF HwType
<1>5. areg' \in 0 .. 2 => call = areg'
  <2>1. \A w \in 0 .. 2 : w % 4 = w
    OBVIOUS
  <2>. QED  BY <1>2, <2>1
<1>. HIDE DEF call
<1>6. Fetched' => e.pc = pc' /\ pc' \div WordBytes \in 0 .. MemoryWords - 1
  <2>. SUFFICES ASSUME Fetched' PROVE e.pc = pc' /\ pc' \div WordBytes \in 0 .. MemoryWords - 1
    OBVIOUS
  <2>1. pc' \div WordBytes < MemoryWords
    BY DEF Fetched, InMemory
  <2>2. AddressSize \in Nat \ {0} /\ pc' \in 0 .. AddressSize - 1
    <3>1. pc' < AddressSize
      BY <1>3, <2>1, Addresses
    <3>. QED  BY <1>3, <3>1, Sizes
  <2>3. pc' % AddressSize = pc'
    BY <2>2, SmallRemainder
  <2>4. pc' \div WordBytes \in Nat
    <3>1. WordBytes \in Nat \ {0}
      BY Addresses
    <3>2. \A a \in Nat : a \div WordBytes \in Nat
      BY <3>1, Division
    <3>. QED  BY <1>3, <3>2
  <2>. QED  BY <1>2, <1>4, <2>1, <2>3, <2>4
<1>7. CASE ~HwCalls(e)
  <2>1. hw' = e
    BY <1>1, <1>7 DEF HwServed
  <2>2. SameRegisters(hw)' /\ Same(hw)'
    BY <1>2, <2>1 DEF SameRegisters, Same
  <2>3. Fetched' => HwByte(hw)' = Byte'
    BY <1>2, <1>6, <2>1 DEF HwByte, Byte, ByteAt
  <2>4. ASSUME Fetched', HwIs(hw, "SVC")', areg' \in 0 .. 2,
               \A word \in SyscallWords(areg', memory') : InMemory(word)
        PROVE  FALSE
    <3>1. SyscallWords(areg', e.memory) \subseteq 0 .. HwWords - 1
      <4>1. /\ SyscallWords(areg', e.memory) = SyscallWords(areg', memory')
            /\ SyscallWords(areg', memory') \subseteq Nat
        <5>1. ASSUME NEW c \in 0 .. 2, NEW mem \in [0 .. MemoryWords - 1 -> Word],
                     \A i \in 0 .. MemoryWords - 1 : e.memory[i] = mem[i]
              PROVE  /\ SyscallWords(c, e.memory) = SyscallWords(c, mem)
                     /\ SyscallWords(c, mem) \subseteq Nat
          BY ZenonT(30), <1>4, <5>1, CallsAgree
        <5>. QED  BY <1>2, <1>3, <2>4, <5>1
      <4>. QED  BY <1>4, <2>4, <4>1 DEF InMemory
    <3>2. e.host.exit = <<>>
      BY <1>2, <1>3, <2>4 DEF NotExited, Fetched
    <3>3. HwIs(e, "SVC")
      BY <2>1, <2>4 DEF HwIs, HwOp, HwOpr, HwByte
    <3>4. call # 3 /\ DOMAIN e.memory = 0 .. HwWords - 1
      BY <1>4, <1>5, <2>4
    <3>. QED  BY <1>2, <1>5, <1>7, <2>4, <3>1, <3>2, <3>3, <3>4 DEF HwCalls, call
  <2>5. Fetched' => (HwIs(hw, "SVC")' => Ahead')
    BY <2>4 DEF Ahead
  <2>. QED  BY <2>2, <2>3, <2>5 DEF Follows
<1>8. CASE HwCalls(e)
  <2>1. /\ HwIs(e, "SVC") /\ e.host.exit = <<>>
        /\ call = 2 => SP(e.memory) + 1 # e.pc \div WordBytes
    BY <1>1, <1>8 DEF HwCalls, HwReadsOverItself, call
  <2>2. status' = "running"
    BY <1>2, <1>3, <2>1
  <2>3. /\ hw'.pc = e.pc /\ hw'.areg = e.areg /\ hw'.breg = e.breg /\ hw'.oreg = e.oreg
        /\ hw'.host = SyscallHost(call, e.memory, e.host)
        /\ hw'.memory = SyscallMemory(call, e.memory, e.host)
    BY <1>1, <1>2, <1>8 DEF HwServed, HwType, call
  <2>4. SameRegisters(hw)'
    BY <1>2, <2>3 DEF SameRegisters
  <2>5. hw'.memory[e.pc \div WordBytes] = e.memory[e.pc \div WordBytes]
    BY <1>4, <2>1, <2>3 DEF SyscallMemory
  <2>6. HwByte(hw') = HwByte(e)
    BY <2>3, <2>5 DEF HwByte, ByteAt
  <2>7. HwIs(hw, "SVC")'
    BY <2>1, <2>6 DEF HwIs, HwOp, HwOpr
  <2>8. Fetched' => HwByte(hw)' = Byte'
    BY <1>2, <1>6, <2>6 DEF HwByte, Byte, ByteAt
  <2>9. ASSUME areg' \in 0 .. 2, \A word \in SyscallWords(areg', memory') : InMemory(word)
        PROVE  /\ hw'.host = SyscallHost(areg', memory', host')
               /\ \A i \in 0 .. MemoryWords - 1 :
                    hw'.memory[i] = SyscallMemory(areg', memory', host')[i]
    <3>1. /\ SyscallWords(areg', memory') \subseteq Nat
          /\ SyscallWords(areg', memory') \subseteq 0 .. MemoryWords - 1 =>
               SyscallHost(areg', e.memory, e.host) = SyscallHost(areg', memory', e.host)
          /\ \A i \in 0 .. MemoryWords - 1 :
               SyscallMemory(areg', e.memory, e.host)[i] = SyscallMemory(areg', memory', e.host)[i]
      <4>1. ASSUME NEW c \in 0 .. 2, NEW mem \in [0 .. MemoryWords - 1 -> Word],
                   \A i \in 0 .. MemoryWords - 1 : e.memory[i] = mem[i]
            PROVE  /\ SyscallWords(c, mem) \subseteq Nat
                   /\ SyscallWords(c, mem) \subseteq 0 .. MemoryWords - 1 =>
                        SyscallHost(c, e.memory, e.host) = SyscallHost(c, mem, e.host)
                   /\ \A i \in 0 .. MemoryWords - 1 :
                        SyscallMemory(c, e.memory, e.host)[i]
                          = SyscallMemory(c, mem, e.host)[i]
        <5>1. SyscallWords(c, mem) \subseteq Nat
          BY <1>4, <4>1, CallsAgree
        <5>2. ASSUME SyscallWords(c, mem) \subseteq 0 .. MemoryWords - 1
              PROVE  SyscallHost(c, e.memory, e.host) = SyscallHost(c, mem, e.host)
          BY <1>4, <4>1, <5>2, CallsAgree
        <5>3. \A i \in 0 .. MemoryWords - 1 :
                SyscallMemory(c, e.memory, e.host)[i] = SyscallMemory(c, mem, e.host)[i]
          BY <1>4, <4>1, CallsAgree
        <5>. QED  BY <5>1, <5>2, <5>3
      <4>. QED  BY <1>2, <1>3, <2>9, <4>1
    <3>2. SyscallWords(areg', memory') \subseteq 0 .. MemoryWords - 1
      BY <1>4, <2>9, <3>1 DEF InMemory
    <3>. QED  BY <1>2, <1>5, <2>3, <2>9, <3>1, <3>2
  <2>. QED  BY <2>2, <2>4, <2>7, <2>8, <2>9 DEF Follows, Ahead
<1>. QED  BY <1>7, <1>8

\* The inductive invariant holds in every state.
LEMMA IInvCorrect == Spec => []IInv
<1>1. Init => IInv
  <2>. SUFFICES ASSUME Init PROVE IInv
    OBVIOUS
  <2>1. TypeInv
    BY TypeInit
  <2>2. NotExited
    BY DEF Init, NotExited, NewHost
  <2>3. hw.pc = pc % AddressSize
    BY SmallRemainder, Sizes DEF Init
  <2>4. SameRegisters(hw) /\ Same(hw)
    <3>1. \A i \in 0 .. MemoryWords - 1 : i \in 0 .. HwWords - 1 /\ i < MemoryWords
      BY Addresses
    <3>2. \A i \in 0 .. MemoryWords - 1 : hw.memory[i] = memory[i]
      BY <3>1 DEF Init
    <3>. QED  BY <2>3, <3>2 DEF Init, SameRegisters, Same
  <2>5. HwByte(hw) = Byte
    <3>1. WordBytes \in Nat \ {0} /\ MemoryWords > 2 /\ MemoryWords \in Nat
      BY Addresses
    <3>2. 0 \div WordBytes = 0
      BY <3>1
    <3>3. hw.memory[0] = memory[0]
      BY <2>4, <3>1 DEF Same
    <3>. QED  BY <3>2, <3>3 DEF Init, HwByte, Byte, ByteAt
  <2>6. Op # "OPR"
    <3>1. PICK p \in Programs : memory = Image(CodeBytes(p))
      BY Loaded
    <3>2. Byte \div 16 = 9
      BY <3>1, FirstIsBranch DEF Init, Byte
    <3>. QED  BY <3>2 DEF Op, Opcode
  <2>. QED  BY <2>1, <2>2, <2>4, <2>5, <2>6 DEF IInv, Follows, HwIs, HwOp, Op
<1>2. IInv /\ [Next]_vars => IInv'
  <2>1. ASSUME IInv, Tick PROVE IInv'
    <3>1. TypeInv' /\ NotExited'
      BY <2>1, TypeNext, NotExitedNext DEF IInv
    <3>2. Follows'
      BY <2>1, <3>1, FollowsNext DEF Follows
    <3>. QED  BY <3>1, <3>2 DEF IInv
  <2>2. ASSUME IInv, UNCHANGED vars PROVE IInv'
    BY <2>2 DEF IInv, TypeInv, NotExited, Follows, vars, SameRegisters, Same, Fetched,
                Byte, Ahead
  <2>. QED  BY <2>1, <2>2 DEF Next, Ended
<1>. QED  BY <1>1, <1>2, PTL DEF Spec

\* The hardware processor with its testbench (processor.sv, memory.sv, handleSyscall)
\* does, edge by edge, what the simulated one does (Processor::step), for any program.
THEOREM ProcessorsAgree == Spec => []HardwareFollows
<1>1. IInv => HardwareFollows
  BY DEF IInv, TypeInv, Follows, HardwareFollows, SameRegisters, Same
<1>. QED  BY <1>1, IInvCorrect, PTL

--------------------------------------------------------------------------------
(***************************************************************************)
(* The listing of the disassembler.                                        *)
(***************************************************************************)
\* The function by which Listing goes through the bytes: oreg, after n of them.
Left(bytes) ==
  CHOOSE left : left = [n \in 0 .. Len(bytes) |->
    IF n = 0 THEN 0 ELSE Listed(left[n - 1], bytes[n])]

\* What a byte leaves is a number.
LEMMA ListedType ==
  ASSUME NEW o \in Nat, NEW byte \in Octet
  PROVE  Listed(o, byte) \in Nat
<1>1. WordSize \in Nat \ {0} /\ WordSize - 256 \in Nat
  BY Sizes
<1>2. byte % 16 \in Nat
  BY DEF Octet
<1>. DEFINE x == (o + (byte % 16)) * 16
<1>3. x \in Nat
  BY <1>2
<1>. HIDE DEF x
<1>4. x % WordSize \in Nat /\ (WordSize - 256) + (x % 256) \in Nat
  <2>1. x % WordSize \in 0 .. WordSize - 1
    BY <1>1, <1>3, Division
  <2>2. x % 256 \in Nat
    BY <1>3
  <2>. QED  BY <1>1, <2>1, <2>2
<1>. QED  BY <1>4 DEF Listed, x

\* Every operand of the listing is made of its byte and of what the bytes before it leave.
LEMMA LeftFacts ==
  ASSUME NEW bytes \in Seq(Octet)
  PROVE  LET f == Left(bytes)
         IN  /\ f[0] = 0
             /\ \A n \in 1 .. Len(bytes) : f[n] = Listed(f[n - 1], bytes[n])
             /\ Listing(bytes) = [i \in DOMAIN bytes |-> f[i - 1] + (bytes[i] % 16)]
<1>. DEFINE m == Len(bytes)
            g == [n \in 1 .. m |-> [x \in Nat |-> Listed(x, bytes[n])]]
            f == Left(bytes)
<1>1. m \in Nat /\ \A n \in 1 .. m : bytes[n] \in Octet
  OBVIOUS
<1>2. g \in [1 .. m -> [Nat -> Nat]]
  BY <1>1, ListedType
<1>3. PICK h \in [0 .. m -> Nat] : Unfolds(h, 0, m, g)
  <2>. HIDE DEF g, m
  <2>. QED  BY <1>1, <1>2, NatRecursion
<1>4. h = [n \in 0 .. m |-> IF n = 0 THEN 0 ELSE Listed(h[n - 1], bytes[n])]
  <2>1. ASSUME NEW n \in 1 .. m PROVE h[n] = Listed(h[n - 1], bytes[n])
    <3>1. n - 1 \in 0 .. m
      BY <1>1
    <3>. QED  BY <1>3, <3>1 DEF Unfolds
  <2>. QED  BY <1>3, <2>1 DEF Unfolds
<1>5. f = [n \in 0 .. m |-> IF n = 0 THEN 0 ELSE Listed(f[n - 1], bytes[n])]
  BY <1>4 DEF Left
<1>6. Listing(bytes) = [i \in DOMAIN bytes |-> f[i - 1] + (bytes[i] % 16)]
  BY DEF Listing, Left
<1>. HIDE DEF f, m
<1>7. f[0] = 0 /\ \A n \in 1 .. m : f[n] = Listed(f[n - 1], bytes[n])
  BY <1>1, <1>5
<1>. QED  BY <1>6, <1>7 DEF m, f

\* The program, as it was loaded.
IsProgram(p) ==
  program = [a |-> p.a, b |-> p.b, bytes |-> CodeBytes(p), listing |-> Listing(CodeBytes(p))]

\* As long as it runs straight on, oreg is what the disassembler has left.
Lists(p) ==
  /\ IsProgram(p)
  /\ straight => \A i \in 0 .. MemoryWords - 1 : InProgram(i) => memory[i] = WordAt(program.bytes, i)
  /\ clock \in Nat
  /\ clock = 0 => pc = 0 /\ oreg = 0 /\ straight
  /\ straight /\ clock > 0 /\ status = "running" /\ pc < Len(program.bytes) =>
       oreg = Left(program.bytes)[pc]

\* An address below the memory's end is in a word of it, and not before the word.
LEMMA WordOf ==
  ASSUME NEW a \in Nat, a < MemoryWords * WordBytes
  PROVE  /\ a \div WordBytes \in Nat /\ a \div WordBytes < MemoryWords
         /\ (a \div WordBytes) * WordBytes =< a
<1>. DEFINE q == a \div WordBytes
<1>1. WordBytes \in Nat \ {0} /\ MemoryWords \in Nat /\ a \in Int /\ a >= 0
  BY Sizes, IsaAssumption
<1>2. q \in Int /\ q >= 0 /\ a % WordBytes >= 0 /\ a % WordBytes \in Int
      /\ a = WordBytes * q + (a % WordBytes)
  BY <1>1, Division
<1>. HIDE DEF q
<1>3. q * WordBytes =< a
  BY <1>1, <1>2
<1>4. q < MemoryWords
  <2>. SUFFICES ASSUME q >= MemoryWords PROVE FALSE
    BY <1>1, <1>2
  <2>1. q * WordBytes >= MemoryWords * WordBytes /\ MemoryWords * WordBytes \in Int
        /\ q * WordBytes \in Int
    BY <1>1, <1>2
  <2>. QED  BY <1>1, <1>3, <2>1
<1>. QED  BY <1>2, <1>3, <1>4 DEF q

\* A byte of the program, where no store has been.
LEMMA ProgramByte ==
  ASSUME TypeInv, Fetched, NEW p \in Programs, IsProgram(p), pc < Len(program.bytes),
         \A i \in 0 .. MemoryWords - 1 : InProgram(i) => memory[i] = WordAt(program.bytes, i)
  PROVE  Byte = program.bytes[pc + 1] /\ pc + 1 \in 1 .. Len(program.bytes)
<1>1. program.bytes = CodeBytes(p) /\ program.bytes \in Seq(Octet)
  BY Layout DEF IsProgram
<1>2. pc \in Nat /\ pc \div WordBytes \in 0 .. MemoryWords - 1 /\ WordBytes \in Nat \ {0}
  BY FetchedFacts, WordIsWide, Sizes DEF TypeInv, Word
<1>3. /\ Len(program.bytes) \in Nat /\ DOMAIN program.bytes = 1 .. Len(program.bytes)
      /\ Len(program.bytes) =< MemoryWords * WordBytes
  BY <1>1, Layout
<1>4. (pc \div WordBytes) * WordBytes =< pc
  <2>1. MemoryWords * WordBytes \in Int
    BY <1>2, IsaAssumption
  <2>2. pc < MemoryWords * WordBytes
    BY <1>2, <1>3, <2>1
  <2>. QED  BY <1>2, <2>2, WordOf
<1>5. InProgram(pc \div WordBytes)
  <2>. DEFINE x == (pc \div WordBytes) * WordBytes
  <2>1. x \in Int
    BY <1>2
  <2>. HIDE DEF x
  <2>2. x =< pc
    BY <1>4 DEF x
  <2>3. x < Len(program.bytes)
    BY <1>2, <1>3, <2>1, <2>2
  <2>. QED  BY <2>3 DEF InProgram, x
<1>6. memory[pc \div WordBytes] = Image(program.bytes)[pc \div WordBytes]
  BY <1>2, <1>5 DEF Image
<1>7. ByteAt(Image(program.bytes), pc) = Cell(program.bytes, pc + 1)
  <2>1. pc \div WordBytes < MemoryWords
    BY DEF Fetched, InMemory
  <2>. QED  BY <1>1, <1>2, <2>1, ByteOfImage
<1>8. pc + 1 \in 1 .. Len(program.bytes)
  BY <1>2, <1>3
<1>. QED  BY <1>3, <1>6, <1>7, <1>8 DEF Byte, ByteAt, Cell

\* Every instruction leaves in oreg what the disassembler has for it.
LEMMA LeavesWhatIsListed ==
  ASSUME TypeInv, Step, status' = "running"
  PROVE  Fetched /\ oreg' = Listed(oreg, Byte)
<1>1. Fetched /\ (Load \/ Store \/ Constant \/ Branch \/ Prefixed \/ Operate \/ Svc)
  BY DEF Step, LeavesByFetch, Throws, Leaves
<1>2. Byte \in 0 .. 255 /\ Byte \div 16 \in 0 .. 15
  <2>1. Byte \in 0 .. 255
    <3>1. pc \in Nat /\ pc \div WordBytes \in 0 .. MemoryWords - 1
      BY <1>1, FetchedFacts, WordIsWide DEF TypeInv, Word
    <3>. QED  BY <3>1, ByteType, Addresses DEF Byte, TypeInv
  <2>2. \A b \in 0 .. 255 : b \div 16 \in 0 .. 15
    OBVIOUS
  <2>. QED  BY <2>1, <2>2
<1>3. (Op = "PFIX" <=> Byte \div 16 = 14) /\ (Op = "NFIX" <=> Byte \div 16 = 15)
  BY <1>2 DEF Op, Opcode
<1>4. CASE Prefixed
  BY <1>1, <1>3, <1>4 DEF Prefixed, Listed, Operand
<1>5. CASE Load \/ Store \/ Constant \/ Branch \/ Operate \/ Svc
  <2>1. oreg' = 0 /\ Op # "PFIX" /\ Op # "NFIX"
    BY <1>5 DEF Load, Store, Constant, Branch, Operate, Svc, Clears
  <2>. QED  BY <1>1, <1>3, <2>1 DEF Listed
<1>. QED  BY <1>1, <1>4, <1>5

\* The branch at the start of every program.
LEMMA FirstStep ==
  ASSUME TypeInv, Step, status = "running", pc = 0, oreg = 0, NEW p \in Programs, IsProgram(p),
         \A i \in 0 .. MemoryWords - 1 : InProgram(i) => memory[i] = WordAt(program.bytes, i)
  PROVE  /\ pc' = 2 * WordBytes /\ oreg' = 0
         /\ UNCHANGED <<areg, breg, memory, status, host>>
<1>1. /\ program.bytes = CodeBytes(p) /\ 2 * WordBytes < Len(CodeBytes(p))
      /\ CodeBytes(p) \in Seq(Octet) /\ CodeBytes(p)[1] = 144 + (2 * WordBytes - 1)
  <2>1. Size(p.a) \in Nat /\ Size(p.b) \in Nat
    BY Layout, SizeFacts, Sizes
  <2>2. Len(CodeBytes(p)) \in Nat /\ 2 * WordBytes + (Size(p.a) + Size(p.b)) < Len(CodeBytes(p))
    BY Layout
  <2>3. 2 * WordBytes < Len(CodeBytes(p))
    BY <2>1, <2>2, Sizes
  <2>. QED  BY <2>3, Layout DEF IsProgram
<1>2. Fetched
  <2>1. 0 \div WordBytes = 0 /\ 0 < MemoryWords
    BY Sizes, IsaAssumption
  <2>. QED  BY <2>1 DEF Fetched, InMemory
<1>3. Byte = 144 + (2 * WordBytes - 1)
  <2>1. pc < Len(program.bytes)
    BY <1>1, Sizes
  <2>. QED  BY <1>1, <1>2, <2>1, ProgramByte
<1>4. Byte \div 16 = 9 /\ Byte % 16 = 2 * WordBytes - 1
  BY <1>3, Sizes
<1>5. Op = "BR" /\ Operand = 2 * WordBytes - 1
  BY <1>4, Sizes DEF Op, Opcode, Operand
<1>6. Branch /\ Taken
  BY <1>2, <1>5 DEF Step, Load, Store, Constant, Prefixed, Operate, Svc, Throws, Leaves,
                    LeavesByFetch, Fetched, Taken
<1>7. (pc + 1 + Operand) % WordSize = 2 * WordBytes
  <2>1. pc + 1 + Operand = 2 * WordBytes /\ 2 * WordBytes \in 0 .. WordSize - 1
    BY <1>5, Sizes
  <2>. QED  BY <2>1, Sizes, SmallRemainder
<1>. QED  BY <1>6, <1>7 DEF Branch, Goes, Clears

\* The disassembler keeps up.
LEMMA ListsNext ==
  ASSUME TypeInv, NEW p \in Programs, Lists(p), Tick
  PROVE  Lists(p)'
<1>1. /\ IsProgram(p)' /\ program' = program /\ clock' = clock + 1 /\ clock' \in Nat /\ clock' > 0
      /\ Step
      /\ straight' => straight /\ (clock > 0 => pc' = pc + 1)
      /\ straight' => \A i \in DOMAIN memory : InProgram(i) => memory'[i] = memory[i]
  BY DEF Lists, Tick, IsProgram
<1>2. DOMAIN memory = 0 .. MemoryWords - 1
  BY DEF TypeInv
<1>3. straight' => \A i \in 0 .. MemoryWords - 1 : InProgram(i)' => memory'[i] = WordAt(program'.bytes, i)
  BY <1>1, <1>2 DEF Lists, InProgram
<1>4. ASSUME straight', status' = "running", pc' < Len(program.bytes)
      PROVE  oreg' = Left(program.bytes)[pc']
  <2>1. Fetched /\ oreg' = Listed(oreg, Byte)
    BY <1>1, <1>4, LeavesWhatIsListed
  <2>2. /\ program.bytes = CodeBytes(p) /\ program.bytes \in Seq(Octet)
        /\ Len(program.bytes) \in Nat /\ pc \in Nat
    BY Layout, WordIsWide DEF Lists, IsProgram, TypeInv, Word
  <2>3. CASE clock > 0
    <3>1. pc' = pc + 1 /\ pc < Len(program.bytes) /\ straight
      BY <1>1, <1>4, <2>2, <2>3
    <3>2. oreg = Left(program.bytes)[pc]
      BY <2>1, <2>3, <3>1 DEF Lists, Fetched
    <3>3. Byte = program.bytes[pc + 1] /\ pc + 1 \in 1 .. Len(program.bytes)
      BY <2>1, <3>1, ProgramByte DEF Lists
    <3>4. Left(program.bytes)[pc + 1] = Listed(Left(program.bytes)[(pc + 1) - 1], program.bytes[pc + 1])
      BY <2>2, <3>3, LeftFacts
    <3>5. (pc + 1) - 1 = pc
      BY <2>2
    <3>. QED  BY <2>1, <3>1, <3>2, <3>3, <3>4, <3>5
  <2>4. CASE clock = 0
    <3>1. pc' = 2 * WordBytes /\ oreg' = 0
      BY <1>1, <2>1, <2>4, FirstStep DEF Lists, Fetched
    <3>2. program.bytes[2 * WordBytes] \in 0 .. 127 /\ 2 * WordBytes \in 1 .. Len(program.bytes)
      BY <1>4, <2>2, <3>1, Layout, Sizes
    <3>3. Left(program.bytes)[2 * WordBytes]
            = Listed(Left(program.bytes)[2 * WordBytes - 1], program.bytes[2 * WordBytes])
      BY <2>2, <3>2, LeftFacts
    <3>4. \A b \in 0 .. 127 : b \div 16 # 14 /\ b \div 16 # 15
      OBVIOUS
    <3>. QED  BY <3>1, <3>2, <3>3, <3>4 DEF Listed
  <2>. QED  BY <2>3, <2>4 DEF Lists
<1>. QED  BY <1>1, <1>3, <1>4 DEF Lists

\* The operands of the disassembler's listing (hexdis.hpp) are those the program runs
\* with (Processor::step), as long as control goes from each instruction to the next.
THEOREM ListingIsRight == Spec => []ListingIsWhatRuns
<1>. DEFINE Inv == \E p \in Programs : Lists(p)
<1>1. Init => Inv
  <2>. SUFFICES ASSUME Init PROVE Inv
    OBVIOUS
  <2>1. PICK p \in Programs : IsProgram(p) /\ memory = Image(CodeBytes(p))
    BY Loaded DEF IsProgram
  <2>2. program.bytes = CodeBytes(p)
    BY <2>1 DEF IsProgram
  <2>. QED  BY <2>1, <2>2 DEF Init, Lists, Image
<1>2. TypeInv /\ Inv /\ [Next]_vars => Inv'
  <2>1. ASSUME TypeInv, Inv, Tick PROVE Inv'
    BY <2>1, ListsNext
  <2>2. ASSUME Inv, UNCHANGED vars PROVE Inv'
    BY <2>2 DEF Lists, IsProgram, InProgram, vars
  <2>. QED  BY <2>1, <2>2 DEF Next, Ended
<1>3. TypeInv /\ Inv => ListingIsWhatRuns
  <2>. SUFFICES ASSUME TypeInv, Inv, status = "running", straight, clock > 0,
                       pc < Len(program.bytes)
                PROVE  Operand = program.listing[pc + 1]
    BY DEF ListingIsWhatRuns
  <2>1. PICK p \in Programs : Lists(p)
    OBVIOUS
  <2>2. /\ program.bytes = CodeBytes(p) /\ program.bytes \in Seq(Octet)
        /\ program.listing = Listing(program.bytes) /\ Len(program.bytes) \in Nat /\ pc \in Nat
        /\ Len(program.bytes) =< MemoryWords * WordBytes
    BY <2>1, Layout, WordIsWide DEF Lists, IsProgram, TypeInv, Word
  <2>3. Fetched
    <3>1. MemoryWords * WordBytes \in Int
      BY Sizes, IsaAssumption
    <3>2. pc < MemoryWords * WordBytes
      BY <2>2, <3>1
    <3>. QED  BY <2>2, <3>2, WordOf DEF Fetched, InMemory
  <2>4. Byte = program.bytes[pc + 1] /\ pc + 1 \in 1 .. Len(program.bytes) /\ (pc + 1) - 1 = pc
    BY <2>1, <2>2, <2>3, ProgramByte DEF Lists
  <2>5. DOMAIN program.bytes = 1 .. Len(program.bytes)
    BY <2>2
  <2>6. program.listing[pc + 1] = Left(program.bytes)[(pc + 1) - 1] + (program.bytes[pc + 1] % 16)
    BY <2>2, <2>4, <2>5, LeftFacts
  <2>. QED  BY <2>1, <2>4, <2>6 DEF Lists, Operand
<1>. QED  BY <1>1, <1>2, <1>3, TypeInvCorrect, PTL DEF Spec

--------------------------------------------------------------------------------
(***************************************************************************)
(* The operands of the assembler.                                          *)
(***************************************************************************)
\* A nibble and the number above it make the next number down.
LEMMA NextNibble ==
  ASSUME NEW v \in Int, NEW i \in 0 .. WordNibbles - 1
  PROVE  /\ v \div 16 ^ i \in Int /\ v \div 16 ^ (i + 1) \in Int /\ Nibble(v, i) \in 0 .. 15
         /\ v \div 16 ^ i = 16 * (v \div 16 ^ (i + 1)) + Nibble(v, i)
<1>. DEFINE p == 16 ^ i
            q == v \div p
            s == v % p
            h == q \div 16
            x == q % 16
<1>1. p \in Nat \ {0} /\ 16 ^ (i + 1) = 16 * p
  <2>1. i \in 0 .. WordNibbles
    BY Sizes
  <2>. QED  BY <2>1, Sizes, PowersAssumption
<1>. HIDE DEF p
<1>2. q \in Int /\ s \in 0 .. p - 1 /\ v = p * q + s
  BY <1>1, Division
<1>. HIDE DEF q, s
<1>3. h \in Int /\ x \in 0 .. 15 /\ q = 16 * h + x
  BY <1>2
<1>. HIDE DEF h, x
<1>4. v = (16 * p) * h + (p * x + s)
  BY <1>1, <1>2, <1>3
<1>5. p * x + s \in 0 .. (16 * p) - 1 /\ 16 * p \in Nat \ {0}
  BY <1>1, <1>2, <1>3
<1>6. v \div (16 * p) = h
  <2>. DEFINE r == p * x + s
              b == 16 * p
  <2>1. r \in 0 .. b - 1 /\ b \in Nat \ {0} /\ v = b * h + r
    BY <1>4, <1>5
  <2>. HIDE DEF r, b
  <2>2. v \div b = h
    BY <1>3, <2>1, Quotient
  <2>. QED  BY <2>2 DEF b
<1>. QED  BY <1>1, <1>2, <1>3, <1>6 DEF Nibble, p, q, h, x

\* Above all its nibbles a number is its sign.
LEMMA SignAbove ==
  ASSUME NEW v \in Int32, v # MinInt
  PROVE  v \div 16 ^ Size(v) = IF v < 0 THEN -1 ELSE 0
<1>. DEFINE p == 16 ^ Size(v)
<1>1. p \in Nat \ {0} /\ v < p /\ -p < v /\ v \in Int
  <2>1. Size(v) \in 0 .. WordNibbles
    BY SizeFacts, Sizes
  <2>. QED  BY <2>1, SizeFacts, Sizes DEF Int32, MinInt
<1>. HIDE DEF p
<1>2. CASE v >= 0
  <2>1. v = p * 0 + v /\ v \in 0 .. p - 1
    BY <1>1, <1>2
  <2>2. v \div p = 0
    BY <1>1, <2>1, Quotient
  <2>. QED  BY <1>1, <1>2, <2>2 DEF p
<1>3. CASE v < 0
  <2>1. v = p * (-1) + (v + p) /\ v + p \in 0 .. p - 1 /\ -1 \in Int
    BY <1>1, <1>3
  <2>2. v \div p = -1
    BY <1>1, <2>1, Quotient
  <2>. QED  BY <1>3, <2>2 DEF p
<1>. QED  BY <1>1, <1>2, <1>3

\* The processor collects nibbles below a word, whose sign bits go over its edge.
LEMMA Collected ==
  ASSUME NEW w \in Nat \ {0}, w % 16 = 0, NEW q \in Int, NEW x \in 0 .. 15
  PROVE  /\ ((((16 * q) % w) + x) * 16) % w = (16 * (16 * q + x)) % w
         /\ ((16 * q) % w) + x = (16 * q + x) % w
<1>. DEFINE r == (16 * q) % w
            t == (16 * q) \div w
            m == w \div 16
            y == (r + x) * 16
            e == y % w
            d == y \div w
<1>1. r \in 0 .. w - 1 /\ t \in Int /\ 16 * q = w * t + r
  <2>1. 16 * q \in Int
    OBVIOUS
  <2>. QED  BY <2>1, Division
<1>2. m \in Nat /\ w = 16 * m
  OBVIOUS
<1>. HIDE DEF r, t, m
<1>3. y \in Int /\ e \in 0 .. w - 1 /\ d \in Int /\ y = w * d + e
  <2>1. y \in Int
    BY <1>1
  <2>. HIDE DEF y
  <2>. QED  BY <2>1, Division
<1>. HIDE DEF e, d
<1>4. 16 * (16 * q + x) = w * (d + 16 * t) + e
  <2>1. 16 * (16 * q + x) = 16 * (w * t) + y
    BY <1>1
  <2>. HIDE DEF y
  <2>2. 16 * (w * t) = w * (16 * t) /\ w * (d + 16 * t) = w * d + w * (16 * t)
    BY <1>1, <1>3
  <2>3. w * d \in Int /\ w * (16 * t) \in Int
    BY <1>1, <1>3
  <2>. QED  BY <1>3, <2>1, <2>2, <2>3
<1>5. (16 * (16 * q + x)) % w = e
  <2>. DEFINE z == 16 * (16 * q + x)
              k == d + 16 * t
  <2>1. z \in Int /\ k \in Int /\ z = w * k + e
    BY <1>1, <1>3, <1>4
  <2>. HIDE DEF z, k
  <2>2. z % w = e
    BY <1>3, <2>1, Remainder
  <2>. QED  BY <2>2 DEF z
<1>6. r + x \in 0 .. w - 1
  <2>1. r = 16 * (q - m * t)
    <3>1. w * t = 16 * (m * t) /\ m * t \in Int
      BY <1>1, <1>2
    <3>. QED  BY <1>1, <3>1
  <2>. DEFINE z == q - m * t
  <2>2. z \in Int /\ r = 16 * z
    BY <1>1, <1>2, <2>1
  <2>. HIDE DEF z
  <2>. QED  BY <1>1, <1>2, <2>2
<1>7. (16 * q + x) % w = r + x
  <2>. DEFINE z == 16 * q + x
  <2>1. z \in Int /\ z = w * t + (r + x)
    BY <1>1
  <2>. HIDE DEF z
  <2>2. z % w = r + x
    BY <1>1, <1>6, <2>1, Remainder
  <2>. QED  BY <2>2 DEF z
<1>. QED  BY <1>5, <1>7 DEF r, e, y

\* What the first k bytes of an operand leave in oreg.
Partial(v, k) == IF k = 0 THEN 0 ELSE (16 * (v \div 16 ^ (Size(v) - k))) % WordSize

\* Every prefix adds its nibble to it, and the instruction the last one.
LEMMA PartialNext ==
  ASSUME NEW v \in Int32, v # MinInt, NEW k \in 0 .. Size(v) - 1
  PROVE  LET x == Nibble(v, Size(v) - (k + 1))
         IN  /\ k = 0 /\ v < 0 =>
                  (WordSize - 256) + (((Partial(v, k) + x) * 16) % 256) = Partial(v, k + 1)
             /\ k # 0 \/ v >= 0 =>
                  /\ ((Partial(v, k) + x) * 16) % WordSize = Partial(v, k + 1)
                  /\ k + 1 = Size(v) => Partial(v, k) + x = v % WordSize
<1>. DEFINE n == Size(v)
            i == n - (k + 1)
            x == Nibble(v, i)
            u == v \div 16 ^ i
            q == v \div 16 ^ (n - k)
            w == WordSize
<1>1. n \in 1 .. WordNibbles /\ WordNibbles \in Nat /\ v \in Int
  BY SizeFacts, Sizes DEF Int32, MinInt
<1>2. i \in 0 .. WordNibbles - 1 /\ i + 1 = n - k
  BY <1>1
<1>3. u \in Int /\ q \in Int /\ x \in 0 .. 15 /\ u = 16 * q + x
  <2>. HIDE DEF i
  <2>. QED  BY <1>1, <1>2, NextNibble
<1>4. w \in Nat \ {0} /\ w % 16 = 0 /\ w >= 256
  BY Sizes, WordIsWide
<1>5. Partial(v, k + 1) = (16 * u) % w
  <2>1. k + 1 # 0
    OBVIOUS
  <2>. QED  BY <2>1 DEF Partial
<1>6. k = 0 => q = IF v < 0 THEN -1 ELSE 0
  <2>1. k = 0 => n - k = Size(v)
    BY <1>1
  <2>. QED  BY <2>1, SignAbove
<1>7. k + 1 = n => u = v
  <2>1. k + 1 = n => i = 0
    BY <1>1
  <2>2. v \div 1 = v
    BY <1>1
  <2>. QED  BY <2>1, <2>2, PowersAssumption
<1>8. k # 0 \/ v >= 0 => Partial(v, k) = (16 * q) % w
  <2>1. CASE k # 0
    BY <2>1 DEF Partial
  <2>2. CASE k = 0 /\ v >= 0
    <3>1. q = 0
      BY <1>1, <1>6, <2>2
    <3>2. (16 * 0) % w = 0
      BY <1>4
    <3>. QED  BY <2>2, <3>1, <3>2 DEF Partial
  <2>. QED  BY <2>1, <2>2
<1>. HIDE DEF n, i, x, u, q, w
<1>9. ASSUME k = 0, v < 0
      PROVE  (w - 256) + (((Partial(v, k) + x) * 16) % 256) = Partial(v, k + 1)
  <2>1. 16 * u = 16 * x - 256
    BY <1>3, <1>6, <1>9
  <2>2. (16 * u) % w = (w - 256) + 16 * x
    <3>. DEFINE z == 16 * u
                r == (w - 256) + 16 * x
    <3>1. z \in Int /\ r \in 0 .. w - 1 /\ z = w * (-1) + r /\ -1 \in Int
      BY <1>3, <1>4, <2>1
    <3>. HIDE DEF z, r
    <3>2. z % w = r
      BY <1>4, <3>1, Remainder
    <3>. QED  BY <3>2 DEF z, r
  <2>3. Partial(v, k) = 0 /\ ((0 + x) * 16) % 256 = 16 * x
    BY <1>3, <1>9 DEF Partial
  <2>. QED  BY <1>5, <2>2, <2>3
<1>10. ASSUME k # 0 \/ v >= 0
       PROVE  /\ ((Partial(v, k) + x) * 16) % w = Partial(v, k + 1)
              /\ k + 1 = n => Partial(v, k) + x = v % w
  <2>1. /\ ((((16 * q) % w) + x) * 16) % w = (16 * (16 * q + x)) % w
        /\ ((16 * q) % w) + x = (16 * q + x) % w
    BY <1>3, <1>4, Collected
  <2>2. Partial(v, k) = (16 * q) % w
    BY <1>8, <1>10
  <2>. QED  BY <1>3, <1>5, <1>7, <2>1, <2>2
<1>. QED  BY <1>9, <1>10 DEF n, i, x, w

\* The processor executes a byte of an operand.
LEMMA OperandStep ==
  ASSUME TypeInv, Step, Fetched, pc + 1 < WordSize,
         NEW op \in {"LDAC", "LDBC"}, NEW v \in Int32, v # MinInt, NEW k \in 0 .. Size(v) - 1,
         Byte = Assembled(op, v)[k + 1], oreg = Partial(v, k)
  PROVE  /\ status' = "running" /\ memory' = memory /\ pc' = pc + 1
         /\ k + 1 < Size(v) => oreg' = Partial(v, k + 1) /\ areg' = areg /\ breg' = breg
         /\ k + 1 = Size(v) => /\ oreg' = 0
                               /\ areg' = (IF op = "LDAC" THEN v % WordSize ELSE areg)
                               /\ breg' = (IF op = "LDBC" THEN v % WordSize ELSE breg)
<1>. DEFINE n == Size(v)
            x == Nibble(v, n - (k + 1))
<1>1. n \in Nat /\ k + 1 \in 1 .. n /\ v \in Int /\ (v < 0 => n >= 2)
  BY SizeFacts, Sizes DEF Int32, MinInt
<1>2. /\ x \in 0 .. 15
      /\ Byte = 16 * (IF k + 1 = n THEN Code[op] ELSE IF k + 1 = 1 /\ v < 0 THEN 15 ELSE 14) + x
  BY <1>1, AssembledType
<1>. HIDE DEF x
<1>3. Byte % 16 = x /\ Operand = Partial(v, k) + x
  <2>1. \A c \in 0 .. 15, y \in 0 .. 15 : (16 * c + y) % 16 = y
    OBVIOUS
  <2>2. (IF k + 1 = n THEN Code[op] ELSE IF k + 1 = 1 /\ v < 0 THEN 15 ELSE 14) \in 0 .. 15
    BY Codes
  <2>3. Byte % 16 = x
    BY ONLY <1>2, <2>1, <2>2
  <2>. QED  BY <2>3 DEF Operand
<1>4. Op = IF k + 1 = n THEN op ELSE IF k = 0 /\ v < 0 THEN "NFIX" ELSE "PFIX"
  <2>1. \A c \in 0 .. 15, y \in 0 .. 15 : (16 * c + y) \div 16 = c
    OBVIOUS
  <2>2. Byte \div 16 = IF k + 1 = n THEN Code[op] ELSE IF k + 1 = 1 /\ v < 0 THEN 15 ELSE 14
    <3>1. (IF k + 1 = n THEN Code[op] ELSE IF k + 1 = 1 /\ v < 0 THEN 15 ELSE 14) \in 0 .. 15
      BY Codes
    <3>. QED  BY ONLY <1>2, <2>1, <3>1
  <2>3. /\ Opcode[3 + 1] = "LDAC" /\ Opcode[4 + 1] = "LDBC"
        /\ Opcode[14 + 1] = "PFIX" /\ Opcode[15 + 1] = "NFIX"
    BY DEF Opcode
  <2>4. Code["LDAC"] = 3 /\ Code["LDBC"] = 4 /\ (k + 1 = 1 <=> k = 0)
    BY Codes
  <2>. QED  BY <2>2, <2>3, <2>4 DEF Op
<1>5. (pc + 1) % WordSize = pc + 1
  <2>1. pc + 1 \in 0 .. WordSize - 1
    BY WordIsWide DEF TypeInv, Word
  <2>. QED  BY <2>1, Sizes, SmallRemainder
<1>6. /\ k = 0 /\ v < 0 =>
           (WordSize - 256) + (((Partial(v, k) + x) * 16) % 256) = Partial(v, k + 1)
      /\ k # 0 \/ v >= 0 =>
           /\ ((Partial(v, k) + x) * 16) % WordSize = Partial(v, k + 1)
           /\ k + 1 = n => Partial(v, k) + x = v % WordSize
  BY PartialNext DEF x
<1>. HIDE DEF n
<1>7. CASE k + 1 = n
  <2>1. Op = op /\ Operand = v % WordSize
    <3>1. k # 0 \/ v >= 0
      BY <1>1, <1>7
    <3>. QED  BY <1>3, <1>4, <1>6, <1>7, <3>1
  <2>2. Constant
    BY <2>1 DEF Step, Load, Store, Branch, Prefixed, Operate, Svc, Throws, Leaves,
                LeavesByFetch, Fetched
  <2>3. ~(k + 1 < n)
    BY <1>1, <1>7
  <2>. QED  BY <1>5, <1>7, <2>1, <2>2, <2>3 DEF Constant, Goes, Clears, n, Fetched
<1>8. CASE k + 1 < n
  <2>1. Op = IF k = 0 /\ v < 0 THEN "NFIX" ELSE "PFIX"
    BY <1>1, <1>4, <1>8
  <2>2. Prefixed
    BY <2>1 DEF Step, Load, Store, Branch, Constant, Operate, Svc, Throws, Leaves,
                LeavesByFetch, Fetched
  <2>3. oreg' = Partial(v, k + 1)
    <3>1. CASE k = 0 /\ v < 0
      <4>1. Op = "NFIX"
        BY <2>1, <3>1
      <4>. QED  BY <1>3, <1>6, <2>2, <3>1, <4>1 DEF Prefixed
    <3>2. CASE k # 0 \/ v >= 0
      <4>1. Op = "PFIX"
        BY <1>1, <2>1, <3>2
      <4>. QED  BY <1>3, <1>6, <2>2, <3>2, <4>1 DEF Prefixed
    <3>. QED  BY <1>1, <3>1, <3>2
  <2>4. k + 1 # n
    BY <1>1, <1>8
  <2>. QED  BY <1>5, <1>8, <2>2, <2>3, <2>4 DEF Prefixed, Goes, n, Fetched
<1>. QED  BY <1>1, <1>7, <1>8 DEF n

\* Where the program is when it has executed k bytes of its operands.
Loads(p, k) ==
  /\ status = "running" /\ memory = Image(CodeBytes(p)) /\ pc = 2 * WordBytes + k
  /\ k < Size(p.a) => oreg = Partial(p.a, k)
  /\ k >= Size(p.a) => areg = p.a % WordSize
  /\ k >= Size(p.a) /\ k < Size(p.a) + Size(p.b) => oreg = Partial(p.b, k - Size(p.a))
  /\ k = Size(p.a) + Size(p.b) => breg = p.b % WordSize

\* A byte of an operand leads to the next.
LEMMA LoadsNext ==
  ASSUME TypeInv, Step, NEW p \in Programs, IsProgram(p), NEW k \in Nat, Loads(p, k), p.a # MinInt,
         k < Size(p.a) \/ (p.b # MinInt /\ k < Size(p.a) + Size(p.b))
  PROVE  Loads(p, k + 1)'
<1>. DEFINE bytes == CodeBytes(p)
            n == 2 * WordBytes
            sa == Size(p.a)
            sb == Size(p.b)
<1>1. /\ p.a \in Int32 /\ p.b \in Int32 /\ bytes \in Seq(Octet)
      /\ Len(bytes) \in Nat /\ Len(bytes) =< MemoryWords * WordBytes
      /\ n + (sa + sb) < Len(bytes) /\ n \in Nat
      /\ \A j \in 1 .. sa : bytes[n + j] = Assembled("LDAC", p.a)[j]
      /\ \A j \in 1 .. sb : bytes[(n + sa) + j] = Assembled("LDBC", p.b)[j]
  BY Layout, Sizes
<1>2. sa \in Nat /\ sb \in Nat /\ sa >= 1 /\ sb >= 1
  BY <1>1, SizeFacts, Sizes
<1>3. pc = n + k /\ pc \in Nat /\ pc < Len(bytes) /\ program.bytes = bytes
  BY <1>1, <1>2 DEF Loads, IsProgram
<1>. HIDE DEF bytes, n, sa, sb
<1>4. pc \div WordBytes < MemoryWords /\ pc + 1 < WordSize
  <2>1. /\ MemoryWords * WordBytes \in Int /\ WordSize \in Nat
        /\ MemoryWords * WordBytes =< WordSize
    <3>1. /\ MemoryWords * WordBytes =< AddressSize /\ AddressSize \in Nat
          /\ AddressSize =< WordSize /\ WordSize \in Nat
          /\ MemoryWords * WordBytes \in Int
      BY IsaAssumption, Addresses, Sizes
    <3>. QED  BY <3>1
  <2>2. pc + 1 < Len(bytes)
    BY <1>1, <1>2, <1>3 DEF sa, sb
  <2>3. pc < MemoryWords * WordBytes /\ pc + 1 < WordSize
    BY <1>1, <1>3, <2>1, <2>2
  <2>. QED  BY <1>3, <2>3, WordOf
<1>5. Fetched
  BY <1>4 DEF Loads, Fetched, InMemory
<1>6. Byte = bytes[pc + 1]
  <2>1. Byte = Cell(bytes, pc + 1)
    BY <1>1, <1>3, <1>4, ByteOfImage DEF Loads, Byte, bytes
  <2>2. pc + 1 \in 1 .. Len(bytes) /\ DOMAIN bytes = 1 .. Len(bytes)
    BY <1>1, <1>3
  <2>. QED  BY <2>1, <2>2 DEF Cell
<1>7. CASE k < sa
  <2>1. k \in 0 .. sa - 1 /\ k + 1 \in 1 .. sa /\ n + (k + 1) = pc + 1
    BY <1>1, <1>2, <1>3, <1>7
  <2>2. Byte = Assembled("LDAC", p.a)[k + 1] /\ oreg = Partial(p.a, k)
    BY <1>1, <1>6, <1>7, <2>1 DEF Loads, sa
  <2>3. /\ status' = "running" /\ memory' = memory /\ pc' = pc + 1
        /\ k + 1 < sa => oreg' = Partial(p.a, k + 1)
        /\ k + 1 = sa => oreg' = 0 /\ areg' = p.a % WordSize
    BY <1>1, <1>4, <1>5, <2>1, <2>2, OperandStep DEF sa
  <2>4. k + 1 >= sa => k + 1 = sa /\ (k + 1) - sa = 0 /\ k + 1 < sa + sb
    BY <1>2, <1>7
  <2>5. k + 1 # sa + sb
    BY <1>2, <1>7
  <2>. QED  BY <1>3, <2>1, <2>3, <2>4, <2>5 DEF Loads, Partial, sa, sb, n
<1>8. CASE k >= sa
  <2>. DEFINE j == k - sa
  <2>1. k < sa + sb /\ p.b # MinInt
    BY <1>2, <1>8 DEF sa, sb
  <2>2. /\ j \in 0 .. sb - 1 /\ j + 1 \in 1 .. sb /\ (n + sa) + (j + 1) = pc + 1
        /\ (k + 1) - sa = j + 1 /\ n + (k + 1) = pc + 1
        /\ (k + 1 = sa + sb <=> j + 1 = sb) /\ (k + 1 < sa + sb <=> j + 1 < sb) /\ ~(k + 1 < sa)
    <3>1. n \in Nat /\ pc = n + k
      BY <1>1, <1>3
    <3>. QED  BY ONLY k \in Nat, <1>2, <1>8, <2>1, <3>1
  <2>. HIDE DEF j
  <2>3. Byte = Assembled("LDBC", p.b)[j + 1] /\ oreg = Partial(p.b, j) /\ areg = p.a % WordSize
    BY <1>1, <1>6, <1>8, <2>2, <2>1 DEF Loads, sa, sb, j
  <2>4. /\ status' = "running" /\ memory' = memory /\ pc' = pc + 1
        /\ j + 1 < sb => oreg' = Partial(p.b, j + 1) /\ areg' = areg
        /\ j + 1 = sb => oreg' = 0 /\ breg' = p.b % WordSize /\ areg' = areg
    BY <1>1, <1>4, <1>5, <2>2, <2>3, <2>1, OperandStep DEF sb
  <2>5. areg' = areg
    BY <1>2, <2>2, <2>4
  <2>. QED  BY <1>3, <2>2, <2>3, <2>4, <2>5 DEF Loads, sa, sb, n
<1>. QED  BY <1>2, <1>7, <1>8

\* Up to the last byte of its operands a program is where its clock says.
Rebuilds(p) ==
  /\ IsProgram(p) /\ clock \in Nat
  /\ clock = 0 => status = "running" /\ pc = 0 /\ oreg = 0 /\ memory = Image(CodeBytes(p))
  /\ /\ p.a # MinInt /\ clock > 0
     /\ clock =< 1 + Size(p.a) \/ (p.b # MinInt /\ clock =< 1 + Size(p.a) + Size(p.b))
     => Loads(p, clock - 1)

\* An instruction more.
LEMMA RebuildsNext ==
  ASSUME TypeInv, NEW p \in Programs, Rebuilds(p), Tick
  PROVE  Rebuilds(p)'
<1>1. /\ Step /\ clock \in Nat /\ clock' = clock + 1 /\ program' = program
      /\ IsProgram(p)' /\ IsProgram(p)
  BY DEF Tick, Rebuilds, IsProgram
<1>2. Size(p.a) \in Nat /\ Size(p.b) \in Nat /\ Size(p.a) >= 1 /\ Size(p.b) >= 1
  BY Layout, SizeFacts, Sizes
<1>3. ASSUME p.a # MinInt,
             clock' =< 1 + Size(p.a) \/ (p.b # MinInt /\ clock' =< 1 + Size(p.a) + Size(p.b))
      PROVE  Loads(p, clock - 1)'
  <2>1. CASE clock = 0
    <3>1. pc' = 2 * WordBytes /\ oreg' = 0 /\ UNCHANGED <<memory, status>>
      <4>1. \A i \in 0 .. MemoryWords - 1 : InProgram(i) => memory[i] = WordAt(program.bytes, i)
        BY <2>1 DEF Rebuilds, IsProgram, Image
      <4>. QED  BY <1>1, <2>1, <4>1, FirstStep DEF Rebuilds
    <3>2. clock' - 1 = 0 /\ 2 * WordBytes + 0 = 2 * WordBytes /\ ~(0 >= Size(p.a))
          /\ 0 # Size(p.a) + Size(p.b)
      BY <1>1, <1>2, <2>1, Sizes
    <3>. QED  BY <2>1, <3>1, <3>2 DEF Rebuilds, Loads, Partial
  <2>2. CASE clock > 0
    <3>1. /\ clock - 1 \in Nat /\ (clock - 1) + 1 = clock' - 1
          /\ clock - 1 < Size(p.a) \/ (p.b # MinInt /\ clock - 1 < Size(p.a) + Size(p.b))
          /\ clock =< 1 + Size(p.a) \/ (p.b # MinInt /\ clock =< 1 + Size(p.a) + Size(p.b))
      BY <1>1, <1>2, <1>3, <2>2
    <3>2. Loads(p, clock - 1)
      BY <1>3, <2>2, <3>1 DEF Rebuilds
    <3>3. PICK k \in Nat : k = clock - 1
      BY <3>1
    <3>4. Loads(p, k + 1)'
      BY <1>1, <1>3, <3>1, <3>2, <3>3, LoadsNext
    <3>5. k + 1 = clock' - 1
      BY <3>1, <3>3
    <3>. QED  BY <3>4, <3>5 DEF Loads
  <2>. QED  BY <1>1, <2>1, <2>2
<1>4. clock' \in Nat /\ clock' # 0
  BY <1>1
<1>. QED  BY <1>1, <1>3, <1>4 DEF Rebuilds

\* The processor (Processor::step) loads the operands of the source from the bytes of
\* the assembler (numNibbles, getSize, emitInstr): every word but the lowest, whatever
\* its sign and length, comes through the prefixes as it was.
THEOREM OperandsAreRebuilt == Spec => []OperandIsRebuilt
<1>. DEFINE Inv == \E p \in Programs : Rebuilds(p)
<1>1. Init => Inv
  <2>. SUFFICES ASSUME Init PROVE Inv
    OBVIOUS
  <2>1. PICK p \in Programs : IsProgram(p) /\ memory = Image(CodeBytes(p))
    BY Loaded DEF IsProgram
  <2>. QED  BY <2>1 DEF Init, Rebuilds
<1>2. TypeInv /\ Inv /\ [Next]_vars => Inv'
  <2>1. ASSUME TypeInv, Inv, Tick PROVE Inv'
    BY <2>1, RebuildsNext
  <2>2. ASSUME Inv, UNCHANGED vars PROVE Inv'
    BY <2>2 DEF Rebuilds, IsProgram, Loads, vars
  <2>. QED  BY <2>1, <2>2 DEF Next, Ended
<1>3. Inv => OperandIsRebuilt
  <2>. SUFFICES ASSUME Inv PROVE OperandIsRebuilt
    OBVIOUS
  <2>1. PICK p \in Programs : Rebuilds(p)
    OBVIOUS
  <2>2. program.a = p.a /\ program.b = p.b /\ clock \in Nat
    BY <2>1 DEF Rebuilds, IsProgram
  <2>3. Size(p.a) \in Nat /\ Size(p.b) \in Nat /\ Size(p.a) >= 1 /\ Size(p.b) >= 1
    BY Layout, SizeFacts, Sizes
  <2>4. ASSUME p.a # MinInt, clock = 1 + Size(p.a) PROVE areg = p.a % WordSize
    <3>1. clock > 0 /\ clock =< 1 + Size(p.a) /\ clock - 1 = Size(p.a)
          /\ Size(p.a) >= Size(p.a)
      BY <2>3, <2>4
    <3>. QED  BY <2>1, <2>4, <3>1 DEF Rebuilds, Loads
  <2>5. ASSUME p.a # MinInt, p.b # MinInt, clock = 1 + Size(p.a) + Size(p.b)
        PROVE  breg = p.b % WordSize
    <3>1. clock > 0 /\ clock =< 1 + Size(p.a) + Size(p.b) /\ clock - 1 = Size(p.a) + Size(p.b)
      BY <2>2, <2>3, <2>5
    <3>. QED  BY <2>1, <2>5, <3>1 DEF Rebuilds, Loads
  <2>. QED  BY <2>2, <2>4, <2>5 DEF OperandIsRebuilt
<1>. QED  BY <1>1, <1>2, <1>3, TypeInvCorrect, PTL DEF Spec
=================================================================================
