------------------------- MODULE DependenciesProofs -------------------------
(***************************************************************************)
(* What holds for versions of any length, and for any characters:          *)
(* dbpmgr_depend_compare_version orders versions, those of the usual form  *)
(* as Debian does, and a list of bounds cuts them into intervals.  And     *)
(* what holds for any packages, in lists of any length: the trees find     *)
(* just those that are installed, and the check names what is missing.     *)
(*                                                                         *)
(* To compare first by one thing that is ordered, and if that is equal by  *)
(* the next, is again an order (FirstIsOrder).  The comparison is shown to *)
(* be of this kind three times: a version is an epoch, a main part and a   *)
(* revision (VersionOrder); each of the two strings is a sequence of       *)
(* rounds (StringOrder); and a round is a number, and the ranks of the     *)
(* characters up to the next one (RoundOrder).  Numbers and ranks are      *)
(* integers, which are in an order.                                        *)
(*                                                                         *)
(* Debian's parts begin and end elsewhere than the rounds: a part is what  *)
(* a round reads last and the number that the next one reads first.  So    *)
(* the first round that finds a difference finds it in the part before or  *)
(* in the one after its number, and no part before these differs           *)
(* (RoundsSame, StringParts).                                              *)
(*                                                                         *)
(* Of a tree it is shown where every entry is (TreeHolds): in the node     *)
(* that its name leads to, once, and in no other.  Spreading a list keeps  *)
(* that for all but the entries it has yet to move (SpreadHolds).          *)
(*                                                                         *)
(* What is recursive is a function on numbers, so induction is over sets   *)
(* of numbers, from the least one of those that are not in the set.        *)
(***************************************************************************)
EXTENDS Dependencies, TLAPS, SequenceTheorems, FiniteSetTheorems, WellFoundedInduction

-----------------------------------------------------------------------------
(* Induction and recursion                                                 *)

\* Every non-empty set of natural numbers has a least element.
LEMMA Least ==
  ASSUME NEW S, S \subseteq Nat, S # {}
  PROVE  \E n \in S : \A m \in S : n <= m
<1> DEFINE R == {p \in Nat \X Nat : p[1] < p[2]}
<1>1. IsWellFoundedOn(R, Nat)
  <2>1. OpToRel(<, Nat) = R
    BY Zenon DEF OpToRel
  <2> QED BY <2>1, NatLessThanWellFounded, Zenon
<1>2. PICK n \in S : \A m \in S : ~(<<m, n>> \in R)
  <2> HIDE DEF R
  <2> QED BY <1>1, WFMin
<1>3. ASSUME NEW m \in S PROVE n <= m
  <2>1. ~(m < n)
    BY <1>2
  <2> QED BY <2>1
<1> QED BY <1>3

\* Induction, for the numbers in a set.
LEMMA Induction ==
  ASSUME NEW S, 0 \in S, \A n \in Nat : n \in S => n + 1 \in S
  PROVE  \A n \in Nat : n \in S
<1> DEFINE Bad == {n \in Nat : n \notin S}
<1>1. ASSUME Bad # {} PROVE FALSE
  <2>1. Bad \subseteq Nat
    OBVIOUS
  <2>2. PICK n \in Bad : \A m \in Bad : n <= m
    <3> HIDE DEF Bad
    <3> QED BY <1>1, <2>1, Least
  <2>3. n \in Nat /\ n # 0 /\ n - 1 \in Nat /\ ~(n <= n - 1) /\ (n - 1) + 1 = n
    OBVIOUS
  <2>4. n - 1 \notin Bad
    <3> HIDE DEF Bad
    <3> QED BY <2>2, <2>3
  <2> QED BY <2>3, <2>4
<1> QED BY <1>1

\* f[n] is what n steps make of base, for the numbers in N.
Repeats(f, base, step, N) ==
  f[0] = base /\ \A n \in N \ {0} : f[n] = step[<<f[n - 1], n>>]

\* Two such functions are equal as far as they go.
LEMMA RepeatsOne ==
  ASSUME NEW k \in Nat, NEW l \in Nat, NEW f, NEW g, NEW base, NEW step,
         Repeats(f, base, step, 0..k), Repeats(g, base, step, 0..l)
  PROVE  \A n \in Nat : n <= k /\ n <= l => f[n] = g[n]
<1> DEFINE Same == {n \in Nat : n <= k /\ n <= l => f[n] = g[n]}
<1>1. 0 \in Same
  BY DEF Repeats
<1>2. ASSUME NEW n \in Nat, n \in Same PROVE n + 1 \in Same
  <2> SUFFICES ASSUME n + 1 <= k, n + 1 <= l PROVE f[n + 1] = g[n + 1]
    OBVIOUS
  <2>1. f[n] = g[n]
    BY <1>2
  <2>2. n + 1 \in (0..k) \ {0} /\ n + 1 \in (0..l) \ {0} /\ (n + 1) - 1 = n
    OBVIOUS
  <2>3. f[n + 1] = step[<<f[n], n + 1>>] /\ g[n + 1] = step[<<g[n], n + 1>>]
    BY <2>2 DEF Repeats
  <2> QED BY <2>1, <2>3
<1>3. \A n \in Nat : n \in Same
  <2> HIDE DEF Same
  <2> QED BY <1>1, <1>2, Induction
<1> QED BY <1>3

\* A step on the set D can be repeated for ever.
LEMMA Recursion ==
  ASSUME NEW D, NEW base \in D, NEW step \in [D \X (Nat \ {0}) -> D]
  PROVE  \E f \in [Nat -> D] : Repeats(f, base, step, Nat)
<1> DEFINE Good == {k \in Nat : \E f \in [0..k -> D] : Repeats(f, base, step, 0..k)}
<1>1. 0 \in Good
  <2> DEFINE f == [i \in 0..0 |-> base]
  <2>1. f \in [0..0 -> D] /\ f[0] = base /\ (0..0) \ {0} = {}
    OBVIOUS
  <2> HIDE DEF f
  <2>2. Repeats(f, base, step, 0..0)
    BY <2>1 DEF Repeats
  <2> QED BY <2>1, <2>2
<1>2. ASSUME NEW k \in Nat, k \in Good PROVE k + 1 \in Good
  <2>1. PICK g \in [0..k -> D] : Repeats(g, base, step, 0..k)
    BY <1>2
  <2> DEFINE f == [i \in 0..k + 1 |-> IF i = k + 1 THEN step[<<g[k], k + 1>>] ELSE g[i]]
  <2>2. f \in [0..k + 1 -> D] /\ f[k + 1] = step[<<g[k], k + 1>>] /\ \A i \in 0..k : f[i] = g[i]
    OBVIOUS
  <2> HIDE DEF f
  <2>3. ASSUME NEW n \in (0..k + 1) \ {0} PROVE f[n] = step[<<f[n - 1], n>>]
    <3>1. CASE n = k + 1
      <4>1. n - 1 = k /\ k \in 0..k
        BY <3>1
      <4> QED BY <2>2, <3>1, <4>1
    <3>2. CASE n # k + 1
      <4>1. n \in (0..k) \ {0} /\ n - 1 \in 0..k
        BY <3>2
      <4>2. g[n] = step[<<g[n - 1], n>>]
        BY <2>1, <4>1 DEF Repeats
      <4> QED BY <2>2, <4>1, <4>2
    <3> QED BY <3>1, <3>2
  <2>4. Repeats(f, base, step, 0..k + 1)
    <3>1. f[0] = base
      BY <2>1, <2>2 DEF Repeats
    <3> QED BY <2>3, <3>1 DEF Repeats
  <2> QED BY <2>2, <2>4
<1>3. \A k \in Nat : k \in Good
  <2> HIDE DEF Good
  <2> QED BY <1>1, <1>2, Induction
<1> DEFINE Of(k) == CHOOSE f \in [0..k -> D] : Repeats(f, base, step, 0..k)
           f == [n \in Nat |-> Of(n)[n]]
<1>4. \A k \in Nat : Of(k) \in [0..k -> D] /\ Repeats(Of(k), base, step, 0..k)
  BY <1>3
<1> HIDE DEF Of
<1>5. f \in [Nat -> D] /\ \A n \in Nat : f[n] = Of(n)[n]
  <2>1. \A n \in Nat : n \in 0..n
    OBVIOUS
  <2> QED BY <1>4, <2>1
<1> HIDE DEF f
<1>6. f[0] = base
  BY <1>4, <1>5 DEF Repeats
<1>7. ASSUME NEW n \in Nat \ {0} PROVE f[n] = step[<<f[n - 1], n>>]
  <2>1. n \in Nat /\ n - 1 \in Nat /\ n - 1 <= n /\ n - 1 <= n - 1 /\ n \in (0..n) \ {0}
    OBVIOUS
  <2>2. Of(n)[n] = step[<<Of(n)[n - 1], n>>]
    BY <1>4, <2>1 DEF Repeats
  <2>3. Of(n)[n - 1] = Of(n - 1)[n - 1]
    BY <1>4, <2>1, RepeatsOne
  <2> QED BY <1>5, <2>1, <2>2, <2>3
<1>8. Repeats(f, base, step, Nat)
  BY <1>6, <1>7 DEF Repeats
<1> QED BY <1>5, <1>8

-----------------------------------------------------------------------------
(* Places and numbers                                                      *)

\* The least of some natural numbers
LEMMA MinIs ==
  ASSUME NEW S, S \subseteq Nat, S # {}
  PROVE  Min(S) \in S /\ \A n \in S : Min(S) <= n
BY Least DEF Min

\* The greatest of some numbers up to k
LEMMA MaxIs ==
  ASSUME NEW k \in Nat, NEW S, S \subseteq 1..k, S # {}
  PROVE  Max(S) \in S /\ \A n \in S : n <= Max(S)
<1> DEFINE T == {k - n : n \in S}
<1>1. T \subseteq Nat /\ T # {}
  <2>1. \A n \in S : n \in 1..k /\ k - n \in Nat
    OBVIOUS
  <2> QED BY <2>1
<1>2. PICK m \in T : \A n \in T : m <= n
  <2> HIDE DEF T
  <2> QED BY <1>1, Least
<1>3. PICK x \in S : m = k - x
  OBVIOUS
<1>4. ASSUME NEW n \in S PROVE n <= x
  <2>1. m <= k - n /\ n \in 1..k /\ x \in 1..k
    BY <1>2
  <2> QED BY <1>3, <2>1
<1> QED BY <1>3, <1>4 DEF Max

\* After goes over characters of C up to one that is none, or to the end.
LEMMA AfterIs ==
  ASSUME NEW s, Len(s) \in Nat, NEW i \in 1..Len(s) + 1, NEW C
  PROVE  /\ After(s, i, C) \in i..Len(s) + 1
         /\ After(s, i, C) > Len(s) \/ s[After(s, i, C)] \notin C
         /\ \A k \in i..After(s, i, C) - 1 : k \in 1..Len(s) /\ s[k] \in C
<1> DEFINE K == {k \in i..Len(s) + 1 : k > Len(s) \/ s[k] \notin C}
           a == After(s, i, C)
<1>1. a = Min(K)
  BY DEF After
<1>2. Len(s) + 1 \in K /\ K \subseteq Nat
  OBVIOUS
<1>3. a \in K /\ \A k \in K : a <= k
  <2> HIDE DEF K, a
  <2> QED BY <1>1, <1>2, MinIs
<1>4. ASSUME NEW k \in i..a - 1 PROVE k \in 1..Len(s) /\ s[k] \in C
  <2>1. k \notin K
    BY <1>3
  <2>2. k \in i..Len(s) + 1
    BY <1>3
  <2> QED BY <2>1, <2>2
<1> HIDE DEF a
<1> QED BY <1>3, <1>4 DEF a

\* The value of a digit, and of what is none
LEMMA ValueType ==
  ASSUME NEW d
  PROVE  Value(d) \in Int
<1> DEFINE I == {i \in 1..Len(Digits(16)) : Digits(16)[i] = d}
<1>1. Len(Digits(16)) \in Nat
  BY DEF Digits
<1>2. Value(d) = IF I # {} THEN Min(I) - 1 ELSE 0 - 1
  BY DEF Value, SelectInSeq
<1>3. I \subseteq Nat
  BY <1>1
<1> HIDE DEF I
<1>4. I # {} => Min(I) \in Nat
  BY <1>3, MinIs
<1> QED BY <1>2, <1>4

\* A number is read digit by digit: g[n] is what the first n make.
Reads(g, s, i, base) ==
  g[0] = 0 /\ \A n \in Nat : g[n] \in Int /\ g[n + 1] = g[n] * base + Value(s[i + n])

\* The recursion over the digits is defined.
LEMMA NumberSteps ==
  ASSUME NEW s, Len(s) \in Nat, NEW i \in 1..Len(s) + 1, NEW base \in Nat
  PROVE  \E g : Reads(g, s, i, base) /\ Number(s, i, base) = g[After(s, i, DigitsOf[base]) - i]
<1> DEFINE D == Int
           Step(v, n) == v * base + Value(s[i + n - 1])
           step == [p \in D \X (Nat \ {0}) |-> Step(p[1], p[2])]
           Is(g) == g = [n \in Nat |-> IF n = 0 THEN 0 ELSE Step(g[n - 1], n)]
           G == CHOOSE g : Is(g)
           e == After(s, i, DigitsOf[base])
<1>1. 0 \in D /\ \A v \in D, n \in Nat \ {0} : Step(v, n) \in D
  BY ValueType
<1>2. Number(s, i, base) = G[e - i]
  BY DEF Number
<1> HIDE DEF Step, D
<1>3. step \in [D \X (Nat \ {0}) -> D]
  BY <1>1
<1>4. PICK f \in [Nat -> D] : Repeats(f, 0, step, Nat)
  <2> HIDE DEF step
  <2> QED BY <1>1, <1>3, Recursion
<1>5. ASSUME NEW n \in Nat \ {0} PROVE f[n] = Step(f[n - 1], n)
  <2>1. f[n - 1] \in D
    OBVIOUS
  <2>2. f[n] = step[<<f[n - 1], n>>]
    <3> HIDE DEF step
    <3> QED BY <1>4 DEF Repeats
  <2> QED BY <2>1, <2>2
<1>6. Is(f)
  BY <1>4, <1>5 DEF Repeats
<1>7. Is(G)
  <2> HIDE DEF Is
  <2> QED BY <1>6
<1> HIDE DEF G
<1>8. \A n \in Nat : G[n] \in D
  <2> DEFINE S == {m \in Nat : G[m] \in D}
  <2>1. 0 \in S
    BY <1>1, <1>7
  <2>2. ASSUME NEW n \in Nat, n \in S PROVE n + 1 \in S
    <3>1. G[n + 1] = Step(G[n], n + 1)
      BY <1>7
    <3> QED BY <1>1, <2>2, <3>1
  <2>3. \A n \in Nat : n \in S
    <3> HIDE DEF S
    <3> QED BY <2>1, <2>2, Induction
  <2> QED BY <2>3
<1>9. G[0] = 0
  BY <1>7
<1>10. ASSUME NEW n \in Nat PROVE G[n] \in Int /\ G[n + 1] = G[n] * base + Value(s[i + n])
  <2>1. G[n + 1] = Step(G[n], n + 1)
    BY <1>7
  <2>2. i + (n + 1) - 1 = i + n
    OBVIOUS
  <2> QED BY <1>8, <2>1, <2>2 DEF Step, D
<1>11. Reads(G, s, i, base)
  BY <1>9, <1>10 DEF Reads
<1> HIDE DEF e
<1> QED BY <1>2, <1>11 DEF e

\* What is read is a number.
LEMMA NumberType ==
  ASSUME NEW s, Len(s) \in Nat, NEW i \in 1..Len(s) + 1, NEW base \in Nat
  PROVE  Number(s, i, base) \in Int
<1> DEFINE e == After(s, i, DigitsOf[base])
<1>1. e - i \in Nat
  <2>1. e \in i..Len(s) + 1
    BY AfterIs
  <2> HIDE DEF e
  <2> QED BY <2>1
<1>2. PICK g : Reads(g, s, i, base) /\ Number(s, i, base) = g[e - i]
  BY NumberSteps
<1> HIDE DEF e
<1> QED BY <1>1, <1>2 DEF Reads

\* What is left of a number in an int
LEMMA AsIntType ==
  ASSUME NEW n \in Int
  PROVE  AsInt(n) \in Int
<1> DEFINE long == IF n > LongMax THEN LongMax ELSE IF n < -LongMax - 1 THEN -LongMax - 1 ELSE n
<1>1. long \in Int /\ IntMax \in Nat
  BY VersionAssumption
<1> HIDE DEF long
<1>2. (long + IntMax + 1) % (2 * IntMax + 2) \in Int
  <2>1. long + IntMax + 1 \in Int /\ 2 * IntMax + 2 \in Nat \ {0}
    BY <1>1
  <2> QED BY <2>1
<1> QED BY <1>1, <1>2 DEF AsInt, long

\* A sign is read over, if there is one.
LEMMA SignType ==
  ASSUME NEW s, Len(s) \in Nat, NEW i \in 1..Len(s) + 1
  PROVE  SignAt(s, i) \in Int /\ AfterSign(s, i) \in 1..Len(s) + 1
BY DEF SignAt, AfterSign, At

\* An epoch is a number, ...
LEMMA atoiType ==
  ASSUME NEW s, Len(s) \in Nat
  PROVE  atoi(s) \in Int
<1>1. 1 \in 1..Len(s) + 1
  OBVIOUS
<1>2. Number(s, AfterSign(s, 1), 10) \in Int
  BY <1>1, SignType, NumberType
<1> QED BY <1>1, <1>2, SignType, AsIntType DEF atoi

\* ... and so is what a round reads.
LEMMA scanType ==
  ASSUME NEW s, Len(s) \in Nat, NEW i \in 1..Len(s) + 1
  PROVE  scan(s, i) \in Int
<1> DEFINE k == AfterSign(s, i)
           base == IF ~At(s, k, {"0"}) THEN 10 ELSE IF At(s, k + 1, {"x"}) THEN 16 ELSE 8
           digits == Number(s, IF base = 16 THEN k + 2 ELSE k, base)
<1>1. k \in 1..Len(s) + 1
  BY SignType
<1> HIDE DEF k
<1>2. At(s, k + 1, {"x"}) => k + 2 \in 1..Len(s) + 1
  BY <1>1 DEF At
<1>3. digits \in Int
  <2>1. base \in Nat /\ (base = 16 => At(s, k + 1, {"x"}))
    OBVIOUS
  <2>2. (IF base = 16 THEN k + 2 ELSE k) \in 1..Len(s) + 1
    BY <1>1, <1>2, <2>1
  <2> HIDE DEF base
  <2> QED BY <2>1, <2>2, NumberType
<1> HIDE DEF digits
<1> QED BY <1>3, SignType, AsIntType DEF scan, digits, k

-----------------------------------------------------------------------------
(* Characters                                                              *)

\* The characters of what is compared; "0" stands for what is missing.
Known == Char \cup {"0"}

\* The digits, of which "~" is none
LEMMA DigitsAre ==
  /\ \A i \in 1..10 : Digits(10)[i] # "~"
  /\ "~" \notin Digit
<1>1. /\ Len(Digits(10)) = 10
      /\ \A i \in 1..10 : Digits(10)[i] \in {"0", "1", "2", "3", "4", "5", "6", "7", "8", "9"}
  BY DEF Digits
<1> QED BY <1>1 DEF Digit, DigitsOf, ToSet

\* The place of a character in the character set is its own.
LEMMA CodeIs ==
  ASSUME NEW c \in Known
  PROVE  Code(c) \in 1..Len(Ascii) /\ Ascii[Code(c)] = c
<1> DEFINE I == {i \in 1..Len(Ascii) : Ascii[i] = c}
<1>1. Len(Ascii) = 24 /\ Ascii[4] = "0"
  BY DEF Ascii
<1>2. c \in ToSet(Ascii)
  BY <1>1, VersionAssumption DEF Known, ToSet
<1>3. I # {} /\ I \subseteq Nat
  BY <1>1, <1>2 DEF ToSet
<1>4. Code(c) = Min(I)
  BY <1>3 DEF Code, SelectInSeq
<1> QED BY <1>3, <1>4, MinIs

\* compare_chars orders by a rank: "~", then the end, other characters, letters.
Rank(c) ==
  IF c = "~" THEN -1 ELSE IF c \in Alpha THEN Len(Ascii) + Code(c) ELSE Code(c)

\* Ranks: that of the end is 0, below it is only "~".
LEMMA RankType ==
  ASSUME NEW c \in Known
  PROVE  /\ Rank(c) \in Int
         /\ c = "~" => Rank(c) = -1
         /\ c # "~" => Rank(c) > 0
<1>1. Len(Ascii) = 24
  BY DEF Ascii
<1> QED BY <1>1, CodeIs DEF Rank

\* Different characters have different ranks.
LEMMA CharsByRank ==
  ASSUME NEW c \in Known, NEW d \in Known, c # d
  PROVE  /\ compare_chars(c, d) = Compared(Rank(c), Rank(d))
         /\ compare_chars(c, d) # 0
<1>1. Len(Ascii) = 24
  BY DEF Ascii
<1>2. /\ Code(c) \in 1..Len(Ascii) /\ Code(d) \in 1..Len(Ascii)
      /\ Code(c) # Code(d)
  BY CodeIs
<1>3. "~" \notin Alpha
  BY DEF Alpha
<1>4. CASE c = "~" \/ d = "~"
  BY <1>1, <1>2, <1>3, <1>4 DEF compare_chars, Compared, Rank
<1>5. CASE c # "~" /\ d # "~"
  <2>1. CASE (c \in Alpha /\ d \notin Alpha) \/ (c \notin Alpha /\ d \in Alpha)
    BY <1>1, <1>2, <1>5, <2>1 DEF compare_chars, Compared, Rank
  <2>2. CASE (c \in Alpha /\ d \in Alpha) \/ (c \notin Alpha /\ d \notin Alpha)
    <3>1. compare_chars(c, d) = Compared(Code(c), Code(d))
      BY <1>5, <2>2 DEF compare_chars
    <3> QED BY <1>1, <1>2, <1>5, <2>2, <3>1 DEF Compared, Rank
  <2> QED BY <2>1, <2>2
<1> QED BY <1>4, <1>5

\* The end of a part is compared by its rank, too.
LEMMA EndByRank ==
  ASSUME NEW c \in Known
  PROVE  compare_end(c) = Compared(0, Rank(c)) /\ compare_end(c) \in {-1, 1}
BY RankType DEF compare_end, Compared

-----------------------------------------------------------------------------
(* The rounds of compare_version_string                                    *)

\* Where a round begins is where the rounds before have led.
LEMMA PlaceSteps ==
  ASSUME NEW s \in Seq(Known)
  PROVE  /\ Place(s, 0) = 1
         /\ \A n \in Nat :
              /\ Place(s, n) \in 1..Len(s) + 1
              /\ Place(s, n + 1) = find_next_numeric(s, find_next_nonnumeric(s, Place(s, n)))
<1> DEFINE D == 1..Len(s) + 1
           Step(v, n) == find_next_numeric(s, find_next_nonnumeric(s, v))
           step == [p \in D \X (Nat \ {0}) |-> Step(p[1], p[2])]
           Is(g) == g = [n \in Nat |-> IF n = 0 THEN 1 ELSE Step(g[n - 1], n)]
           G == CHOOSE g : Is(g)
<1>1. 1 \in D /\ \A v \in D, n \in Nat \ {0} : Step(v, n) \in D
  <2>1. Len(s) \in Nat
    OBVIOUS
  <2>2. ASSUME NEW v \in D, NEW C PROVE After(s, v, C) \in D
    <3>1. After(s, v, C) \in v..Len(s) + 1
      BY <2>1, AfterIs
    <3> QED BY <2>1, <3>1
  <2> HIDE DEF D
  <2> QED BY <2>1, <2>2 DEF find_next_numeric, find_next_nonnumeric, D
<1>2. \A n \in Nat : Place(s, n) = G[n]
  BY DEF Place
<1> HIDE DEF Step, D
<1>3. step \in [D \X (Nat \ {0}) -> D]
  BY <1>1
<1>4. PICK f \in [Nat -> D] : Repeats(f, 1, step, Nat)
  <2> HIDE DEF step
  <2> QED BY <1>1, <1>3, Recursion
<1>5. ASSUME NEW n \in Nat \ {0} PROVE f[n] = Step(f[n - 1], n)
  <2>1. f[n - 1] \in D
    OBVIOUS
  <2>2. f[n] = step[<<f[n - 1], n>>]
    <3> HIDE DEF step
    <3> QED BY <1>4 DEF Repeats
  <2> QED BY <2>1, <2>2
<1>6. Is(f)
  BY <1>4, <1>5 DEF Repeats
<1>7. Is(G)
  <2> HIDE DEF Is
  <2> QED BY <1>6
<1> HIDE DEF G
<1>8. \A n \in Nat : G[n] \in D
  <2> DEFINE S == {m \in Nat : G[m] \in D}
  <2>1. 0 \in S
    BY <1>1, <1>7
  <2>2. ASSUME NEW n \in Nat, n \in S PROVE n + 1 \in S
    <3>1. G[n + 1] = Step(G[n], n + 1)
      BY <1>7
    <3> QED BY <1>1, <2>2, <3>1
  <2>3. \A n \in Nat : n \in S
    <3> HIDE DEF S
    <3> QED BY <2>1, <2>2, Induction
  <2> QED BY <2>3
<1>9. G[0] = 1 /\ \A n \in Nat : G[n + 1] = Step(G[n], n + 1)
  BY <1>7
<1>10. Place(s, 0) = 1
  BY <1>2, <1>9
<1>11. ASSUME NEW n \in Nat
       PROVE  /\ Place(s, n) \in D
              /\ Place(s, n + 1) = Step(Place(s, n), n + 1)
  <2>1. n + 1 \in Nat
    OBVIOUS
  <2>2. Place(s, n) = G[n] /\ Place(s, n + 1) = G[n + 1]
    BY <1>2, <2>1
  <2> QED BY <1>8, <1>9, <2>2, Zenon
<1> QED BY <1>10, <1>11 DEF D, Step

\* Each round goes on, to a digit or to the end, where it stays.
LEMMA PlaceMoves ==
  ASSUME NEW s \in Seq(Known), NEW n \in Nat
  PROVE  /\ Place(s, n) <= Len(s) => Place(s, n + 1) > Place(s, n)
         /\ Place(s, n + 1) <= Len(s) => s[Place(s, n + 1)] \in Digit
         /\ Place(s, n) > Len(s) => Place(s, n + 1) > Len(s)
<1> DEFINE i == Place(s, n)
           p == find_next_nonnumeric(s, i)
           q == find_next_numeric(s, p)
<1>1. Place(s, n + 1) = q /\ i \in 1..Len(s) + 1 /\ Len(s) \in Nat
  <2>1. \A m \in Nat : /\ Place(s, m) \in 1..Len(s) + 1
                       /\ Place(s, m + 1) = find_next_numeric(s, find_next_nonnumeric(s, Place(s, m)))
    BY PlaceSteps
  <2>2. Place(s, n + 1) = q
    BY <2>1, Zenon
  <2>3. i \in 1..Len(s) + 1
    BY <2>1, Zenon
  <2> HIDE DEF i, q
  <2> QED BY <2>2, <2>3
<1>2. \A k \in 1..Len(s) : s[k] \in Digit \/ s[k] \in Char \ Digit
  <2>1. "0" \in Digit
    <3>1. Digits(10)[1] = "0" /\ Len(Digits(10)) = 10
      BY DEF Digits
    <3> QED BY <3>1 DEF Digit, DigitsOf, ToSet
  <2>2. \A k \in 1..Len(s) : s[k] \in Known
    OBVIOUS
  <2> QED BY <2>1, <2>2 DEF Known
<1> HIDE DEF i
<1>3. p \in i..Len(s) + 1 /\ (p > Len(s) \/ s[p] \notin Digit)
  BY <1>1, AfterIs DEF find_next_nonnumeric
<1> HIDE DEF p
<1>4. q \in p..Len(s) + 1 /\ (q > Len(s) \/ s[q] \notin Char \ Digit)
  <2>1. p \in 1..Len(s) + 1
    BY <1>1, <1>3
  <2> QED BY <1>1, <2>1, AfterIs DEF find_next_numeric, NonDigit
<1> HIDE DEF q
<1>5. q <= Len(s) => s[q] \in Digit
  BY <1>1, <1>2, <1>3, <1>4
<1>6. i <= Len(s) => q > i
  <2>1. CASE s[i] \in Digit
    BY <1>1, <1>3, <1>4, <2>1
  <2>2. CASE s[i] \notin Digit
    <3>1. i <= Len(s) => s[i] \in Char \ Digit
      BY <1>1, <1>2, <2>2
    <3>2. i <= Len(s) => q # i
      BY <1>4, <3>1
    <3> QED BY <1>1, <1>3, <1>4, <3>2
  <2> QED BY <2>1, <2>2
<1>7. i > Len(s) => q > Len(s)
  BY <1>1, <1>3, <1>4
<1> QED BY <1>1, <1>5, <1>6, <1>7 DEF i

\* After as many rounds as there are characters the end is reached, ...
LEMMA PlaceEnds ==
  ASSUME NEW s \in Seq(Known)
  PROVE  Place(s, Len(s)) > Len(s)
<1> DEFINE S == {n \in Nat : Place(s, n) > n \/ Place(s, n) > Len(s)}
<1>1. 0 \in S
  BY PlaceSteps
<1>2. ASSUME NEW n \in Nat, n \in S PROVE n + 1 \in S
  <2>1. Place(s, n) \in Nat /\ Place(s, n + 1) \in Nat /\ Len(s) \in Nat
    <3>1. \A m \in Nat : Place(s, m) \in 1..Len(s) + 1
      BY PlaceSteps
    <3> QED BY <3>1, SMTT(30)
  <2>2. Place(s, n) <= Len(s) => Place(s, n + 1) > Place(s, n)
    BY PlaceMoves
  <2>3. Place(s, n) > Len(s) => Place(s, n + 1) > Len(s)
    BY PlaceMoves
  <2> QED BY <1>2, <2>1, <2>2, <2>3
<1>3. \A n \in Nat : n \in S
  <2> HIDE DEF S
  <2> QED BY <1>1, <1>2, Induction
<1> QED BY <1>3

\* ... and it is never left.
LEMMA PlaceStays ==
  ASSUME NEW s \in Seq(Known), NEW m \in Nat, Place(s, m) > Len(s)
  PROVE  \A n \in Nat : n >= m => Place(s, n) > Len(s)
<1> DEFINE S == {n \in Nat : n >= m => Place(s, n) > Len(s)}
<1>1. 0 \in S
  OBVIOUS
<1>2. ASSUME NEW n \in Nat, n \in S PROVE n + 1 \in S
  <2>1. Place(s, n) > Len(s) => Place(s, n + 1) > Len(s)
    BY PlaceMoves
  <2> QED BY <1>2, <2>1
<1>3. \A n \in Nat : n \in S
  <2> HIDE DEF S
  <2> QED BY <1>1, <1>2, Induction
<1> QED BY <1>3

-----------------------------------------------------------------------------
(* The first difference                                                    *)

\* d is what the first difference of f and g says, or 0 if there is none.
FirstDifference(d, f, g) ==
  \/ d = 0 /\ \A n \in Nat : f[n] = g[n]
  \/ \E n \in Nat : /\ d = Compared(f[n], g[n]) /\ d # 0
                    /\ \A m \in 0..n - 1 : f[m] = g[m]

\* The ranks of the part of s that begins at i: behind its end there are ends.
PartRanks(s, i) ==
  [n \in Nat |-> IF \E m \in 0..n : IsEnd(s, i + m) THEN 0 ELSE Rank(s[i + n])]

\* Up to the end of a part there are the ranks of its characters, then there are ends.
LEMMA PartRanksAre ==
  ASSUME NEW s \in Seq(Known), NEW i \in 1..Len(s) + 1, NEW n \in Nat
  PROVE  /\ PartRanks(s, i)[n] \in Int
         /\ (\E m \in 0..n : IsEnd(s, i + m)) => PartRanks(s, i)[n] = 0
         /\ (\A m \in 0..n : ~IsEnd(s, i + m)) =>
              s[i + n] \in Known /\ PartRanks(s, i)[n] = Rank(s[i + n])
<1>1. (\A m \in 0..n : ~IsEnd(s, i + m)) => s[i + n] \in Known
  <2>1. n \in 0..n
    OBVIOUS
  <2>2. ~IsEnd(s, i + n) => i + n \in 1..Len(s)
    BY DEF IsEnd
  <2> QED BY <2>1, <2>2
<1> DEFINE E == \E m \in 0..n : IsEnd(s, i + m)
<1>2. PartRanks(s, i)[n] = IF E THEN 0 ELSE Rank(s[i + n])
  BY DEF PartRanks
<1>3. (\A m \in 0..n : ~IsEnd(s, i + m)) <=> ~E
  OBVIOUS
<1> HIDE DEF E
<1>4. ~E => s[i + n] \in Known /\ Rank(s[i + n]) \in Int
  BY <1>1, <1>3, RankType
<1>5. PartRanks(s, i)[n] \in Int
  BY <1>2, <1>4
<1>6. E => PartRanks(s, i)[n] = 0
  BY <1>2
<1>7. ~E => s[i + n] \in Known /\ PartRanks(s, i)[n] = Rank(s[i + n])
  BY <1>2, <1>4
<1> QED BY <1>3, <1>5, <1>6, <1>7 DEF E

\* compare_substring compares two parts by their ranks.
LEMMA SubstringFirst ==
  ASSUME NEW s \in Seq(Known), NEW i \in 1..Len(s) + 1,
         NEW t \in Seq(Known), NEW j \in 1..Len(t) + 1
  PROVE  FirstDifference(compare_substring(s, i, t, j), PartRanks(s, i), PartRanks(t, j))
<1> DEFINE K == {n \in 0..Len(s) : IsEnd(s, i + n) \/ IsEnd(t, j + n) \/ s[i + n] # t[j + n]}
           k == Min(K)
           r == compare_substring(s, i, t, j)
           f == PartRanks(s, i)
           g == PartRanks(t, j)
<1>1. k \in K /\ \A n \in K : k <= n
  <2>1. Len(s) + 1 - i \in K
    <3>1. Len(s) + 1 - i \in 0..Len(s) /\ i + (Len(s) + 1 - i) = Len(s) + 1
      OBVIOUS
    <3>2. IsEnd(s, Len(s) + 1)
      BY DEF IsEnd
    <3> QED BY <3>1, <3>2
  <2>2. K \subseteq Nat
    OBVIOUS
  <2> HIDE DEF K
  <2> QED BY <2>1, <2>2, MinIs
<1>2. r = CASE IsEnd(s, i + k) /\ IsEnd(t, j + k) -> 0
            [] IsEnd(s, i + k) /\ ~IsEnd(t, j + k) -> compare_end(t[j + k])
            [] ~IsEnd(s, i + k) /\ IsEnd(t, j + k) -> -compare_end(s[i + k])
            [] OTHER -> compare_chars(s[i + k], t[j + k])
  BY DEF compare_substring
<1> HIDE DEF r, f, g, k
<1>3. k \in Nat
  BY <1>1
<1>4. ASSUME NEW n \in 0..k - 1 PROVE ~IsEnd(s, i + n) /\ ~IsEnd(t, j + n) /\ s[i + n] = t[j + n]
  <2>1. k \in 0..Len(s) /\ Len(s) \in Nat
    BY <1>1
  <2>2. n \in 0..Len(s) /\ ~(k <= n)
    BY <2>1
  <2>3. n \notin K
    <3> HIDE DEF K
    <3> QED BY <1>1, <2>2
  <2> QED BY <2>2, <2>3
<1> HIDE DEF K
<1>5. ASSUME NEW n \in Nat
      PROVE  /\ (\E m \in 0..n : IsEnd(s, i + m)) => f[n] = 0
             /\ (\E m \in 0..n : IsEnd(t, j + m)) => g[n] = 0
             /\ (\A m \in 0..n : ~IsEnd(s, i + m)) => s[i + n] \in Known /\ f[n] = Rank(s[i + n])
             /\ (\A m \in 0..n : ~IsEnd(t, j + m)) => t[j + n] \in Known /\ g[n] = Rank(t[j + n])
  BY PartRanksAre DEF f, g
<1>6. ASSUME NEW n \in 0..k - 1 PROVE f[n] = g[n]
  <2>1. ASSUME NEW m \in 0..n PROVE ~IsEnd(s, i + m) /\ ~IsEnd(t, j + m)
    <3>1. m \in 0..k - 1
      BY <1>3
    <3> QED BY <1>4, <3>1, Zenon
  <2>2. n \in Nat
    BY <1>3
  <2>3. f[n] = Rank(s[i + n]) /\ g[n] = Rank(t[j + n])
    BY <1>5, <2>1, <2>2, Zenon
  <2> QED BY <1>4, <2>3, Zenon
<1>7. k \in 0..k
  BY <1>3
<1>8. ASSUME ~IsEnd(s, i + k) PROVE s[i + k] \in Known /\ f[k] = Rank(s[i + k])
  <2>1. ASSUME NEW m \in 0..k PROVE ~IsEnd(s, i + m)
    <3>1. m = k \/ m \in 0..k - 1
      BY <1>3
    <3> QED BY <1>4, <1>8, <3>1, Zenon
  <2> QED BY <1>3, <1>5, <2>1
<1>9. ASSUME ~IsEnd(t, j + k) PROVE t[j + k] \in Known /\ g[k] = Rank(t[j + k])
  <2>1. ASSUME NEW m \in 0..k PROVE ~IsEnd(t, j + m)
    <3>1. m = k \/ m \in 0..k - 1
      BY <1>3
    <3> QED BY <1>4, <1>9, <3>1, Zenon
  <2> QED BY <1>3, <1>5, <2>1
<1>10. ASSUME NEW n \in Nat, n >= k
       PROVE  /\ IsEnd(s, i + k) => f[n] = 0
              /\ IsEnd(t, j + k) => g[n] = 0
  <2>1. k \in 0..n
    BY <1>3, <1>10
  <2> QED BY <1>5, <2>1
<1>11. CASE IsEnd(s, i + k) /\ IsEnd(t, j + k)
  <2>1. \A n \in Nat : f[n] = g[n]
    <3> TAKE n \in Nat
    <3>1. n \in 0..k - 1 \/ n >= k
      BY <1>3
    <3> QED BY <1>6, <1>10, <1>11, <3>1
  <2>2. r = 0
    BY <1>2, <1>11
  <2> QED BY <2>1, <2>2 DEF FirstDifference, r, f, g
<1>12. CASE IsEnd(s, i + k) /\ ~IsEnd(t, j + k)
  <2>1. r = compare_end(t[j + k])
    BY <1>2, <1>12
  <2>2. r = Compared(f[k], g[k]) /\ r # 0
    BY <1>3, <1>9, <1>10, <1>12, <2>1, EndByRank
  <2> QED BY <1>3, <1>6, <2>2 DEF FirstDifference, r, f, g
<1>13. CASE ~IsEnd(s, i + k) /\ IsEnd(t, j + k)
  <2>1. r = -compare_end(s[i + k])
    BY <1>2, <1>13
  <2>2. r = Compared(f[k], g[k]) /\ r # 0
    BY <1>3, <1>8, <1>10, <1>13, <2>1, EndByRank, RankType, SMTT(40) DEF Compared
  <2> QED BY <1>3, <1>6, <2>2 DEF FirstDifference, r, f, g
<1>14. CASE ~IsEnd(s, i + k) /\ ~IsEnd(t, j + k)
  <2>1. r = compare_chars(s[i + k], t[j + k])
    BY <1>2, <1>14
  <2>2. s[i + k] # t[j + k]
    BY <1>1, <1>14 DEF K
  <2>3. r = Compared(f[k], g[k]) /\ r # 0
    BY <1>8, <1>9, <1>14, <2>1, <2>2, CharsByRank
  <2> QED BY <1>3, <1>6, <2>3 DEF FirstDifference, r, f, g
<1> QED BY <1>11, <1>12, <1>13, <1>14

-----------------------------------------------------------------------------
(* Orders                                                                  *)

\* The comparisons by which the elements of D are in an order, equal ones allowed
Order(D) ==
  {c \in [D \X D -> Int] :
     /\ \A x, y \in D : c[<<x, y>>] = -c[<<y, x>>]
     /\ \A x, y, z \in D : c[<<x, y>>] <= 0 /\ c[<<y, z>>] <= 0 => c[<<x, z>>] <= 0}

\* Integers are.
LEMMA KeyOrder ==
  ASSUME NEW D, NEW f \in [D -> Int]
  PROVE  [p \in D \X D |-> Compared(f[p[1]], f[p[2]])] \in Order(D)
<1> DEFINE c == [p \in D \X D |-> Compared(f[p[1]], f[p[2]])]
<1>1. \A x, y \in D : c[<<x, y>>] = Compared(f[x], f[y]) /\ f[x] \in Int /\ f[y] \in Int
  OBVIOUS
<1>2. c \in [D \X D -> Int]
  BY DEF Compared
<1> HIDE DEF c
<1>3. ASSUME NEW x \in D, NEW y \in D PROVE c[<<x, y>>] = -c[<<y, x>>]
  <2>1. f[x] \in Int /\ f[y] \in Int
    OBVIOUS
  <2>2. c[<<x, y>>] = Compared(f[x], f[y]) /\ c[<<y, x>>] = Compared(f[y], f[x])
    BY <1>1
  <2> QED BY <2>1, <2>2 DEF Compared
<1>4. \A x, y, z \in D : c[<<x, y>>] <= 0 /\ c[<<y, z>>] <= 0 => c[<<x, z>>] <= 0
  BY <1>1 DEF Compared
<1> QED BY <1>2, <1>3, <1>4 DEF Order, c

\* So are elements that have something ordered.
ByPart(cmp, f, D) == [p \in D \X D |-> cmp[<<f[p[1]], f[p[2]]>>]]

\* An order of parts is one of the whole.
LEMMA PartOrder ==
  ASSUME NEW D, NEW E, NEW cmp \in Order(E), NEW f \in [D -> E]
  PROVE  ByPart(cmp, f, D) \in Order(D)
<1> DEFINE c == [p \in D \X D |-> cmp[<<f[p[1]], f[p[2]]>>]]
<1>1. \A x \in D : f[x] \in E
  OBVIOUS
<1>2. \A x, y \in D : c[<<x, y>>] = cmp[<<f[x], f[y]>>]
  OBVIOUS
<1>3. /\ \A x, y \in E : cmp[<<x, y>>] \in Int /\ cmp[<<x, y>>] = -cmp[<<y, x>>]
      /\ \A x, y, z \in E : cmp[<<x, y>>] <= 0 /\ cmp[<<y, z>>] <= 0 => cmp[<<x, z>>] <= 0
  BY DEF Order
<1>4. c \in [D \X D -> Int]
  BY <1>1, <1>3
<1> HIDE DEF c
<1>5. ASSUME NEW x \in D, NEW y \in D PROVE c[<<x, y>>] = -c[<<y, x>>]
  <2>1. cmp[<<f[x], f[y]>>] = -cmp[<<f[y], f[x]>>]
    BY <1>1, <1>3, Zenon
  <2> QED BY <1>2, <2>1, Zenon
<1>6. ASSUME NEW x \in D, NEW y \in D, NEW z \in D, c[<<x, y>>] <= 0, c[<<y, z>>] <= 0
      PROVE  c[<<x, z>>] <= 0
  <2>1. cmp[<<f[x], f[y]>>] <= 0 /\ cmp[<<f[y], f[z]>>] <= 0
    BY <1>2, <1>6, Zenon
  <2>2. cmp[<<f[x], f[z]>>] <= 0
    BY <1>1, <1>3, <2>1, Zenon
  <2> QED BY <1>2, <2>2, Zenon
<1> QED BY <1>4, <1>5, <1>6 DEF Order, ByPart, c

\* What is before one that is before another, is before that.
LEMMA OrderStrict ==
  ASSUME NEW D, NEW c \in Order(D), NEW x \in D, NEW y \in D, NEW z \in D,
         c[<<x, y>>] <= 0, c[<<y, z>>] <= 0, c[<<x, y>>] # 0 \/ c[<<y, z>>] # 0
  PROVE  c[<<x, z>>] < 0
<1>1. /\ c[<<x, y>>] = -c[<<y, x>>] /\ c[<<y, z>>] = -c[<<z, y>>] /\ c[<<x, z>>] = -c[<<z, x>>]
      /\ c[<<y, z>>] <= 0 /\ c[<<z, x>>] <= 0 => c[<<y, x>>] <= 0
      /\ c[<<z, x>>] <= 0 /\ c[<<x, y>>] <= 0 => c[<<z, y>>] <= 0
  BY DEF Order
<1>2. \A a, b \in D : c[<<a, b>>] \in Int
  BY DEF Order
<1>3. c[<<x, y>>] \in Int /\ c[<<y, x>>] \in Int /\ c[<<y, z>>] \in Int /\ c[<<z, y>>] \in Int
      /\ c[<<x, z>>] \in Int /\ c[<<z, x>>] \in Int
  BY <1>2, Zenon
<1> QED BY <1>1, <1>3

\* d is the first of the comparisons c[0], c[1] ... of two elements p that finds a
\* difference, or 0.
First(d, c, p) ==
  \/ d = 0 /\ \A n \in Nat : c[n][p] = 0
  \/ \E n \in Nat : /\ d = c[n][p] /\ d # 0
                    /\ \A m \in 0..n - 1 : c[m][p] = 0

\* To compare in one order after the other is an order.
LEMMA FirstIsOrder ==
  ASSUME NEW D, NEW c \in [Nat -> Order(D)], NEW r \in [D \X D -> Int],
         \A x, y \in D : First(r[<<x, y>>], c, <<x, y>>)
  PROVE  r \in Order(D)
<1>1. ASSUME NEW n \in Nat
      PROVE  /\ c[n] \in Order(D)
             /\ \A x, y \in D : c[n][<<x, y>>] \in Int /\ c[n][<<x, y>>] = -c[n][<<y, x>>]
             /\ \A x, y, z \in D : c[n][<<x, y>>] <= 0 /\ c[n][<<y, z>>] <= 0 => c[n][<<x, z>>] <= 0
  <2>1. c[n] \in Order(D)
    OBVIOUS
  <2> QED BY <2>1 DEF Order
<1>2. \A x, y \in D : r[<<x, y>>] \in Int
  OBVIOUS
<1>3. ASSUME NEW x \in D, NEW y \in D PROVE r[<<x, y>>] = -r[<<y, x>>]
  <2>1. \A n \in Nat : c[n][<<x, y>>] \in Int /\ c[n][<<y, x>>] \in Int /\ c[n][<<x, y>>] = -c[n][<<y, x>>]
    BY <1>1
  <2>2. \A n \in Nat : c[n][<<x, y>>] = 0 <=> c[n][<<y, x>>] = 0
    BY <2>1, SMTT(30)
  <2>3. First(r[<<x, y>>], c, <<x, y>>) /\ First(r[<<y, x>>], c, <<y, x>>)
    OBVIOUS
  <2>4. CASE r[<<x, y>>] = 0 /\ \A n \in Nat : c[n][<<x, y>>] = 0
    <3>1. r[<<y, x>>] = 0
      BY <2>2, <2>3, <2>4 DEF First
    <3>2. r[<<x, y>>] \in Int /\ r[<<y, x>>] \in Int
      BY <1>2
    <3>3. r[<<x, y>>] + r[<<y, x>>] = 0
      BY <2>4, <3>1
    <3>4. \A a, b \in Int : a + b = 0 => a = -b
      OBVIOUS
    <3> QED BY <3>2, <3>3, <3>4, Zenon
  <2>5. ASSUME NEW n \in Nat, r[<<x, y>>] = c[n][<<x, y>>], r[<<x, y>>] # 0,
               \A m \in 0..n - 1 : c[m][<<x, y>>] = 0
        PROVE  r[<<x, y>>] = -r[<<y, x>>]
    <3>1. PICK k \in Nat : /\ r[<<y, x>>] = c[k][<<y, x>>] /\ r[<<y, x>>] # 0
                           /\ \A m \in 0..k - 1 : c[m][<<y, x>>] = 0
      BY <2>2, <2>3, <2>5 DEF First
    <3>2. ~(k \in 0..n - 1) /\ ~(n \in 0..k - 1)
      BY <2>2, <2>5, <3>1
    <3>3. k = n
      BY <3>2
    <3>4. r[<<y, x>>] = c[n][<<y, x>>]
      BY <3>1, <3>3
    <3>5. c[n][<<x, y>>] \in Int /\ c[n][<<y, x>>] \in Int /\ c[n][<<x, y>>] = -c[n][<<y, x>>]
      BY <2>1
    <3> QED BY <2>5, <3>4, <3>5, Zenon
  <2>6. CASE \E n \in Nat : /\ r[<<x, y>>] = c[n][<<x, y>>] /\ r[<<x, y>>] # 0
                           /\ \A m \in 0..n - 1 : c[m][<<x, y>>] = 0
    BY <2>5, <2>6, Zenon
  <2> QED BY <2>3, <2>4, <2>6, Zenon DEF First
<1>4. ASSUME NEW x \in D, NEW y \in D, NEW z \in D, r[<<x, y>>] <= 0, r[<<y, z>>] <= 0
      PROVE  r[<<x, z>>] <= 0
  <2> SUFFICES ASSUME r[<<x, z>>] > 0 PROVE FALSE
    BY <1>2
  <2>1. PICK n \in Nat : /\ r[<<x, z>>] = c[n][<<x, z>>]
                         /\ \A m \in 0..n - 1 : c[m][<<x, z>>] = 0
    <3>1. First(r[<<x, z>>], c, <<x, z>>)
      OBVIOUS
    <3> QED BY <1>2, <3>1 DEF First
  <2>2. ASSUME NEW a \in D, NEW b \in D, r[<<a, b>>] <= 0, NEW m \in Nat, c[m][<<a, b>>] > 0
        PROVE  \E k \in 0..m - 1 : c[k][<<a, b>>] < 0 /\ \A l \in 0..k - 1 : c[l][<<a, b>>] = 0
    <3>1. First(r[<<a, b>>], c, <<a, b>>) /\ c[m][<<a, b>>] \in Int /\ r[<<a, b>>] \in Int
      BY <1>1, <1>2
    <3>2. PICK k \in Nat : /\ r[<<a, b>>] = c[k][<<a, b>>] /\ r[<<a, b>>] # 0
                           /\ \A l \in 0..k - 1 : c[l][<<a, b>>] = 0
      BY <2>2, <3>1 DEF First
    <3>3. c[k][<<a, b>>] < 0
      BY <2>2, <3>1, <3>2
    <3>4. ~(m \in 0..k - 1) /\ k # m
      BY <2>2, <3>1, <3>2, <3>3
    <3>5. k \in 0..m - 1
      BY <3>4
    <3> QED BY <3>2, <3>3, <3>5
  \* The first place where one of the two is a difference
  <2> DEFINE Differ == {m \in 0..n : c[m][<<x, y>>] # 0 \/ c[m][<<y, z>>] # 0}
  <2>3. Differ # {}
    <3> SUFFICES ASSUME \A m : m \notin Differ PROVE FALSE
      OBVIOUS
    <3>1. n \in 0..n
      OBVIOUS
    <3>2. c[n][<<x, y>>] = 0 /\ c[n][<<y, z>>] = 0
      BY <3>1
    <3>3. c[n][<<x, y>>] <= 0 /\ c[n][<<y, z>>] <= 0
      BY <3>2
    <3>4. c[n][<<x, z>>] <= 0 /\ c[n][<<x, z>>] \in Int
      BY <1>1, <3>3, Zenon
    <3> QED BY <2>1, <3>4
  <2>4. PICK k \in Differ : \A m \in Differ : k <= m
    <3>1. Differ \subseteq Nat
      OBVIOUS
    <3> HIDE DEF Differ
    <3> QED BY <2>3, <3>1, Least
  <2>5. \A m \in 0..k - 1 : c[m][<<x, y>>] = 0 /\ c[m][<<y, z>>] = 0
    <3> TAKE m \in 0..k - 1
    <3>1. m \in 0..n /\ ~(k <= m)
      BY <2>4
    <3>2. m \notin Differ
      <4> HIDE DEF Differ
      <4> QED BY <2>4, <3>1
    <3> QED BY <3>1, <3>2
  <2>6. k \in Nat /\ k <= n
    BY <2>4
  <2>7. c[k][<<x, y>>] <= 0 /\ c[k][<<y, z>>] <= 0
    <3>1. c[k][<<x, y>>] \in Int /\ c[k][<<y, z>>] \in Int
      BY <1>1, <2>6
    <3>2. ~(c[k][<<x, y>>] > 0)
      <4> SUFFICES ASSUME c[k][<<x, y>>] > 0 PROVE FALSE
        OBVIOUS
      <4>1. PICK j \in 0..k - 1 : c[j][<<x, y>>] < 0
        BY <1>4, <2>2, <2>6
      <4> QED BY <2>5, <4>1
    <3>3. ~(c[k][<<y, z>>] > 0)
      <4> SUFFICES ASSUME c[k][<<y, z>>] > 0 PROVE FALSE
        OBVIOUS
      <4>1. PICK j \in 0..k - 1 : c[j][<<y, z>>] < 0
        BY <1>4, <2>2, <2>6
      <4> QED BY <2>5, <4>1
    <3> QED BY <3>1, <3>2, <3>3
  <2>8. c[k][<<x, z>>] < 0
    <3>1. c[k][<<x, y>>] # 0 \/ c[k][<<y, z>>] # 0
      BY <2>4
    <3>2. c[k] \in Order(D)
      BY <1>1, <2>6
    <3> QED BY <2>7, <3>1, <3>2, OrderStrict
  <2>9. k \in 0..n - 1 \/ k = n
    BY <2>6
  <2>10. c[k][<<x, z>>] \in Int
    BY <1>1, <2>6
  <2> QED BY <1>2, <2>1, <2>8, <2>9, <2>10
<1> QED BY <1>3, <1>4 DEF Order

-----------------------------------------------------------------------------
(* The order of the parts of versions                                      *)

\* The strings that are compared
Text == Seq(Known) \ {<< >>}

Over(s, n) == Place(s, n) > Len(s)

\* What s has in round n: not to be over, the number, the ranks of the other part
RoundKey(s, n, m) ==
  IF Over(s, n) THEN 0
  ELSE IF m = 0 THEN 1
  ELSE IF m = 1 THEN scan(s, Place(s, n))
  ELSE PartRanks(s, find_next_nonnumeric(s, Place(s, n)))[m - 2]

\* What a round that neither has reached the end of compares
Inside(s, i, t, j) ==
  OrElse(Compared(scan(s, i), scan(t, j)),
         compare_substring(s, find_next_nonnumeric(s, i), t, find_next_nonnumeric(t, j)))

\* What round n says, if both are over or one of them
RoundSays(s, t, n) ==
  IF Over(s, n) THEN IF Over(t, n) THEN 0 ELSE -1
  ELSE IF Over(t, n) THEN 1
  ELSE Inside(s, Place(s, n), t, Place(t, n))

\* Where a round reads
LEMMA RoundPlaces ==
  ASSUME NEW s \in Seq(Known), NEW n \in Nat
  PROVE  /\ Place(s, n) \in 1..Len(s) + 1
         /\ find_next_nonnumeric(s, Place(s, n)) \in 1..Len(s) + 1
         /\ scan(s, Place(s, n)) \in Int
<1>1. Len(s) \in Nat
  OBVIOUS
<1>2. Place(s, n) \in 1..Len(s) + 1
  BY PlaceSteps, Zenon
<1>3. find_next_nonnumeric(s, Place(s, n)) \in 1..Len(s) + 1
  <2>1. find_next_nonnumeric(s, Place(s, n)) \in Place(s, n)..Len(s) + 1
    BY <1>1, <1>2, AfterIs DEF find_next_nonnumeric
  <2> QED BY <1>1, <1>2, <2>1
<1>4. scan(s, Place(s, n)) \in Int
  BY <1>1, <1>2, scanType
<1> QED BY <1>2, <1>3, <1>4

\* What a round reads are numbers.
LEMMA RoundKeyType ==
  ASSUME NEW s \in Seq(Known), NEW n \in Nat, NEW m \in Nat
  PROVE  RoundKey(s, n, m) \in Int
<1>1. find_next_nonnumeric(s, Place(s, n)) \in 1..Len(s) + 1 /\ scan(s, Place(s, n)) \in Int
  BY RoundPlaces
<1>2. m # 0 /\ m # 1 => m - 2 \in Nat
  OBVIOUS
<1>3. m # 0 /\ m # 1 => PartRanks(s, find_next_nonnumeric(s, Place(s, n)))[m - 2] \in Int
  BY <1>1, <1>2, PartRanksAre
<1> QED BY <1>1, <1>3 DEF RoundKey

\* A round compares key by key.
LEMMA RoundFirst ==
  ASSUME NEW s \in Seq(Known), NEW t \in Seq(Known), NEW n \in Nat
  PROVE  FirstDifference(RoundSays(s, t, n), [m \in Nat |-> RoundKey(s, n, m)],
                         [m \in Nat |-> RoundKey(t, n, m)])
<1> DEFINE f == [m \in Nat |-> RoundKey(s, n, m)]
           g == [m \in Nat |-> RoundKey(t, n, m)]
           d == RoundSays(s, t, n)
<1>1. \A m \in Nat : f[m] = RoundKey(s, n, m) /\ g[m] = RoundKey(t, n, m)
  OBVIOUS
<1> HIDE DEF f, g, d
<1>2. 0 \in Nat /\ 1 \in Nat /\ 0..0 - 1 = {} /\ 0..1 - 1 = {0}
  OBVIOUS
<1>3. CASE Over(s, n) /\ Over(t, n)
  <2>1. d = 0 /\ \A m \in Nat : f[m] = g[m]
    BY <1>1, <1>3 DEF d, RoundSays, RoundKey
  <2> QED BY <2>1 DEF FirstDifference, f, g, d
<1>4. CASE ~(Over(s, n) <=> Over(t, n))
  <2>1. d = Compared(f[0], g[0]) /\ d # 0
    BY <1>1, <1>2, <1>4 DEF d, RoundSays, RoundKey, Compared
  <2> QED BY <1>2, <2>1 DEF FirstDifference, f, g, d
<1>5. CASE ~Over(s, n) /\ ~Over(t, n)
  <2> DEFINE i == Place(s, n)
             j == Place(t, n)
             p == find_next_nonnumeric(s, i)
             q == find_next_nonnumeric(t, j)
             e == compare_substring(s, p, t, q)
  <2>1. d = IF Compared(scan(s, i), scan(t, j)) # 0 THEN Compared(scan(s, i), scan(t, j)) ELSE e
    BY <1>5 DEF d, RoundSays, Inside, OrElse
  <2>2. f[0] = 1 /\ g[0] = 1 /\ f[1] = scan(s, i) /\ g[1] = scan(t, j)
    BY <1>1, <1>2, <1>5 DEF RoundKey
  <2>3. ASSUME NEW m \in Nat PROVE f[m + 2] = PartRanks(s, p)[m] /\ g[m + 2] = PartRanks(t, q)[m]
    <3>1. m + 2 \in Nat /\ m + 2 # 0 /\ m + 2 # 1 /\ (m + 2) - 2 = m
      OBVIOUS
    <3> QED BY <1>1, <1>5, <3>1 DEF RoundKey
  <2>4. scan(s, i) \in Int /\ scan(t, j) \in Int
    BY RoundPlaces
  <2>5. FirstDifference(e, PartRanks(s, p), PartRanks(t, q))
    BY RoundPlaces, SubstringFirst
  <2> HIDE DEF i, j, p, q, e
  <2>6. CASE scan(s, i) # scan(t, j)
    <3>1. Compared(scan(s, i), scan(t, j)) # 0
      BY <2>4, <2>6 DEF Compared
    <3>2. d = Compared(f[1], g[1]) /\ d # 0
      BY <2>1, <2>2, <3>1
    <3> QED BY <1>2, <2>2, <3>2 DEF FirstDifference, f, g, d
  <2>7. CASE scan(s, i) = scan(t, j)
    <3>1. d = e
      BY <2>1, <2>4, <2>7 DEF Compared
    <3>2. CASE e = 0 /\ \A m \in Nat : PartRanks(s, p)[m] = PartRanks(t, q)[m]
      <4>1. ASSUME NEW m \in Nat PROVE f[m] = g[m]
        <5>1. CASE m = 0 \/ m = 1
          BY <2>2, <2>7, <5>1
        <5>2. CASE m # 0 /\ m # 1
          <6>1. m - 2 \in Nat /\ (m - 2) + 2 = m
            BY <5>2
          <6>2. f[(m - 2) + 2] = g[(m - 2) + 2]
            BY <2>3, <3>2, <6>1, Zenon
          <6> QED BY <6>1, <6>2
        <5> QED BY <5>1, <5>2
      <4> QED BY <3>1, <3>2, <4>1 DEF FirstDifference, f, g, d
    <3>3. ASSUME NEW k \in Nat, e = Compared(PartRanks(s, p)[k], PartRanks(t, q)[k]), e # 0,
                 \A m \in 0..k - 1 : PartRanks(s, p)[m] = PartRanks(t, q)[m]
          PROVE  FirstDifference(d, f, g)
      <4>1. k + 2 \in Nat /\ d = Compared(f[k + 2], g[k + 2]) /\ d # 0
        <5>1. k + 2 \in Nat
          OBVIOUS
        <5>2. f[k + 2] = PartRanks(s, p)[k] /\ g[k + 2] = PartRanks(t, q)[k]
          BY <2>3, Zenon
        <5> QED BY <3>1, <3>3, <5>1, <5>2, Zenon
      <4>2. ASSUME NEW m \in 0..(k + 2) - 1 PROVE f[m] = g[m]
        <5>1. CASE m = 0 \/ m = 1
          BY <2>2, <2>7, <5>1
        <5>2. CASE m # 0 /\ m # 1
          <6>1. m - 2 \in 0..k - 1 /\ m - 2 \in Nat /\ (m - 2) + 2 = m
            BY <5>2
          <6>2. f[(m - 2) + 2] = g[(m - 2) + 2]
            BY <2>3, <3>3, <6>1, Zenon
          <6> QED BY <6>1, <6>2
        <5> QED BY <5>1, <5>2
      <4> QED BY <4>1, <4>2 DEF FirstDifference
    <3>4. CASE \E k \in Nat : /\ e = Compared(PartRanks(s, p)[k], PartRanks(t, q)[k]) /\ e # 0
                              /\ \A m \in 0..k - 1 : PartRanks(s, p)[m] = PartRanks(t, q)[m]
      BY <3>3, <3>4, Zenon DEF f, g, d
    <3> QED BY <2>5, <3>2, <3>4, Zenon DEF FirstDifference
  <2> QED BY <2>6, <2>7
<1> QED BY <1>3, <1>4, <1>5

\* So a round is an order.
LEMMA RoundOrder ==
  ASSUME NEW n \in Nat
  PROVE  [p \in Text \X Text |-> RoundSays(p[1], p[2], n)] \in Order(Text)
<1> DEFINE f == [m \in Nat |-> [s \in Text |-> RoundKey(s, n, m)]]
           c == [m \in Nat |-> [p \in Text \X Text |-> Compared(f[m][p[1]], f[m][p[2]])]]
           r == [p \in Text \X Text |-> RoundSays(p[1], p[2], n)]
<1>1. ASSUME NEW m \in Nat PROVE f[m] \in [Text -> Int] /\ \A s \in Text : f[m][s] = RoundKey(s, n, m)
  <2>1. \A s \in Text : RoundKey(s, n, m) \in Int
    BY RoundKeyType DEF Text
  <2> QED BY <2>1
<1>2. \A s, t \in Text : r[<<s, t>>] = RoundSays(s, t, n)
  OBVIOUS
<1> HIDE DEF f
<1>3. c \in [Nat -> Order(Text)]
  <2>1. ASSUME NEW m \in Nat PROVE [p \in Text \X Text |-> Compared(f[m][p[1]], f[m][p[2]])] \in Order(Text)
    BY <1>1, KeyOrder
  <2> QED BY <2>1
<1>4. \A m \in Nat, s, t \in Text : c[m][<<s, t>>] = Compared(f[m][s], f[m][t])
  OBVIOUS
<1> HIDE DEF c
<1>5. ASSUME NEW s \in Text, NEW t \in Text
      PROVE  First(RoundSays(s, t, n), c, <<s, t>>) /\ RoundSays(s, t, n) \in Int
  <2> DEFINE F == [m \in Nat |-> RoundKey(s, n, m)]
             G == [m \in Nat |-> RoundKey(t, n, m)]
  <2>1. FirstDifference(RoundSays(s, t, n), F, G)
    BY RoundFirst DEF Text
  <2>2. ASSUME NEW m \in Nat
        PROVE  c[m][<<s, t>>] = Compared(F[m], G[m]) /\ F[m] \in Int /\ G[m] \in Int
    <3>1. F[m] = f[m][s] /\ G[m] = f[m][t]
      BY <1>1
    <3>2. f[m][s] \in Int /\ f[m][t] \in Int
      BY <1>1
    <3> HIDE DEF F, G
    <3> QED BY <1>4, <3>1, <3>2
  <2> HIDE DEF F, G
  <2>3. \A m \in Nat : (c[m][<<s, t>>] = 0 <=> F[m] = G[m]) /\ c[m][<<s, t>>] \in Int
    BY <2>2 DEF Compared
  <2>4. \A m, k \in Nat : k \in 0..m - 1 => k \in Nat
    OBVIOUS
  <2>5. CASE RoundSays(s, t, n) = 0 /\ \A m \in Nat : F[m] = G[m]
    BY <2>3, <2>5 DEF First
  <2>6. ASSUME NEW m \in Nat, RoundSays(s, t, n) = Compared(F[m], G[m]), RoundSays(s, t, n) # 0,
               \A k \in 0..m - 1 : F[k] = G[k]
        PROVE  First(RoundSays(s, t, n), c, <<s, t>>) /\ RoundSays(s, t, n) \in Int
    <3>1. RoundSays(s, t, n) = c[m][<<s, t>>]
      BY <2>2, <2>6
    <3>2. \A k \in 0..m - 1 : c[k][<<s, t>>] = 0
      BY <2>3, <2>6
    <3> QED BY <2>3, <2>6, <3>1, <3>2 DEF First
  <2> QED BY <2>1, <2>5, <2>6 DEF FirstDifference
<1>6. r \in [Text \X Text -> Int]
  <2>1. \A p \in Text \X Text : RoundSays(p[1], p[2], n) \in Int
    BY <1>5
  <2> QED BY <2>1
<1> HIDE DEF r
<1>7. \A s, t \in Text : First(r[<<s, t>>], c, <<s, t>>)
  BY <1>2, <1>5
<1>8. r \in Order(Text)
  BY <1>3, <1>6, <1>7, FirstIsOrder
<1> QED BY <1>8 DEF r

\* compare_version_string says what the first round says that does not find the two equal.
LEMMA StringFirst ==
  ASSUME NEW s \in Text, NEW t \in Text
  PROVE  /\ compare_version_string(s, t) \in Int
         /\ \/ compare_version_string(s, t) = 0 /\ \A n \in Nat : RoundSays(s, t, n) = 0
            \/ \E n \in Nat : /\ compare_version_string(s, t) = RoundSays(s, t, n)
                              /\ RoundSays(s, t, n) # 0
                              /\ \A m \in 0..n - 1 : RoundSays(s, t, m) = 0
<1> DEFINE Ends(n) == Place(s, n) > Len(s) \/ compare_round(s, Place(s, n), t, Place(t, n)) # 0
           K == {n \in 0..Len(s) : Ends(n)}
           last == Min(K)
           i == Place(s, last)
           j == Place(t, last)
           r == compare_version_string(s, t)
<1>1. r = CASE i > Len(s) /\ j > Len(t) -> 0
            [] i > Len(s) /\ j <= Len(t) -> compare_end(t[j])
            [] i <= Len(s) /\ j > Len(t) -> -compare_end(s[i])
            [] OTHER -> Inside(s, i, t, j)
  <2>1. r = compare_round(s, i, t, j)
    BY DEF compare_version_string
  <2> HIDE DEF r, i, j
  <2> QED BY <2>1 DEF compare_round, Inside
<1>2. s \in Seq(Known) /\ t \in Seq(Known) /\ Len(s) \in Nat \ {0} /\ Len(t) \in Nat \ {0}
  BY EmptySeq DEF Text
<1>3. last \in K /\ \A n \in K : last <= n
  <2>1. Len(s) \in K
    BY <1>2, PlaceEnds
  <2>2. K \subseteq Nat
    BY <1>2
  <2> HIDE DEF K
  <2> QED BY <2>1, <2>2, MinIs
<1>4. last \in Nat /\ Ends(last)
  BY <1>3
<1> HIDE DEF last, r, i, j
<1>5. i \in 1..Len(s) + 1 /\ j \in 1..Len(t) + 1
  BY <1>2, <1>4, RoundPlaces DEF i, j
<1>6. ASSUME NEW m \in 0..last - 1 PROVE RoundSays(s, t, m) = 0
  <2>1. m \in 0..Len(s) /\ ~(last <= m)
    BY <1>3
  <2>2. m \notin K
    <3> HIDE DEF K
    <3> QED BY <1>3, <2>1
  <2>3. ~Ends(m)
    BY <2>1, <2>2
  <2>4. Place(s, m) \in 1..Len(s) + 1 /\ Place(t, m) \in 1..Len(t) + 1
    BY <1>2, <2>1, RoundPlaces
  <2>5. Place(s, m) <= Len(s) /\ compare_round(s, Place(s, m), t, Place(t, m)) = 0
    BY <1>2, <2>3, <2>4
  <2>6. \A c : compare_end(c) \in {-1, 1}
    BY DEF compare_end
  <2>7. Place(t, m) <= Len(t)
    BY <1>2, <2>4, <2>5, <2>6 DEF compare_round
  <2>8. Inside(s, Place(s, m), t, Place(t, m)) = 0
    BY <1>2, <2>4, <2>5, <2>7 DEF compare_round, Inside
  <2> QED BY <1>2, <2>4, <2>5, <2>7, <2>8 DEF RoundSays, Over
<1> HIDE DEF K
\* At the place of a round that is not the first there is a digit, which is not "~".
<1>7. (i <= Len(s) => last = 0 \/ s[i] \in Digit) /\ (j <= Len(t) => last = 0 \/ t[j] \in Digit)
  <2>1. CASE last = 0
    BY <2>1
  <2>2. CASE last # 0
    <3>1. last - 1 \in Nat /\ (last - 1) + 1 = last
      BY <1>4, <2>2
    <3>2. /\ Place(s, (last - 1) + 1) <= Len(s) => s[Place(s, (last - 1) + 1)] \in Digit
          /\ Place(t, (last - 1) + 1) <= Len(t) => t[Place(t, (last - 1) + 1)] \in Digit
      BY <1>2, <3>1, PlaceMoves, Zenon
    <3>3. /\ Place(s, last) <= Len(s) => s[Place(s, last)] \in Digit
          /\ Place(t, last) <= Len(t) => t[Place(t, last)] \in Digit
      BY <3>1, <3>2
    <3> QED BY <3>3 DEF i, j
  <2> QED BY <2>1, <2>2
<1>8. last = 0 => i <= Len(s) /\ j <= Len(t)
  <2>1. Place(s, 0) = 1 /\ Place(t, 0) = 1
    BY <1>2, PlaceSteps
  <2> QED BY <1>2, <2>1 DEF i, j
<1>9. \A c \in Digit : compare_end(c) = -1
  BY DigitsAre DEF compare_end
<1>10. CASE i > Len(s) /\ j > Len(t)
  <2>1. r = 0
    BY <1>1, <1>2, <1>5, <1>10
  <2>2. ASSUME NEW n \in Nat PROVE RoundSays(s, t, n) = 0
    <3>1. CASE n \in 0..last - 1
      BY <1>6, <3>1
    <3>2. CASE n >= last
      <4>1. Over(s, n) /\ Over(t, n)
        BY <1>2, <1>4, <1>10, <3>2, PlaceStays DEF Over, i, j
      <4> QED BY <4>1 DEF RoundSays
    <3> QED BY <1>4, <3>1, <3>2
  <2> QED BY <2>1, <2>2 DEF r
<1>11. CASE ~(i > Len(s) /\ j > Len(t))
  <2>1. r = RoundSays(s, t, last) /\ r # 0 /\ r \in Int
    <3>1. CASE i > Len(s)
      <4>1. r = compare_end(t[j]) /\ t[j] \in Digit
        BY <1>1, <1>2, <1>5, <1>7, <1>8, <1>11, <3>1
      <4>2. RoundSays(s, t, last) = -1
        BY <1>11, <3>1 DEF RoundSays, Over, i, j
      <4> QED BY <1>9, <4>1, <4>2
    <3>2. CASE j > Len(t)
      <4>1. r = -compare_end(s[i]) /\ s[i] \in Digit
        BY <1>1, <1>2, <1>5, <1>7, <1>8, <1>11, <3>2
      <4>2. RoundSays(s, t, last) = 1
        BY <1>11, <3>2 DEF RoundSays, Over, i, j
      <4> QED BY <1>9, <4>1, <4>2
    <3>3. CASE i <= Len(s) /\ j <= Len(t)
      <4>1. r = Inside(s, i, t, j)
        BY <1>1, <1>2, <1>5, <3>3
      <4>2. RoundSays(s, t, last) = Inside(s, i, t, j)
        BY <1>2, <1>5, <3>3 DEF RoundSays, Over, i, j
      <4>3. Inside(s, i, t, j) # 0
        <5>1. compare_round(s, i, t, j) # 0
          BY <1>2, <1>4, <1>5, <3>3 DEF i, j
        <5> QED BY <1>2, <1>5, <3>3, <5>1 DEF compare_round, Inside
      <4>4. RoundSays(s, t, last) \in Int
        <5> DEFINE q == [p \in Text \X Text |-> RoundSays(p[1], p[2], last)]
        <5>1. q \in [Text \X Text -> Int]
          BY <1>4, RoundOrder DEF Order
        <5>2. q[<<s, t>>] = RoundSays(s, t, last)
          OBVIOUS
        <5> HIDE DEF q
        <5> QED BY <5>1, <5>2
      <4> QED BY <4>1, <4>2, <4>3, <4>4
    <3> QED BY <1>2, <1>5, <3>1, <3>2, <3>3
  <2> QED BY <1>4, <1>6, <2>1 DEF r
<1> QED BY <1>10, <1>11

\* So it is an order.
LEMMA StringOrder ==
  [p \in Text \X Text |-> compare_version_string(p[1], p[2])] \in Order(Text)
<1> DEFINE c == [n \in Nat |-> [p \in Text \X Text |-> RoundSays(p[1], p[2], n)]]
           r == [p \in Text \X Text |-> compare_version_string(p[1], p[2])]
<1>1. c \in [Nat -> Order(Text)]
  BY RoundOrder
<1>2. r \in [Text \X Text -> Int]
  BY StringFirst
<1>3. ASSUME NEW s \in Text, NEW t \in Text PROVE First(r[<<s, t>>], c, <<s, t>>)
  <2>1. r[<<s, t>>] = compare_version_string(s, t) /\ \A n \in Nat : c[n][<<s, t>>] = RoundSays(s, t, n)
    OBVIOUS
  <2> HIDE DEF r, c
  <2>2. \A m, k \in Nat : k \in 0..m - 1 => k \in Nat
    OBVIOUS
  <2>3. \/ r[<<s, t>>] = 0 /\ \A n \in Nat : c[n][<<s, t>>] = 0
        \/ \E n \in Nat : /\ r[<<s, t>>] = c[n][<<s, t>>]
                          /\ r[<<s, t>>] # 0
                          /\ \A m \in 0..n - 1 : c[m][<<s, t>>] = 0
    BY <2>1, <2>2, StringFirst
  <2> QED BY <2>3 DEF First
<1> HIDE DEF c, r
<1>4. r \in Order(Text)
  BY <1>1, <1>2, <1>3, FirstIsOrder
<1> QED BY <1>4 DEF r

-----------------------------------------------------------------------------
(* The order of versions                                                   *)

\* The parts of a version are made of its characters, or "0", and the revision
\* has no dash: none follows the last one.
LEMMA DecodeType ==
  ASSUME NEW v \in Seq(Char)
  PROVE  /\ Len(version_decode(v).epoch) \in Nat
         /\ version_decode(v).main \in Seq(Known)
         /\ version_decode(v).rev \in Seq(Known)
         /\ "-" \notin ToSet(version_decode(v).rev)
<1> DEFINE E == {i \in 1..Len(v) : v[i] = ":"}
           e == SelectInSeq(v, LAMBDA c : c = ":")
           w == SubSeq(v, e + 1, Len(v))
           R == {i \in 1..Len(w) : w[i] = "-"}
           r == last_dash(w)
           d == version_decode(v)
<1>1. /\ d.epoch = IF e = 0 THEN <<"0">> ELSE SubSeq(v, 1, e - 1)
      /\ d.main = IF r > 0 THEN SubSeq(w, 1, r - 1) ELSE IF w = << >> THEN <<"0">> ELSE w
      /\ d.rev = IF r > 0 THEN SubSeq(w, r + 1, Len(w)) ELSE <<"0">>
  BY DEF version_decode
<1>2. e \in 0..Len(v)
  <2>1. e = IF E # {} THEN Min(E) ELSE 0
    BY DEF SelectInSeq
  <2>2. E \subseteq Nat
    OBVIOUS
  <2>3. E # {} => Min(E) \in E
    <3> HIDE DEF E
    <3> QED BY <2>2, MinIs
  <2> QED BY <2>1, <2>3
<1> HIDE DEF e, d
<1>3. w \in Seq(Char)
  BY <1>2, SubSeqProperties
<1> HIDE DEF w
<1>4. r \in 0..Len(w) /\ \A i \in 1..Len(w) : w[i] = "-" => i <= r
  <2>1. r = IF R # {} THEN Max(R) ELSE 0
    BY DEF last_dash, SelectLastInSeq
  <2>2. R \subseteq 1..Len(w) /\ Len(w) \in Nat
    BY <1>3
  <2>3. R # {} => Max(R) \in R /\ \A i \in R : i <= Max(R)
    <3> HIDE DEF R
    <3> QED BY <2>2, MaxIs
  <2>4. r \in 0..Len(w)
    BY <2>1, <2>2, <2>3
  <2>5. \A i \in 1..Len(w) : w[i] = "-" => i \in R
    OBVIOUS
  <2> HIDE DEF R
  <2> QED BY <2>1, <2>3, <2>4, <2>5
<1> HIDE DEF r
<1>5. Char \subseteq Known /\ "0" \in Known
  BY DEF Known
<1>6. <<"0">> \in Seq(Known)
  BY <1>5
<1>7. w \in Seq(Known)
  BY <1>3, <1>5
<1>8. Len(d.epoch) \in Nat
  <2>1. e # 0 => SubSeq(v, 1, e - 1) \in Seq(Char)
    BY <1>2, SubSeqProperties
  <2> QED BY <1>1, <1>6, <2>1
<1>9. d.main \in Seq(Known)
  <2>1. r > 0 => SubSeq(w, 1, r - 1) \in Seq(Known)
    BY <1>4, <1>7, SubSeqProperties
  <2> QED BY <1>1, <1>6, <1>7, <2>1
<1>10. d.rev \in Seq(Known) /\ "-" \notin ToSet(d.rev)
  <2>1. CASE r > 0
    <3> DEFINE u == SubSeq(w, r + 1, Len(w))
    <3>1. \A i \in r + 1..Len(w) : w[i] \in Known /\ w[i] # "-"
      BY <1>4, <1>7
    <3>2. r \in Int /\ Len(w) \in Int
      BY <1>4, <1>7
    <3>3. /\ u \in Seq(Known) /\ Len(u) = (IF r + 1 <= Len(w) THEN Len(w) - (r + 1) + 1 ELSE 0)
          /\ \A i \in 1..Len(w) - (r + 1) + 1 : u[i] = w[(r + 1) + i - 1]
      BY <3>1, <3>2, SubSeqProperties
    <3>4. d.rev = u
      BY <1>1, <2>1
    <3> HIDE DEF u
    <3>5. \A i \in 1..Len(u) : u[i] # "-"
      <4> TAKE i \in 1..Len(u)
      <4>1. i \in 1..Len(w) - (r + 1) + 1 /\ (r + 1) + i - 1 \in r + 1..Len(w)
        BY <3>2, <3>3
      <4> QED BY <3>1, <3>3, <4>1
    <3> QED BY <3>3, <3>4, <3>5 DEF ToSet
  <2>2. CASE ~(r > 0)
    BY <1>1, <1>6, <2>2 DEF ToSet
  <2> QED BY <2>1, <2>2
<1> QED BY <1>8, <1>9, <1>10 DEF d

Versions == {v \in Seq(Char) : Complete(v)}

\* Versions are compared in an order.
LEMMA VersionOrder ==
  [p \in Versions \X Versions |-> dbpmgr_depend_compare_version(p[1], p[2])] \in Order(Versions)
<1> DEFINE Epoch(v) == atoi(version_decode(v).epoch)
           Main(v) == version_decode(v).main
           Rev(v) == version_decode(v).rev
           cmp == [p \in Text \X Text |-> compare_version_string(p[1], p[2])]
           f == [v \in Versions |-> Epoch(v)]
           epoch == [p \in Versions \X Versions |-> Compared(f[p[1]], f[p[2]])]
           main == [p \in Versions \X Versions |-> cmp[<<Main(p[1]), Main(p[2])>>]]
           rev == [p \in Versions \X Versions |-> cmp[<<Rev(p[1]), Rev(p[2])>>]]
           c == [n \in Nat |-> IF n = 0 THEN epoch ELSE IF n = 1 THEN main ELSE rev]
           r == [p \in Versions \X Versions |-> dbpmgr_depend_compare_version(p[1], p[2])]
<1>1. ASSUME NEW v \in Versions PROVE Epoch(v) \in Int /\ Main(v) \in Text /\ Rev(v) \in Text
  <2>1. v \in Seq(Char) /\ Complete(v)
    BY DEF Versions
  <2>2. Epoch(v) \in Int
    BY <2>1, DecodeType, atoiType
  <2>3. Main(v) \in Text /\ Rev(v) \in Text
    BY <2>1, DecodeType DEF Text, Complete
  <2> QED BY <2>2, <2>3
<1>2. \A v, w \in Versions : r[<<v, w>>] =
        IF Epoch(v) # Epoch(w) THEN Compared(Epoch(v), Epoch(w))
        ELSE IF compare_version_string(Main(v), Main(w)) # 0 THEN compare_version_string(Main(v), Main(w))
        ELSE compare_version_string(Rev(v), Rev(w))
  <2>1. ASSUME NEW m \in Int, NEW n \in Int PROVE Compared(m, n) # 0 <=> m # n
    BY DEF Compared
  <2> QED BY <1>1, <2>1 DEF dbpmgr_depend_compare_version, OrElse
<1> HIDE DEF Epoch, Main, Rev, r
<1>3. cmp \in Order(Text) /\ \A s, t \in Text : cmp[<<s, t>>] = compare_version_string(s, t)
  BY StringOrder
<1> HIDE DEF cmp
<1>4. f \in [Versions -> Int] /\ \A v \in Versions : f[v] = Epoch(v)
  BY <1>1
<1>5. epoch \in Order(Versions)
  <2> HIDE DEF f
  <2> QED BY <1>4, KeyOrder
<1>6. main \in Order(Versions)
  <2> DEFINE g == [v \in Versions |-> Main(v)]
  <2>1. g \in [Versions -> Text]
    BY <1>1
  <2>2. ByPart(cmp, g, Versions) \in Order(Versions)
    <3> HIDE DEF g
    <3> QED BY <1>3, <2>1, PartOrder
  <2> QED BY <2>2 DEF ByPart
<1>7. rev \in Order(Versions)
  <2> DEFINE g == [v \in Versions |-> Rev(v)]
  <2>1. g \in [Versions -> Text]
    BY <1>1
  <2>2. ByPart(cmp, g, Versions) \in Order(Versions)
    <3> HIDE DEF g
    <3> QED BY <1>3, <2>1, PartOrder
  <2> QED BY <2>2 DEF ByPart
<1>8. ASSUME NEW v \in Versions, NEW w \in Versions
      PROVE  /\ epoch[<<v, w>>] = Compared(Epoch(v), Epoch(w))
             /\ main[<<v, w>>] = compare_version_string(Main(v), Main(w))
             /\ rev[<<v, w>>] = compare_version_string(Rev(v), Rev(w))
             /\ epoch[<<v, w>>] \in Int /\ main[<<v, w>>] \in Int /\ rev[<<v, w>>] \in Int
  <2>1. epoch[<<v, w>>] = Compared(f[v], f[w])
    OBVIOUS
  <2>2. main[<<v, w>>] = cmp[<<Main(v), Main(w)>>] /\ rev[<<v, w>>] = cmp[<<Rev(v), Rev(w)>>]
    OBVIOUS
  <2> HIDE DEF epoch, main, rev, f
  <2>3. epoch[<<v, w>>] \in Int /\ main[<<v, w>>] \in Int /\ rev[<<v, w>>] \in Int
    BY <1>5, <1>6, <1>7 DEF Order
  <2> QED BY <1>1, <1>3, <1>4, <2>1, <2>2, <2>3
<1> HIDE DEF epoch, main, rev, f
<1>9. c \in [Nat -> Order(Versions)]
  BY <1>5, <1>6, <1>7
<1>10. c[0] = epoch /\ c[1] = main /\ c[2] = rev /\ \A n \in Nat : n \in {0, 1} \/ c[n] = rev
  OBVIOUS
<1> HIDE DEF c
<1>11. ASSUME NEW v \in Versions, NEW w \in Versions
       PROVE  r[<<v, w>>] \in Int /\ First(r[<<v, w>>], c, <<v, w>>)
  <2>1. 0 \in Nat /\ 1 \in Nat /\ 2 \in Nat /\ 0..0 - 1 = {} /\ 0..1 - 1 = {0} /\ 0..2 - 1 = {0, 1}
    OBVIOUS
  <2>2. epoch[<<v, w>>] = 0 <=> Epoch(v) = Epoch(w)
    BY <1>1, <1>8 DEF Compared
  <2>3. CASE epoch[<<v, w>>] # 0
    <3>1. r[<<v, w>>] = c[0][<<v, w>>] /\ c[0][<<v, w>>] # 0
      BY <1>2, <1>8, <1>10, <2>2, <2>3
    <3> QED BY <1>8, <1>10, <2>1, <3>1 DEF First
  <2>4. CASE epoch[<<v, w>>] = 0 /\ main[<<v, w>>] # 0
    <3>1. r[<<v, w>>] = c[1][<<v, w>>] /\ c[1][<<v, w>>] # 0 /\ c[0][<<v, w>>] = 0
      BY <1>2, <1>8, <1>10, <2>2, <2>4
    <3> QED BY <1>8, <1>10, <2>1, <3>1 DEF First
  <2>5. CASE epoch[<<v, w>>] = 0 /\ main[<<v, w>>] = 0
    <3>1. r[<<v, w>>] = rev[<<v, w>>]
      BY <1>2, <1>8, <2>2, <2>5
    <3>2. CASE rev[<<v, w>>] = 0
      <4>1. \A n \in Nat : c[n][<<v, w>>] = 0
        BY <1>10, <2>5, <3>2
      <4> QED BY <1>8, <3>1, <3>2, <4>1 DEF First
    <3>3. CASE rev[<<v, w>>] # 0
      <4>1. c[0][<<v, w>>] = 0 /\ c[1][<<v, w>>] = 0 /\ r[<<v, w>>] = c[2][<<v, w>>]
        BY <1>10, <2>5, <3>1
      <4> QED BY <1>8, <2>1, <3>1, <3>3, <4>1 DEF First
    <3> QED BY <3>2, <3>3
  <2> QED BY <2>3, <2>4, <2>5
<1>12. r \in [Versions \X Versions -> Int]
  <2>1. r = [p \in Versions \X Versions |-> r[p]]
    BY DEF r
  <2>2. \A p \in Versions \X Versions : r[p] \in Int
    <3> TAKE p \in Versions \X Versions
    <3>1. PICK v \in Versions, w \in Versions : p = <<v, w>>
      OBVIOUS
    <3> QED BY <1>11, <3>1
  <2> QED BY <2>1, <2>2
<1>13. r \in Order(Versions)
  BY <1>9, <1>11, <1>12, FirstIsOrder
<1> QED BY <1>13 DEF r

\* The same, for the operator
LEMMA VersionsAreOrdered ==
  ASSUME NEW u \in Versions, NEW v \in Versions, NEW w \in Versions
  PROVE  /\ dbpmgr_depend_compare_version(u, v) \in Int
         /\ dbpmgr_depend_compare_version(u, v) = -dbpmgr_depend_compare_version(v, u)
         /\ /\ dbpmgr_depend_compare_version(u, v) <= 0
            /\ dbpmgr_depend_compare_version(v, w) <= 0
            => dbpmgr_depend_compare_version(u, w) <= 0
<1> DEFINE r == [p \in Versions \X Versions |-> dbpmgr_depend_compare_version(p[1], p[2])]
<1>1. \A x, y \in Versions : r[<<x, y>>] = dbpmgr_depend_compare_version(x, y)
  OBVIOUS
<1>2. r \in Order(Versions)
  BY VersionOrder
<1> HIDE DEF r
<1>3. /\ r[<<u, v>>] \in Int
      /\ r[<<u, v>>] = -r[<<v, u>>]
      /\ r[<<u, v>>] <= 0 /\ r[<<v, w>>] <= 0 => r[<<u, w>>] <= 0
  BY <1>2 DEF Order
<1> QED BY <1>1, <1>3, Zenon

-----------------------------------------------------------------------------
(* What the machine writes                                                 *)

\* Versions are written with the characters.
Writes == version \in Seq(Seq(Char))

\* It does not write any others: the invariant by which the theorems hold.
LEMMA WritesInvariant ==
  Spec => []Writes
<1>1. Init => Writes
  <2>1. << >> \in Seq(Char)
    OBVIOUS
  <2> QED BY <2>1 DEF Init, Writes
<1>2. Writes /\ [Next]_version => Writes'
  <2> SUFFICES ASSUME Writes, [Next]_version PROVE Writes'
    OBVIOUS
  <2>1. CASE NextVersion
    <3>1. << >> \in Seq(Char)
      OBVIOUS
    <3> QED BY <2>1, <3>1 DEF NextVersion, Writes
  <2>2. ASSUME NEW c \in Char, Write(c) PROVE Writes'
    <3> DEFINE n == Len(version)
    <3>1. version' = [version EXCEPT ![n] = Append(version[n], c)]
      BY <2>2 DEF Write
    <3>2. n \in Nat
      BY DEF Writes
    <3>3. CASE n = 0
      <4>1. version = << >>
        BY <3>3, EmptySeq DEF Writes
      <4>2. version' = version
        BY <3>1, <3>3, <4>1
      <4> QED BY <4>2 DEF Writes
    <3>4. CASE n # 0
      <4>1. n \in 1..Len(version)
        BY <3>2, <3>4
      <4>2. version[n] \in Seq(Char)
        BY <4>1, ElementOfSeq DEF Writes
      <4>3. Append(version[n], c) \in Seq(Char)
        BY <4>2, AppendProperties
      <4> HIDE DEF n
      <4> QED BY <3>1, <4>1, <4>3, ExceptSeq DEF Writes
    <3> QED BY <3>3, <3>4
  <2>3. CASE UNCHANGED version
    BY <2>3 DEF Writes
  <2> QED BY <2>1, <2>2, <2>3 DEF Next
<1> QED BY <1>1, <1>2, PTL DEF Spec

\* What is written stays among the characters, the parts of every version have no
\* others, and a revision has no dash (TypeOK of Version), whatever the
\* characters and the lengths.
THEOREM TypeCorrect == Spec => []TypeOK
<1>1. Writes => TypeOK
  <2> SUFFICES ASSUME Writes PROVE TypeOK
    OBVIOUS
  <2>1. ASSUME NEW v \in ToSet(version)
        PROVE  /\ ToSet(version_decode(v).main) \subseteq Char \cup {"0"}
               /\ "-" \notin ToSet(version_decode(v).rev)
    <3>1. v \in Seq(Char)
      BY DEF Writes, ToSet
    <3>2. version_decode(v).main \in Seq(Known) /\ "-" \notin ToSet(version_decode(v).rev)
      BY <3>1, DecodeType
    <3>3. ToSet(version_decode(v).main) \subseteq Known
      BY <3>2 DEF ToSet
    <3> QED BY <3>2, <3>3 DEF Known
  <2> QED BY <2>1 DEF TypeOK, Writes
<1> QED BY <1>1, WritesInvariant, PTL

\* Versions of any length are in an order: what dbpmgr_depend_compare_version
\* says of two is what it says of them exchanged, turned round, and it is
\* transitive, also where numbers are cut off or wrap.
THEOREM Ordered == Spec => []IsOrder
<1>1. Writes => IsOrder
  <2> SUFFICES ASSUME Writes PROVE IsOrder
    OBVIOUS
  <2> DEFINE Cmp(i, j) == dbpmgr_depend_compare_version(version[i], version[j])
  <2>1. ASSUME NEW n \in Nat, Written(n) PROVE \A i \in 1..n : version[i] \in Versions
    BY <2>1 DEF Written, Writes, Versions
  <2>2. ASSUME Written(2) PROVE Cmp(1, 2) = -Cmp(2, 1)
    <3>1. version[1] \in Versions /\ version[2] \in Versions
      BY <2>1, <2>2
    <3> QED BY <3>1, VersionsAreOrdered, Zenon
  <2>3. ASSUME Written(3), Cmp(1, 2) <= 0, Cmp(2, 3) <= 0 PROVE Cmp(1, 3) <= 0
    <3>1. version[1] \in Versions /\ version[2] \in Versions /\ version[3] \in Versions
      BY <2>1, <2>3
    <3> QED BY <2>3, <3>1, VersionsAreOrdered, ZenonT(40)
  <2> QED BY <2>2, <2>3 DEF IsOrder
<1> QED BY <1>1, WritesInvariant, PTL

-----------------------------------------------------------------------------
(* Dependencies                                                            *)

Operators == ToSet(comparisons)

\* The five operators
LEMMA OperatorsAre ==
  /\ Operators = {<<"<">>, <<"=">>, <<">">>, <<"<", "=">>, <<">", "=">>}
  /\ \A op \in Operators : op \in Seq(Comparison) /\ Len(op) \in 1..2
<1>1. Len(comparisons) = 5
  BY DEF comparisons
<1>2. /\ comparisons[1] = <<"<", "=">> /\ comparisons[2] = <<">", "=">> /\ comparisons[3] = <<"<">>
      /\ comparisons[4] = <<"=">> /\ comparisons[5] = <<">">>
  BY DEF comparisons
<1>3. DOMAIN comparisons = {1, 2, 3, 4, 5}
  BY DEF comparisons
<1>4. Operators = {<<"<">>, <<"=">>, <<">">>, <<"<", "=">>, <<">", "=">>}
  BY <1>2, <1>3 DEF Operators, ToSet
<1> QED BY <1>4 DEF Comparison

\* No character of a version is one of a comparison.
LEMMA CharNoComparison ==
  Char \cap Comparison = {}
<1>1. Len(Ascii) = 24 /\ \A i \in 1..24 : Ascii[i] \notin Comparison
  BY DEF Ascii, Comparison
<1> QED BY <1>1, VersionAssumption DEF ToSet

\* What it is to begin with another string
LEMMA PrefixIs ==
  ASSUME NEW S, NEW c \in Seq(S), NEW t \in Seq(S)
  PROVE  IsPrefix(c, t) <=> Len(c) <= Len(t) /\ \A k \in 1..Len(c) : t[k] = c[k]
<1> DEFINE n == Len(c)
           x == SubSeq(c, 1, n)
           y == SubSeq(t, 1, n)
<1>1. n \in Nat /\ Len(t) \in Nat
  OBVIOUS
<1>2. IsPrefix(c, t) <=> n <= Len(t) /\ x = y
  BY DEF IsPrefix
<1>3. x \in Seq(S) /\ Len(x) = n /\ \A k \in 1..n : x[k] = c[k]
  BY <1>1, SubSeqProperties
<1>4. n <= Len(t) => y \in Seq(S) /\ Len(y) = n /\ \A k \in 1..n : y[k] = t[k]
  BY <1>1, SubSeqProperties
<1> HIDE DEF n, x, y
<1>5. ASSUME n <= Len(t), \A k \in 1..n : t[k] = c[k] PROVE x = y
  <2>1. x \in Seq(S) /\ y \in Seq(S) /\ Len(x) = Len(y) /\ \A k \in 1..Len(x) : x[k] = y[k]
    BY <1>3, <1>4, <1>5
  <2> QED BY <2>1, SeqEqual
<1>6. ASSUME n <= Len(t), x = y PROVE \A k \in 1..n : t[k] = c[k]
  BY <1>3, <1>4, <1>6
<1>7. IsPrefix(c, t) <=> n <= Len(t) /\ \A k \in 1..n : t[k] = c[k]
  BY <1>2, <1>5, <1>6, Zenon
<1> QED BY <1>7 DEF n

\* ... with an operator
LEMMA PrefixesAre ==
  ASSUME NEW S, NEW t \in Seq(S), NEW a \in S, NEW b \in S
  PROVE  /\ IsPrefix(<<a>>, t) <=> Len(t) >= 1 /\ t[1] = a
         /\ IsPrefix(<<a, b>>, t) <=> Len(t) >= 2 /\ t[1] = a /\ t[2] = b
<1>1. /\ <<a>> \in Seq(S) /\ Len(<<a>>) = 1 /\ <<a>>[1] = a
      /\ <<a, b>> \in Seq(S) /\ Len(<<a, b>>) = 2 /\ <<a, b>>[1] = a /\ <<a, b>>[2] = b
  OBVIOUS
<1>2. Len(t) \in Nat
  OBVIOUS
<1>3. IsPrefix(<<a>>, t) <=> Len(<<a>>) <= Len(t) /\ \A k \in 1..Len(<<a>>) : t[k] = <<a>>[k]
  BY <1>1, PrefixIs
<1>4. IsPrefix(<<a, b>>, t) <=> Len(<<a, b>>) <= Len(t) /\ \A k \in 1..Len(<<a, b>>) : t[k] = <<a, b>>[k]
  BY <1>1, PrefixIs
<1>5. 1..1 = {1} /\ 1..2 = {1, 2}
  OBVIOUS
<1>6. IsPrefix(<<a>>, t) <=> Len(t) >= 1 /\ t[1] = a
  BY <1>1, <1>2, <1>3, <1>5
<1>7. IsPrefix(<<a, b>>, t) <=> Len(t) >= 2 /\ t[1] = a /\ t[2] = b
  BY <1>1, <1>2, <1>4, <1>5
<1> QED BY <1>6, <1>7, Zenon

\* What dependencies are written with
Sign == Char \cup Comparison \cup {"p", "k", "g"}

OperatorAt(s, i) ==
  comparisons[SelectInSeq(comparisons, LAMBDA c : IsPrefix(c, SubSeq(s, i, Len(s))))]

\* From i on, s is the comparison op and the version v.
Bound(s, i, op, v) ==
  /\ i \in Nat \ {0} /\ i + Len(op) + Len(v) <= Len(s) + 1
  /\ \A k \in 1..Len(op) : s[i + k - 1] = op[k]
  /\ \A k \in 1..Len(v) : s[i + Len(op) + k - 1] = v[k]

\* The operator found there is op: a longer one is not shadowed by its prefix.
LEMMA BoundOperator ==
  ASSUME NEW s \in Seq(Sign), NEW op \in Operators, NEW v \in Seq(Char), v # << >>, NEW i,
         Bound(s, i, op, v)
  PROVE  OperatorAt(s, i) = op
<1> DEFINE t == SubSeq(s, i, Len(s))
           I == {n \in 1..Len(comparisons) : IsPrefix(comparisons[n], t)}
           x == SelectInSeq(comparisons, LAMBDA c : IsPrefix(c, t))
<1>1. Len(v) \in Nat \ {0} /\ Len(op) \in 1..2 /\ Len(s) \in Nat /\ i \in Nat \ {0}
      /\ i + Len(op) + Len(v) <= Len(s) + 1
  BY EmptySeq, OperatorsAre DEF Bound
<1>2. /\ t \in Seq(Sign) /\ Len(t) = Len(s) - i + 1
      /\ \A n \in 1..Len(s) - i + 1 : t[n] = s[i + n - 1]
  <2>1. \A n \in i..Len(s) : s[n] \in Sign
    BY <1>1
  <2> QED BY <1>1, <2>1, SubSeqProperties
<1>3. I # {} => x = Min(I)
  BY DEF SelectInSeq
<1>4. OperatorAt(s, i) = comparisons[x]
  BY DEF OperatorAt
<1> HIDE DEF t, x
<1>5. Comparison \subseteq Sign /\ {"<", "=", ">"} \subseteq Comparison
  BY DEF Sign, Comparison
<1>6. /\ \A a \in {"<", "=", ">"} : IsPrefix(<<a>>, t) <=> Len(t) >= 1 /\ t[1] = a
      /\ \A a, b \in {"<", "=", ">"} : IsPrefix(<<a, b>>, t) <=> Len(t) >= 2 /\ t[1] = a /\ t[2] = b
  BY <1>2, <1>5, PrefixesAre
<1>7. /\ Len(comparisons) = 5
      /\ comparisons[1] = <<"<", "=">> /\ comparisons[2] = <<">", "=">> /\ comparisons[3] = <<"<">>
      /\ comparisons[4] = <<"=">> /\ comparisons[5] = <<">">>
  BY DEF comparisons
<1>8. /\ 1 \in I <=> Len(t) >= 2 /\ t[1] = "<" /\ t[2] = "="
      /\ 2 \in I <=> Len(t) >= 2 /\ t[1] = ">" /\ t[2] = "="
      /\ 3 \in I <=> Len(t) >= 1 /\ t[1] = "<"
      /\ 4 \in I <=> Len(t) >= 1 /\ t[1] = "="
      /\ 5 \in I <=> Len(t) >= 1 /\ t[1] = ">"
  <2>1. /\ IsPrefix(<<"<", "=">>, t) <=> Len(t) >= 2 /\ t[1] = "<" /\ t[2] = "="
        /\ IsPrefix(<<">", "=">>, t) <=> Len(t) >= 2 /\ t[1] = ">" /\ t[2] = "="
        /\ IsPrefix(<<"<">>, t) <=> Len(t) >= 1 /\ t[1] = "<"
        /\ IsPrefix(<<"=">>, t) <=> Len(t) >= 1 /\ t[1] = "="
        /\ IsPrefix(<<">">>, t) <=> Len(t) >= 1 /\ t[1] = ">"
    BY <1>6, Zenon
  <2>2. 1..5 = {1, 2, 3, 4, 5}
    OBVIOUS
  <2>3. \A n \in {1, 2, 3, 4, 5} : n \in I <=> IsPrefix(comparisons[n], t)
    BY <1>7, <2>2
  <2> HIDE DEF I
  <2> QED BY <1>7, <2>1, <2>3
<1>9. \A n \in I : n \in 1..5
  BY <1>7
<1> HIDE DEF I
<1>10. I # {} => x \in I /\ \A n \in I : x <= n
  <2>1. I \subseteq Nat
    BY <1>9
  <2> QED BY <1>3, <2>1, MinIs
\* Behind op there is a character of v.
<1>11. /\ Len(t) >= Len(op) + 1
       /\ \A k \in 1..Len(op) : t[k] = op[k]
       /\ t[Len(op) + 1] \notin Comparison
  <2>1. \A k \in 1..Len(op) + 1 : k \in 1..Len(s) - i + 1
    BY <1>1
  <2>2. \A k \in 1..Len(op) : t[k] = op[k]
    BY <1>1, <1>2, <2>1 DEF Bound
  <2>3. t[Len(op) + 1] = v[1]
    <3>1. t[Len(op) + 1] = s[i + (Len(op) + 1) - 1]
      BY <1>1, <1>2, <2>1
    <3>2. s[i + Len(op) + 1 - 1] = v[1]
      BY <1>1 DEF Bound
    <3> QED BY <1>1, <3>1, <3>2
  <2>4. v[1] \in Char
    BY <1>1
  <2> QED BY <1>1, <1>2, <2>2, <2>3, <2>4, CharNoComparison
<1>12. op \in {<<"<">>, <<"=">>, <<">">>, <<"<", "=">>, <<">", "=">>}
  BY OperatorsAre
<1>13. CASE op = <<"<", "=">>
  <2>1. Len(op) = 2 /\ op[1] = "<" /\ op[2] = "="
    BY <1>13
  <2>2. t[1] = "<" /\ t[2] = "=" /\ Len(t) >= 3
    BY <1>11, <2>1
  <2>3. 1 \in I
    BY <1>8, <2>2
  <2>4. x = 1
    BY <1>9, <1>10, <2>3
  <2> QED BY <1>4, <1>7, <1>13, <2>4
<1>14. CASE op = <<">", "=">>
  <2>1. Len(op) = 2 /\ op[1] = ">" /\ op[2] = "="
    BY <1>14
  <2>2. t[1] = ">" /\ t[2] = "=" /\ Len(t) >= 3
    BY <1>11, <2>1
  <2>3. 2 \in I /\ 1 \notin I
    BY <1>8, <2>2
  <2>4. x = 2
    BY <1>9, <1>10, <2>3
  <2> QED BY <1>4, <1>7, <1>14, <2>4
<1>15. CASE op = <<"<">>
  <2>1. Len(op) = 1 /\ op[1] = "<"
    BY <1>15
  <2>2. t[1] = "<" /\ t[2] # "=" /\ Len(t) >= 2
    BY <1>5, <1>11, <2>1
  <2>3. 3 \in I /\ 1 \notin I /\ 2 \notin I
    BY <1>8, <2>2
  <2>4. x = 3
    BY <1>9, <1>10, <2>3
  <2> QED BY <1>4, <1>7, <1>15, <2>4
<1>16. CASE op = <<"=">>
  <2>1. Len(op) = 1 /\ op[1] = "="
    BY <1>16
  <2>2. t[1] = "=" /\ Len(t) >= 2
    BY <1>11, <2>1
  <2>3. 4 \in I /\ 1 \notin I /\ 2 \notin I /\ 3 \notin I
    BY <1>8, <2>2
  <2>4. x = 4
    BY <1>9, <1>10, <2>3
  <2> QED BY <1>4, <1>7, <1>16, <2>4
<1>17. CASE op = <<">">>
  <2>1. Len(op) = 1 /\ op[1] = ">"
    BY <1>17
  <2>2. t[1] = ">" /\ t[2] # "=" /\ Len(t) >= 2
    BY <1>5, <1>11, <2>1
  <2>3. 5 \in I /\ 1 \notin I /\ 2 \notin I /\ 3 \notin I /\ 4 \notin I
    BY <1>8, <2>2
  <2>4. x = 5
    BY <1>9, <1>10, <2>3
  <2> QED BY <1>4, <1>7, <1>17, <2>4
<1> QED BY <1>12, <1>13, <1>14, <1>15, <1>16, <1>17

\* No other comparison begins before the end of v, which is what stands behind op.
Separate(s, i, op, v) ==
  /\ i = 1 \/ s[i - 1] \notin Comparison => i \in Params(s)
  /\ \A j \in i + 1..i + Len(op) + Len(v) - 1 : j \notin Params(s)
  /\ s[i + Len(op) + Len(v) - 1] \notin Comparison
  /\ SubSeq(s, i + Len(op), i + Len(op) + Len(v) - 1) = v

\* That is so where s has op and v.
LEMMA BoundVersion ==
  ASSUME NEW s \in Seq(Sign), NEW op \in Operators, NEW v \in Seq(Char), v # << >>, NEW i,
         Bound(s, i, op, v)
  PROVE  Separate(s, i, op, v)
<1> DEFINE l == Len(op)
           m == Len(v)
<1>1. m \in Nat \ {0} /\ l \in 1..2 /\ Len(s) \in Nat /\ i \in Nat \ {0}
      /\ i + l + m <= Len(s) + 1
  BY EmptySeq, OperatorsAre DEF Bound
<1>2. \A k \in 1..l : s[i + k - 1] = op[k] /\ op[k] \in Comparison
  <2> TAKE k \in 1..l
  <2>1. op \in Seq(Comparison)
    BY OperatorsAre
  <2>2. op[k] \in Comparison
    BY <2>1, ElementOfSeq
  <2> QED BY <2>2 DEF Bound
<1>3. \A k \in 1..m : s[i + l + k - 1] = v[k] /\ v[k] \notin Comparison
  BY CharNoComparison DEF Bound
<1> HIDE DEF l, m
<1>4. s[i] \in Comparison
  <2>1. 1 \in 1..l /\ i + 1 - 1 = i
    BY <1>1
  <2> QED BY <1>2, <2>1
<1>5. \A n \in i + l..i + l + m - 1 : s[n] \notin Comparison
  <2> TAKE n \in i + l..i + l + m - 1
  <2>1. n - (i + l) + 1 \in 1..m /\ i + l + (n - (i + l) + 1) - 1 = n
    BY <1>1
  <2> QED BY <1>3, <2>1
<1>6. i = 1 \/ s[i - 1] \notin Comparison => i \in Params(s)
  BY <1>1, <1>4 DEF Params
<1>7. ASSUME NEW j \in i + 1..i + l + m - 1 PROVE j \notin Params(s)
  <2>1. CASE j = i + 1
    <3>1. j # 1 /\ s[j - 1] \in Comparison
      BY <1>1, <1>4, <2>1
    <3> QED BY <3>1 DEF Params
  <2>2. CASE j # i + 1
    <3>1. j \in i + l..i + l + m - 1
      BY <1>1, <2>2
    <3> QED BY <1>5, <3>1 DEF Params
  <2> QED BY <2>1, <2>2
<1>8. s[i + l + m - 1] \notin Comparison
  <2>1. i + l + m - 1 \in i + l..i + l + m - 1
    BY <1>1
  <2> QED BY <1>5, <2>1
<1>9. SubSeq(s, i + l, i + l + m - 1) = v
  <2> DEFINE x == i + l
             y == i + l + m - 1
             u == SubSeq(s, x, y)
  <2>1. x \in Int /\ y \in Int /\ y - x + 1 = m /\ x <= y /\ \A k \in x..y : k \in 1..Len(s)
    BY <1>1
  <2>2. \A k \in x..y : s[k] \in Sign
    BY <2>1
  <2>3. \A k \in 1..m : s[x + k - 1] = v[k]
    BY <1>3
  <2> HIDE DEF x, y
  <2>4. u \in Seq(Sign) /\ Len(u) = y - x + 1 /\ \A k \in 1..y - x + 1 : u[k] = s[x + k - 1]
    BY <2>1, <2>2, SubSeqProperties
  <2>5. v \in Seq(Sign)
    BY DEF Sign
  <2>6. Len(u) = Len(v)
    BY <2>1, <2>4 DEF m
  <2>7. \A k \in 1..Len(u) : u[k] = v[k]
    BY <2>1, <2>3, <2>4
  <2> HIDE DEF u
  <2>8. u = v
    BY <2>4, <2>5, <2>6, <2>7, SeqEqual
  <2> QED BY <2>8 DEF u, x, y
<1> QED BY <1>6, <1>7, <1>8, <1>9 DEF Separate, l, m

\* The least of one number
LEMMA MinOne ==
  ASSUME NEW n \in Nat
  PROVE  Min({n}) = n
<1>1. {n} \subseteq Nat /\ {n} # {}
  OBVIOUS
<1>2. Min({n}) \in {n}
  BY <1>1, MinIs, Zenon
<1> QED BY <1>2

UntilAt(s, i) == Min({j \in Params(s) : j > i} \cup {Len(s) + 1}) - 1
KeptAt(s) == {i \in Params(s) : \A j \in Params(s) : j < i => OperatorAt(s, j) # OperatorAt(s, i)}

\* dbpmgr_depend_parse, by the names used here
LEMMA ParseIs ==
  ASSUME NEW s
  PROVE  dbpmgr_depend_parse(s).version =
           {<<OperatorAt(s, i), SubSeq(s, i + Len(OperatorAt(s, i)), UntilAt(s, i))>> : i \in KeptAt(s)}
BY DEF dbpmgr_depend_parse, OperatorAt, UntilAt, KeptAt

\* c is a and then b, character by character.
Joined(c, S, a, b) ==
  /\ c \in Seq(S) /\ Len(c) = Len(a) + Len(b)
  /\ \A k \in 1..Len(a) : c[k] = a[k]
  /\ \A k \in 1..Len(b) : c[Len(a) + k] = b[k]

\* What is concatenated is that.
LEMMA Concatenated ==
  ASSUME NEW S, NEW a \in Seq(S), NEW b \in Seq(S)
  PROVE  Joined(a \o b, S, a, b)
<1>1. Len(a) \in Nat /\ Len(b) \in Nat
  OBVIOUS
<1> DEFINE c == a \o b
           l == Len(a)
           m == Len(b)
<1>2. c \in Seq(S) /\ Len(c) = l + m
      /\ \A k \in 1..l + m : c[k] = IF k <= l THEN a[k] ELSE b[k - l]
  BY ConcatProperties
<1> HIDE DEF c, l, m
<1>3. l \in Nat /\ m \in Nat
  BY <1>1 DEF l, m
<1>4. \A k \in 1..l : c[k] = a[k]
  BY <1>2, <1>3
<1>5. \A k \in 1..m : c[l + k] = b[k]
  <2> TAKE k \in 1..m
  <2>1. l + k \in 1..l + m /\ ~(l + k <= l) /\ (l + k) - l = k
    BY <1>3
  <2> QED BY <1>2, <2>1
<1>6. Joined(c, S, a, b)
  BY <1>2, <1>4, <1>5 DEF Joined, l, m
<1> QED BY <1>6 DEF c

\* The name is no part of a comparison.
LEMMA NameIs ==
  ASSUME NEW b \in Seq(Sign)
  PROVE  LET s == <<"p", "k", "g">> \o b
         IN /\ s \in Seq(Sign) /\ Len(s) = 3 + Len(b)
            /\ \A k \in 1..3 : s[k] \notin Comparison
            /\ \A k \in 1..Len(b) : s[3 + k] = b[k]
<1> DEFINE pkg == <<"p", "k", "g">>
           s == pkg \o b
<1>1. pkg \in Seq(Sign) /\ Len(pkg) = 3 /\ \A k \in 1..3 : pkg[k] \notin Comparison
  <2>1. {"p", "k", "g"} \subseteq Sign /\ {"p", "k", "g"} \cap Comparison = {}
    BY DEF Sign, Comparison
  <2> QED BY <2>1
<1> HIDE DEF pkg
<1>2. /\ s \in Seq(Sign) /\ Len(s) = 3 + Len(b)
      /\ \A k \in 1..3 : s[k] = pkg[k]
      /\ \A k \in 1..Len(b) : s[3 + k] = b[k]
  <2>1. Joined(s, Sign, pkg, b)
    BY <1>1, Concatenated
  <2> HIDE DEF s
  <2> QED BY <1>1, <2>1 DEF Joined
<1> HIDE DEF s
<1>3. \A k \in 1..3 : s[k] \notin Comparison
  BY <1>1, <1>2
<1> QED BY <1>2, <1>3 DEF s, pkg

\* A comparison and a version, behind something
LEMMA BoundWritten ==
  ASSUME NEW a \in Seq(Sign), NEW op \in Operators, NEW v \in Seq(Char), v # << >>
  PROVE  /\ a \o op \o v \in Seq(Sign)
         /\ Len(a \o op \o v) = Len(a) + Len(op) + Len(v)
         /\ \A k \in 1..Len(a) : (a \o op \o v)[k] = a[k]
         /\ \A k \in 1..Len(op) : (a \o op \o v)[Len(a) + k] = op[k]
         /\ \A k \in 1..Len(v) : (a \o op \o v)[Len(a) + Len(op) + k] = v[k]
<1>1. op \in Seq(Sign) /\ v \in Seq(Sign)
  <2>1. op \in Seq(Comparison) /\ Comparison \subseteq Sign /\ Char \subseteq Sign
    BY OperatorsAre DEF Sign
  <2> QED BY <2>1
<1> DEFINE b == a \o op
           c == b \o v
           la == Len(a)
           lo == Len(op)
           lv == Len(v)
<1>2. /\ b \in Seq(Sign) /\ Len(b) = la + lo
      /\ \A k \in 1..la : b[k] = a[k]
      /\ \A k \in 1..lo : b[la + k] = op[k]
  <2>1. Joined(b, Sign, a, op)
    BY <1>1, Concatenated
  <2> HIDE DEF b
  <2> QED BY <2>1 DEF Joined
<1> HIDE DEF b
<1>3. /\ c \in Seq(Sign) /\ Len(c) = Len(b) + lv
      /\ \A k \in 1..Len(b) : c[k] = b[k]
      /\ \A k \in 1..lv : c[Len(b) + k] = v[k]
  <2>1. Joined(c, Sign, b, v)
    BY <1>1, <1>2, Concatenated
  <2> HIDE DEF c
  <2> QED BY <2>1 DEF Joined
<1>4. la \in Nat /\ lo \in Nat /\ lv \in Nat
  BY <1>1
<1> HIDE DEF c, la, lo, lv
<1>5. \A k \in 1..la : c[k] = a[k]
  BY <1>2, <1>3, <1>4
<1>6. \A k \in 1..lo : c[la + k] = op[k]
  <2> TAKE k \in 1..lo
  <2>1. la + k \in 1..la + lo
    BY <1>4
  <2> QED BY <1>2, <1>3, <2>1
<1>7. c \in Seq(Sign) /\ Len(c) = la + lo + lv /\ \A k \in 1..lv : c[la + lo + k] = v[k]
  BY <1>2, <1>3
<1> QED BY <1>5, <1>6, <1>7 DEF b, c, la, lo, lv

\* A dependency with one bound has just that one.
LEMMA NeedsOne ==
  ASSUME NEW op \in Operators, NEW v \in Seq(Char), v # << >>
  PROVE  Needs(op \o v).version = {<<op, v>>}
<1> DEFINE b == op \o v
           s == <<"p", "k", "g">> \o b
           l == Len(op)
           m == Len(v)
<1>1. m \in Nat \ {0} /\ l \in 1..2
  BY EmptySeq, OperatorsAre
<1>2. /\ b \in Seq(Sign) /\ Len(b) = l + m
      /\ \A k \in 1..l : b[k] = op[k]
      /\ \A k \in 1..m : b[l + k] = v[k]
  <2>1. op \in Seq(Sign) /\ v \in Seq(Sign)
    <3>1. op \in Seq(Comparison) /\ Comparison \subseteq Sign /\ Char \subseteq Sign
      BY OperatorsAre DEF Sign
    <3> QED BY <3>1
  <2>2. Joined(b, Sign, op, v)
    BY <2>1, Concatenated
  <2> HIDE DEF b
  <2> QED BY <2>2 DEF Joined
<1> HIDE DEF b
<1>3. /\ s \in Seq(Sign) /\ Len(s) = 3 + Len(b)
      /\ \A k \in 1..3 : s[k] \notin Comparison
      /\ \A k \in 1..Len(b) : s[3 + k] = b[k]
  BY <1>2, NameIs
<1>4. Needs(op \o v) = dbpmgr_depend_parse(s)
  BY DEF Needs, b
<1> HIDE DEF s, l, m
<1>5. Bound(s, 4, op, v)
  <2>1. 4 + l + m <= Len(s) + 1
    BY <1>1, <1>2, <1>3
  <2>2. ASSUME NEW k \in 1..l PROVE s[4 + k - 1] = op[k]
    <3>1. k \in 1..l + m /\ 4 + k - 1 = 3 + k
      BY <1>1
    <3> QED BY <1>2, <1>3, <3>1
  <2>3. ASSUME NEW k \in 1..m PROVE s[4 + l + k - 1] = v[k]
    <3>1. l + k \in 1..l + m /\ 4 + l + k - 1 = 3 + (l + k)
      BY <1>1
    <3> QED BY <1>2, <1>3, <3>1
  <2> QED BY <2>1, <2>2, <2>3 DEF Bound, l, m
<1>6. /\ 4 \in Params(s)
      /\ \A j \in 5..3 + l + m : j \notin Params(s)
      /\ SubSeq(s, 4 + l, 3 + l + m) = v
  <2>1. /\ 4 = 1 \/ s[4 - 1] \notin Comparison => 4 \in Params(s)
        /\ \A j \in 4 + 1..4 + l + m - 1 : j \notin Params(s)
        /\ SubSeq(s, 4 + l, 4 + l + m - 1) = v
    <3>1. Separate(s, 4, op, v)
      BY <1>3, <1>5, BoundVersion
    <3> QED BY <3>1 DEF Separate, l, m
  <2>2. 4 - 1 = 3 /\ 4 + 1 = 5 /\ 4 + l + m - 1 = 3 + l + m
    BY <1>1
  <2> QED BY <1>3, <2>1, <2>2
<1>7. Params(s) = {4}
  <2>1. ASSUME NEW j \in Params(s) PROVE j = 4
    <3>1. j \in 1..3 + l + m /\ s[j] \in Comparison
      BY <1>1, <1>2, <1>3 DEF Params
    <3>2. j \notin 1..3 /\ j \notin 5..3 + l + m
      BY <1>3, <1>6, <3>1
    <3> QED BY <1>1, <3>1, <3>2
  <2> QED BY <1>6, <2>1
<1>8. KeptAt(s) = {4}
  BY <1>7 DEF KeptAt
<1>9. UntilAt(s, 4) = 3 + l + m
  <2>1. {j \in Params(s) : j > 4} \cup {Len(s) + 1} = {3 + l + m + 1}
    BY <1>1, <1>2, <1>3, <1>7
  <2>2. 3 + l + m + 1 \in Nat /\ (3 + l + m + 1) - 1 = 3 + l + m
    BY <1>1
  <2>3. Min({3 + l + m + 1}) = 3 + l + m + 1
    BY <2>2, MinOne
  <2> QED BY <2>1, <2>2, <2>3, Zenon DEF UntilAt
<1>10. OperatorAt(s, 4) = op
  BY <1>3, <1>5, BoundOperator
<1>11. dbpmgr_depend_parse(s).version =
         {<<OperatorAt(s, 4), SubSeq(s, 4 + Len(OperatorAt(s, 4)), UntilAt(s, 4))>>}
  BY <1>8, ParseIs
<1> QED BY <1>4, <1>6, <1>9, <1>10, <1>11 DEF l

\* One with two bounds of different operators has the two.
LEMMA NeedsTwo ==
  ASSUME NEW op \in Operators, NEW v \in Seq(Char), v # << >>,
         NEW po \in Operators, NEW w \in Seq(Char), w # << >>, op # po
  PROVE  Needs(op \o v \o po \o w).version = {<<op, v>>, <<po, w>>}
<1> DEFINE a == op \o v
           b == a \o po \o w
           s == <<"p", "k", "g">> \o b
           l == Len(op)
           m == Len(v)
           x == Len(po)
           y == Len(w)
           n == 4 + l + m
<1>1. m \in Nat \ {0} /\ l \in 1..2 /\ y \in Nat \ {0} /\ x \in 1..2
  BY EmptySeq, OperatorsAre
<1>2. /\ a \in Seq(Sign) /\ Len(a) = l + m
      /\ \A k \in 1..l : a[k] = op[k]
      /\ \A k \in 1..m : a[l + k] = v[k]
  <2>1. op \in Seq(Sign) /\ v \in Seq(Sign)
    <3>1. op \in Seq(Comparison) /\ Comparison \subseteq Sign /\ Char \subseteq Sign
      BY OperatorsAre DEF Sign
    <3> QED BY <3>1
  <2>2. Joined(a, Sign, op, v)
    BY <2>1, Concatenated
  <2> HIDE DEF a
  <2> QED BY <2>2 DEF Joined
<1>3. Needs(op \o v \o po \o w) = dbpmgr_depend_parse(s)
  BY DEF Needs
<1> HIDE DEF a
<1>4. /\ b \in Seq(Sign) /\ Len(b) = Len(a) + x + y
      /\ \A k \in 1..Len(a) : b[k] = a[k]
      /\ \A k \in 1..x : b[Len(a) + k] = po[k]
      /\ \A k \in 1..y : b[Len(a) + x + k] = w[k]
  BY <1>2, BoundWritten
<1> HIDE DEF b
<1>5. /\ s \in Seq(Sign) /\ Len(s) = 3 + Len(b)
      /\ \A k \in 1..3 : s[k] \notin Comparison
      /\ \A k \in 1..Len(b) : s[3 + k] = b[k]
  BY <1>4, NameIs
<1> HIDE DEF s, l, m, x, y, n
<1>6. Len(s) = 3 + l + m + x + y /\ Len(b) = l + m + x + y /\ n = 4 + l + m
  BY <1>1, <1>2, <1>4, <1>5 DEF n
<1>7. Bound(s, 4, op, v)
  <2>1. 4 + l + m <= Len(s) + 1
    BY <1>1, <1>6
  <2>2. ASSUME NEW k \in 1..l PROVE s[4 + k - 1] = op[k]
    <3>1. k \in 1..l + m /\ k \in 1..l + m + x + y /\ 4 + k - 1 = 3 + k
      BY <1>1
    <3> QED BY <1>2, <1>4, <1>5, <1>6, <3>1
  <2>3. ASSUME NEW k \in 1..m PROVE s[4 + l + k - 1] = v[k]
    <3>1. l + k \in 1..l + m /\ l + k \in 1..l + m + x + y /\ 4 + l + k - 1 = 3 + (l + k)
      BY <1>1
    <3> QED BY <1>2, <1>4, <1>5, <1>6, <3>1
  <2> QED BY <2>1, <2>2, <2>3 DEF Bound, l, m
<1>8. Bound(s, n, po, w)
  <2>1. n + x + y <= Len(s) + 1 /\ n \in Nat \ {0}
    BY <1>1, <1>6
  <2>2. ASSUME NEW k \in 1..x PROVE s[n + k - 1] = po[k]
    <3>1. l + m + k \in 1..l + m + x + y /\ n + k - 1 = 3 + (l + m + k)
      BY <1>1, <1>6
    <3>2. s[3 + (l + m + k)] = b[l + m + k]
      BY <1>5, <1>6, <3>1
    <3>3. b[l + m + k] = po[k]
      BY <1>2, <1>4
    <3> QED BY <3>1, <3>2, <3>3
  <2>3. ASSUME NEW k \in 1..y PROVE s[n + x + k - 1] = w[k]
    <3>1. l + m + x + k \in 1..l + m + x + y /\ n + x + k - 1 = 3 + (l + m + x + k)
      BY <1>1, <1>6
    <3>2. s[3 + (l + m + x + k)] = b[l + m + x + k]
      BY <1>5, <1>6, <3>1
    <3>3. b[l + m + x + k] = w[k]
      BY <1>2, <1>4
    <3> QED BY <3>1, <3>2, <3>3
  <2> QED BY <2>1, <2>2, <2>3 DEF Bound, x, y
<1>9. /\ 4 \in Params(s)
      /\ \A j \in 5..n - 1 : j \notin Params(s)
      /\ s[n - 1] \notin Comparison
      /\ SubSeq(s, 4 + l, n - 1) = v
  <2>1. /\ 4 = 1 \/ s[4 - 1] \notin Comparison => 4 \in Params(s)
        /\ \A j \in 4 + 1..4 + l + m - 1 : j \notin Params(s)
        /\ s[4 + l + m - 1] \notin Comparison
        /\ SubSeq(s, 4 + l, 4 + l + m - 1) = v
    <3>1. Separate(s, 4, op, v)
      BY <1>5, <1>7, BoundVersion
    <3> QED BY <3>1 DEF Separate, l, m
  <2>2. 4 - 1 = 3 /\ 4 + 1 = 5 /\ 4 + l + m - 1 = n - 1
    BY <1>1, <1>6
  <2> QED BY <1>5, <2>1, <2>2
<1>10. /\ n \in Params(s)
       /\ \A j \in n + 1..Len(s) : j \notin Params(s)
       /\ SubSeq(s, n + x, Len(s)) = w
  <2>1. /\ n = 1 \/ s[n - 1] \notin Comparison => n \in Params(s)
        /\ \A j \in n + 1..n + x + y - 1 : j \notin Params(s)
        /\ SubSeq(s, n + x, n + x + y - 1) = w
    <3>1. Separate(s, n, po, w)
      BY <1>5, <1>8, BoundVersion
    <3> QED BY <3>1 DEF Separate, x, y
  <2>2. n + x + y - 1 = Len(s)
    BY <1>1, <1>6
  <2> QED BY <1>9, <2>1, <2>2
<1>11. Params(s) = {4, n}
  <2>1. ASSUME NEW j \in Params(s) PROVE j = 4 \/ j = n
    <3>1. j \in 1..Len(s) /\ s[j] \in Comparison
      BY DEF Params
    <3>2. j \notin 1..3 /\ j \notin 5..n - 1 /\ j \notin n + 1..Len(s)
      BY <1>5, <1>9, <1>10, <3>1
    <3> QED BY <1>1, <1>6, <3>1, <3>2
  <2> QED BY <1>9, <1>10, <2>1
<1>12. OperatorAt(s, 4) = op /\ OperatorAt(s, n) = po
  BY <1>5, <1>7, <1>8, BoundOperator
<1>13. 4 < n /\ n \in Nat /\ n < Len(s) + 1 /\ Len(s) + 1 \in Nat /\ (Len(s) + 1) - 1 = Len(s)
  BY <1>1, <1>6
<1>14. KeptAt(s) = {4, n}
  BY <1>11, <1>12, <1>13 DEF KeptAt
<1>15. UntilAt(s, 4) = n - 1
  <2>1. {j \in Params(s) : j > 4} \cup {Len(s) + 1} = {n, Len(s) + 1}
    BY <1>11, <1>13
  <2>2. Min({n, Len(s) + 1}) = n
    <3>1. {n, Len(s) + 1} \subseteq Nat /\ {n, Len(s) + 1} # {}
      BY <1>13
    <3>2. Min({n, Len(s) + 1}) \in {n, Len(s) + 1} /\ Min({n, Len(s) + 1}) <= n
      BY <3>1, MinIs
    <3> QED BY <1>13, <3>2
  <2> QED BY <2>1, <2>2, Zenon DEF UntilAt
<1>16. UntilAt(s, n) = Len(s)
  <2>1. {j \in Params(s) : j > n} \cup {Len(s) + 1} = {Len(s) + 1}
    BY <1>11, <1>13
  <2>2. Min({Len(s) + 1}) = Len(s) + 1
    BY <1>13, MinOne
  <2> QED BY <1>13, <2>1, <2>2, Zenon DEF UntilAt
<1>17. dbpmgr_depend_parse(s).version =
         {<<OperatorAt(s, i), SubSeq(s, i + Len(OperatorAt(s, i)), UntilAt(s, i))>> : i \in {4, n}}
  BY <1>14, ParseIs, Zenon
<1>18. /\ <<OperatorAt(s, 4), SubSeq(s, 4 + Len(OperatorAt(s, 4)), UntilAt(s, 4))>> = <<op, v>>
       /\ <<OperatorAt(s, n), SubSeq(s, n + Len(OperatorAt(s, n)), UntilAt(s, n))>> = <<po, w>>
  BY <1>9, <1>10, <1>12, <1>15, <1>16, Zenon DEF l, x
<1>19. dbpmgr_depend_parse(s).version =
         {<<OperatorAt(s, 4), SubSeq(s, 4 + Len(OperatorAt(s, 4)), UntilAt(s, 4))>>,
          <<OperatorAt(s, n), SubSeq(s, n + Len(OperatorAt(s, n)), UntilAt(s, n))>>}
  BY <1>17
<1> QED BY <1>3, <1>18, <1>19, Zenon

\* What the bounds of the intervals mean
LEMMA BoundsMean ==
  ASSUME NEW u, NEW v \in Seq(Char), v # << >>, NEW w \in Seq(Char), w # << >>
  PROVE  /\ Satisfies(u, Needs(<<"<">> \o v)) <=> dbpmgr_depend_compare_version(u, v) < 0
         /\ Satisfies(u, Needs(<<">", "=">> \o w)) <=> dbpmgr_depend_compare_version(u, w) >= 0
         /\ Satisfies(u, Needs(<<"<", "=">> \o w)) <=> dbpmgr_depend_compare_version(u, w) <= 0
         /\ Satisfies(u, Needs(<<">", "=">> \o v \o <<"<">> \o w)) <=>
              /\ dbpmgr_depend_compare_version(u, v) >= 0
              /\ dbpmgr_depend_compare_version(u, w) < 0
<1>1. /\ <<"<">> \in Operators /\ <<">", "=">> \in Operators /\ <<"<", "=">> \in Operators
  BY OperatorsAre
<1>2. <<"<">> # <<">", "=">> /\ <<"<">> # <<"<", "=">> /\ <<">", "=">> # <<"<", "=">>
  <2>1. Len(<<"<">>) = 1 /\ Len(<<">", "=">>) = 2 /\ Len(<<"<", "=">>) = 2
    OBVIOUS
  <2>2. <<">", "=">>[1] = ">" /\ <<"<", "=">>[1] = "<"
    OBVIOUS
  <2> QED BY <2>1, <2>2
<1>3. ASSUME NEW r
      PROVE  /\ Accepts(<<"<">>, r) <=> r < 0
             /\ Accepts(<<">", "=">>, r) <=> r >= 0
             /\ Accepts(<<"<", "=">>, r) <=> r <= 0
  BY <1>2 DEF Accepts
<1>4. /\ Needs(<<"<">> \o v).version = {<<<<"<">>, v>>}
      /\ Needs(<<">", "=">> \o w).version = {<<<<">", "=">>, w>>}
      /\ Needs(<<"<", "=">> \o w).version = {<<<<"<", "=">>, w>>}
  BY <1>1, NeedsOne
<1>5. Needs(<<">", "=">> \o v \o <<"<">> \o w).version = {<<<<">", "=">>, v>>, <<<<"<">>, w>>}
  BY <1>1, <1>2, NeedsTwo
<1>6. ASSUME NEW d, NEW op, NEW x, d.version = {<<op, x>>}
      PROVE  Satisfies(u, d) <=> Accepts(op, dbpmgr_depend_compare_version(u, x))
  BY <1>6 DEF Satisfies
<1>7. ASSUME NEW d, NEW op, NEW x, NEW po, NEW y, d.version = {<<op, x>>, <<po, y>>}
      PROVE  Satisfies(u, d) <=> /\ Accepts(op, dbpmgr_depend_compare_version(u, x))
                                 /\ Accepts(po, dbpmgr_depend_compare_version(u, y))
  BY <1>7 DEF Satisfies
<1>8. /\ Satisfies(u, Needs(<<"<">> \o v)) <=> Accepts(<<"<">>, dbpmgr_depend_compare_version(u, v))
      /\ Satisfies(u, Needs(<<">", "=">> \o w)) <=> Accepts(<<">", "=">>, dbpmgr_depend_compare_version(u, w))
      /\ Satisfies(u, Needs(<<"<", "=">> \o w)) <=> Accepts(<<"<", "=">>, dbpmgr_depend_compare_version(u, w))
  BY <1>4, <1>6, Zenon
<1>9. Satisfies(u, Needs(<<">", "=">> \o v \o <<"<">> \o w)) <=>
        /\ Accepts(<<">", "=">>, dbpmgr_depend_compare_version(u, v))
        /\ Accepts(<<"<">>, dbpmgr_depend_compare_version(u, w))
  BY <1>5, <1>7, Zenon
<1> QED BY <1>3, <1>8, <1>9, Zenon

\* Whatever the versions, one that is not newer than another cuts the versions into
\* three intervals by the dependencies that name them: every version satisfies just
\* one of "older than v", "from v on and older than w" and "from w on".
THEOREM IntervalsExact == Spec => []IntervalsPartition
<1>1. Writes => IntervalsPartition
  <2> SUFFICES ASSUME Writes, Written(3) PROVE IntervalsPartition
    BY DEF IntervalsPartition
  <2> DEFINE u == version[1]
             v == version[2]
             w == version[3]
             A == Needs(<<"<">> \o v)
             B == Needs(<<">", "=">> \o v \o <<"<">> \o w)
             C == Needs(<<">", "=">> \o w)
             Cmp(x, y) == dbpmgr_depend_compare_version(x, y)
  <2>1. /\ u \in Versions /\ v \in Versions /\ w \in Versions
        /\ v \in Seq(Char) /\ v # << >> /\ w \in Seq(Char) /\ w # << >>
    BY DEF Written, Writes, Versions
  <2>2. IntervalsPartition <=>
          (Satisfies(v, Needs(<<"<", "=">> \o w)) => Cardinality({d \in {A, B, C} : Satisfies(u, d)}) = 1)
    BY Zenon DEF IntervalsPartition
  <2>3. /\ Satisfies(u, A) <=> Cmp(u, v) < 0
        /\ Satisfies(u, B) <=> Cmp(u, v) >= 0 /\ Cmp(u, w) < 0
        /\ Satisfies(u, C) <=> Cmp(u, w) >= 0
        /\ Satisfies(v, Needs(<<"<", "=">> \o w)) <=> Cmp(v, w) <= 0
    BY <2>1, BoundsMean, Zenon
  <2>4. /\ Cmp(u, v) \in Int /\ Cmp(u, w) \in Int /\ Cmp(v, w) \in Int /\ Cmp(w, v) \in Int
        /\ Cmp(v, u) \in Int /\ Cmp(w, u) \in Int
        /\ Cmp(u, v) = -Cmp(v, u) /\ Cmp(v, w) = -Cmp(w, v) /\ Cmp(u, w) = -Cmp(w, u)
        /\ Cmp(v, w) <= 0 /\ Cmp(w, u) <= 0 => Cmp(v, u) <= 0
    BY <2>1, VersionsAreOrdered, Zenon
  <2> HIDE DEF A, B, C, Cmp, u, v, w
  <2>5. ASSUME Cmp(v, w) <= 0 PROVE Cmp(u, v) < 0 => Cmp(u, w) < 0
    BY <2>4, <2>5
  <2>6. ASSUME Cmp(v, w) <= 0
        PROVE  \E d \in {A, B, C} : {x \in {A, B, C} : Satisfies(u, x)} = {d}
    <3>1. CASE Cmp(u, v) < 0
      <4>1. Satisfies(u, A) /\ ~Satisfies(u, B) /\ ~Satisfies(u, C)
        BY <2>3, <2>4, <2>5, <2>6, <3>1
      <4> QED BY <4>1
    <3>2. CASE Cmp(u, v) >= 0 /\ Cmp(u, w) < 0
      <4>1. ~Satisfies(u, A) /\ Satisfies(u, B) /\ ~Satisfies(u, C)
        BY <2>3, <2>4, <3>2
      <4> QED BY <4>1
    <3>3. CASE Cmp(u, v) >= 0 /\ Cmp(u, w) >= 0
      <4>1. ~Satisfies(u, A) /\ ~Satisfies(u, B) /\ Satisfies(u, C)
        BY <2>3, <2>4, <3>3
      <4> QED BY <4>1
    <3> QED BY <2>4, <2>5, <2>6, <3>1, <3>2, <3>3
  <2>7. \A d : Cardinality({d}) = 1
    BY FS_Singleton
  <2> QED BY <2>2, <2>3, <2>6, <2>7, Zenon
<1> QED BY <1>1, WritesInvariant, PTL

-----------------------------------------------------------------------------
(* Numbers of the usual form                                               *)

\* The digits of each base are those with a value.
LEMMA DigitsHaveValues ==
  ASSUME NEW base \in {8, 10}, NEW d \in DigitsOf[base]
  PROVE  Value(d) \in Nat
<1> DEFINE I == {i \in 1..Len(Digits(16)) : Digits(16)[i] = d}
<1>1. /\ Len(Digits(16)) = 16 /\ Len(Digits(10)) = 10 /\ Len(Digits(8)) = 8
      /\ \A i \in 1..10 : Digits(10)[i] = Digits(16)[i]
      /\ \A i \in 1..8 : Digits(8)[i] = Digits(16)[i]
  BY DEF Digits
<1>2. d \in ToSet(Digits(base)) /\ Len(Digits(base)) = base
  BY <1>1 DEF DigitsOf
<1>3. PICK i \in 1..base : Digits(base)[i] = d
  <2>1. DOMAIN Digits(base) = 1..base
    BY <1>2 DEF Digits
  <2> QED BY <1>2, <2>1 DEF ToSet
<1>4. i \in I
  <2>1. i \in 1..10 /\ i \in 1..16 /\ (base = 8 => i \in 1..8)
    OBVIOUS
  <2>2. Digits(16)[i] = d
    BY <1>1, <1>3, <2>1
  <2> QED BY <1>1, <2>1, <2>2
<1>5. I \subseteq Nat
  BY <1>1
<1>6. Value(d) = Min(I) - 1
  BY <1>4 DEF Value, SelectInSeq
<1>7. Min(I) \in I /\ I \subseteq 1..16
  BY <1>1, <1>4, <1>5, MinIs
<1> HIDE DEF I
<1>8. Min(I) \in 1..16
  BY <1>7
<1> QED BY <1>6, <1>8

\* The digit 0 is one of both bases, of value 0.
LEMMA ZeroIs == "0" \in DigitsOf[8] /\ "0" \in DigitsOf[10] /\ Value("0") = 0
<1> DEFINE I == {i \in 1..Len(Digits(16)) : Digits(16)[i] = "0"}
<1>1. /\ Len(Digits(16)) = 16 /\ Len(Digits(10)) = 10 /\ Len(Digits(8)) = 8
      /\ Digits(16)[1] = "0" /\ Digits(10)[1] = "0" /\ Digits(8)[1] = "0"
  BY DEF Digits
<1>2. "0" \in DigitsOf[8] /\ "0" \in DigitsOf[10]
  BY <1>1 DEF DigitsOf, ToSet
<1>3. 1 \in I /\ I \subseteq Nat /\ \A i \in I : i >= 1
  BY <1>1
<1>4. Value("0") = Min(I) - 1
  BY <1>3 DEF Value, SelectInSeq
<1> HIDE DEF I
<1>5. Min(I) \in I /\ Min(I) <= 1
  BY <1>3, MinIs
<1>6. Min(I) \in Nat /\ Min(I) >= 1
  BY <1>3, <1>5
<1>7. Min(I) = 1
  BY <1>5, <1>6
<1> QED BY <1>2, <1>4, <1>7

\* A number that is read is not negative.
LEMMA NumberNat ==
  ASSUME NEW s, Len(s) \in Nat, NEW i \in 1..Len(s) + 1, NEW base \in {8, 10}
  PROVE  Number(s, i, base) \in Nat
<1> DEFINE e == After(s, i, DigitsOf[base])
<1>1. /\ e \in i..Len(s) + 1
      /\ \A k \in i..e - 1 : k \in 1..Len(s) /\ s[k] \in DigitsOf[base]
  BY AfterIs
<1>2. PICK g : Reads(g, s, i, base) /\ Number(s, i, base) = g[e - i]
  <2>1. base \in Nat
    OBVIOUS
  <2> QED BY <2>1, NumberSteps
<1> HIDE DEF e
<1> DEFINE S == {n \in Nat : n <= e - i => g[n] \in Nat}
<1>3. 0 \in S
  <2>1. g[0] = 0
    BY <1>2 DEF Reads
  <2> QED BY <2>1
<1>4. ASSUME NEW n \in Nat, n \in S PROVE n + 1 \in S
  <2> SUFFICES ASSUME n + 1 <= e - i PROVE g[n + 1] \in Nat
    OBVIOUS
  <2>1. i + n \in i..e - 1 /\ n <= e - i
    BY <1>1
  <2>2. Value(s[i + n]) \in Nat
    BY <1>1, <2>1, DigitsHaveValues
  <2>3. g[n] \in Nat /\ g[n + 1] = g[n] * base + Value(s[i + n])
    BY <1>2, <1>4, <2>1 DEF Reads
  <2> DEFINE tens == g[n] * base
  <2>4. tens \in Nat
    BY <2>3
  <2>5. g[n + 1] = tens + Value(s[i + n])
    BY <2>3
  <2> HIDE DEF tens
  <2> QED BY <2>2, <2>4, <2>5
<1>5. \A n \in Nat : n \in S
  <2> HIDE DEF S
  <2> QED BY <1>3, <1>4, Induction
<1>6. e - i \in Nat
  BY <1>1
<1>7. g[e - i] \in Nat
  BY <1>5, <1>6
<1> QED BY <1>2, <1>7

\* A single zero
LEMMA NumberZero ==
  ASSUME NEW s, Len(s) \in Nat, NEW i \in 1..Len(s), s[i] = "0",
         i + 1 <= Len(s) => s[i + 1] \notin Digit, NEW base \in {8, 10}
  PROVE  Number(s, i, base) = 0
<1> DEFINE e == After(s, i, DigitsOf[base])
<1>1. /\ e \in i..Len(s) + 1 /\ (e > Len(s) \/ s[e] \notin DigitsOf[base])
      /\ \A k \in i..e - 1 : k \in 1..Len(s) /\ s[k] \in DigitsOf[base]
  BY AfterIs
<1>2. DigitsOf[base] \subseteq Digit
  <2>1. /\ DOMAIN Digits(8) = 1..8 /\ DOMAIN Digits(10) = 1..10
        /\ \A k \in 1..8 : Digits(8)[k] = Digits(10)[k]
    BY DEF Digits
  <2>2. ToSet(Digits(8)) \subseteq ToSet(Digits(10))
    <3> DEFINE a == Digits(8)
               b == Digits(10)
    <3>1. /\ ToSet(a) = {a[k] : k \in 1..8} /\ ToSet(b) = {b[k] : k \in 1..10}
          /\ \A k \in 1..8 : a[k] = b[k] /\ k \in 1..10
      BY <2>1 DEF ToSet
    <3> HIDE DEF a, b
    <3>2. ToSet(a) \subseteq ToSet(b)
      BY <3>1
    <3> QED BY <3>2 DEF a, b
  <2>3. DigitsOf[8] = ToSet(Digits(8)) /\ Digit = ToSet(Digits(10)) /\ DigitsOf[10] = Digit
    BY DEF DigitsOf, Digit
  <2> QED BY <2>2, <2>3
<1>3. e = i + 1
  <2>1. e # i
    BY <1>1, ZeroIs
  <2>2. ~(e > i + 1)
    <3> SUFFICES ASSUME e > i + 1 PROVE FALSE
      OBVIOUS
    <3> HIDE DEF e
    <3>1. i + 1 \in i..e - 1
      BY <1>1
    <3> QED BY <1>1, <1>2, <3>1
  <2> HIDE DEF e
  <2> QED BY <1>1, <2>1, <2>2
<1>4. base \in Nat /\ i \in 1..Len(s) + 1
  OBVIOUS
<1>5. PICK g : Reads(g, s, i, base) /\ Number(s, i, base) = g[e - i]
  BY <1>4, NumberSteps
<1>6. e - i = 1 /\ i + 0 = i /\ 0 + 1 = 1
  BY <1>3
<1>7. g[1] = 0 * base + Value(s[i])
  BY <1>5, <1>6 DEF Reads
<1>8. 0 * base + 0 = 0
  BY <1>4
<1> HIDE DEF e
<1> QED BY <1>5, <1>6, <1>7, <1>8, ZeroIs DEF Reads

\* A number that fits is kept.
LEMMA AsIntKeeps ==
  ASSUME NEW n \in Nat, n <= IntMax
  PROVE  AsInt(n) = n
<1>1. IntMax \in Nat /\ LongMax \in Nat /\ IntMax <= LongMax
  BY VersionAssumption
<1>2. ~(n > LongMax) /\ ~(n < -LongMax - 1)
  BY <1>1
<1>3. AsInt(n) = ((n + IntMax + 1) % (2 * IntMax + 2)) - (IntMax + 1)
  BY <1>2 DEF AsInt
<1>4. n + IntMax + 1 \in 0..(2 * IntMax + 2) - 1 /\ 2 * IntMax + 2 \in Nat \ {0}
  BY <1>1
<1>5. \A m \in Nat \ {0} : \A k \in 0..m - 1 : k % m = k
  OBVIOUS
<1>6. (n + IntMax + 1) % (2 * IntMax + 2) = n + IntMax + 1
  BY <1>4, <1>5
<1> QED BY <1>1, <1>3, <1>6

\* Digits have no sign in front, and are no x.
LEMMA DigitsPlain == Digit \cap {"+", "-", "~", "x", "."} = {}
<1>1. /\ DOMAIN Digits(10) = 1..10
      /\ \A i \in 1..10 : Digits(10)[i] \in {"0", "1", "2", "3", "4", "5", "6", "7", "8", "9"}
  BY DEF Digits
<1> QED BY <1>1 DEF Digit, DigitsOf, ToSet

\* An epoch of digits is the number.
LEMMA EpochIs ==
  ASSUME NEW s, Len(s) \in Nat, DOMAIN s = 1..Len(s), ToSet(s) \subseteq Digit,
         Number(s, 1, 10) <= IntMax
  PROVE  atoi(s) = Number(s, 1, 10) /\ atoi(s) \in Nat
<1>1. ~At(s, 1, {"-"}) /\ ~At(s, 1, {"+", "-"})
  <2>1. 1 <= Len(s) => s[1] \in Digit
    BY DEF ToSet
  <2> QED BY <2>1, DigitsPlain DEF At
<1>2. Number(s, 1, 10) \in Nat
  <2>1. 1 \in 1..Len(s) + 1
    OBVIOUS
  <2> QED BY <2>1, NumberNat
<1>3. SignAt(s, 1) = 1 /\ AfterSign(s, 1) = 1
  BY <1>1 DEF SignAt, AfterSign
<1>4. 1 * Number(s, 1, 10) = Number(s, 1, 10)
  BY <1>2
<1>5. atoi(s) = AsInt(Number(s, 1, 10))
  BY <1>3, <1>4 DEF atoi
<1> QED BY <1>2, <1>5, AsIntKeeps

\* A round reads a number of the usual form as a decimal one.
LEMMA ScanIs ==
  ASSUME NEW s \in Seq(Known), RegularString(s), NEW i \in 1..Len(s), s[i] \in Digit,
         i = 1 \/ s[i - 1] \notin Digit
  PROVE  scan(s, i) = Number(s, i, 10) /\ scan(s, i) \in Nat
<1> DEFINE k == AfterSign(s, i)
           base == IF ~At(s, k, {"0"}) THEN 10 ELSE IF At(s, k + 1, {"x"}) THEN 16 ELSE 8
           m == Number(s, i, 10)
<1>1. Len(s) \in Nat /\ i \in 1..Len(s) + 1 /\ i <= Len(s)
  OBVIOUS
<1>2. SignAt(s, i) = 1 /\ k = i
  BY DigitsPlain DEF SignAt, AfterSign, At
<1>3. m \in Nat /\ m <= IntMax
  BY <1>1, NumberNat DEF RegularString
<1>4. scan(s, i) = AsInt(SignAt(s, i) * Number(s, IF base = 16 THEN k + 2 ELSE k, base))
  BY DEF scan
<1> HIDE DEF k, m
<1>5. CASE s[i] # "0"
  <2>1. base = 10
    BY <1>1, <1>2, <1>5 DEF At
  <2>2. scan(s, i) = AsInt(1 * m)
    BY <1>2, <1>4, <2>1 DEF m
  <2> QED BY <1>3, <2>2, AsIntKeeps DEF m
<1>6. CASE s[i] = "0"
  <2>1. i + 1 <= Len(s) => s[i + 1] \notin Digit /\ s[i + 1] # "x"
    <3>1. i + 1 <= Len(s) => i \in 1..Len(s) - 1
      OBVIOUS
    <3> QED BY <1>6, <3>1 DEF RegularString
  <2>2. base = 8
    BY <1>1, <1>2, <1>6, <2>1 DEF At
  <2>3. Number(s, i, 8) = 0 /\ m = 0
    BY <1>1, <1>6, <2>1, NumberZero DEF m
  <2>4. scan(s, i) = AsInt(1 * 0)
    BY <1>2, <1>4, <2>2, <2>3
  <2> QED BY <1>3, <2>3, <2>4, AsIntKeeps DEF m
<1> QED BY <1>5, <1>6

-----------------------------------------------------------------------------
(* The parts of a version                                                  *)

\* A part is a run of other characters, which begins where the number before ends,
\* and the number that follows.
Begin(s, n) == IF n = 0 THEN 1 ELSE find_next_nonnumeric(s, Place(s, n - 1))

\* The two strings that are compared begin and end with digits.
Framed == {s \in Seq(Known) : s # << >> /\ s[1] \in Digit /\ s[Len(s)] \in Digit}

\* Every character is a digit, or another one.
LEMMA DigitOrNot ==
  ASSUME NEW c \in Known
  PROVE  c \in Digit <=> c \notin NonDigit
BY ZeroIs DEF Known, NonDigit, Digit

\* Where the parts begin, and their numbers
LEMMA BeginIs ==
  ASSUME NEW s \in Framed, NEW n \in Nat
  PROVE  /\ Begin(s, n) \in 1..Len(s) + 1 /\ Len(s) \in Nat
         /\ Place(s, n) = find_next_numeric(s, Begin(s, n))
         /\ Place(s, n) \in Begin(s, n)..Len(s) + 1
         /\ \A k \in Begin(s, n)..Place(s, n) - 1 : k \in 1..Len(s) /\ s[k] \in NonDigit
         /\ Over(s, n) <=> Begin(s, n) > Len(s)
         /\ ~Over(s, n) => s[Place(s, n)] \in Digit
         /\ n = 0 => Begin(s, n) = 1 /\ Place(s, n) = 1 /\ ~Over(s, n)
         /\ n # 0 /\ ~Over(s, n) => s[Begin(s, n)] \notin Digit /\ Begin(s, n) < Place(s, n)
         /\ Begin(s, n + 1) = find_next_nonnumeric(s, Place(s, n))
         /\ ~Over(s, n) => Place(s, n) < Begin(s, n + 1)
         /\ \A k \in Place(s, n)..Begin(s, n + 1) - 1 : k \in 1..Len(s) /\ s[k] \in Digit
<1> DEFINE b == Begin(s, n)
           p == Place(s, n)
           c == Begin(s, n + 1)
           l == Len(s)
<1>1. /\ s \in Seq(Known) /\ l \in Nat /\ l # 0 /\ s[1] \in Digit /\ s[l] \in Digit
      /\ \A k \in 1..l : s[k] \in Known
  BY EmptySeq DEF Framed
<1>2. Place(s, 0) = 1 /\ \A m \in Nat : Place(s, m) \in 1..l + 1
  BY <1>1, PlaceSteps, Zenon
<1>3. c = find_next_nonnumeric(s, p)
  <2>1. n + 1 # 0 /\ (n + 1) - 1 = n
    OBVIOUS
  <2> QED BY <2>1 DEF Begin
<1>4. p = find_next_numeric(s, b)
  <2>1. CASE n = 0
    <3> DEFINE a == find_next_numeric(s, 1)
    <3>1. 1 \in 1..l + 1 /\ b = 1 /\ p = 1
      BY <1>1, <1>2, <2>1 DEF Begin
    <3>2. /\ a \in 1..l + 1
          /\ \A k \in 1..a - 1 : k \in 1..l /\ s[k] \in NonDigit
      BY <1>1, <3>1, AfterIs DEF find_next_numeric
    <3> HIDE DEF a
    <3>3. ~(a > 1)
      <4> SUFFICES ASSUME a > 1 PROVE FALSE
        OBVIOUS
      <4>1. 1 \in 1..a - 1
        BY <3>2
      <4> QED BY <1>1, <3>2, <4>1, DigitOrNot
    <3>4. a = 1
      BY <1>1, <3>2, <3>3
    <3> HIDE DEF b, p
    <3> QED BY <3>1, <3>4 DEF a
  <2>2. CASE n # 0
    <3>1. n - 1 \in Nat /\ (n - 1) + 1 = n
      BY <2>2
    <3>2. Place(s, (n - 1) + 1) = find_next_numeric(s, find_next_nonnumeric(s, Place(s, n - 1)))
      BY <1>1, <3>1, PlaceSteps, Zenon
    <3> QED BY <2>2, <3>1, <3>2, Zenon DEF Begin
  <2> QED BY <2>1, <2>2
<1>5. /\ b \in 1..l + 1
      /\ n # 0 => b > l \/ s[b] \notin Digit
  <2>1. CASE n = 0
    BY <1>1, <2>1 DEF Begin
  <2>2. CASE n # 0
    <3>1. n - 1 \in Nat
      BY <2>2
    <3>2. Place(s, n - 1) \in 1..l + 1
      BY <1>2, <3>1
    <3>3. b = After(s, Place(s, n - 1), Digit)
      BY <2>2 DEF Begin, find_next_nonnumeric
    <3>4. /\ b \in Place(s, n - 1)..l + 1
          /\ b > l \/ s[b] \notin Digit
      BY <1>1, <3>2, <3>3, AfterIs
    <3> QED BY <1>1, <3>2, <3>4
  <2> QED BY <2>1, <2>2
<1>6. /\ p > l \/ s[p] \notin NonDigit
      /\ \A k \in b..p - 1 : k \in 1..l /\ s[k] \in NonDigit
  BY <1>1, <1>4, <1>5, AfterIs DEF find_next_numeric
<1>7. p \in b..l + 1
  BY <1>1, <1>4, <1>5, AfterIs DEF find_next_numeric
<1>8. /\ c \in p..l + 1 /\ (c > l \/ s[c] \notin Digit)
      /\ \A k \in p..c - 1 : k \in 1..l /\ s[k] \in Digit
  <2>1. p \in 1..l + 1
    BY <1>2
  <2>2. c = After(s, p, Digit)
    BY <1>3 DEF find_next_nonnumeric
  <2> HIDE DEF p, c
  <2> QED BY <1>1, <2>1, <2>2, AfterIs
<1>9. n = 0 => b = 1 /\ p = 1
  BY <1>2 DEF Begin
<1>10. Over(s, n) <=> p > l
  BY DEF Over
<1> HIDE DEF b, p, c, l
<1>11. p > l => b > l
  <2> SUFFICES ASSUME p > l, b <= l PROVE FALSE
    BY <1>1, <1>5
  <2>1. l \in b..p - 1
    BY <1>1, <1>5, <1>7
  <2> QED BY <1>1, <1>6, <2>1, DigitOrNot
<1>12. b > l => p > l
  BY <1>1, <1>5, <1>7
<1>13. p <= l => s[p] \in Digit /\ p \in 1..l
  <2>1. p <= l => p \in 1..l
    BY <1>1, <1>5, <1>7
  <2>2. p <= l => s[p] \notin NonDigit
    BY <1>1, <1>5, <1>6, <1>7
  <2> QED BY <1>1, <2>1, <2>2, DigitOrNot
<1>14. n # 0 /\ p <= l => s[b] \notin Digit /\ b < p
  <2> SUFFICES ASSUME n # 0, p <= l PROVE s[b] \notin Digit /\ b < p
    OBVIOUS
  <2>1. b <= l /\ b <= p
    BY <1>1, <1>5, <1>7
  <2>2. s[b] \notin Digit
    BY <1>1, <1>5, <2>1
  <2>3. b # p
    BY <1>13, <2>2
  <2> QED BY <1>1, <1>5, <1>7, <2>1, <2>2, <2>3
<1>15. p <= l => p < c
  <2> SUFFICES ASSUME p <= l PROVE p < c
    OBVIOUS
  <2>1. c # p
    BY <1>1, <1>5, <1>7, <1>8, <1>13
  <2> QED BY <1>1, <1>5, <1>7, <1>8, <2>1
<1>16. ~(p > l) <=> p <= l
  BY <1>1, <1>5, <1>7
<1>17. n = 0 => ~(p > l)
  BY <1>1, <1>9
<1> QED BY <1>1, <1>3, <1>4, <1>5, <1>6, <1>7, <1>8, <1>9, <1>10, <1>11, <1>12, <1>13, <1>14,
           <1>15, <1>16, <1>17 DEF b, p, c, l

\* Once over, always over.
LEMMA OverStays ==
  ASSUME NEW s \in Framed, NEW n \in Nat, ~Over(s, n), NEW m \in 0..n
  PROVE  ~Over(s, m)
<1>1. s \in Seq(Known)
  BY DEF Framed
<1>2. m \in Nat /\ n >= m
  OBVIOUS
<1>3. Place(s, m) > Len(s) => Place(s, n) > Len(s)
  BY <1>1, <1>2, PlaceStays
<1> QED BY <1>3 DEF Over

\* Each part begins behind the ones before.
LEMMA BeginsMove ==
  ASSUME NEW s \in Framed, NEW n \in Nat, ~Over(s, n)
  PROVE  \A m \in 0..n - 1 : Begin(s, m) < Begin(s, n)
<1> DEFINE S == {k \in Nat : ~Over(s, k) => \A m \in 0..k - 1 : Begin(s, m) < Begin(s, k)}
<1>1. 0 \in S
  OBVIOUS
<1>2. ASSUME NEW k \in Nat, k \in S PROVE k + 1 \in S
  <2> SUFFICES ASSUME ~Over(s, k + 1), NEW m \in 0..(k + 1) - 1
               PROVE  Begin(s, m) < Begin(s, k + 1)
    OBVIOUS
  <2>1. k + 1 \in Nat /\ k \in 0..k + 1
    OBVIOUS
  <2>2. ~Over(s, k)
    BY <2>1, OverStays
  <2>3. /\ Begin(s, k) \in 1..Len(s) + 1 /\ Place(s, k) \in Begin(s, k)..Len(s) + 1
        /\ Len(s) \in Nat /\ Place(s, k) < Begin(s, k + 1)
    BY <2>2, BeginIs
  <2>4. m \in Nat /\ Begin(s, m) \in 1..Len(s) + 1 /\ Begin(s, k + 1) \in 1..Len(s) + 1
    <3>1. m \in Nat
      OBVIOUS
    <3>2. Begin(s, m) \in 1..Len(s) + 1
      BY <3>1, BeginIs
    <3>3. Begin(s, k + 1) \in 1..Len(s) + 1
      BY <2>1, BeginIs
    <3> QED BY <3>1, <3>2, <3>3
  <2>5. Begin(s, k) < Begin(s, k + 1)
    BY <2>3, <2>4
  <2>6. CASE m = k
    BY <2>5, <2>6
  <2>7. CASE m # k
    <3>1. m \in 0..k - 1
      BY <2>7
    <3>2. Begin(s, m) < Begin(s, k)
      BY <1>2, <2>2, <3>1
    <3> QED BY <2>3, <2>4, <2>5, <3>2
  <2> QED BY <2>6, <2>7
<1>3. \A k \in Nat : k \in S
  <2> HIDE DEF S
  <2> QED BY <1>1, <1>2, Induction
<1> QED BY <1>3

\* The parts are those of the rounds.
LEMMA PartsAre ==
  ASSUME NEW s \in Framed
  PROVE  \A i : i \in Parts(s) <=> \E n \in Nat : i = Begin(s, n) /\ ~Over(s, n)
<1>1. s \in Seq(Known) /\ Len(s) \in Nat
  BY DEF Framed
<1>2. 0 \in Nat /\ Begin(s, 0) = 1 /\ Place(s, 0) = 1 /\ ~Over(s, 0)
  BY BeginIs
<1>3. ASSUME NEW n \in Nat, ~Over(s, n) PROVE Begin(s, n) \in Parts(s)
  <2>1. CASE n = 0
    BY <1>2, <2>1 DEF Parts
  <2>2. CASE n # 0
    <3> DEFINE m == n - 1
               b == Begin(s, n)
               p == Place(s, m)
    <3>1. m \in Nat /\ m + 1 = n /\ m \in 0..n
      BY <2>2
    <3>2. ~Over(s, m)
      BY <1>3, <3>1, OverStays
    <3>3. /\ p \in Begin(s, m)..Len(s) + 1 /\ Begin(s, m) \in 1..Len(s) + 1
          /\ p < Begin(s, m + 1)
          /\ \A k \in p..Begin(s, m + 1) - 1 : k \in 1..Len(s) /\ s[k] \in Digit
      BY <3>1, <3>2, BeginIs
    <3>4. b \in 1..Len(s) + 1 /\ ~(b > Len(s)) /\ s[b] \notin Digit
      BY <1>3, <2>2, BeginIs
    <3>5. b = Begin(s, m + 1)
      BY <3>1
    <3> HIDE DEF b, p, m
    <3>6. b - 1 \in p..b - 1 /\ b \in 2..Len(s)
      BY <1>1, <3>3, <3>4, <3>5
    <3>7. s[b - 1] \in Digit
      BY <3>3, <3>5, <3>6
    <3>8. b \in Parts(s)
      BY <3>4, <3>6, <3>7 DEF Parts
    <3> QED BY <3>8 DEF b
  <2> QED BY <2>1, <2>2
<1>4. ASSUME NEW i \in Parts(s) PROVE \E n \in Nat : i = Begin(s, n) /\ ~Over(s, n)
  <2>1. CASE i = 1
    BY <1>2, <2>1
  <2>2. CASE i # 1
    <3> DEFINE K == {k \in Nat : Place(s, k) > i - 1}
    <3>1. i \in 2..Len(s) /\ s[i] \notin Digit /\ s[i - 1] \in Digit
      BY <2>2 DEF Parts
    <3>2. Len(s) \in K
      <4>1. Place(s, Len(s)) > Len(s) /\ Place(s, Len(s)) \in 1..Len(s) + 1
        BY <1>1, PlaceEnds, PlaceSteps
      <4> QED BY <1>1, <3>1, <4>1
    <3>3. K \subseteq Nat /\ K # {}
      BY <3>2
    <3> HIDE DEF K
    <3>4. PICK k \in K : \A m \in K : k <= m
      BY <3>3, Least
    <3>5. k \in Nat /\ Place(s, k) > i - 1
      BY <3>4 DEF K
    <3>6. k # 0
      BY <1>2, <3>1, <3>5
    <3> DEFINE n == k - 1
               c == Begin(s, k)
               p == Place(s, n)
               q == Place(s, k)
    <3>7. n \in Nat /\ n + 1 = k /\ ~(k <= n)
      BY <3>5, <3>6
    <3>8. ~(p > i - 1)
      BY <3>4, <3>7 DEF K
    <3>9. /\ p \in Begin(s, n)..Len(s) + 1 /\ Begin(s, n) \in 1..Len(s) + 1
          /\ \A m \in p..Begin(s, n + 1) - 1 : m \in 1..Len(s) /\ s[m] \in Digit
      BY <3>7, BeginIs
    <3>10. /\ c \in 1..Len(s) + 1 /\ q \in c..Len(s) + 1
           /\ \A m \in c..q - 1 : m \in 1..Len(s) /\ s[m] \in NonDigit
           /\ Over(s, k) <=> c > Len(s)
      BY <3>5, BeginIs
    <3>11. c = Begin(s, n + 1)
      BY <3>7
    <3>12. q > i - 1
      BY <3>5
    <3> HIDE DEF n, c, p, q
    <3>13. ~(c > i)
      <4> SUFFICES ASSUME c > i PROVE FALSE
        OBVIOUS
      <4>1. i \in p..c - 1
        BY <1>1, <3>1, <3>8, <3>9, <3>10
      <4> QED BY <3>1, <3>9, <3>11, <4>1
    <3>14. ~(c < i)
      <4> SUFFICES ASSUME c < i PROVE FALSE
        OBVIOUS
      <4>1. i - 1 \in c..q - 1
        BY <1>1, <3>1, <3>10, <3>12
      <4>2. s[i - 1] \in NonDigit
        BY <3>10, <4>1
      <4> QED BY <3>1, <4>2 DEF NonDigit
    <3>15. c = i /\ ~(c > Len(s))
      BY <1>1, <3>1, <3>10, <3>13, <3>14
    <3> QED BY <3>5, <3>10, <3>15 DEF c
  <2> QED BY <2>1, <2>2
<1> QED BY <1>3, <1>4

\* The n-th part is the one with n - 1 before.
LEMMA PartsUntil ==
  ASSUME NEW s \in Framed, NEW n \in Nat, ~Over(s, n)
  PROVE  LET before == {y \in Parts(s) : y <= Begin(s, n)}
         IN IsFiniteSet(before) /\ Cardinality(before) = n + 1
<1> DEFINE U(k) == {Begin(s, m) : m \in 0..k}
           S == {k \in Nat : k <= n => IsFiniteSet(U(k)) /\ Cardinality(U(k)) = k + 1}
<1>1. 0 \in S
  <2>1. U(0) = {Begin(s, 0)}
    OBVIOUS
  <2> HIDE DEF U
  <2> QED BY <2>1, FS_Singleton
<1>2. ASSUME NEW k \in Nat, k \in S PROVE k + 1 \in S
  <2> SUFFICES ASSUME k + 1 <= n
               PROVE  IsFiniteSet(U(k + 1)) /\ Cardinality(U(k + 1)) = (k + 1) + 1
    OBVIOUS
  <2>1. U(k + 1) = U(k) \cup {Begin(s, k + 1)}
    <3>1. \A m : m \in 0..k + 1 <=> m \in 0..k \/ m = k + 1
      OBVIOUS
    <3> QED BY <3>1
  <2>2. Begin(s, k + 1) \notin U(k)
    <3>1. k + 1 \in Nat /\ k + 1 \in 0..n
      OBVIOUS
    <3>2. ~Over(s, k + 1)
      BY <3>1, OverStays
    <3>3. \A m \in 0..(k + 1) - 1 : Begin(s, m) < Begin(s, k + 1)
      BY <3>1, <3>2, BeginsMove
    <3>4. (k + 1) - 1 = k /\ Begin(s, k + 1) \in Int
      BY <3>1, BeginIs
    <3> QED BY <3>3, <3>4
  <2>3. IsFiniteSet(U(k)) /\ Cardinality(U(k)) = k + 1
    BY <1>2
  <2> HIDE DEF U
  <2> QED BY <2>1, <2>2, <2>3, FS_AddElement
<1>3. \A k \in Nat : k \in S
  <2> HIDE DEF S
  <2> QED BY <1>1, <1>2, Induction
<1>4. IsFiniteSet(U(n)) /\ Cardinality(U(n)) = n + 1
  <2> HIDE DEF U
  <2> QED BY <1>3
<1>5. {y \in Parts(s) : y <= Begin(s, n)} = U(n)
  <2>1. ASSUME NEW m \in 0..n PROVE Begin(s, m) \in Parts(s) /\ Begin(s, m) <= Begin(s, n)
    <3>1. m \in Nat /\ ~Over(s, m)
      BY OverStays
    <3>2. Begin(s, m) \in Parts(s)
      BY <3>1, PartsAre
    <3>3. Begin(s, m) \in Int /\ Begin(s, n) \in Int
      BY <3>1, BeginIs
    <3>4. m = n \/ m \in 0..n - 1
      OBVIOUS
    <3>5. m \in 0..n - 1 => Begin(s, m) < Begin(s, n)
      BY BeginsMove
    <3> QED BY <3>2, <3>3, <3>4, <3>5
  <2>2. ASSUME NEW y \in Parts(s), y <= Begin(s, n) PROVE y \in U(n)
    <3>1. PICK m \in Nat : y = Begin(s, m) /\ ~Over(s, m)
      BY <2>2, PartsAre
    <3>2. ~(m > n)
      <4> SUFFICES ASSUME m > n PROVE FALSE
        OBVIOUS
      <4>1. n \in 0..m - 1
        OBVIOUS
      <4>2. Begin(s, n) < Begin(s, m)
        BY <3>1, <4>1, BeginsMove
      <4>3. Begin(s, n) \in Int /\ Begin(s, m) \in Int
        BY BeginIs
      <4> QED BY <2>2, <3>1, <4>2, <4>3
    <3> QED BY <3>1, <3>2
  <2> QED BY <2>1, <2>2
<1> HIDE DEF U
<1> QED BY <1>4, <1>5

\* There are as many parts as rounds that are not over.
LEMMA PartsAll ==
  ASSUME NEW s \in Framed, NEW n \in Nat
  PROVE  n + 1 > Cardinality(Parts(s)) <=> Over(s, n)
<1> DEFINE K == {k \in Nat : Over(s, k)}
<1>1. s \in Seq(Known) /\ Len(s) \in Nat /\ ~Over(s, 0)
  <2>1. 0 \in Nat
    OBVIOUS
  <2> QED BY <2>1, BeginIs DEF Framed
<1>2. Len(s) \in K
  <2>1. Over(s, Len(s))
    BY <1>1, PlaceEnds DEF Over
  <2> QED BY <1>1, <2>1
<1>3. K \subseteq Nat /\ K # {}
  BY <1>2
<1> HIDE DEF K
<1>4. PICK k \in K : \A m \in K : k <= m
  BY <1>3, Least
<1>5. k \in Nat /\ k # 0 /\ Over(s, k)
  BY <1>1, <1>4 DEF K
<1> DEFINE l == k - 1
<1>6. l \in Nat /\ l + 1 = k /\ ~Over(s, l)
  <2>1. l \in Nat /\ l + 1 = k /\ ~(k <= l)
    BY <1>5
  <2> QED BY <1>4, <2>1 DEF K
<1> HIDE DEF l
<1>7. {y \in Parts(s) : y <= Begin(s, l)} = Parts(s)
  <2> SUFFICES ASSUME NEW y \in Parts(s) PROVE y <= Begin(s, l)
    OBVIOUS
  <2>1. PICK m \in Nat : y = Begin(s, m) /\ ~Over(s, m)
    BY PartsAre
  <2>2. m <= l
    <3> SUFFICES ASSUME ~(m <= l) PROVE FALSE
      OBVIOUS
    <3>1. k \in 0..m
      BY <1>5, <1>6
    <3> QED BY <1>5, <2>1, <3>1, OverStays
  <2>3. m = l \/ m \in 0..l - 1
    BY <1>6, <2>2
  <2>4. m \in 0..l - 1 => Begin(s, m) < Begin(s, l)
    BY <1>6, BeginsMove
  <2>5. Begin(s, m) \in Int /\ Begin(s, l) \in Int
    BY <1>6, BeginIs
  <2> QED BY <2>1, <2>3, <2>4, <2>5
<1>8. Cardinality(Parts(s)) = k
  <2>1. Cardinality({y \in Parts(s) : y <= Begin(s, l)}) = l + 1
    BY <1>6, PartsUntil
  <2> QED BY <1>6, <1>7, <2>1
<1>9. Over(s, n) <=> n >= k
  <2>1. n >= k => k \in 0..n
    BY <1>5
  <2>2. n >= k => Over(s, n)
    BY <1>5, <2>1, OverStays
  <2>3. Over(s, n) => n \in K
    BY DEF K
  <2>4. Over(s, n) => n >= k
    BY <1>4, <1>5, <2>3
  <2> QED BY <2>2, <2>4
<1> QED BY <1>5, <1>8, <1>9

\* What PartOf gives of the n-th part, counted from 0
Other(s, n) == SubSeq(s, Begin(s, n), Place(s, n) - 1)
Figure(s, n) == IF Over(s, n) THEN 0 ELSE Number(s, Place(s, n), 10)

\* The n-th part is what the rounds before and after its number read.
LEMMA PartIs ==
  ASSUME NEW s \in Framed, NEW n \in Nat
  PROVE  PartOf(s, n + 1) = [other |-> Other(s, n), number |-> Figure(s, n)]
<1> DEFINE Here(x) == Cardinality({y \in Parts(s) : y <= x}) = n + 1
           i == CHOOSE x \in Parts(s) : Here(x)
           d == find_next_numeric(s, i)
<1>1. CASE Over(s, n)
  <2>1. /\ Begin(s, n) \in 1..Len(s) + 1 /\ Len(s) \in Nat
        /\ Place(s, n) \in Begin(s, n)..Len(s) + 1 /\ Begin(s, n) > Len(s)
    BY <1>1, BeginIs
  <2>2. Begin(s, n) = Len(s) + 1 /\ Place(s, n) - 1 = Len(s)
    BY <2>1
  <2>3. Other(s, n) = << >>
    <3>1. SubSeq(s, Len(s) + 1, Len(s)) = << >>
      BY <2>1
    <3> QED BY <2>2, <3>1 DEF Other
  <2>4. Figure(s, n) = 0
    BY <1>1 DEF Figure
  <2>5. n + 1 > Cardinality(Parts(s))
    BY <1>1, PartsAll
  <2> QED BY <2>3, <2>4, <2>5 DEF PartOf
<1>2. CASE ~Over(s, n)
  <2>1. ~(n + 1 > Cardinality(Parts(s)))
    BY <1>2, PartsAll
  <2>2. Begin(s, n) \in Parts(s) /\ Here(Begin(s, n))
    BY <1>2, PartsAre, PartsUntil
  <2>3. ASSUME NEW x \in Parts(s), Here(x) PROVE x = Begin(s, n)
    <3>1. PICK m \in Nat : x = Begin(s, m) /\ ~Over(s, m)
      BY PartsAre
    <3>2. Cardinality({y \in Parts(s) : y <= Begin(s, m)}) = m + 1
      BY <3>1, PartsUntil
    <3>3. m = n
      BY <2>3, <3>1, <3>2
    <3> QED BY <3>1, <3>3
  <2>4. i = Begin(s, n)
    <3> HIDE DEF Here
    <3> QED BY <2>2, <2>3
  <2>5. d = Place(s, n)
    BY <2>4, BeginIs
  <2>6. PartOf(s, n + 1) = [other |-> SubSeq(s, i, d - 1), number |-> Number(s, d, 10)]
    BY <2>1 DEF PartOf
  <2> HIDE DEF i, d
  <2> QED BY <1>2, <2>4, <2>5, <2>6 DEF Other, Figure
<1> QED BY <1>1, <1>2

\* The characters of a part, and their ranks
LEMMA OtherIs ==
  ASSUME NEW s \in Framed, NEW n \in Nat
  PROVE  /\ Other(s, n) \in Seq(Known \ Digit)
         /\ ToSet(Other(s, n)) \subseteq ToSet(s)
         /\ Over(s, n) => Other(s, n) = << >>
         /\ n # 0 /\ ~Over(s, n) => Other(s, n) # << >>
         /\ n = 0 => Other(s, n) = << >>
         /\ \A k \in Nat : PartRanks(s, Begin(s, n))[k] =
              IF k + 1 > Len(Other(s, n)) THEN 0 ELSE Rank(Other(s, n)[k + 1])
<1> DEFINE b == Begin(s, n)
           p == Place(s, n)
           o == Other(s, n)
<1>1. /\ s \in Seq(Known) /\ Len(s) \in Nat /\ DOMAIN s = 1..Len(s)
  BY DEF Framed
<1>2. /\ b \in 1..Len(s) + 1 /\ p \in b..Len(s) + 1
      /\ \A k \in b..p - 1 : k \in 1..Len(s) /\ s[k] \in NonDigit
      /\ Over(s, n) <=> b > Len(s)
      /\ ~Over(s, n) => s[p] \in Digit
      /\ n = 0 => b = 1 /\ p = 1
      /\ n # 0 /\ ~Over(s, n) => b < p
  BY BeginIs
<1>3. o = SubSeq(s, b, p - 1)
  BY DEF Other
<1>4. p > Len(s) <=> Over(s, n)
  BY DEF Over
<1>5. NonDigit \subseteq Known \ Digit
  BY DEF NonDigit, Known
<1> HIDE DEF b, p, o
<1>6. /\ Len(o) = p - b /\ Len(o) \in Nat
      /\ \A k \in 1..Len(o) : o[k] = s[b + k - 1]
      /\ o \in Seq(Known) /\ DOMAIN o = 1..Len(o)
  BY <1>1, <1>2, <1>3
<1>7. \A k \in 1..Len(o) : o[k] \in Known \ Digit /\ o[k] \in ToSet(s)
  <2> SUFFICES ASSUME NEW k \in 1..Len(o) PROVE o[k] \in Known \ Digit /\ o[k] \in ToSet(s)
    OBVIOUS
  <2>1. b + k - 1 \in b..p - 1
    BY <1>1, <1>2, <1>6
  <2>2. b + k - 1 \in 1..Len(s) /\ s[b + k - 1] \in NonDigit
    BY <1>2, <2>1
  <2> QED BY <1>1, <1>5, <1>6, <2>2 DEF ToSet
<1>8. o \in Seq(Known \ Digit)
  BY <1>6, <1>7
<1>9. ToSet(o) \subseteq ToSet(s)
  BY <1>6, <1>7 DEF ToSet
<1>10. /\ Over(s, n) => o = << >>
       /\ n # 0 /\ ~Over(s, n) => o # << >>
       /\ n = 0 => o = << >>
  BY <1>1, <1>2, <1>6
<1>11. ASSUME NEW k \in Nat
       PROVE  PartRanks(s, b)[k] = IF k + 1 > Len(o) THEN 0 ELSE Rank(o[k + 1])
  <2>1. /\ (\E m \in 0..k : IsEnd(s, b + m)) => PartRanks(s, b)[k] = 0
        /\ (\A m \in 0..k : ~IsEnd(s, b + m)) => PartRanks(s, b)[k] = Rank(s[b + k])
    BY <1>1, <1>2, PartRanksAre
  <2>2. CASE k + 1 > Len(o)
    <3>1. p - b \in 0..k /\ b + (p - b) = p
      BY <1>1, <1>2, <1>6, <2>2
    <3>2. IsEnd(s, b + (p - b))
      BY <1>2, <1>4, <3>1 DEF IsEnd
    <3> QED BY <2>1, <2>2, <3>1, <3>2
  <2>3. CASE ~(k + 1 > Len(o))
    <3>1. ASSUME NEW m \in 0..k PROVE ~IsEnd(s, b + m)
      <4>1. b + m \in b..p - 1
        BY <1>1, <1>2, <1>6, <2>3
      <4>2. b + m \in 1..Len(s) /\ s[b + m] \in NonDigit
        BY <1>2, <4>1
      <4> QED BY <1>1, <4>2 DEF IsEnd, NonDigit
    <3>2. k + 1 \in 1..Len(o) /\ b + (k + 1) - 1 = b + k
      BY <1>2, <1>6, <2>3
    <3>3. o[k + 1] = s[b + k]
      BY <1>6, <3>2
    <3> QED BY <2>1, <2>3, <3>1, <3>3
  <2> QED BY <2>2, <2>3
<1> QED BY <1>8, <1>9, <1>10, <1>11 DEF b, p, o

-----------------------------------------------------------------------------
(* The order of the parts, by the code and by Debian                       *)

\* Characters that may be compared: letters, or none, and "~"
Together(C) == C \cap Alpha = {} \/ C \subseteq Alpha \cup {"~"}

\* The two rank them alike, and against the end, too.
LEMMA RanksAgree ==
  ASSUME NEW c \in Known, NEW d \in Known, Together({c, d})
  PROVE  /\ Rank(c) \in Int /\ DebianRank(c) \in Int /\ Rank(c) # 0
         /\ Rank(c) < Rank(d) <=> DebianRank(c) < DebianRank(d)
         /\ Rank(c) < 0 <=> DebianRank(c) < 0
         /\ Rank(c) > 0 <=> DebianRank(c) > 0
         /\ DebianRank(c) # 0
         /\ Rank(c) = Rank(d) => c = d
<1>1. Len(Ascii) = 24
  BY DEF Ascii
<1>2. /\ Code(c) \in 1..24 /\ Code(d) \in 1..24
      /\ Code(c) = Code(d) => c = d
  BY <1>1, CodeIs
<1>3. "~" \notin Alpha
  BY DEF Alpha
<1>4. \/ c \notin Alpha /\ d \notin Alpha
      \/ (c \in Alpha \/ c = "~") /\ (d \in Alpha \/ d = "~")
  BY DEF Together
<1> QED BY <1>1, <1>2, <1>3, <1>4 DEF Rank, DebianRank

\* f gives the ranks of the characters of p, and behind them that of the end.
Ranks(f, p) == \A k \in Nat : f[k] = IF k + 1 > Len(p) THEN 0 ELSE Rank(p[k + 1])

\* The characters of a part
LEMMA PartChars ==
  ASSUME NEW p \in Seq(Known)
  PROVE  /\ Len(p) \in Nat
         /\ \A k \in 1..Len(p) : p[k] \in Known /\ p[k] \in ToSet(p)
<1>1. Len(p) \in Nat /\ DOMAIN p = 1..Len(p) /\ \A k \in 1..Len(p) : p[k] \in Known
  OBVIOUS
<1> QED BY <1>1 DEF ToSet

\* What the ranks in place k say
RankedAlike(f, p, g, q, k) ==
  /\ f[k] \in Int /\ g[k] \in Int
  /\ f[k] = 0 <=> k + 1 > Len(p)
  /\ g[k] = 0 <=> k + 1 > Len(q)
  /\ f[k] < g[k] <=> RankAt(p, k + 1) < RankAt(q, k + 1)
  /\ f[k] = g[k] <=> RankAt(p, k + 1) = RankAt(q, k + 1)
  /\ f[k] = g[k] /\ k + 1 <= Len(p) => k + 1 <= Len(q) /\ p[k + 1] = q[k + 1]

\* Place by place the ranks are ordered as Debian's are, and are the same where the
\* characters are.
LEMMA PlacesAgree ==
  ASSUME NEW p \in Seq(Known), NEW q \in Seq(Known), Together(ToSet(p) \cup ToSet(q)),
         NEW f, Ranks(f, p), NEW g, Ranks(g, q), NEW k \in Nat
  PROVE  RankedAlike(f, p, g, q, k)
<1> DEFINE x == p[k + 1]
           y == q[k + 1]
           P == k + 1 <= Len(p)
           Q == k + 1 <= Len(q)
<1>1. Len(p) \in Nat /\ Len(q) \in Nat
  OBVIOUS
<1>2. P => x \in Known /\ x \in ToSet(p)
  <2>1. P => k + 1 \in 1..Len(p)
    BY <1>1
  <2> QED BY <2>1, PartChars
<1>3. Q => y \in Known /\ y \in ToSet(q)
  <2>1. Q => k + 1 \in 1..Len(q)
    BY <1>1
  <2> QED BY <2>1, PartChars
<1>4. (k + 1 > Len(p) <=> ~P) /\ (k + 1 > Len(q) <=> ~Q)
  <2>1. k + 1 \in Int
    OBVIOUS
  <2> QED BY <1>1, <2>1
<1>5. f[k] = (IF P THEN Rank(x) ELSE 0) /\ g[k] = (IF Q THEN Rank(y) ELSE 0)
  BY <1>4 DEF Ranks
<1>6. /\ RankAt(p, k + 1) = (IF P THEN DebianRank(x) ELSE 0)
      /\ RankAt(q, k + 1) = (IF Q THEN DebianRank(y) ELSE 0)
  BY <1>4 DEF RankAt
<1>7. /\ x \in ToSet(p) => Together({x, x})
      /\ y \in ToSet(q) => Together({y, y})
      /\ x \in ToSet(p) /\ y \in ToSet(q) => Together({x, y}) /\ Together({y, x})
  BY DEF Together
<1> DEFINE F == f[k]
           G == g[k]
           A == RankAt(p, k + 1)
           B == RankAt(q, k + 1)
<1> HIDE DEF x, y, P, Q
<1>8. P => /\ Rank(x) \in Int /\ DebianRank(x) \in Int /\ Rank(x) # 0 /\ DebianRank(x) # 0
           /\ Rank(x) < 0 <=> DebianRank(x) < 0
           /\ Rank(x) > 0 <=> DebianRank(x) > 0
  BY <1>2, <1>7, RanksAgree
<1>9. Q => /\ Rank(y) \in Int /\ DebianRank(y) \in Int /\ Rank(y) # 0 /\ DebianRank(y) # 0
           /\ Rank(y) < 0 <=> DebianRank(y) < 0
           /\ Rank(y) > 0 <=> DebianRank(y) > 0
  BY <1>3, <1>7, RanksAgree
<1>10. P /\ Q => /\ Rank(x) < Rank(y) <=> DebianRank(x) < DebianRank(y)
                 /\ Rank(y) < Rank(x) <=> DebianRank(y) < DebianRank(x)
                 /\ Rank(x) = Rank(y) => x = y
  BY <1>2, <1>3, <1>7, RanksAgree
<1>11. F = (IF P THEN Rank(x) ELSE 0) /\ G = (IF Q THEN Rank(y) ELSE 0)
  BY <1>5
<1>12. A = (IF P THEN DebianRank(x) ELSE 0) /\ B = (IF Q THEN DebianRank(y) ELSE 0)
  BY <1>6
<1> HIDE DEF F, G, A, B
<1>13. F \in Int /\ G \in Int /\ A \in Int /\ B \in Int /\ (F = 0 <=> ~P) /\ (G = 0 <=> ~Q)
  BY <1>8, <1>9, <1>11, <1>12
<1>14. (F < G <=> A < B) /\ (G < F <=> B < A)
  BY <1>8, <1>9, <1>10, <1>11, <1>12
<1>15. F = G <=> A = B
  BY <1>13, <1>14
<1>16. F = G /\ P => Q /\ x = y
  BY <1>8, <1>10, <1>11, <1>13
<1>17. /\ F \in Int /\ G \in Int
       /\ F = 0 <=> k + 1 > Len(p)
       /\ G = 0 <=> k + 1 > Len(q)
  BY <1>4, <1>13
<1> QED BY <1>14, <1>15, <1>16, <1>17 DEF F, G, A, B, P, Q, x, y, RankedAlike

\* compare_substring finds no difference between equal parts, and one part before
\* another where Debian does.
LEMMA PartSays ==
  ASSUME NEW p \in Seq(Known), NEW q \in Seq(Known), Together(ToSet(p) \cup ToSet(q)),
         NEW f, Ranks(f, p), NEW g, Ranks(g, q), NEW d, FirstDifference(d, f, g)
  PROVE  /\ d \in Int
         /\ d = 0 <=> p = q
         /\ d < 0 <=> PartBefore(p, q)
<1>1. Len(p) \in Nat /\ Len(q) \in Nat
  OBVIOUS
<1> DEFINE m == Len(p)
           n == Len(q)
<1>2. ASSUME NEW k \in Nat
      PROVE  /\ f[k] \in Int /\ g[k] \in Int
             /\ f[k] = 0 <=> k + 1 > m
             /\ g[k] = 0 <=> k + 1 > n
             /\ f[k] < g[k] <=> RankAt(p, k + 1) < RankAt(q, k + 1)
             /\ f[k] = g[k] <=> RankAt(p, k + 1) = RankAt(q, k + 1)
             /\ f[k] = g[k] /\ k + 1 <= m => k + 1 <= n /\ p[k + 1] = q[k + 1]
  <2>1. RankedAlike(f, p, g, q, k)
    BY PlacesAgree
  <2> QED BY <2>1 DEF RankedAlike
<1>3. m \in Nat /\ n \in Nat
  BY <1>1
<1> HIDE DEF m, n
<1>4. CASE d = 0 /\ \A k \in Nat : f[k] = g[k]
  <2>1. m = n
    <3>1. f[m] = 0 /\ g[n] = 0
      <4>1. m + 1 > m /\ n + 1 > n
        BY <1>3
      <4> QED BY <1>2, <1>3, <4>1
    <3>2. g[m] = 0 /\ f[n] = 0
      BY <1>3, <1>4, <3>1
    <3>3. m + 1 > n /\ n + 1 > m
      BY <1>2, <1>3, <3>2
    <3> QED BY <1>3, <3>3
  <2>2. p = q
    <3>1. ASSUME NEW i \in 1..m PROVE p[i] = q[i]
      <4>1. i - 1 \in Nat /\ (i - 1) + 1 = i /\ i <= m
        BY <1>3
      <4>2. f[i - 1] = g[i - 1]
        BY <1>4, <4>1
      <4>3. p[(i - 1) + 1] = q[(i - 1) + 1]
        BY <1>2, <4>1, <4>2
      <4> QED BY <4>1, <4>3
    <3> QED BY <2>1, <3>1 DEF m, n
  <2>3. ~PartBefore(p, q)
    <3> SUFFICES ASSUME NEW i \in 1..m + n, RankAt(p, i) < RankAt(q, i) PROVE FALSE
      BY DEF PartBefore, m, n
    <3>1. i - 1 \in Nat /\ (i - 1) + 1 = i
      BY <1>3
    <3> DEFINE j == i - 1
    <3> HIDE DEF j
    <3>2. j \in Nat /\ RankAt(p, j + 1) < RankAt(q, j + 1)
      BY <3>1 DEF j
    <3>3. f[j] < g[j] /\ f[j] \in Int /\ f[j] = g[j]
      BY <1>2, <1>4, <3>2
    <3> QED BY <3>3
  <2> QED BY <1>4, <2>2, <2>3
<1>5. ASSUME NEW k \in Nat, d = Compared(f[k], g[k]), d # 0, \A i \in 0..k - 1 : f[i] = g[i]
      PROVE  /\ d \in Int
             /\ d = 0 <=> p = q
             /\ d < 0 <=> PartBefore(p, q)
  <2> DEFINE F == f[k]
             G == g[k]
  <2>1. F \in Int /\ G \in Int /\ d = Compared(F, G) /\ d # 0
    BY <1>2, <1>5
  <2>2. /\ F = 0 <=> k + 1 > m
        /\ G = 0 <=> k + 1 > n
        /\ F < G <=> RankAt(p, k + 1) < RankAt(q, k + 1)
        /\ F = G <=> RankAt(p, k + 1) = RankAt(q, k + 1)
    BY <1>2
  <2>3. p = q => F = G
    <3>1. p = q => RankAt(p, k + 1) = RankAt(q, k + 1)
      OBVIOUS
    <3> QED BY <2>2, <3>1
  <2> HIDE DEF F, G
  <2>4. d \in Int /\ (d < 0 <=> F < G) /\ F # G
    BY <2>1 DEF Compared
  <2>5. F < G => PartBefore(p, q)
    <3> SUFFICES ASSUME F < G PROVE PartBefore(p, q)
      OBVIOUS
    <3>1. RankAt(p, k + 1) < RankAt(q, k + 1)
      BY <2>2
    <3>2. k + 1 \in 1..m + n
      <4>1. ~(k + 1 > m /\ k + 1 > n)
        BY <2>2, <2>4
      <4> QED BY <1>3, <4>1
    <3>3. ASSUME NEW i \in 1..(k + 1) - 1 PROVE RankAt(p, i) = RankAt(q, i)
      <4>1. i - 1 \in Nat /\ i - 1 \in 0..k - 1 /\ (i - 1) + 1 = i
        OBVIOUS
      <4>2. f[i - 1] = g[i - 1]
        BY <1>5, <4>1
      <4>3. RankAt(p, (i - 1) + 1) = RankAt(q, (i - 1) + 1)
        BY <1>2, <4>1, <4>2
      <4> QED BY <4>1, <4>3
    <3> QED BY <3>1, <3>2, <3>3 DEF PartBefore, m, n
  <2>6. PartBefore(p, q) => F < G
    <3> SUFFICES ASSUME NEW i \in 1..m + n, RankAt(p, i) < RankAt(q, i),
                        \A l \in 1..i - 1 : RankAt(p, l) = RankAt(q, l)
                 PROVE  F < G
      BY DEF PartBefore, m, n
    <3> DEFINE j == i - 1
    <3>1. j \in Nat /\ j + 1 = i
      BY <1>3
    <3> HIDE DEF j
    <3>2. f[j] < g[j] /\ f[j] \in Int
      BY <1>2, <3>1
    <3>3. ~(j < k)
      <4> SUFFICES ASSUME j < k PROVE FALSE
        OBVIOUS
      <4>1. j \in 0..k - 1
        BY <3>1
      <4>2. f[j] = g[j]
        BY <1>5, <4>1
      <4> QED BY <3>2, <4>2
    <3>4. ~(j > k)
      <4> SUFFICES ASSUME j > k PROVE FALSE
        OBVIOUS
      <4>1. k + 1 \in 1..i - 1
        BY <3>1
      <4> QED BY <2>2, <2>4, <4>1
    <3>5. j = k
      BY <3>1, <3>3, <3>4
    <3> QED BY <3>2, <3>5 DEF F, G
  <2> QED BY <2>1, <2>3, <2>4, <2>5, <2>6
<1> QED BY <1>4, <1>5 DEF FirstDifference

-----------------------------------------------------------------------------
(* The order of strings of the usual form                                  *)

\* Strings of which Debian's order is the code's
Usual(s, t) ==
  /\ {s, t} \subseteq Framed
  /\ RegularString(s) /\ RegularString(t)
  /\ Unmixed(s, t)

\* A round reads the number of its part.
LEMMA FigureIs ==
  ASSUME NEW s \in Framed, RegularString(s), NEW n \in Nat
  PROVE  /\ Figure(s, n) \in Nat
         /\ Over(s, n) => Figure(s, n) = 0
         /\ ~Over(s, n) => scan(s, Place(s, n)) = Figure(s, n)
<1>1. CASE Over(s, n)
  BY <1>1 DEF Figure
<1>2. CASE ~Over(s, n)
  <2> DEFINE b == Begin(s, n)
             p == Place(s, n)
  <2>1. /\ Len(s) \in Nat /\ b \in 1..Len(s) + 1 /\ p \in b..Len(s) + 1
        /\ \A k \in b..p - 1 : k \in 1..Len(s) /\ s[k] \in NonDigit
        /\ s[p] \in Digit
        /\ n = 0 => p = 1
        /\ n # 0 => b < p
    BY <1>2, BeginIs
  <2>2. s \in Seq(Known) /\ ~(p > Len(s))
    BY <1>2 DEF Framed, Over
  <2> HIDE DEF b, p
  <2>3. p \in 1..Len(s)
    BY <2>1, <2>2
  <2>4. p = 1 \/ s[p - 1] \notin Digit
    <3>1. n # 0 => p - 1 \in b..p - 1
      BY <2>1
    <3>2. n # 0 => s[p - 1] \in NonDigit
      BY <2>1, <3>1
    <3> QED BY <2>1, <3>2 DEF NonDigit
  <2>5. scan(s, p) = Number(s, p, 10) /\ scan(s, p) \in Nat
    BY <2>1, <2>2, <2>3, <2>4, ScanIs
  <2> QED BY <1>2, <2>5 DEF Figure, p
<1> QED BY <1>1, <1>2

\* What the code says of the other parts and of the numbers of the n-th parts
OtherSays(s, t, n) == compare_substring(s, Begin(s, n), t, Begin(t, n))
FigureSays(s, t, n) == Compared(Figure(s, n), Figure(t, n))
PartsSay(s, t, n) == OrElse(OtherSays(s, t, n), FigureSays(s, t, n))

\* It compares the other parts as Debian does.
LEMMA OtherSaysIs ==
  ASSUME NEW s, NEW t, Usual(s, t), NEW n \in Nat
  PROVE  /\ OtherSays(s, t, n) \in Int
         /\ OtherSays(s, t, n) = 0 <=> Other(s, n) = Other(t, n)
         /\ OtherSays(s, t, n) < 0 <=> PartBefore(Other(s, n), Other(t, n))
<1> DEFINE p == Other(s, n)
           q == Other(t, n)
           f == PartRanks(s, Begin(s, n))
           g == PartRanks(t, Begin(t, n))
           d == OtherSays(s, t, n)
<1>1. s \in Framed /\ t \in Framed /\ s \in Seq(Known) /\ t \in Seq(Known)
  BY DEF Usual, Framed
<1>2. Begin(s, n) \in 1..Len(s) + 1
  BY <1>1, BeginIs
<1>3. Begin(t, n) \in 1..Len(t) + 1
  BY <1>1, BeginIs
<1>4. FirstDifference(d, f, g)
  BY <1>1, <1>2, <1>3, SubstringFirst DEF OtherSays
<1>5. /\ p \in Seq(Known \ Digit) /\ ToSet(p) \subseteq ToSet(s)
      /\ \A k \in Nat : f[k] = IF k + 1 > Len(p) THEN 0 ELSE Rank(p[k + 1])
  BY <1>1, OtherIs
<1>6. /\ q \in Seq(Known \ Digit) /\ ToSet(q) \subseteq ToSet(t)
      /\ \A k \in Nat : g[k] = IF k + 1 > Len(q) THEN 0 ELSE Rank(q[k + 1])
  BY <1>1, OtherIs
<1> HIDE DEF p, q, f, g, d
<1>7. Ranks(f, p) /\ Ranks(g, q)
  BY <1>5, <1>6 DEF Ranks
<1>8. p \in Seq(Known) /\ q \in Seq(Known)
  <2>1. \A r \in Seq(Known \ Digit) : r \in Seq(Known)
    OBVIOUS
  <2> QED BY <1>5, <1>6, <2>1
<1>9. ToSet(p) \cap Digit = {} /\ ToSet(q) \cap Digit = {}
  <2>1. DOMAIN p = 1..Len(p) /\ \A k \in 1..Len(p) : p[k] \notin Digit
    BY <1>5
  <2>2. DOMAIN q = 1..Len(q) /\ \A k \in 1..Len(q) : q[k] \notin Digit
    BY <1>6
  <2> QED BY <2>1, <2>2 DEF ToSet
<1>10. Together(ToSet(p) \cup ToSet(q))
  <2>1. Unmixed(s, t)
    BY DEF Usual
  <2> HIDE DEF Usual
  <2> QED BY <1>5, <1>6, <1>9, <2>1 DEF Unmixed, Together
<1>11. d \in Int /\ (d = 0 <=> p = q) /\ (d < 0 <=> PartBefore(p, q))
  BY <1>4, <1>7, <1>8, <1>10, PartSays
<1> QED BY <1>11 DEF p, q, d

\* It compares the parts as Debian does.
LEMMA PartsSayIs ==
  ASSUME NEW s, NEW t, Usual(s, t), NEW n \in Nat
  PROVE  LET p == PartOf(s, n + 1)
             q == PartOf(t, n + 1)
         IN /\ PartsSay(s, t, n) \in Int
            /\ PartsSay(s, t, n) = 0 <=> p = q
            /\ PartsSay(s, t, n) < 0 <=>
                 PartBefore(p.other, q.other) \/ (p.other = q.other /\ p.number < q.number)
<1> DEFINE a == Other(s, n)
           b == Other(t, n)
           k == Figure(s, n)
           l == Figure(t, n)
           d == OtherSays(s, t, n)
<1>1. s \in Framed /\ t \in Framed /\ RegularString(s) /\ RegularString(t)
  BY DEF Usual
<1>2. PartOf(s, n + 1) = [other |-> a, number |-> k]
  BY <1>1, PartIs
<1>3. PartOf(t, n + 1) = [other |-> b, number |-> l]
  BY <1>1, PartIs
<1>4. k \in Nat /\ l \in Nat
  BY <1>1, FigureIs
<1>5. d \in Int /\ (d = 0 <=> a = b) /\ (d < 0 <=> PartBefore(a, b))
  BY OtherSaysIs
<1>6. PartsSay(s, t, n) = OrElse(d, Compared(k, l))
  BY DEF PartsSay, FigureSays
<1> HIDE DEF a, b, k, l, d
<1>7. /\ PartsSay(s, t, n) \in Int
      /\ PartsSay(s, t, n) = 0 <=> a = b /\ k = l
      /\ PartsSay(s, t, n) < 0 <=> PartBefore(a, b) \/ (a = b /\ k < l)
  BY <1>4, <1>5, <1>6 DEF OrElse, Compared
<1> QED BY <1>2, <1>3, <1>7

\* After equal other parts a round compares the numbers and the next other parts.
LEMMA RoundIs ==
  ASSUME NEW s, NEW t, Usual(s, t), NEW n \in Nat, OtherSays(s, t, n) = 0
  PROVE  /\ RoundSays(s, t, n) = OrElse(FigureSays(s, t, n), OtherSays(s, t, n + 1))
         /\ FigureSays(s, t, n) \in Int
<1>1. s \in Framed /\ t \in Framed /\ RegularString(s) /\ RegularString(t)
  BY DEF Usual
<1>2. Other(s, n) = Other(t, n)
  BY OtherSaysIs
<1>3. Over(s, n) <=> Over(t, n)
  <2>1. CASE n = 0
    BY <1>1, <2>1, BeginIs
  <2>2. CASE n # 0
    <3>1. Over(s, n) <=> Other(s, n) = << >>
      BY <1>1, <2>2, OtherIs
    <3>2. Over(t, n) <=> Other(t, n) = << >>
      BY <1>1, <2>2, OtherIs
    <3> QED BY <1>2, <3>1, <3>2
  <2> QED BY <2>1, <2>2
<1>4. Figure(s, n) \in Nat /\ Figure(t, n) \in Nat
  BY <1>1, FigureIs
<1>5. FigureSays(s, t, n) \in Int
  BY <1>4 DEF FigureSays, Compared
<1>6. CASE Over(s, n)
  <2>1. Over(s, n + 1) /\ Over(t, n + 1)
    <3>1. n \in 0..n + 1 /\ n + 1 \in Nat
      OBVIOUS
    <3> QED BY <1>1, <1>3, <1>6, <3>1, OverStays
  <2>2. Other(s, n + 1) = << >> /\ Other(t, n + 1) = << >>
    BY <1>1, <2>1, OtherIs
  <2>3. OtherSays(s, t, n + 1) = 0
    <3>1. n + 1 \in Nat
      OBVIOUS
    <3> QED BY <2>2, <3>1, OtherSaysIs
  <2>4. FigureSays(s, t, n) = 0
    BY <1>1, <1>3, <1>6, FigureIs DEF FigureSays, Compared
  <2>5. RoundSays(s, t, n) = 0
    BY <1>3, <1>6 DEF RoundSays
  <2> QED BY <1>5, <2>3, <2>4, <2>5 DEF OrElse
<1>7. CASE ~Over(s, n)
  <2>1. RoundSays(s, t, n) = Inside(s, Place(s, n), t, Place(t, n))
    BY <1>3, <1>7 DEF RoundSays
  <2>2. /\ scan(s, Place(s, n)) = Figure(s, n)
        /\ scan(t, Place(t, n)) = Figure(t, n)
    BY <1>1, <1>3, <1>7, FigureIs
  <2>3. /\ Begin(s, n + 1) = find_next_nonnumeric(s, Place(s, n))
        /\ Begin(t, n + 1) = find_next_nonnumeric(t, Place(t, n))
    BY <1>1, BeginIs
  <2> QED BY <1>5, <2>1, <2>2, <2>3 DEF Inside, FigureSays, OtherSays
<1> QED BY <1>6, <1>7

\* When no round before finds a difference, no part has one, up to the next other part.
LEMMA RoundsSame ==
  ASSUME NEW s, NEW t, Usual(s, t), NEW n \in Nat, \A m \in 0..n - 1 : RoundSays(s, t, m) = 0
  PROVE  /\ OtherSays(s, t, n) = 0
         /\ \A m \in 0..n - 1 : PartsSay(s, t, m) = 0
<1> DEFINE S == {k \in Nat : k <= n => /\ OtherSays(s, t, k) = 0
                                       /\ \A m \in 0..k - 1 : PartsSay(s, t, m) = 0}
<1>1. 0 \in S
  <2>1. s \in Framed /\ t \in Framed /\ 0 \in Nat
    BY DEF Usual
  <2>2. Other(s, 0) = << >> /\ Other(t, 0) = << >>
    BY <2>1, OtherIs
  <2>3. OtherSays(s, t, 0) = 0
    BY <2>1, <2>2, OtherSaysIs
  <2> QED BY <2>3
<1>2. ASSUME NEW k \in Nat, k \in S PROVE k + 1 \in S
  <2> SUFFICES ASSUME k + 1 <= n
               PROVE  /\ OtherSays(s, t, k + 1) = 0
                      /\ \A m \in 0..(k + 1) - 1 : PartsSay(s, t, m) = 0
    OBVIOUS
  <2>1. OtherSays(s, t, k) = 0 /\ \A m \in 0..k - 1 : PartsSay(s, t, m) = 0
    BY <1>2
  <2>2. RoundSays(s, t, k) = 0
    <3>1. k \in 0..n - 1
      OBVIOUS
    <3> QED BY <3>1
  <2>3. /\ RoundSays(s, t, k) = OrElse(FigureSays(s, t, k), OtherSays(s, t, k + 1))
        /\ FigureSays(s, t, k) \in Int
    BY <2>1, RoundIs
  <2>4. FigureSays(s, t, k) = 0 /\ OtherSays(s, t, k + 1) = 0
    BY <2>2, <2>3 DEF OrElse
  <2>5. PartsSay(s, t, k) = 0
    BY <2>1, <2>4 DEF PartsSay, OrElse
  <2>6. \A m \in 0..(k + 1) - 1 : m = k \/ m \in 0..k - 1
    OBVIOUS
  <2> QED BY <2>1, <2>4, <2>5, <2>6
<1>3. \A k \in Nat : k \in S
  <2> HIDE DEF S
  <2> QED BY <1>1, <1>2, Induction
<1> QED BY <1>3

\* compare_version_string says what it says of the first parts that differ.
LEMMA StringParts ==
  ASSUME NEW s, NEW t, Usual(s, t)
  PROVE  \/ compare_version_string(s, t) = 0 /\ \A n \in Nat : PartsSay(s, t, n) = 0
         \/ \E n \in Nat : /\ compare_version_string(s, t) = PartsSay(s, t, n)
                           /\ PartsSay(s, t, n) # 0
                           /\ \A m \in 0..n - 1 : PartsSay(s, t, m) = 0
<1> DEFINE d == compare_version_string(s, t)
<1>1. s \in Text /\ t \in Text
  BY DEF Usual, Framed, Text
<1>2. \/ d = 0 /\ \A n \in Nat : RoundSays(s, t, n) = 0
      \/ \E n \in Nat : /\ d = RoundSays(s, t, n) /\ RoundSays(s, t, n) # 0
                        /\ \A m \in 0..n - 1 : RoundSays(s, t, m) = 0
  BY <1>1, StringFirst
<1> HIDE DEF d
<1>3. CASE d = 0 /\ \A n \in Nat : RoundSays(s, t, n) = 0
  <2>1. ASSUME NEW n \in Nat PROVE PartsSay(s, t, n) = 0
    <3>1. n + 1 \in Nat /\ n \in 0..(n + 1) - 1
      OBVIOUS
    <3>2. \A m \in 0..(n + 1) - 1 : RoundSays(s, t, m) = 0
      BY <1>3
    <3>3. \A m \in 0..(n + 1) - 1 : PartsSay(s, t, m) = 0
      BY <3>1, <3>2, RoundsSame
    <3> QED BY <3>1, <3>3
  <2> QED BY <1>3, <2>1 DEF d
<1>4. ASSUME NEW n \in Nat, d = RoundSays(s, t, n), RoundSays(s, t, n) # 0,
             \A m \in 0..n - 1 : RoundSays(s, t, m) = 0
      PROVE  \E k \in Nat : /\ d = PartsSay(s, t, k) /\ PartsSay(s, t, k) # 0
                            /\ \A m \in 0..k - 1 : PartsSay(s, t, m) = 0
  <2>1. OtherSays(s, t, n) = 0 /\ \A m \in 0..n - 1 : PartsSay(s, t, m) = 0
    BY <1>4, RoundsSame
  <2>2. /\ RoundSays(s, t, n) = OrElse(FigureSays(s, t, n), OtherSays(s, t, n + 1))
        /\ FigureSays(s, t, n) \in Int
    BY <2>1, RoundIs
  <2>3. PartsSay(s, t, n) = FigureSays(s, t, n)
    BY <2>1 DEF PartsSay, OrElse
  <2>4. CASE FigureSays(s, t, n) # 0
    <3>1. d = PartsSay(s, t, n) /\ PartsSay(s, t, n) # 0
      BY <1>4, <2>2, <2>3, <2>4 DEF OrElse
    <3> QED BY <2>1, <3>1
  <2>5. CASE FigureSays(s, t, n) = 0
    <3>1. d = OtherSays(s, t, n + 1) /\ d # 0
      BY <1>4, <2>2, <2>5 DEF OrElse
    <3>2. d = PartsSay(s, t, n + 1)
      BY <3>1 DEF PartsSay, OrElse
    <3>3. \A m \in 0..(n + 1) - 1 : m = n \/ m \in 0..n - 1
      OBVIOUS
    <3>4. \A m \in 0..(n + 1) - 1 : PartsSay(s, t, m) = 0
      BY <2>1, <2>3, <2>5, <3>3
    <3>5. n + 1 \in Nat
      OBVIOUS
    <3> QED BY <3>1, <3>2, <3>4, <3>5
  <2> QED BY <2>4, <2>5
<1> QED BY <1>2, <1>3, <1>4 DEF d

\* Strings of the usual form are in Debian's order.
LEMMA StringIs ==
  ASSUME NEW s, NEW t, Usual(s, t)
  PROVE  compare_version_string(s, t) < 0 <=> DebianBefore(s, t)
<1> DEFINE d == compare_version_string(s, t)
           p(n) == PartOf(s, n)
           q(n) == PartOf(t, n)
           B(n) == PartBefore(p(n).other, q(n).other)
                     \/ (p(n).other = q(n).other /\ p(n).number < q(n).number)
           N == Len(s) + Len(t) + 1
<1>1. DebianBefore(s, t) <=> \E n \in 1..N : B(n) /\ \A m \in 1..n - 1 : p(m) = q(m)
  BY DEF DebianBefore
<1>2. ASSUME NEW n \in Nat
      PROVE  /\ PartsSay(s, t, n) \in Int
             /\ PartsSay(s, t, n) = 0 <=> p(n + 1) = q(n + 1)
             /\ PartsSay(s, t, n) < 0 <=> B(n + 1)
  BY PartsSayIs
<1>3. s \in Framed /\ t \in Framed /\ s \in Seq(Known) /\ t \in Seq(Known)
  BY DEF Usual, Framed
<1>4. Len(s) \in Nat /\ Len(t) \in Nat /\ N \in Nat
  BY <1>3
<1>5. ASSUME NEW n \in Nat, n + 1 > N PROVE PartsSay(s, t, n) = 0
  <2>1. Over(s, n) /\ Over(t, n)
    <3>1. Place(s, Len(s)) > Len(s) /\ Place(t, Len(t)) > Len(t)
      BY <1>3, PlaceEnds
    <3>2. n >= Len(s) /\ n >= Len(t)
      BY <1>4, <1>5
    <3>3. Place(s, n) > Len(s) /\ Place(t, n) > Len(t)
      BY <1>3, <1>4, <3>1, <3>2, PlaceStays
    <3> QED BY <3>3 DEF Over
  <2>2. Other(s, n) = << >> /\ Other(t, n) = << >>
    BY <1>3, <2>1, OtherIs
  <2>3. p(n + 1) = q(n + 1)
    BY <1>3, <2>1, <2>2, PartIs DEF Figure
  <2> QED BY <1>2, <2>3
<1> HIDE DEF d, p, q, B, N
<1>6. CASE d = 0 /\ \A n \in Nat : PartsSay(s, t, n) = 0
  <2>1. ASSUME NEW n \in 1..N PROVE ~B(n)
    <3>1. n - 1 \in Nat /\ (n - 1) + 1 = n
      BY <1>4
    <3>2. PartsSay(s, t, n - 1) = 0
      BY <1>6, <3>1
    <3>3. ~(PartsSay(s, t, n - 1) < 0)
      BY <3>2
    <3>4. ~B((n - 1) + 1)
      BY <1>2, <3>1, <3>3
    <3> QED BY <3>1, <3>4
  <2> QED BY <1>1, <1>6, <2>1 DEF d
<1>7. ASSUME NEW n \in Nat, d = PartsSay(s, t, n), PartsSay(s, t, n) # 0,
             \A m \in 0..n - 1 : PartsSay(s, t, m) = 0
      PROVE  d < 0 <=> DebianBefore(s, t)
  <2>1. ASSUME d < 0 PROVE DebianBefore(s, t)
    <3>1. B(n + 1)
      BY <1>2, <1>7, <2>1
    <3>2. n + 1 \in 1..N
      BY <1>4, <1>5, <1>7
    <3>3. ASSUME NEW m \in 1..(n + 1) - 1 PROVE p(m) = q(m)
      <4>1. m - 1 \in 0..n - 1 /\ m - 1 \in Nat /\ (m - 1) + 1 = m
        OBVIOUS
      <4>2. PartsSay(s, t, m - 1) = 0
        BY <1>7, <4>1
      <4>3. p((m - 1) + 1) = q((m - 1) + 1)
        BY <1>2, <4>1, <4>2
      <4> QED BY <4>1, <4>3
    <3> QED BY <1>1, <3>1, <3>2, <3>3
  <2>2. ASSUME DebianBefore(s, t) PROVE d < 0
    <3>1. PICK k \in 1..N : B(k) /\ \A m \in 1..k - 1 : p(m) = q(m)
      BY <1>1, <2>2
    <3> DEFINE j == k - 1
    <3>2. j \in Nat /\ j + 1 = k
      BY <1>4
    <3> HIDE DEF j
    <3>3. PartsSay(s, t, j) < 0 /\ PartsSay(s, t, j) \in Int
      BY <1>2, <3>1, <3>2
    <3>4. ~(j < n)
      <4> SUFFICES ASSUME j < n PROVE FALSE
        OBVIOUS
      <4>1. j \in 0..n - 1
        BY <3>2
      <4>2. PartsSay(s, t, j) = 0
        BY <1>7, <4>1
      <4> QED BY <3>3, <4>2
    <3>5. ~(j > n)
      <4> SUFFICES ASSUME j > n PROVE FALSE
        OBVIOUS
      <4>1. n + 1 \in 1..k - 1
        BY <3>2
      <4>2. p(n + 1) = q(n + 1)
        BY <3>1, <4>1
      <4> QED BY <1>2, <1>7, <4>2
    <3>6. j = n
      BY <3>2, <3>4, <3>5
    <3> QED BY <1>7, <3>3, <3>6
  <2> QED BY <2>1, <2>2
<1> QED BY <1>6, <1>7, StringParts DEF d

-----------------------------------------------------------------------------
(* The order of versions of the usual form                                 *)

\* The epoch of a version is a string of what is written, or "0".
LEMMA EpochType ==
  ASSUME NEW v \in Seq(Char)
  PROVE  LET e == version_decode(v).epoch
         IN Len(e) \in Nat /\ DOMAIN e = 1..Len(e)
<1> DEFINE i == SelectInSeq(v, LAMBDA c : c = ":")
           e == version_decode(v).epoch
<1>1. e = IF i = 0 THEN <<"0">> ELSE SubSeq(v, 1, i - 1)
  BY DEF version_decode
<1>2. i \in 0..Len(v)
  <2> DEFINE I == {k \in 1..Len(v) : v[k] = ":"}
  <2>1. i = IF I = {} THEN 0 ELSE Min(I)
    BY DEF SelectInSeq
  <2>2. I \subseteq 1..Len(v) /\ I \subseteq Nat /\ Len(v) \in Nat
    OBVIOUS
  <2> HIDE DEF I, i
  <2>3. I # {} => Min(I) \in I
    BY <2>2, MinIs
  <2> QED BY <2>1, <2>2, <2>3
<1> HIDE DEF i, e
<1>3. CASE i = 0
  BY <1>1, <1>3 DEF e
<1>4. CASE i # 0
  <2>1. e = SubSeq(v, 1, i - 1) /\ i \in 1..Len(v)
    BY <1>1, <1>2, <1>4
  <2>2. e \in Seq(Char)
    BY <2>1
  <2> QED BY <2>2 DEF e
<1> QED BY <1>3, <1>4

\* Two versions of the usual form: any two of them have numbers as epochs, and
\* strings of the usual form as other parts.
LEMMA RegularIs ==
  ASSUME NEW v \in Seq(Char), NEW w \in Seq(Char), Regular(v, w),
         NEW x \in {v, w}, NEW y \in {v, w}
  PROVE  /\ atoi(version_decode(x).epoch) = Number(version_decode(x).epoch, 1, 10)
         /\ atoi(version_decode(x).epoch) \in Nat
         /\ Usual(version_decode(x).main, version_decode(y).main)
         /\ Usual(version_decode(x).rev, version_decode(y).rev)
<1>1. ASSUME NEW u \in {v, w}
      PROVE  /\ version_decode(u).main \in Framed /\ RegularString(version_decode(u).main)
             /\ version_decode(u).rev \in Framed /\ RegularString(version_decode(u).rev)
             /\ ToSet(version_decode(u).epoch) \subseteq Digit
             /\ Number(version_decode(u).epoch, 1, 10) <= IntMax
  <2> DEFINE z == version_decode(u)
  <2>1. u \in Seq(Char)
    OBVIOUS
  <2>2. z.main \in Seq(Known) /\ z.rev \in Seq(Known)
    BY <2>1, DecodeType
  <2>3. /\ RegularString(z.main) /\ RegularString(z.rev)
        /\ ToSet(z.epoch) \subseteq Digit /\ Number(z.epoch, 1, 10) <= IntMax
    BY DEF Regular
  <2> HIDE DEF z
  <2>4. z.main \in Framed /\ z.rev \in Framed
    BY <2>2, <2>3 DEF Framed, RegularString
  <2> QED BY <2>3, <2>4 DEF z
<1>2. x \in Seq(Char) /\ y \in Seq(Char)
  OBVIOUS
<1>3. LET e == version_decode(x).epoch
      IN Len(e) \in Nat /\ DOMAIN e = 1..Len(e)
  BY <1>2, EpochType
<1>4. /\ atoi(version_decode(x).epoch) = Number(version_decode(x).epoch, 1, 10)
      /\ atoi(version_decode(x).epoch) \in Nat
  BY <1>1, <1>3, EpochIs
<1>5. \A a, b, c, d : Unmixed(a, b) /\ c \in {a, b} /\ d \in {a, b} => Unmixed(c, d)
  BY DEF Unmixed
<1>6. /\ Unmixed(version_decode(v).main, version_decode(w).main)
      /\ Unmixed(version_decode(v).rev, version_decode(w).rev)
  BY DEF Regular
<1>7. /\ Unmixed(version_decode(x).main, version_decode(y).main)
      /\ Unmixed(version_decode(x).rev, version_decode(y).rev)
  BY <1>5, <1>6
<1> QED BY <1>1, <1>4, <1>7 DEF Usual

\* The order of strings of the usual form, seen from both sides
LEMMA StringsAre ==
  ASSUME NEW s, NEW t, Usual(s, t), Usual(t, s)
  PROVE  /\ compare_version_string(s, t) \in Int
         /\ compare_version_string(s, t) < 0 <=> DebianBefore(s, t)
         /\ compare_version_string(s, t) > 0 <=> DebianBefore(t, s)
<1>1. s \in Text /\ t \in Text
  BY DEF Usual, Framed, Text
<1>2. compare_version_string(s, t) \in Int /\ compare_version_string(t, s) \in Int
  BY <1>1, StringFirst
<1>3. compare_version_string(s, t) = -compare_version_string(t, s)
  <2> DEFINE r == [p \in Text \X Text |-> compare_version_string(p[1], p[2])]
  <2>1. r \in Order(Text)
    BY StringOrder
  <2>2. r[<<s, t>>] = compare_version_string(s, t) /\ r[<<t, s>>] = compare_version_string(t, s)
    BY <1>1
  <2> HIDE DEF r
  <2>3. r[<<s, t>>] = -r[<<t, s>>]
    BY <1>1, <2>1 DEF Order
  <2> QED BY <2>2, <2>3
<1>4. /\ compare_version_string(s, t) < 0 <=> DebianBefore(s, t)
      /\ compare_version_string(t, s) < 0 <=> DebianBefore(t, s)
  BY StringIs
<1> QED BY <1>2, <1>3, <1>4

\* Versions of the usual form are in Debian's order.
LEMMA AgreementHolds ==
  ASSUME Writes
  PROVE  AgreesWithDebian
<1>0. Written(2) => version[1] \in Seq(Char) /\ version[2] \in Seq(Char)
  <2>1. ASSUME NEW n \in Nat, Written(n) PROVE \A k \in 1..n : version[k] \in Versions
    BY <2>1 DEF Written, Writes, Versions
  <2>2. Written(2) => version[1] \in Versions /\ version[2] \in Versions
    BY <2>1
  <2> QED BY <2>2 DEF Versions
<1> DEFINE Epoch(z) == Number(z.epoch, 1, 10)
           Before(x, y) == \/ Epoch(x) < Epoch(y)
                           \/ Epoch(x) = Epoch(y) /\ DebianBefore(x.main, y.main)
                           \/ /\ Epoch(x) = Epoch(y) /\ DebianBefore(x.rev, y.rev)
                              /\ ~DebianBefore(y.main, x.main)
<1> SUFFICES ASSUME Written(2), Regular(version[1], version[2]), NEW i \in 1..2, NEW j \in 1..2
             PROVE  dbpmgr_depend_compare_version(version[i], version[j]) < 0 <=>
                      Before(version_decode(version[i]), version_decode(version[j]))
  BY DEF AgreesWithDebian
<1> DEFINE v == version[1]
           w == version[2]
           x == version_decode(version[i])
           y == version_decode(version[j])
<1>1. v \in Seq(Char) /\ w \in Seq(Char)
  BY <1>0
<1>2. version[i] \in {v, w} /\ version[j] \in {v, w}
  OBVIOUS
<1>3. /\ atoi(x.epoch) = Epoch(x) /\ atoi(x.epoch) \in Nat
      /\ atoi(y.epoch) = Epoch(y) /\ atoi(y.epoch) \in Nat
      /\ Usual(x.main, y.main) /\ Usual(y.main, x.main)
      /\ Usual(x.rev, y.rev) /\ Usual(y.rev, x.rev)
  BY <1>1, <1>2, RegularIs
<1>4. dbpmgr_depend_compare_version(version[i], version[j]) =
        OrElse(Compared(atoi(x.epoch), atoi(y.epoch)),
               OrElse(compare_version_string(x.main, y.main), compare_version_string(x.rev, y.rev)))
  BY DEF dbpmgr_depend_compare_version
<1> DEFINE k == Epoch(x)
           l == Epoch(y)
           m == compare_version_string(x.main, y.main)
           r == compare_version_string(x.rev, y.rev)
<1>5. /\ m \in Int
      /\ m < 0 <=> DebianBefore(x.main, y.main)
      /\ m > 0 <=> DebianBefore(y.main, x.main)
  BY <1>3, StringsAre
<1>6. /\ r \in Int
      /\ r < 0 <=> DebianBefore(x.rev, y.rev)
  BY <1>3, StringsAre
<1>7. Before(x, y) <=> \/ k < l
                       \/ k = l /\ DebianBefore(x.main, y.main)
                       \/ k = l /\ DebianBefore(x.rev, y.rev) /\ ~DebianBefore(y.main, x.main)
  OBVIOUS
<1>8. /\ k \in Nat /\ l \in Nat
      /\ dbpmgr_depend_compare_version(version[i], version[j]) = OrElse(Compared(k, l), OrElse(m, r))
  BY <1>3, <1>4
<1> HIDE DEF k, l, m, r
<1>9. dbpmgr_depend_compare_version(version[i], version[j]) < 0 <=>
        k < l \/ (k = l /\ m < 0) \/ (k = l /\ r < 0 /\ ~(m > 0))
  BY <1>5, <1>6, <1>8 DEF OrElse, Compared
<1> HIDE DEF x, y, Before
<1>10. dbpmgr_depend_compare_version(version[i], version[j]) < 0 <=> Before(x, y)
  BY <1>5, <1>6, <1>7, <1>9
<1> QED BY <1>10 DEF x, y

\* Versions of any length that are written in the usual way are in the order of
\* Debian's policy, which reads them as lists of parts and numbers.
THEOREM DebianOrder == Spec => []AgreesWithDebian
<1>1. Writes => AgreesWithDebian
  BY AgreementHolds
<1> QED BY <1>1, WritesInvariant, PTL

-----------------------------------------------------------------------------
(* Nodes                                                                   *)

\* Nodes and trees of entries from E
Node(E) == [match : Seq(E), list : Seq(E), lookup : BOOLEAN]
Trees(E) == [Paths -> Node(E)]

\* Entries have names.
Named(E) == \A e \in E : e.name \in Name

\* Names are not empty.
LEMMA LettersAre ==
  ASSUME NEW name \in Name
  PROVE  name \in Seq(Letter) /\ Len(name) \in Nat \ {0}
BY DependenciesAssumption, EmptySeq

\* The nodes that a name leads to are its prefixes.
LEMMA PathIs ==
  ASSUME NEW name \in Name, NEW n \in 0..Len(name)
  PROVE  Path(name, n) \in Paths /\ Len(Path(name, n)) = n
<1>1. n \in Nat
  BY LettersAre
<1>2. Path(name, n) \in Paths
  BY DEF Paths
<1>3. Len(Path(name, n)) = n
  BY <1>1 DEF Path
<1> QED BY <1>2, <1>3

\* Where the paths of two names meet, they have come the same way.
LEMMA PathPrefix ==
  ASSUME NEW a \in Name, NEW b \in Name, NEW n \in 0..Len(a), NEW m \in 0..Len(b),
         Path(a, n) = Path(b, m)
  PROVE  n = m /\ \A k \in 0..n : Path(a, k) = Path(b, k)
<1>1. n = m
  BY PathIs
<1>2. n \in Nat
  BY LettersAre
<1>3. ASSUME NEW k \in 0..n PROVE Path(a, k) = Path(b, k)
  <2>1. \A i \in 1..n : Path(a, n)[i] = TREE_LOOKUP(a[i]) /\ Path(b, n)[i] = TREE_LOOKUP(b[i])
    BY DEF Path
  <2>2. \A i \in 1..k : i \in 1..n
    BY <1>2
  <2>3. \A i \in 1..k : TREE_LOOKUP(a[i]) = TREE_LOOKUP(b[i])
    BY <1>1, <2>1, <2>2
  <2> QED BY <2>3 DEF Path
<1> QED BY <1>1, <1>3

\* All that is above the n-th node for a name has a lookup.  That node has none, or
\* it is the one of the name itself.
Reaches(t, name, n) ==
  /\ n \in 0..Len(name)
  /\ \A m \in 0..n - 1 : t[Path(name, m)].lookup
  /\ n = Len(name) \/ ~t[Path(name, n)].lookup

\* Depth is how far a name reaches, ...
LEMMA DepthReaches ==
  ASSUME NEW t, NEW name \in Name
  PROVE  Reaches(t, name, Depth(t, name))
<1> DEFINE N == {n \in 0..Len(name) : n = Len(name) \/ ~t[Path(name, n)].lookup}
           d == Depth(t, name)
<1>1. N \subseteq Nat /\ Len(name) \in N
  BY LettersAre
<1>2. d \in N /\ \A n \in N : d <= n
  <2>1. d = Min(N)
    BY DEF Depth
  <2> HIDE DEF N, d
  <2> QED BY <1>1, <2>1, MinIs
<1> HIDE DEF d
<1>3. d \in 0..Len(name) /\ Len(name) \in Nat
  BY <1>2, LettersAre
<1>4. ASSUME NEW m \in 0..d - 1 PROVE t[Path(name, m)].lookup
  <2>1. m \in 0..Len(name) /\ ~(d <= m)
    BY <1>3
  <2> QED BY <1>2, <2>1
<1>5. Reaches(t, name, d)
  BY <1>2, <1>4 DEF Reaches
<1> QED BY <1>5 DEF d

\* ... which is one place.
LEMMA ReachesOne ==
  ASSUME NEW t, NEW name \in Name, NEW n, NEW m, Reaches(t, name, n), Reaches(t, name, m)
  PROVE  n = m
<1>1. /\ Len(name) \in Nat /\ n \in 0..Len(name) /\ m \in 0..Len(name)
      /\ \A k \in 0..n - 1 : t[Path(name, k)].lookup
      /\ \A k \in 0..m - 1 : t[Path(name, k)].lookup
      /\ n = Len(name) \/ ~t[Path(name, n)].lookup
      /\ m = Len(name) \/ ~t[Path(name, m)].lookup
  BY LettersAre DEF Reaches
<1>2. n < m => n \in 0..m - 1 /\ n # Len(name)
  BY <1>1
<1>3. m < n => m \in 0..n - 1 /\ m # Len(name)
  BY <1>1
<1>4. ~(n < m) /\ ~(m < n)
  BY <1>1, <1>2, <1>3
<1> QED BY <1>1, <1>4

\* It depends on the lookups alone.
SameLookups(t, u) == \A p \in Paths : u[p].lookup = t[p].lookup

\* With the same lookups a name reaches as far.
LEMMA ReachesSame ==
  ASSUME NEW t, NEW u, SameLookups(t, u), NEW name \in Name, NEW n
  PROVE  Reaches(t, name, n) <=> Reaches(u, name, n)
<1>1. ASSUME NEW m \in 0..Len(name) PROVE u[Path(name, m)].lookup = t[Path(name, m)].lookup
  BY PathIs DEF SameLookups
<1>2. ASSUME n \in 0..Len(name) PROVE \A m \in 0..n - 1 : m \in 0..Len(name)
  BY <1>2, LettersAre
<1> QED BY <1>1, <1>2, Zenon DEF Reaches

-----------------------------------------------------------------------------
(* What a tree holds                                                       *)

Once(s) == \A i, j \in 1..Len(s) : s[i] = s[j] => i = j

Held(t, name, n) == IF n = Len(name) THEN t[Path(name, n)].match ELSE t[Path(name, n)].list

\* The tree t holds the packages of S, each where its name reaches.
Below(t) == \A name \in Name : \A n \in 0..Len(name) - 1 :
              t[Path(name, n + 1)].lookup => t[Path(name, n)].lookup
AllOnce(t) == \A p \in Paths : Once(t[p].match) /\ Once(t[p].list)
Matches(t, S) == \A p \in Paths : \A e \in ToSet(t[p].match) :
                   /\ e \in S /\ Path(e.name, Len(e.name)) = p
                   /\ Reaches(t, e.name, Len(e.name))
Lists(t, S) == \A p \in Paths : \A e \in ToSet(t[p].list) :
                 /\ e \in S /\ Len(p) < Len(e.name) /\ Path(e.name, Len(p)) = p
                 /\ Reaches(t, e.name, Len(p))
HasAll(t, S) == \A e \in S : \E n \in 0..Len(e.name) : e \in ToSet(Held(t, e.name, n))
Holds(t, S) == Below(t) /\ AllOnce(t) /\ Matches(t, S) /\ Lists(t, S) /\ HasAll(t, S)

\* What is in a list
LEMMA ToSetIs ==
  ASSUME NEW E, NEW s \in Seq(E)
  PROVE  ToSet(s) = {s[i] : i \in 1..Len(s)} /\ ToSet(s) \subseteq E
<1>1. DOMAIN s = 1..Len(s)
  OBVIOUS
<1> QED BY <1>1 DEF ToSet

\* What is put in front of a list
LEMMA PushIs ==
  ASSUME NEW E, NEW s \in Seq(E), NEW e \in E
  PROVE  /\ Push(e, s) \in Seq(E) /\ ToSet(Push(e, s)) = ToSet(s) \cup {e}
         /\ Once(s) /\ e \notin ToSet(s) => Once(Push(e, s))
<1> DEFINE r == Push(e, s)
           l == Len(s)
<1>1. l \in Nat /\ \A i \in 1..l : s[i] \in E
  OBVIOUS
<1>2. r \in Seq(E) /\ Len(r) = l + 1 /\ r[1] = e /\ \A i \in 2..l + 1 : r[i] = s[i - 1]
  <2>1. <<e>> \in Seq(E) /\ Len(<<e>>) = 1 /\ <<e>>[1] = e
    OBVIOUS
  <2> QED BY <1>1, <2>1 DEF Push
<1>3. ToSet(s) = {s[i] : i \in 1..l} /\ ToSet(r) = {r[i] : i \in 1..Len(r)}
  BY <1>2, ToSetIs
<1> HIDE DEF r, l
<1>4. ToSet(r) = ToSet(s) \cup {e}
  <2>1. ASSUME NEW i \in 1..Len(r) PROVE r[i] \in ToSet(s) \cup {e}
    <3>1. i = 1 \/ (i \in 2..l + 1 /\ i - 1 \in 1..l)
      BY <1>1, <1>2
    <3> QED BY <1>2, <1>3, <3>1
  <2>2. ASSUME NEW i \in 1..l PROVE s[i] \in ToSet(r)
    <3>1. i + 1 \in 2..l + 1 /\ (i + 1) - 1 = i /\ i + 1 \in 1..Len(r)
      BY <1>1, <1>2
    <3>2. r[i + 1] = s[i]
      BY <1>2, <3>1
    <3> QED BY <1>3, <3>1, <3>2
  <2>3. 1 \in 1..Len(r)
    BY <1>1, <1>2
  <2> QED BY <1>2, <1>3, <2>1, <2>2, <2>3
<1>5. ASSUME Once(s), e \notin ToSet(s) PROVE Once(r)
  <2> SUFFICES ASSUME NEW i \in 1..Len(r), NEW j \in 1..Len(r), r[i] = r[j] PROVE i = j
    BY DEF Once
  <2>1. ASSUME NEW k \in 1..Len(r) PROVE k = 1 \/ (k \in 2..l + 1 /\ k - 1 \in 1..l /\ r[k] = s[k - 1] /\ r[k] # e)
    <3>1. k = 1 \/ (k \in 2..l + 1 /\ k - 1 \in 1..l)
      BY <1>1, <1>2
    <3> QED BY <1>2, <1>3, <1>5, <3>1
  <2>2. i = 1 \/ (i \in 2..l + 1 /\ i - 1 \in 1..l /\ r[i] = s[i - 1] /\ r[i] # e)
    BY <2>1
  <2>3. j = 1 \/ (j \in 2..l + 1 /\ j - 1 \in 1..l /\ r[j] = s[j - 1] /\ r[j] # e)
    BY <2>1
  <2>4. CASE i = 1 \/ j = 1
    BY <1>2, <2>2, <2>3, <2>4
  <2>5. CASE i # 1 /\ j # 1
    <3>1. i - 1 = j - 1
      BY <1>5, <2>2, <2>3, <2>5 DEF Once, l
    <3> QED BY <3>1
  <2> QED BY <2>4, <2>5
<1> QED BY <1>2, <1>4, <1>5 DEF r

-----------------------------------------------------------------------------
(* To put a package into a node                                            *)

\* What put changes
LEMMA PutIs ==
  ASSUME NEW E, Named(E), NEW t \in Trees(E), NEW e \in E, NEW n \in 0..Len(e.name)
  PROVE  LET u == put(t, e, n)
             q == Path(e.name, n)
         IN /\ u \in Trees(E) /\ q \in Paths
            /\ \A p \in Paths :
                 /\ u[p].lookup = t[p].lookup
                 /\ u[p].match = IF p = q /\ n = Len(e.name) THEN Push(e, t[p].match) ELSE t[p].match
                 /\ u[p].list = IF p = q /\ n # Len(e.name) THEN Push(e, t[p].list) ELSE t[p].list
<1> DEFINE u == put(t, e, n)
           q == Path(e.name, n)
           a == Push(e, t[q].match)
           b == Push(e, t[q].list)
<1>1. q \in Paths
  BY PathIs DEF Named
<1>2. t[q] \in Node(E) /\ t[q].match \in Seq(E) /\ t[q].list \in Seq(E) /\ t[q].lookup \in BOOLEAN
  BY <1>1 DEF Trees, Node
<1>3. a \in Seq(E) /\ b \in Seq(E)
  BY <1>2, PushIs
<1>4. u = IF n = Len(e.name) THEN [t EXCEPT ![q] = [t[q] EXCEPT !.match = a]]
          ELSE [t EXCEPT ![q] = [t[q] EXCEPT !.list = b]]
  BY DEF put
<1> HIDE DEF a, b, q, u
<1>5. CASE n = Len(e.name)
  <2> DEFINE x == [t[q] EXCEPT !.match = a]
  <2>1. x \in Node(E) /\ x.match = a /\ x.list = t[q].list /\ x.lookup = t[q].lookup
    BY <1>2, <1>3 DEF Node
  <2>2. u = [t EXCEPT ![q] = x]
    BY <1>4, <1>5
  <2> HIDE DEF x
  <2>3. u \in Trees(E) /\ u[q] = x /\ \A p \in Paths : p # q => u[p] = t[p]
    BY <1>1, <2>1, <2>2 DEF Trees
  <2> QED BY <1>1, <1>5, <2>1, <2>3 DEF a, u, q
<1>6. CASE n # Len(e.name)
  <2> DEFINE x == [t[q] EXCEPT !.list = b]
  <2>1. x \in Node(E) /\ x.list = b /\ x.match = t[q].match /\ x.lookup = t[q].lookup
    BY <1>2, <1>3 DEF Node
  <2>2. u = [t EXCEPT ![q] = x]
    BY <1>4, <1>6
  <2> HIDE DEF x
  <2>3. u \in Trees(E) /\ u[q] = x /\ \A p \in Paths : p # q => u[p] = t[p]
    BY <1>1, <2>1, <2>2 DEF Trees
  <2> QED BY <1>1, <1>6, <2>1, <2>3 DEF b, u, q
<1> QED BY <1>5, <1>6

\* A package that is put where its name reaches is held, too.
LEMMA PutHolds ==
  ASSUME NEW E, Named(E), NEW t \in Trees(E), NEW S, S \subseteq E, Holds(t, S),
         NEW e \in E, e \notin S, NEW n, Reaches(t, e.name, n)
  PROVE  LET u == put(t, e, n)
         IN u \in Trees(E) /\ SameLookups(t, u) /\ Holds(u, S \cup {e})
<1> DEFINE u == put(t, e, n)
           q == Path(e.name, n)
           l == Len(e.name)
<1>1. e.name \in Name /\ l \in Nat /\ n \in 0..l
  BY LettersAre DEF Named, Reaches
<1>2. /\ u \in Trees(E) /\ q \in Paths
      /\ \A p \in Paths : u[p].lookup = t[p].lookup
      /\ \A p \in Paths :
           /\ u[p].match = IF p = q /\ n = l THEN Push(e, t[p].match) ELSE t[p].match
           /\ u[p].list = IF p = q /\ n # l THEN Push(e, t[p].list) ELSE t[p].list
  BY <1>1, PutIs
<1>3. Len(q) = n
  BY <1>1, PathIs
<1> HIDE DEF u, q
<1>4. SameLookups(t, u)
  BY <1>2 DEF SameLookups
<1>5. \A name \in Name : \A m : Reaches(t, name, m) => Reaches(u, name, m)
  BY <1>4, ReachesSame
<1>6. ASSUME NEW p \in Paths
      PROVE  /\ t[p].match \in Seq(E) /\ t[p].list \in Seq(E)
             /\ ToSet(t[p].match) \subseteq S /\ ToSet(t[p].list) \subseteq S
  BY DEF Trees, Node, Holds, Matches, Lists
<1>7. Below(u)
  <2> SUFFICES ASSUME NEW name \in Name, NEW m \in 0..Len(name) - 1, u[Path(name, m + 1)].lookup
               PROVE  u[Path(name, m)].lookup
    BY DEF Below
  <2>1. m \in 0..Len(name) /\ m + 1 \in 0..Len(name)
    BY LettersAre
  <2>2. Path(name, m) \in Paths /\ Path(name, m + 1) \in Paths
    BY <2>1, PathIs
  <2> QED BY <1>2, <2>2 DEF Holds, Below
<1>8. AllOnce(u)
  <2> SUFFICES ASSUME NEW p \in Paths PROVE Once(u[p].match) /\ Once(u[p].list)
    BY DEF AllOnce
  <2>1. Once(t[p].match) /\ Once(t[p].list)
    BY DEF Holds, AllOnce
  <2>2. Once(Push(e, t[p].match)) /\ Once(Push(e, t[p].list))
    BY <1>6, <2>1, PushIs
  <2> QED BY <1>2, <2>1, <2>2
<1>9. ASSUME NEW p \in Paths
      PROVE  /\ ToSet(u[p].match) = IF p = q /\ n = l THEN ToSet(t[p].match) \cup {e} ELSE ToSet(t[p].match)
             /\ ToSet(u[p].list) = IF p = q /\ n # l THEN ToSet(t[p].list) \cup {e} ELSE ToSet(t[p].list)
  <2>1. /\ ToSet(Push(e, t[p].match)) = ToSet(t[p].match) \cup {e}
        /\ ToSet(Push(e, t[p].list)) = ToSet(t[p].list) \cup {e}
    BY <1>6, PushIs
  <2> QED BY <1>2, <2>1
<1>10. Matches(u, S \cup {e})
  <2> SUFFICES ASSUME NEW p \in Paths, NEW x \in ToSet(u[p].match)
               PROVE  /\ x \in S \cup {e} /\ Path(x.name, Len(x.name)) = p
                      /\ Reaches(u, x.name, Len(x.name))
    BY DEF Matches
  <2>1. CASE x \in ToSet(t[p].match)
    <3>1. x \in S /\ x.name \in Name /\ Path(x.name, Len(x.name)) = p /\ Reaches(t, x.name, Len(x.name))
      BY <2>1 DEF Holds, Matches, Named
    <3> QED BY <1>5, <3>1
  <2>2. CASE x \notin ToSet(t[p].match)
    <3>1. x = e /\ p = q /\ n = l
      BY <1>9, <2>2
    <3> QED BY <1>1, <1>5, <3>1 DEF q
  <2> QED BY <2>1, <2>2
<1>11. Lists(u, S \cup {e})
  <2> SUFFICES ASSUME NEW p \in Paths, NEW x \in ToSet(u[p].list)
               PROVE  /\ x \in S \cup {e} /\ Len(p) < Len(x.name) /\ Path(x.name, Len(p)) = p
                      /\ Reaches(u, x.name, Len(p))
    BY DEF Lists
  <2>1. CASE x \in ToSet(t[p].list)
    <3>1. /\ x \in S /\ x.name \in Name /\ Len(p) < Len(x.name) /\ Path(x.name, Len(p)) = p
          /\ Reaches(t, x.name, Len(p))
      BY <2>1 DEF Holds, Lists, Named
    <3> QED BY <1>5, <3>1
  <2>2. CASE x \notin ToSet(t[p].list)
    <3>1. x = e /\ p = q /\ n # l
      BY <1>9, <2>2
    <3>2. Len(p) < l
      BY <1>1, <1>3, <3>1
    <3> QED BY <1>1, <1>3, <1>5, <3>1, <3>2 DEF q
  <2> QED BY <2>1, <2>2
<1>12. HasAll(u, S \cup {e})
  <2> SUFFICES ASSUME NEW x \in S \cup {e}
               PROVE  \E m \in 0..Len(x.name) : x \in ToSet(Held(u, x.name, m))
    BY DEF HasAll
  <2>1. CASE x \in S
    <3>1. PICK m \in 0..Len(x.name) : x \in ToSet(Held(t, x.name, m))
      BY <2>1 DEF Holds, HasAll
    <3>2. Path(x.name, m) \in Paths
      BY <2>1, PathIs DEF Named
    <3>3. ToSet(Held(t, x.name, m)) \subseteq ToSet(Held(u, x.name, m))
      BY <1>9, <3>2 DEF Held
    <3> QED BY <3>1, <3>3
  <2>2. CASE x = e
    <3>1. e \in ToSet(Held(u, e.name, n))
      BY <1>2, <1>9 DEF Held, q
    <3> QED BY <1>1, <2>2, <3>1
  <2> QED BY <2>1, <2>2
<1>13. Holds(u, S \cup {e})
  BY <1>7, <1>8, <1>10, <1>11, <1>12 DEF Holds
<1> QED BY <1>2, <1>4, <1>13 DEF u

-----------------------------------------------------------------------------
(* To spread a list                                                        *)

\* What is listed at a node reaches no other.
LEMMA ListedOnce ==
  ASSUME NEW E, Named(E), NEW t \in Trees(E), NEW S, S \subseteq E, Holds(t, S),
         NEW node \in Paths, NEW e \in ToSet(t[node].list), NEW p \in Paths
  PROVE  /\ e \notin ToSet(t[p].match)
         /\ e \in ToSet(t[p].list) => p = node
<1>1. /\ e \in S /\ e.name \in Name /\ Len(node) < Len(e.name)
      /\ Path(e.name, Len(node)) = node /\ Reaches(t, e.name, Len(node))
  BY DEF Holds, Lists, Named
<1>2. ASSUME e \in ToSet(t[p].match) PROVE FALSE
  <2>1. Reaches(t, e.name, Len(e.name))
    BY <1>2 DEF Holds, Matches
  <2>2. Len(node) = Len(e.name)
    BY <1>1, <2>1, ReachesOne
  <2> QED BY <1>1, <2>2, LettersAre
<1>3. ASSUME e \in ToSet(t[p].list) PROVE p = node
  <2>1. Path(e.name, Len(p)) = p /\ Reaches(t, e.name, Len(p))
    BY <1>3 DEF Holds, Lists
  <2>2. Len(p) = Len(node)
    BY <1>1, <2>1, ReachesOne
  <2> QED BY <1>1, <2>1, <2>2
<1> QED BY <1>2, <1>3

\* A node whose list is taken away gets a lookup: the tree holds the others, and the
\* names of the listed ones reach one node further.
LEMMA ClearedHolds ==
  ASSUME NEW E, Named(E), NEW t \in Trees(E), NEW S, S \subseteq E, Holds(t, S),
         NEW node \in Paths, t[node].list # << >>
  PROVE  LET u == Cleared(t, node)
         IN /\ u \in Trees(E) /\ Holds(u, S \ ToSet(t[node].list))
            /\ \A e \in ToSet(t[node].list) : Reaches(u, e.name, Len(node) + 1)
<1> DEFINE u == Cleared(t, node)
           L == ToSet(t[node].list)
<1>1. /\ u \in Trees(E)
      /\ u[node].match = t[node].match /\ u[node].list = << >> /\ u[node].lookup = TRUE
      /\ \A p \in Paths : p # node => u[p] = t[p]
  <2> DEFINE x == [match |-> t[node].match, list |-> << >>, lookup |-> TRUE]
  <2>1. x \in Node(E)
    BY DEF Trees, Node
  <2>2. u = [t EXCEPT ![node] = x]
    BY DEF Cleared
  <2>3. x.match = t[node].match /\ x.list = << >> /\ x.lookup = TRUE
    OBVIOUS
  <2> HIDE DEF x, u
  <2> QED BY <2>1, <2>2, <2>3 DEF Trees
<1> HIDE DEF u
<1>2. ToSet(u[node].list) = {}
  BY <1>1 DEF ToSet
<1>3. ASSUME NEW e \in L
      PROVE  /\ e \in S /\ e.name \in Name /\ Len(node) < Len(e.name)
             /\ Path(e.name, Len(node)) = node /\ Reaches(t, e.name, Len(node))
  BY DEF Holds, Lists, Named
<1>4. PICK first \in L : TRUE
  <2>1. t[node].list \in Seq(E)
    BY DEF Trees, Node
  <2>2. 1 \in 1..Len(t[node].list) /\ t[node].list[1] \in L
    BY <2>1, EmptySeq, ToSetIs
  <2> QED BY <2>2
<1>5. /\ first.name \in Name /\ Len(node) \in 0..Len(first.name) - 1 /\ Len(first.name) \in Nat
      /\ Path(first.name, Len(node)) = node
      /\ \A m \in 0..Len(node) - 1 : t[Path(first.name, m)].lookup
      /\ ~t[node].lookup
  BY <1>3, LettersAre DEF Reaches
<1>6. ASSUME NEW name \in Name, NEW n \in 0..Len(name), Path(name, n) = node
      PROVE  n = Len(node) /\ \A m \in 0..n - 1 : t[Path(name, m)].lookup
  <2>1. Len(node) \in 0..Len(first.name)
    BY <1>5
  <2>2. n = Len(node) /\ \A m \in 0..n : Path(name, m) = Path(first.name, m)
    BY <1>5, <1>6, <2>1, PathPrefix
  <2> QED BY <1>5, <2>2
<1>7. ASSUME NEW p \in Paths PROVE t[p].lookup => u[p].lookup
  BY <1>1
<1>8. Below(u)
  <2> SUFFICES ASSUME NEW name \in Name, NEW n \in 0..Len(name) - 1, u[Path(name, n + 1)].lookup
               PROVE  u[Path(name, n)].lookup
    BY DEF Below
  <2>1. n \in 0..Len(name) /\ n + 1 \in 0..Len(name) /\ n \in 0..(n + 1) - 1
    BY LettersAre
  <2>2. Path(name, n) \in Paths /\ Path(name, n + 1) \in Paths
    BY <2>1, PathIs
  <2>3. t[Path(name, n)].lookup
    <3>1. CASE Path(name, n + 1) = node
      BY <1>6, <2>1, <3>1
    <3>2. CASE Path(name, n + 1) # node
      BY <1>1, <2>2, <3>2 DEF Holds, Below
    <3> QED BY <3>1, <3>2
  <2> QED BY <1>7, <2>2, <2>3
<1>9. AllOnce(u)
  <2> SUFFICES ASSUME NEW p \in Paths PROVE Once(u[p].match) /\ Once(u[p].list)
    BY DEF AllOnce
  <2>1. Once(t[p].match) /\ Once(t[p].list)
    BY DEF Holds, AllOnce
  <2>2. Once(<< >>)
    BY DEF Once
  <2> QED BY <1>1, <2>1, <2>2
<1>10. \A p \in Paths : u[p].match = t[p].match /\ (p # node => u[p].list = t[p].list)
  BY <1>1
<1>11. ASSUME NEW name \in Name, NEW n, Reaches(t, name, n), Path(name, n) # node \/ n = Len(name)
       PROVE  Reaches(u, name, n)
  <2>1. /\ n \in 0..Len(name) /\ \A m \in 0..n - 1 : t[Path(name, m)].lookup
        /\ n = Len(name) \/ ~t[Path(name, n)].lookup
    BY <1>11 DEF Reaches
  <2>2. ASSUME NEW m \in 0..n - 1 PROVE u[Path(name, m)].lookup
    <3>1. Path(name, m) \in Paths
      BY <2>1, LettersAre, PathIs
    <3> QED BY <1>7, <2>1, <3>1
  <2>3. n # Len(name) => u[Path(name, n)] = t[Path(name, n)]
    BY <1>1, <1>11, <2>1, PathIs
  <2> QED BY <2>1, <2>2, <2>3 DEF Reaches
<1>12. Matches(u, S \ L)
  <2> SUFFICES ASSUME NEW p \in Paths, NEW x \in ToSet(u[p].match)
               PROVE  /\ x \in S \ L /\ Path(x.name, Len(x.name)) = p
                      /\ Reaches(u, x.name, Len(x.name))
    BY DEF Matches
  <2>1. x \in ToSet(t[p].match)
    BY <1>10
  <2>2. x \in S /\ x.name \in Name /\ Path(x.name, Len(x.name)) = p /\ Reaches(t, x.name, Len(x.name))
    BY <2>1 DEF Holds, Matches, Named
  <2>3. x \notin L
    BY <2>1, ListedOnce
  <2> QED BY <1>11, <2>2, <2>3
<1>13. Lists(u, S \ L)
  <2> SUFFICES ASSUME NEW p \in Paths, NEW x \in ToSet(u[p].list)
               PROVE  /\ x \in S \ L /\ Len(p) < Len(x.name) /\ Path(x.name, Len(p)) = p
                      /\ Reaches(u, x.name, Len(p))
    BY DEF Lists
  <2>1. p # node /\ x \in ToSet(t[p].list)
    BY <1>2, <1>10
  <2>2. /\ x \in S /\ x.name \in Name /\ Len(p) < Len(x.name) /\ Path(x.name, Len(p)) = p
        /\ Reaches(t, x.name, Len(p))
    BY <2>1 DEF Holds, Lists, Named
  <2>3. x \notin L
    BY <2>1, ListedOnce
  <2> QED BY <1>11, <2>1, <2>2, <2>3
<1>14. HasAll(u, S \ L)
  <2> SUFFICES ASSUME NEW x \in S \ L
               PROVE  \E m \in 0..Len(x.name) : x \in ToSet(Held(u, x.name, m))
    BY DEF HasAll
  <2>1. PICK m \in 0..Len(x.name) : x \in ToSet(Held(t, x.name, m))
    BY DEF Holds, HasAll
  <2>2. Path(x.name, m) \in Paths
    BY PathIs DEF Named
  <2>3. x \in ToSet(Held(u, x.name, m))
    BY <1>10, <2>1, <2>2 DEF Held
  <2> QED BY <2>3
<1>15. Holds(u, S \ L)
  BY <1>8, <1>9, <1>12, <1>13, <1>14 DEF Holds
<1>16. ASSUME NEW e \in L PROVE Reaches(u, e.name, Len(node) + 1)
  <2> DEFINE n == Len(node)
  <2>1. /\ e.name \in Name /\ n < Len(e.name) /\ Path(e.name, n) = node
        /\ n \in 0..Len(e.name) /\ Len(e.name) \in Nat
        /\ \A m \in 0..n - 1 : t[Path(e.name, m)].lookup
    BY <1>3, LettersAre DEF Reaches
  <2> HIDE DEF n
  <2>2. n \in Nat /\ n + 1 \in 0..Len(e.name) /\ n \in 0..Len(e.name) - 1
    BY <2>1
  <2>3. ASSUME NEW m \in 0..(n + 1) - 1 PROVE u[Path(e.name, m)].lookup
    <3>1. CASE m = n
      BY <1>1, <2>1, <3>1
    <3>2. CASE m # n
      <4>1. m \in 0..n - 1 /\ m \in 0..Len(e.name)
        BY <2>1, <2>2, <3>2
      <4>2. Path(e.name, m) \in Paths
        BY <2>1, <4>1, PathIs
      <4> QED BY <1>7, <2>1, <4>1, <4>2
    <3> QED BY <3>1, <3>2
  <2>4. ~u[Path(e.name, n + 1)].lookup
    <3>1. Path(e.name, n + 1) \in Paths /\ Len(Path(e.name, n + 1)) = n + 1
      BY <2>1, <2>2, PathIs
    <3>2. Path(e.name, n + 1) # node
      BY <2>2, <3>1 DEF n
    <3>3. ~t[Path(e.name, n + 1)].lookup
      BY <1>5, <2>1, <2>2 DEF Holds, Below
    <3> QED BY <1>1, <3>1, <3>2, <3>3
  <2>5. Reaches(u, e.name, n + 1)
    BY <2>2, <2>3, <2>4 DEF Reaches
  <2> QED BY <2>5 DEF n
<1> QED BY <1>1, <1>15, <1>16 DEF u

\* The loop over the list, step by step
Spreading(g, t, node) ==
  LET l == t[node].list
  IN /\ g[0] = Cleared(t, node)
     /\ \A k \in 1..Len(l) : g[k] = put(g[k - 1], l[k], Len(node) + 1)

\* The recursion over the list is defined.
LEMMA SpreadSteps ==
  ASSUME NEW t, NEW node, Len(t[node].list) \in Nat
  PROVE  \E g : Spreading(g, t, node) /\ spread(t, node) = g[Len(t[node].list)]
<1> DEFINE N == Len(t[node].list)
           Step(u, k) == put(u, t[node].list[k], Len(node) + 1)
           Is(g) == g = [k \in 0..N |-> IF k = 0 THEN Cleared(t, node) ELSE Step(g[k - 1], k)]
           G == CHOOSE g : Is(g)
           Goes(g, n) == g[0] = Cleared(t, node) /\ \A k \in 1..n : g[k] = Step(g[k - 1], k)
           Good == {n \in Nat : \E g : g = [k \in 0..n |-> g[k]] /\ Goes(g, n)}
<1>1. spread(t, node) = G[N]
  BY DEF spread
<1>2. N \in Nat
  OBVIOUS
<1> HIDE DEF N, Step
<1>3. 0 \in Good
  <2> DEFINE g == [k \in 0..0 |-> Cleared(t, node)]
  <2>1. g = [k \in 0..0 |-> g[k]] /\ Goes(g, 0)
    OBVIOUS
  <2> QED BY <2>1
<1>4. ASSUME NEW n \in Nat, n \in Good PROVE n + 1 \in Good
  <2>1. PICK f : f = [k \in 0..n |-> f[k]] /\ Goes(f, n)
    BY <1>4
  <2> DEFINE g == [k \in 0..n + 1 |-> IF k = n + 1 THEN Step(f[n], n + 1) ELSE f[k]]
  <2>2. g = [k \in 0..n + 1 |-> g[k]] /\ g[n + 1] = Step(f[n], n + 1) /\ \A k \in 0..n : g[k] = f[k]
    OBVIOUS
  <2> HIDE DEF g
  <2>3. ASSUME NEW k \in 1..n + 1 PROVE g[k] = Step(g[k - 1], k)
    <3>1. CASE k = n + 1
      <4>1. k - 1 = n /\ n \in 0..n
        BY <3>1
      <4> QED BY <2>2, <3>1, <4>1
    <3>2. CASE k # n + 1
      <4>1. k \in 1..n /\ k \in 0..n /\ k - 1 \in 0..n
        BY <3>2
      <4> QED BY <2>1, <2>2, <4>1
    <3> QED BY <3>1, <3>2
  <2>4. g[0] = Cleared(t, node)
    <3>1. 0 \in 0..n
      OBVIOUS
    <3>2. f[0] = Cleared(t, node)
      BY <2>1, Zenon
    <3> QED BY <2>2, <3>1, <3>2, Zenon
  <2>5. Goes(g, n + 1)
    BY <2>3, <2>4
  <2> HIDE DEF Goes
  <2> QED BY <2>2, <2>5
<1>5. \A n \in Nat : n \in Good
  <2> HIDE DEF Good
  <2> QED BY <1>3, <1>4, Induction
<1>6. PICK f : f = [k \in 0..N |-> f[k]] /\ Goes(f, N)
  BY <1>2, <1>5
<1>7. Is(f)
  <2>1. \A k \in 0..N : k = 0 \/ k \in 1..N
    BY <1>2
  <2>2. \A k \in 0..N : f[k] = IF k = 0 THEN Cleared(t, node) ELSE Step(f[k - 1], k)
    BY <1>6, <2>1
  <2> QED BY <1>6, <2>2
<1>8. Is(G)
  <2> HIDE DEF Is
  <2> QED BY <1>7
<1> HIDE DEF G
<1>9. G[0] = Cleared(t, node) /\ \A k \in 1..N : G[k] = Step(G[k - 1], k)
  BY <1>2, <1>8
<1>10. Spreading(G, t, node)
  BY <1>9 DEF Spreading, Step, N
<1> QED BY <1>1, <1>10 DEF N

\* To spread a list keeps what the tree holds.
LEMMA SpreadHolds ==
  ASSUME NEW E, Named(E), NEW t \in Trees(E), NEW S, S \subseteq E, Holds(t, S),
         NEW node \in Paths, t[node].list # << >>
  PROVE  spread(t, node) \in Trees(E) /\ Holds(spread(t, node), S)
<1> DEFINE l == t[node].list
           N == Len(l)
           c == Cleared(t, node)
           Moved(k) == {l[i] : i \in 1..k}
           T(k) == (S \ ToSet(l)) \cup Moved(k)
<1>1. l \in Seq(E) /\ N \in Nat /\ \A k \in 1..N : l[k] \in E
  BY DEF Trees, Node
<1>2. PICK g : Spreading(g, t, node) /\ spread(t, node) = g[N]
  BY <1>1, SpreadSteps
<1>3. g[0] = c /\ \A k \in 1..N : g[k] = put(g[k - 1], l[k], Len(node) + 1)
  BY <1>2 DEF Spreading
<1>4. /\ c \in Trees(E) /\ Holds(c, S \ ToSet(l))
      /\ \A e \in ToSet(l) : Reaches(c, e.name, Len(node) + 1)
  BY ClearedHolds
<1>5. ToSet(l) = Moved(N) /\ ToSet(l) \subseteq S
  BY <1>1, ToSetIs DEF Holds, Lists
<1>6. \A i, j \in 1..N : l[i] = l[j] => i = j
  BY DEF Holds, AllOnce, Once
<1> HIDE DEF c, l, N
<1> DEFINE Good == {k \in Nat : k <= N => /\ g[k] \in Trees(E) /\ Holds(g[k], T(k))
                                          /\ SameLookups(c, g[k])}
<1>7. 0 \in Good
  <2>1. T(0) = S \ ToSet(l)
    OBVIOUS
  <2> QED BY <1>3, <1>4, <2>1 DEF SameLookups
<1>8. ASSUME NEW k \in Nat, k \in Good PROVE k + 1 \in Good
  <2> SUFFICES ASSUME k + 1 <= N
               PROVE  /\ g[k + 1] \in Trees(E) /\ Holds(g[k + 1], T(k + 1))
                      /\ SameLookups(c, g[k + 1])
    OBVIOUS
  <2> DEFINE e == l[k + 1]
  <2>1. /\ k <= N /\ k + 1 \in 1..N /\ (k + 1) - 1 = k
    BY <1>1
  <2>2. g[k] \in Trees(E) /\ Holds(g[k], T(k)) /\ SameLookups(c, g[k])
    BY <1>8, <2>1
  <2>3. g[k + 1] = put(g[k], e, Len(node) + 1)
    BY <1>3, <2>1
  <2>4. e \in E /\ e \in ToSet(l) /\ e.name \in Name
    BY <1>1, <1>5, <2>1 DEF Named
  <2>5. e \notin Moved(k)
    <3>1. \A i \in 1..k : i \in 1..N /\ i # k + 1
      BY <1>1, <2>1
    <3> QED BY <1>6, <2>1, <3>1
  <2>6. T(k) \subseteq E /\ e \notin T(k)
    <3>1. Moved(k) \subseteq E
      BY <1>1, <2>1
    <3> QED BY <2>4, <2>5, <3>1
  <2>7. Reaches(g[k], e.name, Len(node) + 1)
    BY <1>4, <2>2, <2>4, ReachesSame
  <2>8. T(k + 1) = T(k) \cup {e}
    <3>1. 1..k + 1 = (1..k) \cup {k + 1}
      OBVIOUS
    <3> QED BY <3>1
  <2> HIDE DEF T, e
  <2>9. LET u == g[k + 1]
        IN u \in Trees(E) /\ SameLookups(g[k], u) /\ Holds(u, T(k) \cup {e})
    BY <2>2, <2>3, <2>4, <2>6, <2>7, PutHolds
  <2> QED BY <2>2, <2>8, <2>9 DEF SameLookups
<1>9. \A k \in Nat : k \in Good
  <2> HIDE DEF Good
  <2> QED BY <1>7, <1>8, Induction
<1>10. T(N) = S
  BY <1>5
<1> HIDE DEF T
<1> QED BY <1>1, <1>2, <1>9, <1>10 DEF N, l

-----------------------------------------------------------------------------
(* To populate a tree                                                      *)

\* A package is put into its node, and nodes that it is in are spread.
Populating(g, t, e) ==
  LET d == Depth(t, e.name)
  IN /\ g[0] = put(t, e, d)
     /\ \A k \in 1..Len(e.name) - d :
          LET node == Path(e.name, d + k - 1)
          IN g[k] = IF Len(g[k - 1][node].list) > ListLimit THEN spread(g[k - 1], node) ELSE g[k - 1]

\* The recursion over the nodes is defined.
LEMMA PopulateSteps ==
  ASSUME NEW t, NEW e, Len(e.name) - Depth(t, e.name) \in Nat
  PROVE  \E g : Populating(g, t, e) /\ package_tree_populate(t, e) = g[Len(e.name) - Depth(t, e.name)]
<1> DEFINE d == Depth(t, e.name)
           N == Len(e.name) - d
           NodeAt(k) == Path(e.name, d + k - 1)
           Step(u, k) == IF Len(u[NodeAt(k)].list) > ListLimit THEN spread(u, NodeAt(k)) ELSE u
           Is(g) == g = [k \in 0..N |-> IF k = 0 THEN put(t, e, d) ELSE Step(g[k - 1], k)]
           G == CHOOSE g : Is(g)
           Goes(g, n) == g[0] = put(t, e, d) /\ \A k \in 1..n : g[k] = Step(g[k - 1], k)
           Good == {n \in Nat : \E g : g = [k \in 0..n |-> g[k]] /\ Goes(g, n)}
<1>1. package_tree_populate(t, e) = G[N]
  BY DEF package_tree_populate
<1>2. N \in Nat
  OBVIOUS
<1> HIDE DEF N, Step
<1>3. 0 \in Good
  <2> DEFINE g == [k \in 0..0 |-> put(t, e, d)]
  <2>1. g = [k \in 0..0 |-> g[k]] /\ Goes(g, 0)
    OBVIOUS
  <2> QED BY <2>1
<1>4. ASSUME NEW n \in Nat, n \in Good PROVE n + 1 \in Good
  <2>1. PICK f : f = [k \in 0..n |-> f[k]] /\ Goes(f, n)
    BY <1>4
  <2> DEFINE g == [k \in 0..n + 1 |-> IF k = n + 1 THEN Step(f[n], n + 1) ELSE f[k]]
  <2>2. g = [k \in 0..n + 1 |-> g[k]] /\ g[n + 1] = Step(f[n], n + 1) /\ \A k \in 0..n : g[k] = f[k]
    OBVIOUS
  <2> HIDE DEF g
  <2>3. ASSUME NEW k \in 1..n + 1 PROVE g[k] = Step(g[k - 1], k)
    <3>1. CASE k = n + 1
      <4>1. k - 1 = n /\ n \in 0..n
        BY <3>1
      <4> QED BY <2>2, <3>1, <4>1
    <3>2. CASE k # n + 1
      <4>1. k \in 1..n /\ k \in 0..n /\ k - 1 \in 0..n
        BY <3>2
      <4> QED BY <2>1, <2>2, <4>1
    <3> QED BY <3>1, <3>2
  <2>4. g[0] = put(t, e, d)
    <3>1. 0 \in 0..n
      OBVIOUS
    <3>2. f[0] = put(t, e, d)
      BY <2>1, Zenon
    <3> QED BY <2>2, <3>1, <3>2, Zenon
  <2>5. Goes(g, n + 1)
    BY <2>3, <2>4
  <2> HIDE DEF Goes
  <2> QED BY <2>2, <2>5
<1>5. \A n \in Nat : n \in Good
  <2> HIDE DEF Good
  <2> QED BY <1>3, <1>4, Induction
<1>6. PICK f : f = [k \in 0..N |-> f[k]] /\ Goes(f, N)
  BY <1>2, <1>5
<1>7. Is(f)
  <2>1. \A k \in 0..N : k = 0 \/ k \in 1..N
    BY <1>2
  <2>2. \A k \in 0..N : f[k] = IF k = 0 THEN put(t, e, d) ELSE Step(f[k - 1], k)
    BY <1>6, <2>1
  <2> QED BY <1>6, <2>2
<1>8. Is(G)
  <2> HIDE DEF Is
  <2> QED BY <1>7
<1> HIDE DEF G
<1>9. G[0] = put(t, e, d) /\ \A k \in 1..N : G[k] = Step(G[k - 1], k)
  BY <1>2, <1>8
<1>10. Populating(G, t, e)
  BY <1>9 DEF Populating, Step, N
<1> QED BY <1>1, <1>10 DEF N

\* To populate a tree adds the package to what it holds.
LEMMA PopulateHolds ==
  ASSUME NEW E, Named(E), NEW t \in Trees(E), NEW S, S \subseteq E, Holds(t, S),
         NEW e \in E, e \notin S
  PROVE  /\ package_tree_populate(t, e) \in Trees(E)
         /\ Holds(package_tree_populate(t, e), S \cup {e})
<1> DEFINE d == Depth(t, e.name)
           N == Len(e.name) - d
           NodeAt(k) == Path(e.name, d + k - 1)
<1>1. Reaches(t, e.name, d)
  BY DepthReaches DEF Named
<1>2. d \in 0..Len(e.name) /\ Len(e.name) \in Nat
  BY <1>1, LettersAre DEF Named, Reaches
<1> HIDE DEF d
<1>3. N \in Nat
  BY <1>2
<1>4. PICK g : Populating(g, t, e) /\ package_tree_populate(t, e) = g[N]
  BY <1>3, PopulateSteps DEF d
<1>5. /\ g[0] = put(t, e, d)
      /\ \A k \in 1..N :
           g[k] = IF Len(g[k - 1][NodeAt(k)].list) > ListLimit THEN spread(g[k - 1], NodeAt(k)) ELSE g[k - 1]
  BY <1>4 DEF Populating, d
<1>6. \A k \in 1..N : NodeAt(k) \in Paths
  <2> TAKE k \in 1..N
  <2>1. d + k - 1 \in 0..Len(e.name)
    BY <1>2
  <2> QED BY <2>1, PathIs DEF Named
<1> HIDE DEF N, NodeAt
<1> DEFINE Good == {k \in Nat : k <= N => g[k] \in Trees(E) /\ Holds(g[k], S \cup {e})}
<1>7. 0 \in Good
  BY <1>1, <1>5, PutHolds
<1>8. ASSUME NEW k \in Nat, k \in Good PROVE k + 1 \in Good
  <2> SUFFICES ASSUME k + 1 <= N PROVE g[k + 1] \in Trees(E) /\ Holds(g[k + 1], S \cup {e})
    OBVIOUS
  <2> DEFINE node == NodeAt(k + 1)
  <2>1. k <= N /\ k + 1 \in 1..N /\ (k + 1) - 1 = k
    BY <1>3
  <2>2. g[k] \in Trees(E) /\ Holds(g[k], S \cup {e})
    BY <1>8, <2>1
  <2>3. g[k + 1] = IF Len(g[k][node].list) > ListLimit THEN spread(g[k], node) ELSE g[k]
    BY <1>5, <2>1
  <2>4. node \in Paths /\ S \cup {e} \subseteq E
    BY <1>6, <2>1
  <2> HIDE DEF node
  <2>5. ASSUME Len(g[k][node].list) > ListLimit PROVE g[k][node].list # << >>
    <3>1. ListLimit \in Nat /\ Len(<< >>) = 0
      BY DependenciesAssumption
    <3> QED BY <2>5, <3>1
  <2>6. g[k][node].list # << >> => spread(g[k], node) \in Trees(E) /\ Holds(spread(g[k], node), S \cup {e})
    BY <2>2, <2>4, SpreadHolds
  <2> QED BY <2>2, <2>3, <2>5, <2>6
<1>9. \A k \in Nat : k \in Good
  <2> HIDE DEF Good
  <2> QED BY <1>7, <1>8, Induction
<1> QED BY <1>3, <1>4, <1>9

\* The loop over the packages
Building(g, entries, taken) ==
  /\ g[0] = [node \in Paths |-> NoNode]
  /\ \A k \in 1..Len(entries) :
       g[k] = IF entries[k] \in taken THEN package_tree_populate(g[k - 1], entries[k]) ELSE g[k - 1]

\* The recursion over the packages is defined.
LEMMA TreeSteps ==
  ASSUME NEW entries, NEW taken, Len(entries) \in Nat
  PROVE  \E g : Building(g, entries, taken) /\ Tree(entries, taken) = g[Len(entries)]
<1> DEFINE N == Len(entries)
           empty == [node \in Paths |-> NoNode]
           Step(u, k) == IF entries[k] \in taken THEN package_tree_populate(u, entries[k]) ELSE u
           Is(g) == g = [k \in 0..N |-> IF k = 0 THEN empty ELSE Step(g[k - 1], k)]
           G == CHOOSE g : Is(g)
           Goes(g, n) == g[0] = empty /\ \A k \in 1..n : g[k] = Step(g[k - 1], k)
           Good == {n \in Nat : \E g : g = [k \in 0..n |-> g[k]] /\ Goes(g, n)}
<1>1. Tree(entries, taken) = G[N]
  BY DEF Tree
<1>2. N \in Nat
  OBVIOUS
<1> HIDE DEF N, Step, empty
<1>3. 0 \in Good
  <2> DEFINE g == [k \in 0..0 |-> empty]
  <2>1. g = [k \in 0..0 |-> g[k]] /\ Goes(g, 0)
    OBVIOUS
  <2> QED BY <2>1
<1>4. ASSUME NEW n \in Nat, n \in Good PROVE n + 1 \in Good
  <2>1. PICK f : f = [k \in 0..n |-> f[k]] /\ Goes(f, n)
    BY <1>4
  <2> DEFINE g == [k \in 0..n + 1 |-> IF k = n + 1 THEN Step(f[n], n + 1) ELSE f[k]]
  <2>2. g = [k \in 0..n + 1 |-> g[k]] /\ g[n + 1] = Step(f[n], n + 1) /\ \A k \in 0..n : g[k] = f[k]
    OBVIOUS
  <2> HIDE DEF g
  <2>3. ASSUME NEW k \in 1..n + 1 PROVE g[k] = Step(g[k - 1], k)
    <3>1. CASE k = n + 1
      <4>1. k - 1 = n /\ n \in 0..n
        BY <3>1
      <4> QED BY <2>2, <3>1, <4>1
    <3>2. CASE k # n + 1
      <4>1. k \in 1..n /\ k \in 0..n /\ k - 1 \in 0..n
        BY <3>2
      <4> QED BY <2>1, <2>2, <4>1
    <3> QED BY <3>1, <3>2
  <2>4. g[0] = empty
    <3>1. 0 \in 0..n
      OBVIOUS
    <3>2. f[0] = empty
      BY <2>1, Zenon
    <3> QED BY <2>2, <3>1, <3>2, Zenon
  <2>5. Goes(g, n + 1)
    BY <2>3, <2>4
  <2> HIDE DEF Goes
  <2> QED BY <2>2, <2>5
<1>5. \A n \in Nat : n \in Good
  <2> HIDE DEF Good
  <2> QED BY <1>3, <1>4, Induction
<1>6. PICK f : f = [k \in 0..N |-> f[k]] /\ Goes(f, N)
  BY <1>2, <1>5
<1>7. Is(f)
  <2>1. \A k \in 0..N : k = 0 \/ k \in 1..N
    BY <1>2
  <2>2. \A k \in 0..N : f[k] = IF k = 0 THEN empty ELSE Step(f[k - 1], k)
    BY <1>6, <2>1
  <2> QED BY <1>6, <2>2
<1>8. Is(G)
  <2> HIDE DEF Is
  <2> QED BY <1>7
<1> HIDE DEF G
<1>9. G[0] = empty /\ \A k \in 1..N : G[k] = Step(G[k - 1], k)
  BY <1>2, <1>8
<1>10. Building(G, entries, taken)
  BY <1>9 DEF Building, Step, N, empty
<1> QED BY <1>1, <1>10 DEF N

\* A tree holds what was taken for it.
LEMMA TreeHolds ==
  ASSUME NEW E, Named(E), NEW entries \in Seq(E), Once(entries), NEW taken
  PROVE  /\ Tree(entries, taken) \in Trees(E)
         /\ Holds(Tree(entries, taken), ToSet(entries) \cap taken)
<1> DEFINE N == Len(entries)
           empty == [node \in Paths |-> NoNode]
           T(k) == {entries[i] : i \in 1..k} \cap taken
<1>1. N \in Nat /\ \A k \in 1..N : entries[k] \in E
  OBVIOUS
<1>2. PICK g : Building(g, entries, taken) /\ Tree(entries, taken) = g[N]
  BY <1>1, TreeSteps
<1>3. /\ g[0] = empty
      /\ \A k \in 1..N :
           g[k] = IF entries[k] \in taken THEN package_tree_populate(g[k - 1], entries[k]) ELSE g[k - 1]
  BY <1>2 DEF Building
<1>4. T(N) = ToSet(entries) \cap taken
  BY ToSetIs
<1>5. \A i, j \in 1..N : entries[i] = entries[j] => i = j
  BY DEF Once
<1>6. empty \in Trees(E) /\ Holds(empty, {})
  <2>1. NoNode \in Node(E) /\ NoNode.match = << >> /\ NoNode.list = << >> /\ NoNode.lookup = FALSE
    BY DEF NoNode, Node
  <2>2. empty \in Trees(E) /\ \A p \in Paths : empty[p] = NoNode
    BY <2>1 DEF Trees
  <2> HIDE DEF empty
  <2>3. ToSet(<< >>) = {} /\ Once(<< >>)
    BY DEF ToSet, Once
  <2>4. Below(empty)
    <3> SUFFICES ASSUME NEW name \in Name, NEW n \in 0..Len(name) - 1 PROVE ~empty[Path(name, n + 1)].lookup
      BY DEF Below
    <3>1. n + 1 \in 0..Len(name)
      BY LettersAre
    <3> QED BY <2>1, <2>2, <3>1, PathIs
  <2>5. AllOnce(empty) /\ Matches(empty, {}) /\ Lists(empty, {}) /\ HasAll(empty, {})
    BY <2>1, <2>2, <2>3 DEF AllOnce, Matches, Lists, HasAll
  <2> QED BY <2>2, <2>4, <2>5 DEF Holds
<1> HIDE DEF N, empty
<1> DEFINE Good == {k \in Nat : k <= N => g[k] \in Trees(E) /\ Holds(g[k], T(k))}
<1>7. 0 \in Good
  <2>1. T(0) = {}
    OBVIOUS
  <2> QED BY <1>3, <1>6, <2>1
<1>8. ASSUME NEW k \in Nat, k \in Good PROVE k + 1 \in Good
  <2> SUFFICES ASSUME k + 1 <= N PROVE g[k + 1] \in Trees(E) /\ Holds(g[k + 1], T(k + 1))
    OBVIOUS
  <2> DEFINE e == entries[k + 1]
  <2>1. k <= N /\ k + 1 \in 1..N /\ (k + 1) - 1 = k
    BY <1>1
  <2>2. g[k] \in Trees(E) /\ Holds(g[k], T(k))
    BY <1>8, <2>1
  <2>3. g[k + 1] = IF e \in taken THEN package_tree_populate(g[k], e) ELSE g[k]
    BY <1>3, <2>1
  <2>4. e \in E /\ T(k) \subseteq E /\ e \notin T(k)
    <3>1. \A i \in 1..k : i \in 1..N /\ i # k + 1
      BY <1>1, <2>1
    <3> QED BY <1>1, <1>5, <2>1, <3>1
  <2>5. T(k + 1) = IF e \in taken THEN T(k) \cup {e} ELSE T(k)
    <3>1. 1..k + 1 = (1..k) \cup {k + 1}
      OBVIOUS
    <3> QED BY <3>1
  <2> HIDE DEF T, e
  <2>6. /\ package_tree_populate(g[k], e) \in Trees(E)
        /\ Holds(package_tree_populate(g[k], e), T(k) \cup {e})
    BY <2>2, <2>4, PopulateHolds
  <2> QED BY <2>2, <2>3, <2>5, <2>6
<1>9. \A k \in Nat : k \in Good
  <2> HIDE DEF Good
  <2> QED BY <1>7, <1>8, Induction
<1>10. g[N] \in Trees(E) /\ Holds(g[N], T(N))
  <2> HIDE DEF T
  <2> QED BY <1>1, <1>9
<1> QED BY <1>2, <1>4, <1>10

\* What a look-up finds in a tree: the packages of the name, each once
LEMMA FindsAll ==
  ASSUME NEW E, Named(E), NEW t \in Trees(E), NEW S, S \subseteq E, Holds(t, S), NEW name \in Name
  PROVE  LET l == find_list(name, t)
         IN /\ l \in Seq(E) /\ Once(l)
            /\ {l[i] : i \in Found(name, l)} = {e \in S : e.name = name}
<1> DEFINE d == Depth(t, name)
           p == Path(name, d)
           l == find_list(name, t)
<1>1. Reaches(t, name, d)
  BY DepthReaches
<1>2. l = Held(t, name, d)
  BY DEF find_list, Held
<1> HIDE DEF d, l
<1>3. d \in 0..Len(name) /\ p \in Paths /\ Len(p) = d
  BY <1>1, PathIs DEF Reaches
<1>4. l = IF d = Len(name) THEN t[p].match ELSE t[p].list
  BY <1>2 DEF Held
<1> HIDE DEF p
<1>5. l \in Seq(E) /\ Once(l) /\ ToSet(l) \subseteq S
  <2>1. t[p].match \in Seq(E) /\ t[p].list \in Seq(E)
    BY <1>3 DEF Trees, Node
  <2>2. Once(t[p].match) /\ Once(t[p].list)
    BY <1>3 DEF Holds, AllOnce
  <2>3. ToSet(t[p].match) \subseteq S /\ ToSet(t[p].list) \subseteq S
    BY <1>3 DEF Holds, Matches, Lists
  <2> QED BY <1>4, <2>1, <2>2, <2>3
<1>6. {l[i] : i \in Found(name, l)} = {e \in ToSet(l) : e.name = name}
  <2>1. ToSet(l) = {l[i] : i \in 1..Len(l)}
    BY <1>5, ToSetIs
  <2> QED BY <2>1 DEF Found
<1>7. ASSUME NEW e \in S, e.name = name PROVE e \in ToSet(l)
  <2>1. PICK n \in 0..Len(name) : e \in ToSet(Held(t, name, n))
    BY <1>7 DEF Holds, HasAll
  <2>2. Path(name, n) \in Paths /\ Len(Path(name, n)) = n
    BY PathIs
  <2>3. Reaches(t, name, n)
    <3>1. CASE n = Len(name)
      BY <1>7, <2>1, <2>2, <3>1 DEF Held, Holds, Matches
    <3>2. CASE n # Len(name)
      BY <1>7, <2>1, <2>2, <3>2 DEF Held, Holds, Lists
    <3> QED BY <3>1, <3>2
  <2>4. n = d
    BY <1>1, <2>3, ReachesOne
  <2> QED BY <1>2, <2>1, <2>4
<1> QED BY <1>5, <1>6, <1>7 DEF l

-----------------------------------------------------------------------------
(* What is installed                                                       *)

\* Stanzas of the same name are for different architectures, and what is installed
\* of them has the same version.  Packages of dbpd have different names.
Apart ==
  \A i, j \in 1..Len(status) : status[i].name = status[j].name =>
    /\ status[i].arch = status[j].arch => i = j
    /\ installed(status[i]) /\ installed(status[j]) => status[i].version = status[j].version
NamesApart ==
  \A i, j \in 1..Len(packages) : packages[i].name = packages[j].name => i = j

\* The invariant by which the theorems about the trees hold
DependInv ==
  /\ status \in Seq(Stanza) /\ packages \in Seq(DBPList)
  /\ Apart /\ NamesApart

\* What is in a list with one more
LEMMA AppendIs ==
  ASSUME NEW E, NEW s \in Seq(E), NEW e \in E
  PROVE  /\ Append(s, e) \in Seq(E) /\ Len(Append(s, e)) = Len(s) + 1
         /\ \A i \in 1..Len(Append(s, e)) :
              \/ i \in 1..Len(s) /\ Append(s, e)[i] = s[i] /\ s[i] \in ToSet(s)
              \/ i = Len(s) + 1 /\ Append(s, e)[i] = e
<1>1. ToSet(s) = {s[i] : i \in 1..Len(s)}
  BY ToSetIs
<1> DEFINE r == Append(s, e)
<1>2. r \in Seq(E) /\ Len(r) = Len(s) + 1 /\ r[Len(s) + 1] = e /\ \A i \in 1..Len(s) : r[i] = s[i]
  OBVIOUS
<1> HIDE DEF r
<1>3. \A i \in 1..Len(r) : i \in 1..Len(s) \/ i = Len(s) + 1
  BY <1>2
<1> QED BY <1>1, <1>2, <1>3 DEF r

\* The machine keeps it.
LEMMA DependInvariant == DependSpec => []DependInv
<1>1. DependInit => DependInv
  <2> SUFFICES ASSUME status = << >>, packages = << >> PROVE DependInv
    BY DEF DependInit
  <2>1. status \in Seq(Stanza) /\ packages \in Seq(DBPList) /\ Len(status) = 0 /\ Len(packages) = 0
    OBVIOUS
  <2> QED BY <2>1 DEF DependInv, Apart, NamesApart
<1>2. DependInv /\ [DependNext]_<<version, status, packages>> => DependInv'
  <2> SUFFICES ASSUME DependInv, [DependNext]_<<version, status, packages>> PROVE DependInv'
    OBVIOUS
  <2>1. ASSUME NEW stanza \in Stanza, dpkg(stanza) PROVE DependInv'
    <3>1. /\ status' = Append(status, stanza) /\ packages' = packages
          /\ \A e \in ToSet(status) : e.name = stanza.name =>
               /\ e.arch # stanza.arch
               /\ installed(e) /\ installed(stanza) => e.version = stanza.version
      BY <2>1 DEF dpkg
    <3>2. status \in Seq(Stanza) /\ Apart
      BY DEF DependInv
    <3>3. /\ status' \in Seq(Stanza)
          /\ \A i \in 1..Len(status') :
               \/ i \in 1..Len(status) /\ status'[i] = status[i] /\ status[i] \in ToSet(status)
               \/ i = Len(status) + 1 /\ status'[i] = stanza
      BY <3>1, <3>2, AppendIs
    <3>4. Apart'
      <4> SUFFICES ASSUME NEW i \in 1..Len(status'), NEW j \in 1..Len(status'),
                          status'[i].name = status'[j].name
                   PROVE  /\ status'[i].arch = status'[j].arch => i = j
                          /\ installed(status'[i]) /\ installed(status'[j]) =>
                               status'[i].version = status'[j].version
        BY DEF Apart, installed
      <4>1. \/ i \in 1..Len(status) /\ status'[i] = status[i] /\ status[i] \in ToSet(status)
            \/ i = Len(status) + 1 /\ status'[i] = stanza
        BY <3>3
      <4>2. \/ j \in 1..Len(status) /\ status'[j] = status[j] /\ status[j] \in ToSet(status)
            \/ j = Len(status) + 1 /\ status'[j] = stanza
        BY <3>3
      <4>3. CASE status'[i] = stanza /\ status'[j] = stanza
        BY <3>1, <4>1, <4>2, <4>3
      <4>4. CASE status'[i] # stanza \/ status'[j] # stanza
        BY <3>1, <3>2, <4>1, <4>2, <4>4 DEF Apart
      <4> QED BY <4>3, <4>4
    <3> QED BY <3>1, <3>3, <3>4 DEF DependInv, NamesApart
  <2>2. ASSUME NEW entry \in DBPList, register(entry) PROVE DependInv'
    <3>1. /\ packages' = Append(packages, entry) /\ status' = status
          /\ \A e \in ToSet(packages) : e.name # entry.name
      BY <2>2 DEF register
    <3>2. packages \in Seq(DBPList) /\ NamesApart
      BY DEF DependInv
    <3>3. /\ packages' \in Seq(DBPList)
          /\ \A i \in 1..Len(packages') :
               \/ i \in 1..Len(packages) /\ packages'[i] = packages[i] /\ packages[i] \in ToSet(packages)
               \/ i = Len(packages) + 1 /\ packages'[i] = entry
      BY <3>1, <3>2, AppendIs
    <3>4. NamesApart'
      BY <3>1, <3>2, <3>3 DEF NamesApart
    <3> QED BY <3>1, <3>3, <3>4 DEF DependInv, Apart, installed
  <2>3. CASE UNCHANGED <<status, packages>>
    BY <2>3 DEF DependInv, Apart, NamesApart, installed
  <2> QED BY <2>1, <2>2, <2>3 DEF DependNext, Installs
<1> QED BY <1>1, <1>2, PTL DEF DependSpec

\* The other words that "installed" is looked for in, and that dpkg writes while it
\* installs or for what it never did (installed, in Dependencies)
WordsApart == Status \cap {"half-installed", "not-installed"} = {}

\* The two trees, and what they hold
LEMMA RootsHold ==
  ASSUME DependInv
  PROVE  /\ Named(Stanza) /\ Named(DBPList)
         /\ debian_root \in Trees(Stanza)
         /\ Holds(debian_root, {e \in ToSet(status) : installed(e)})
         /\ dbp_root \in Trees(DBPList) /\ Holds(dbp_root, ToSet(packages))
         /\ ToSet(status) \subseteq Stanza /\ ToSet(packages) \subseteq DBPList
<1> DEFINE S == {e \in ToSet(status) : installed(e)}
           r == Reverse(packages)
<1>1. Named(Stanza) /\ Named(DBPList)
  BY DEF Named, Stanza, DBPList
<1>2. /\ status \in Seq(Stanza) /\ packages \in Seq(DBPList) /\ Apart /\ NamesApart
      /\ ToSet(status) \subseteq Stanza /\ ToSet(packages) \subseteq DBPList
  BY ToSetIs DEF DependInv
<1>3. Once(status)
  BY <1>2 DEF Once, Apart
<1>4. r \in Seq(DBPList) /\ Once(r) /\ ToSet(r) = ToSet(packages)
  <2> DEFINE l == Len(packages)
  <2>1. l \in Nat /\ \A i \in 1..l : packages[i] \in DBPList
    BY <1>2
  <2>2. \A i \in 1..l : (l - i) + 1 \in 1..l /\ (l - ((l - i) + 1)) + 1 = i
    BY <2>1
  <2>3. r = [i \in 1..l |-> packages[(l - i) + 1]]
    BY DEF Reverse
  <2> HIDE DEF l, r
  <2>4. r \in Seq(DBPList) /\ Len(r) = l /\ \A i \in 1..l : r[i] = packages[(l - i) + 1]
    BY <2>1, <2>2, <2>3
  <2>5. ToSet(r) = {r[i] : i \in 1..l} /\ ToSet(packages) = {packages[i] : i \in 1..l}
    BY <1>2, <2>4, ToSetIs DEF l
  <2>6. ToSet(r) = ToSet(packages)
    <3>1. ASSUME NEW i \in 1..l PROVE packages[i] \in ToSet(r)
      <4>1. r[(l - i) + 1] = packages[i] /\ (l - i) + 1 \in 1..l
        BY <2>2, <2>4
      <4> QED BY <2>5, <4>1
    <3>2. ASSUME NEW i \in 1..l PROVE r[i] \in ToSet(packages)
      BY <2>2, <2>4, <2>5
    <3> QED BY <2>5, <3>1, <3>2
  <2>7. Once(r)
    <3> SUFFICES ASSUME NEW i \in 1..l, NEW j \in 1..l, r[i] = r[j] PROVE i = j
      BY <2>4 DEF Once
    <3>1. \A k, m \in 1..l : packages[k].name = packages[m].name => k = m
      BY <1>2, Zenon DEF NamesApart, l
    <3>2. packages[(l - i) + 1] = packages[(l - j) + 1]
      BY <2>4
    <3>3. (l - i) + 1 \in 1..l /\ (l - j) + 1 \in 1..l
      BY <2>2
    <3>4. (l - i) + 1 = (l - j) + 1
      BY <3>1, <3>2, <3>3, Zenon
    <3> QED BY <2>1, <3>4
  <2> QED BY <2>4, <2>6, <2>7 DEF r
<1> HIDE DEF S, r
<1>5. debian_root = Tree(status, S) /\ dbp_root = Tree(r, ToSet(packages))
  BY DEF debian_root, dbp_root, S, r
<1>6. /\ Tree(status, S) \in Trees(Stanza) /\ Holds(Tree(status, S), ToSet(status) \cap S)
  BY <1>1, <1>2, <1>3, TreeHolds
<1>7. /\ Tree(r, ToSet(packages)) \in Trees(DBPList)
      /\ Holds(Tree(r, ToSet(packages)), ToSet(r) \cap ToSet(packages))
  BY <1>1, <1>4, TreeHolds
<1>8. ToSet(status) \cap S = S /\ ToSet(r) \cap ToSet(packages) = ToSet(packages)
  BY <1>4 DEF S
<1> QED BY <1>1, <1>2, <1>5, <1>6, <1>7, <1>8 DEF S

\* What is found is the installed packages of the name.
LEMMA FoundIn ==
  ASSUME DependInv, WordsApart, NEW name \in Name
  PROVE  LET l == find_list(name, debian_root)
             k == find_list(name, dbp_root)
         IN /\ l \in Seq(Stanza) /\ Once(l)
            /\ {l[i] : i \in Found(name, l)} = {e \in ToSet(status) : IsInstalled(e) /\ e.name = name}
            /\ k \in Seq(DBPList) /\ Once(k)
            /\ {k[i] : i \in Found(name, k)} = {e \in ToSet(packages) : e.name = name}
<1> DEFINE S == {e \in ToSet(status) : installed(e)}
           T == ToSet(packages)
           l == find_list(name, debian_root)
           k == find_list(name, dbp_root)
<1>1. /\ Named(Stanza) /\ Named(DBPList)
      /\ debian_root \in Trees(Stanza) /\ Holds(debian_root, S)
      /\ dbp_root \in Trees(DBPList) /\ Holds(dbp_root, T)
      /\ S \subseteq Stanza /\ T \subseteq DBPList
  BY RootsHold
<1>2. {e \in S : e.name = name} = {e \in ToSet(status) : IsInstalled(e) /\ e.name = name}
  <2>1. ASSUME NEW e \in ToSet(status) PROVE installed(e) <=> IsInstalled(e)
    <3>1. e.status \in Status
      BY RootsHold DEF Stanza
    <3> QED BY <3>1 DEF installed, IsInstalled, WordsApart
  <2> QED BY <2>1
<1> HIDE DEF S, T
<1>3. /\ l \in Seq(Stanza) /\ Once(l) /\ {l[i] : i \in Found(name, l)} = {e \in S : e.name = name}
  <2> HIDE DEF l
  <2> QED BY <1>1, FindsAll DEF l
<1>4. /\ k \in Seq(DBPList) /\ Once(k) /\ {k[i] : i \in Found(name, k)} = {e \in T : e.name = name}
  <2> HIDE DEF k
  <2> QED BY <1>1, FindsAll DEF k
<1> QED BY <1>2, <1>3, <1>4, Zenon DEF T

\* Whatever the names are and however long a list may be, in whatever order packages
\* come and whatever was spread: dbpmgr_depend_debian_next and dbpmgr_depend_dbp_next
\* find each installed package under its name, once, and nothing else, unless the
\* status file uses another word that "installed" is in.
THEOREM FindsInstalled ==
  ASSUME WordsApart
  PROVE  DependSpec => []FindsExact
<1>1. DependInv => FindsExact
  <2> SUFFICES ASSUME DependInv, NEW n \in Name
               PROVE  LET l == find_list(n, debian_root)
                          k == find_list(n, dbp_root)
                      IN /\ \A i, j \in Found(n, l) : l[i] = l[j] => i = j
                         /\ {l[i] : i \in Found(n, l)} =
                              {e \in {x \in ToSet(status) : IsInstalled(x)} : e.name = n}
                         /\ \A i, j \in Found(n, k) : k[i] = k[j] => i = j
                         /\ {k[i] : i \in Found(n, k)} = {e \in ToSet(packages) : e.name = n}
    BY Zenon DEF FindsExact
  <2> DEFINE l == find_list(n, debian_root)
             k == find_list(n, dbp_root)
  <2>1. /\ Once(l) /\ Once(k)
        /\ {l[i] : i \in Found(n, l)} = {e \in ToSet(status) : IsInstalled(e) /\ e.name = n}
        /\ {k[i] : i \in Found(n, k)} = {e \in ToSet(packages) : e.name = n}
    BY FoundIn
  <2> HIDE DEF l, k
  <2>2. Found(n, l) \subseteq 1..Len(l) /\ Found(n, k) \subseteq 1..Len(k)
    BY DEF Found
  <2> QED BY <2>1, <2>2 DEF Once, l, k
<1> QED BY <1>1, DependInvariant, PTL

-----------------------------------------------------------------------------
(* What is missing                                                         *)

\* dbpmgr_depend_debian_check finds what there is for the architecture.
LEMMA DebianCheckIs ==
  ASSUME DependInv, WordsApart, NEW dep \in Dependency
  PROVE  dbpmgr_depend_debian_check(debian_root, dep) <=>
           \E e \in ToSet(status) :
             /\ IsInstalled(e) /\ e.name = dep.pkg_name
             /\ dep.arch = "any" \/ e.arch \in {"any", "all", dep.arch}
             /\ Satisfies(e.version, dep)
<1> DEFINE name == dep.pkg_name
           l == find_list(name, debian_root)
           F == Found(name, l)
           found == {i \in F : arch_matches(l[i], dep)}
           Fits(e) == dep.arch = "any" \/ e.arch \in {"any", "all", dep.arch}
           Installed == {e \in ToSet(status) : IsInstalled(e) /\ e.name = name}
<1>1. name \in Name
  BY DEF Dependency
<1>2. l \in Seq(Stanza) /\ {l[i] : i \in F} = Installed
  BY <1>1, FoundIn
<1>3. dbpmgr_depend_debian_check(debian_root, dep) <=>
        found # {} /\ Satisfies(l[Min(found)].version, dep)
  BY DEF dbpmgr_depend_debian_check
<1>4. F \subseteq Nat
  BY <1>2 DEF Found
<1> HIDE DEF F, l
<1>5. \A i \in F : i \in found <=> Fits(l[i])
  BY DEF arch_matches
<1>6. found \subseteq F
  OBVIOUS
<1>7. ASSUME NEW e \in Installed, NEW x \in Installed PROVE e.version = x.version
  <2>1. /\ ToSet(status) = {status[i] : i \in 1..Len(status)} /\ Apart
        /\ ToSet(status) \subseteq Stanza
    BY ToSetIs DEF DependInv
  <2>2. e.name = x.name /\ installed(e) /\ installed(x)
    BY DEF IsInstalled, installed
  <2> QED BY <2>1, <2>2 DEF Apart
<1> HIDE DEF found
<1>8. ASSUME found # {}
      PROVE  Min(found) \in F /\ l[Min(found)] \in Installed /\ Fits(l[Min(found)])
  <2>1. Min(found) \in found
    BY <1>4, <1>6, <1>8, MinIs
  <2> QED BY <1>2, <1>5, <1>6, <2>1
<1>9. ASSUME NEW e \in Installed, Fits(e) PROVE found # {}
  <2>1. PICK i \in F : l[i] = e
    BY <1>2
  <2> QED BY <1>5, <1>9, <2>1
<1> HIDE DEF Fits
<1>10. found # {} /\ Satisfies(l[Min(found)].version, dep) <=>
         \E e \in Installed : Fits(e) /\ Satisfies(e.version, dep)
  <2>1. ASSUME found # {}, Satisfies(l[Min(found)].version, dep)
        PROVE  \E e \in Installed : Fits(e) /\ Satisfies(e.version, dep)
    BY <1>8, <2>1
  <2>2. ASSUME NEW e \in Installed, Fits(e), Satisfies(e.version, dep)
        PROVE  found # {} /\ Satisfies(l[Min(found)].version, dep)
    <3>1. found # {} /\ l[Min(found)].version = e.version
      BY <1>7, <1>8, <1>9, <2>2
    <3> QED BY <2>2, <3>1
  <2> QED BY <2>1, <2>2
<1>11. (\E e \in Installed : Fits(e) /\ Satisfies(e.version, dep)) <=>
         \E e \in ToSet(status) :
           /\ IsInstalled(e) /\ e.name = dep.pkg_name
           /\ dep.arch = "any" \/ e.arch \in {"any", "all", dep.arch}
           /\ Satisfies(e.version, dep)
  BY DEF Fits
<1> QED BY <1>3, <1>10, <1>11

\* dbpmgr_depend_dbp_check finds what dbpd has.
LEMMA DbpCheckIs ==
  ASSUME DependInv, WordsApart, NEW dep \in Dependency
  PROVE  dbpmgr_depend_dbp_check(dbp_root, dep) <=>
           \E e \in ToSet(packages) : e.name = dep.pkg_name /\ Satisfies(e.version, dep)
<1> DEFINE name == dep.pkg_name
           l == find_list(name, dbp_root)
           F == Found(name, l)
           Registered == {e \in ToSet(packages) : e.name = name}
<1>1. name \in Name
  BY DEF Dependency
<1>2. l \in Seq(DBPList) /\ {l[i] : i \in F} = Registered
  BY <1>1, FoundIn
<1>3. dbpmgr_depend_dbp_check(dbp_root, dep) <=> F # {} /\ Satisfies(l[Min(F)].version, dep)
  BY DEF dbpmgr_depend_dbp_check
<1>4. F \subseteq Nat
  BY <1>2 DEF Found
<1> HIDE DEF F, l
<1>5. ASSUME NEW e \in Registered, NEW x \in Registered PROVE e = x
  <2>1. ToSet(packages) = {packages[i] : i \in 1..Len(packages)} /\ NamesApart
    BY ToSetIs DEF DependInv
  <2> QED BY <2>1 DEF NamesApart
<1>6. F # {} => l[Min(F)] \in Registered
  BY <1>2, <1>4, MinIs
<1>7. Registered # {} => F # {}
  BY <1>2
<1>8. F # {} /\ Satisfies(l[Min(F)].version, dep) <=>
        \E e \in Registered : Satisfies(e.version, dep)
  BY <1>5, <1>6, <1>7
<1> QED BY <1>3, <1>8

\* Whatever the names, versions and architectures: of dependencies on a package of
\* any version, or of one or newer, dbpmgr_depend_check names those as missing that
\* no package satisfies that their list allows, of those installed and those dbpd
\* has, provided that the index of letters is set up when it is needed (Defined).
THEOREM MissingNamed ==
  ASSUME WordsApart
  PROVE  DependSpec => []MissingRight
<1>1. DependInv => MissingRight
  <2> SUFFICES ASSUME DependInv PROVE MissingRight
    OBVIOUS
  <2> DEFINE Debian(dep) == \E e \in ToSet(status) :
                              /\ IsInstalled(e) /\ e.name = dep.pkg_name
                              /\ dep.arch = "any" \/ e.arch \in {"any", "all", dep.arch}
                              /\ Satisfies(e.version, dep)
             Dbp(dep) == \E e \in ToSet(packages) : e.name = dep.pkg_name /\ Satisfies(e.version, dep)
             debian == {dep \in Dependency : Debian(dep)}
             dbp == {dep \in Dependency : Dbp(dep)}
             Allowed(kind) == (IF kind = "dbponly" THEN {} ELSE debian) \cup (IF kind = "sysonly" THEN {} ELSE dbp)
  <2>1. \A dep \in Dependency : dbpmgr_depend_debian_check(debian_root, dep) <=> dep \in debian
    <3>1. \A dep \in Dependency : dbpmgr_depend_debian_check(debian_root, dep) <=> Debian(dep)
      BY DebianCheckIs
    <3> HIDE DEF Debian
    <3> QED BY <3>1
  <2>2. \A dep \in Dependency : dbpmgr_depend_dbp_check(dbp_root, dep) <=> dep \in dbp
    <3>1. \A dep \in Dependency : dbpmgr_depend_dbp_check(dbp_root, dep) <=> Dbp(dep)
      BY DbpCheckIs
    <3> HIDE DEF Dbp
    <3> QED BY <3>1
  <2>3. ASSUME NEW present \in {Kind, Kind \ {"sysonly", "syspref"}}
        PROVE  LET meta == [kind \in Kind |-> IF kind \in present THEN Dependency ELSE {}]
               IN dbpmgr_depend_check(meta) = [kind \in Kind |-> meta[kind] \ Allowed(kind)]
    <3> DEFINE meta == [kind \in Kind |-> IF kind \in present THEN Dependency ELSE {}]
               asked == UNION {meta[kind] : kind \in Kind}
               in_debian == {dep \in asked : dbpmgr_depend_debian_check(debian_root, dep)}
               in_dbp == {dep \in asked : dbpmgr_depend_dbp_check(dbp_root, dep)}
    <3>1. dbpmgr_depend_check(meta) =
            [kind \in Kind |-> {dep \in meta[kind] : missing(kind, dep \in in_debian, dep \in in_dbp)}]
      BY DEF dbpmgr_depend_check
    <3>2. ASSUME NEW kind \in Kind PROVE meta[kind] \subseteq Dependency
      OBVIOUS
    <3>3. ASSUME NEW kind \in Kind, NEW dep \in meta[kind] PROVE dep \in asked
      OBVIOUS
    <3> HIDE DEF meta, asked
    <3>4. ASSUME NEW kind \in Kind, NEW dep \in meta[kind]
          PROVE  (dep \in in_debian <=> dep \in debian) /\ (dep \in in_dbp <=> dep \in dbp)
      <4>1. dep \in Dependency /\ dep \in asked
        BY <3>2, <3>3
      <4> HIDE DEF debian, dbp
      <4> QED BY <2>1, <2>2, <4>1
    <3> HIDE DEF in_debian, in_dbp, debian, dbp
    <3>5. ASSUME NEW kind \in Kind, NEW dep \in meta[kind]
          PROVE  missing(kind, dep \in in_debian, dep \in in_dbp) <=> dep \notin Allowed(kind)
      <4>1. CASE kind = "sysonly"
        BY <3>4, <4>1 DEF missing
      <4>2. CASE kind = "dbponly"
        BY <3>4, <4>2 DEF missing
      <4>3. CASE kind # "sysonly" /\ kind # "dbponly"
        BY <3>4, <4>3 DEF missing
      <4> QED BY <4>1, <4>2, <4>3
    <3> HIDE DEF Allowed
    <3>6. ASSUME NEW kind \in Kind
          PROVE  {dep \in meta[kind] : missing(kind, dep \in in_debian, dep \in in_dbp)} =
                   meta[kind] \ Allowed(kind)
      BY <3>5
    <3>7. dbpmgr_depend_check(meta) = [kind \in Kind |-> meta[kind] \ Allowed(kind)]
      BY <3>1, <3>6
    <3> QED BY <3>7 DEF meta
  <2> QED BY <2>3, Zenon DEF MissingRight
<1> QED BY <1>1, DependInvariant, PTL

\* Of the versions that the machine writes, everything holds that holds of module
\* Version's: it writes them in the same way, and installing leaves them as they are.
THEOREM VersionsHold ==
  DependSpec => [](TypeOK /\ IsOrder /\ AgreesWithDebian /\ IntervalsPartition)
<1>1. DependInit => Init
  BY DEF DependInit
<1>2. [DependNext]_<<version, status, packages>> => [Next]_version
  BY DEF DependNext
<1>3. DependSpec => Spec
  BY <1>1, <1>2, PTL DEF DependSpec, Spec
<1> QED BY <1>3, TypeCorrect, Ordered, DebianOrder, IntervalsExact, PTL
=============================================================================
