------------------------------ MODULE Version ------------------------------
(***************************************************************************)
(* libdbpmgr/dependencies.c: what a dependency such as "pkg:arch>=1.0<2"   *)
(* means, and the order of versions behind it.                             *)
(*                                                                         *)
(* A string is a sequence of characters, of which Char are used.  Versions *)
(* are compared by alternating numbers and other parts, after a possible   *)
(* epoch and before a possible revision.  The machine writes versions, one *)
(* character after the other; the properties compare what is written.      *)
(***************************************************************************)
EXTENDS Integers, Sequences, SequencesExt

CONSTANTS
  Char,        \* the characters versions are written with
  IntMax,      \* the greatest int
  LongMax,     \* the greatest long
  MaxLength    \* bound on the characters in two of them together, of which the first
               \* has at most half; one or three of them have one character less

Ascii == <<"+", "-", ".", "0", "1", "2", "3", "4", "5", "6", "7", "8", "9", ":",
           "A", "B", "a", "b", "c", "d", "e", "f", "x", "~">>

ASSUME VersionAssumption ==
  /\ Char \subseteq ToSet(Ascii)
  /\ {IntMax, LongMax} \subseteq Nat /\ IntMax <= LongMax
  /\ MaxLength \in Nat \ {0}

VARIABLE version

Code(c) == SelectInSeq(Ascii, LAMBDA x : x = c)
Alpha == {"A", "B", "a", "b", "c", "d", "e", "f", "x"}

\* The digits of each base, of value index - 1
Digits(base) ==
  SubSeq(<<"0", "1", "2", "3", "4", "5", "6", "7", "8", "9", "a", "b", "c", "d", "e", "f">>, 1, base)
Value(d) == SelectInSeq(Digits(16), LAMBDA x : x = d) - 1
DigitsOf == [base \in {8, 10, 16} |-> ToSet(Digits(base))]
Digit == DigitsOf[10]
NonDigit == Char \ Digit

Compared(m, n) == IF m < n THEN -1 ELSE IF m > n THEN 1 ELSE 0

\* What one comparison says, or the next one if that finds no difference
OrElse(result, next) == IF result # 0 THEN result ELSE next

\* The first place from i on whose character is not in C, or the end
After(s, i, C) == Min({k \in i..Len(s) + 1 : k > Len(s) \/ s[k] \notin C})

-----------------------------------------------------------------------------
(* Numbers                                                                 *)

\* The digits from i on
Number(s, i, base) ==
  LET end == After(s, i, DigitsOf[base])
      value[n \in Nat] == IF n = 0 THEN 0 ELSE value[n - 1] * base + Value(s[i + n - 1])
  IN value[end - i]

\* What strtol returns, as an int: the next long if there is none, and of that
\* the low bits
AsInt(n) ==
  LET long == IF n > LongMax THEN LongMax ELSE IF n < -LongMax - 1 THEN -LongMax - 1 ELSE n
  IN ((long + IntMax + 1) % (2 * IntMax + 2)) - (IntMax + 1)

At(s, i, C) == i <= Len(s) /\ s[i] \in C

SignAt(s, i) == IF At(s, i, {"-"}) THEN -1 ELSE 1
AfterSign(s, i) == IF At(s, i, {"+", "-"}) THEN i + 1 ELSE i

atoi(s) == AsInt(SignAt(s, 1) * Number(s, AfterSign(s, 1), 10))

\* sscanf with %i, to a variable that is 0: the base depends on the first digits
scan(s, i) ==
  LET k == AfterSign(s, i)
      base == IF ~At(s, k, {"0"}) THEN 10 ELSE IF At(s, k + 1, {"x"}) THEN 16 ELSE 8
  IN AsInt(SignAt(s, i) * Number(s, IF base = 16 THEN k + 2 ELSE k, base))

find_next_nonnumeric(s, i) == After(s, i, Digit)
find_next_numeric(s, i) == After(s, i, NonDigit)

-----------------------------------------------------------------------------
(* The order of versions                                                   *)

IsEnd(s, i) == i > Len(s) \/ s[i] \in Digit

\* Defect: whether the second is a letter is not looked at
compare_chars_first(c, d) ==
  IF c = "~" THEN -1 ELSE IF d = "~" THEN 1 ELSE IF c \notin Alpha THEN -1 ELSE 1

\* Two different characters: "~" first, letters last
compare_chars(c, d) ==
  CASE c = "~" -> -1
    [] d = "~" -> 1
    [] c \notin Alpha /\ d \in Alpha -> -1
    [] c \in Alpha /\ d \notin Alpha -> 1
    [] OTHER -> Compared(Code(c), Code(d))

\* Defect: the end comes before everything
compare_end_first(c) == -1

\* The end of one part against the character that the other goes on with
compare_end(c) == IF c = "~" THEN 1 ELSE -1

\* The parts of s from i and of t from j up to the next digit or the end
compare_substring(s, i, t, j) ==
  LET k == Min({n \in 0..Len(s) : IsEnd(s, i + n) \/ IsEnd(t, j + n) \/ s[i + n] # t[j + n]})
  IN CASE IsEnd(s, i + k) /\ IsEnd(t, j + k) -> 0
       [] IsEnd(s, i + k) /\ ~IsEnd(t, j + k) -> compare_end(t[j + k])
       [] ~IsEnd(s, i + k) /\ IsEnd(t, j + k) -> -compare_end(s[i + k])
       [] OTHER -> compare_chars(s[i + k], t[j + k])

\* Where s1, or s2, points after n rounds of the loop
Place(s, n) ==
  LET at[m \in Nat] ==
        IF m = 0 THEN 1 ELSE find_next_numeric(s, find_next_nonnumeric(s, at[m - 1]))
  IN at[n]

\* A round: the ends, or the numbers, and the parts up to the next ones
compare_round(s, i, t, j) ==
  CASE i > Len(s) /\ j > Len(t) -> 0
    [] i > Len(s) /\ j <= Len(t) -> compare_end(t[j])
    [] i <= Len(s) /\ j > Len(t) -> -compare_end(s[i])
    [] OTHER -> OrElse(Compared(scan(s, i), scan(t, j)),
                       compare_substring(s, find_next_nonnumeric(s, i), t, find_next_nonnumeric(t, j)))

\* The loop ends in the first round that finds both ends or a difference.
compare_version_string(s, t) ==
  LET Ends(n) == Place(s, n) > Len(s) \/ compare_round(s, Place(s, n), t, Place(t, n)) # 0
      last == Min({n \in 0..Len(s) : Ends(n)})
  IN compare_round(s, Place(s, last), t, Place(t, last))

\* Defect: the revision begins at the first dash
first_dash(w) == SelectInSeq(w, LAMBDA c : c = "-")

last_dash(w) == SelectLastInSeq(w, LAMBDA c : c = "-")

\* [epoch:]main[-revision]
version_decode(v) ==
  LET e == SelectInSeq(v, LAMBDA c : c = ":")
      w == SubSeq(v, e + 1, Len(v))
      r == last_dash(w)
  IN [epoch |-> IF e = 0 THEN <<"0">> ELSE SubSeq(v, 1, e - 1),
      main |-> IF r > 0 THEN SubSeq(w, 1, r - 1) ELSE IF w = << >> THEN <<"0">> ELSE w,
      rev |-> IF r > 0 THEN SubSeq(w, r + 1, Len(w)) ELSE <<"0">>]

dbpmgr_depend_compare_version(ver1, ver2) ==
  LET v1 == version_decode(ver1)
      v2 == version_decode(ver2)
  IN OrElse(Compared(atoi(v1.epoch), atoi(v2.epoch)),
            OrElse(compare_version_string(v1.main, v2.main), compare_version_string(v1.rev, v2.rev)))

-----------------------------------------------------------------------------
(* Dependencies                                                            *)

Comparison == {"<", "=", ">"}

\* Defect: the shorter one is found first
comparisons_short_first == <<<<"<">>, <<"=">>, <<">">>, <<"<", "=">>, <<">", "=">>>>

\* In the order in which a dependency string is compared with them
comparisons == <<<<"<", "=">>, <<">", "=">>, <<"<">>, <<"=">>, <<">">>>>

Accepts(operator, result) ==
  CASE operator = <<"<", "=">> -> result <= 0
    [] operator = <<">", "=">> -> result >= 0
    [] operator = <<"<">> -> result < 0
    [] operator = <<"=">> -> result = 0
    [] operator = <<">">> -> result > 0

\* Where the comparisons of a dependency begin, as find_next_version_param goes
\* from one to the next
Params(s) == {i \in 1..Len(s) : s[i] \in Comparison /\ (i = 1 \/ s[i - 1] \notin Comparison)}

\* dbpmgr_depend_parse.  Of several comparisons with the same operator the
\* first is kept.
dbpmgr_depend_parse(s) ==
  LET Until(i) == Min({j \in Params(s) : j > i} \cup {Len(s) + 1}) - 1
      Operator(i) == comparisons[SelectInSeq(comparisons, LAMBDA c : IsPrefix(c, SubSeq(s, i, Len(s))))]
      name == SubSeq(s, 1, Until(0))
      colon == SelectInSeq(name, LAMBDA c : c = ":")
      Kept == {i \in Params(s) : \A j \in Params(s) : j < i => Operator(j) # Operator(i)}
  IN [pkg_name |-> IF colon = 0 THEN name ELSE SubSeq(name, 1, colon - 1),
      arch |-> IF colon = 0 THEN "any" ELSE SubSeq(name, colon + 1, Len(name)),
      version |-> {<<Operator(i), SubSeq(s, i + Len(Operator(i)), Until(i))>> : i \in Kept}]

\* The loop over dep->version of both checks
Satisfies(v, dep) ==
  \A w \in dep.version : Accepts(w[1], dbpmgr_depend_compare_version(v, w[2]))

-----------------------------------------------------------------------------
(* Writing                                                                 *)

\* Neither the main part nor the revision is empty.  (With an empty revision
\* the order has a cycle: 1- before 1-0~ before 1-~1 before 1-.)
Complete(v) ==
  LET d == version_decode(v)
  IN d.main # << >> /\ d.rev # << >>

Length == FoldLeft(LAMBDA n, v : n + Len(v), 0, version)

Room(n) == Length < IF n = 2 THEN MaxLength ELSE MaxLength - 1

Write(c) ==
  /\ Room(Len(version))
  /\ version' = [version EXCEPT ![Len(version)] = Append(@, c)]

NextVersion ==
  /\ Len(version) < 3
  /\ Last(version) # << >> /\ Complete(Last(version))
  /\ 2 * Len(version[1]) <= MaxLength
  /\ Room(Len(version) + 1)
  /\ version' = Append(version, << >>)

Init == version = <<<< >>>>

Next == NextVersion \/ \E c \in Char : Write(c)

Spec == Init /\ [][Next]_version

-----------------------------------------------------------------------------
(* Properties                                                              *)

Written(n) ==
  /\ Len(version) = n
  /\ \A i \in 1..n : version[i] # << >> /\ Complete(version[i])

\* What is written, and its parts: the revision is what follows the last dash
TypeOK ==
  /\ version \in Seq(Seq(Char))
  /\ \A v \in ToSet(version) :
       /\ ToSet(version_decode(v).main) \subseteq Char \cup {"0"}
       /\ "-" \notin ToSet(version_decode(v).rev)

\* Versions are in an order: of two, either one is older or they are equal,
\* seen from both sides, and what is older than an older one is older.  Lists
\* of dependencies with several bounds depend on it.
IsOrder ==
  LET Cmp(i, j) == dbpmgr_depend_compare_version(version[i], version[j])
  IN /\ Written(2) => Cmp(1, 2) = -Cmp(2, 1)
     /\ Written(3) => (Cmp(1, 2) <= 0 /\ Cmp(2, 3) <= 0 => Cmp(1, 3) <= 0)

\* The order of Debian's policy, read as two lists: the parts without digits and
\* the numbers, "~" before the end of a part and the end before all else.
DebianRank(c) == IF c = "~" THEN -1 ELSE IF c \in Alpha THEN Code(c) ELSE Code(c) + 100
RankAt(part, n) == IF n > Len(part) THEN 0 ELSE DebianRank(part[n])
PartBefore(p, q) ==
  \E n \in 1..Len(p) + Len(q) :
    RankAt(p, n) < RankAt(q, n) /\ \A m \in 1..n - 1 : RankAt(p, m) = RankAt(q, m)

\* Where the parts of s begin, a part being a possibly empty run of other
\* characters and the number that follows
Parts(s) == {1} \cup {i \in 2..Len(s) : s[i] \notin Digit /\ s[i - 1] \in Digit}
PartOf(s, n) ==
  IF n > Cardinality(Parts(s)) THEN [other |-> << >>, number |-> 0]
  ELSE LET i == CHOOSE x \in Parts(s) : Cardinality({y \in Parts(s) : y <= x}) = n
           d == find_next_numeric(s, i)
       IN [other |-> SubSeq(s, i, d - 1), number |-> Number(s, d, 10)]

DebianBefore(s, t) ==
  \E n \in 1..Len(s) + Len(t) + 1 :
    LET p == PartOf(s, n)
        q == PartOf(t, n)
    IN /\ PartBefore(p.other, q.other) \/ (p.other = q.other /\ p.number < q.number)
       /\ \A m \in 1..n - 1 : PartOf(s, m) = PartOf(t, m)

\* No number that does not fit, or with a zero in front, which would be read as
\* octal or hexadecimal; digits at both ends, or there is a number missing to
\* compare
RegularString(s) ==
  /\ s # << >>
  /\ s[1] \in Digit /\ s[Len(s)] \in Digit
  /\ \A i \in 1..Len(s) : Number(s, i, 10) <= IntMax
  /\ \A i \in 1..Len(s) - 1 :
       s[i] = "0" /\ (i = 1 \/ s[i - 1] \notin Digit) => s[i + 1] \notin Digit \cup {"x"}

\* Letters and other characters but "~" are not mixed, because the code has letters
\* last and Debian has them first.
Unmixed(s, t) ==
  LET used == ToSet(s) \cup ToSet(t)
  IN used \cap Alpha = {} \/ used \subseteq Alpha \cup Digit \cup {"~"}

Regular(v, w) ==
  /\ \A x \in {v, w} :
       LET z == version_decode(x)
       IN /\ RegularString(z.main) /\ RegularString(z.rev)
          /\ ToSet(z.epoch) \subseteq Digit /\ Number(z.epoch, 1, 10) <= IntMax
  /\ Unmixed(version_decode(v).main, version_decode(w).main)
  /\ Unmixed(version_decode(v).rev, version_decode(w).rev)

\* The check of a Debian package's version agrees with Debian on versions that
\* are written in the usual way, epochs, revisions and "~" included, whichever of
\* the two is asked about.
AgreesWithDebian ==
  Written(2) /\ Regular(version[1], version[2]) =>
    LET Epoch(z) == Number(z.epoch, 1, 10)
        Before(x, y) == \/ Epoch(x) < Epoch(y)
                        \/ Epoch(x) = Epoch(y) /\ DebianBefore(x.main, y.main)
                        \/ /\ Epoch(x) = Epoch(y) /\ DebianBefore(x.rev, y.rev)
                           /\ ~DebianBefore(y.main, x.main)
    IN \A i, j \in 1..2 :
         dbpmgr_depend_compare_version(version[i], version[j]) < 0 <=>
           Before(version_decode(version[i]), version_decode(version[j]))

Needs(bounds) == dbpmgr_depend_parse(<<"p", "k", "g">> \o bounds)

\* A dependency with two bounds means the interval: for v not newer than w,
\* every version satisfies exactly one of pkg<v, pkg>=v<w and pkg>=w.
IntervalsPartition ==
  Written(3) =>
    LET u == version[1]
        v == version[2]
        w == version[3]
        pkgs == {Needs(<<"<">> \o v), Needs(<<">", "=">> \o v \o <<"<">> \o w), Needs(<<">", "=">> \o w)}
    IN Satisfies(v, Needs(<<"<", "=">> \o w)) =>
         Cardinality({d \in pkgs : Satisfies(u, d)}) = 1
=============================================================================
