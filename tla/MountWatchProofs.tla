-------------------------- MODULE MountWatchProofs --------------------------
(***************************************************************************)
(* Proofs about module MountWatch.                                         *)
(*                                                                         *)
(* The tables are compared line by line, by functions that are defined by  *)
(* recursion on the number of lines done.  Recursion says that such a      *)
(* function exists, UpTo is the induction over it; both come from the      *)
(* least element of a set of numbers.  With them follow                    *)
(*   - the types of what each operator returns (to TypeCorrect);           *)
(*   - what Compare does to a state of the scan in which mounts and        *)
(*     entries correspond one to one, line by line (Scan, ScanAll), and    *)
(*     what Purge leaves (PurgeAll), so that Diff is the difference of     *)
(*     two sets and keeps a watch for each mount (DiffFollows,             *)
(*     DiffDifference);                                                    *)
(*   - that each file that can be read and is not registered, and each     *)
(*     package that is registered and is gone, is still under way: at a    *)
(*     mount not known, in the events or in the changes (WholeNoticed,     *)
(*     GoneNoticed).                                                       *)
(***************************************************************************)
EXTENDS MountWatch, TLAPS, SequenceTheorems, FiniteSetTheorems, WellFoundedInduction

-----------------------------------------------------------------------------
(* Induction and recursion                                                 *)

\* Every non-empty set of natural numbers has a least element.
LEMMA Least ==
  ASSUME NEW S, S \subseteq Nat, S # {}
  PROVE  \E n \in S : \A m \in S : n <= m
<1> DEFINE R == {p \in Nat \X Nat : p[1] < p[2]}
<1>1. IsWellFoundedOn(R, Nat)
  <2>1. OpToRel(<, Nat) = R
    BY Zenon DEF OpToRel
  <2> QED BY <2>1, NatLessThanWellFounded, Zenon
<1>2. PICK n \in S : \A m \in S : ~(<<m, n>> \in R)
  <2> HIDE DEF R
  <2> QED BY <1>1, WFMin
<1>3. ASSUME NEW m \in S PROVE n <= m
  <2>1. ~(m < n)
    BY <1>2
  <2> QED BY <2>1
<1> QED BY <1>3

\* Induction up to k, for the numbers in a set.
LEMMA UpTo ==
  ASSUME NEW k \in Nat, NEW S, 0 \in S, \A n \in 1..k : n - 1 \in S => n \in S
  PROVE  \A n \in 0..k : n \in S
<1> DEFINE Bad == {n \in 0..k : n \notin S}
<1>1. ASSUME Bad # {} PROVE FALSE
  <2>1. Bad \subseteq Nat
    OBVIOUS
  <2>2. PICK n \in Bad : \A m \in Bad : n <= m
    <3> HIDE DEF Bad
    <3> QED BY <1>1, <2>1, Least
  <2>3. n \in 1..k /\ n - 1 \in 0..k /\ n - 1 < n
    OBVIOUS
  <2>4. n - 1 \notin Bad
    <3> HIDE DEF Bad
    <3> QED BY <2>1, <2>2, <2>3
  <2> QED BY <2>3, <2>4
<1> QED BY <1>1

\* f holds what the first n steps make of base.
Repeats(f, base, step, n) == f[0] = base /\ \A i \in 1..n : f[i] = step[<<f[i - 1], i>>]

\* A step on the set D can be repeated: there is a function that has its results.
LEMMA Recursion ==
  ASSUME NEW k \in Nat, NEW D, NEW base \in D, NEW step \in [D \X (1..k) -> D]
  PROVE  \E f \in [0..k -> D] : Repeats(f, base, step, k)
<1> USE DEF Repeats
<1> DEFINE Steps(f, n) == Repeats(f, base, step, n)
           Good == {n \in 0..k : \E f \in [0..n -> D] : Steps(f, n)}
<1>1. 0 \in Good
  <2> DEFINE f == [i \in 0..0 |-> base]
  <2>1. f \in [0..0 -> D] /\ f[0] = base
    OBVIOUS
  <2>2. \E g \in [0..0 -> D] : Steps(g, 0)
    <3> HIDE DEF f
    <3> QED BY <2>1
  <2> QED BY <2>2
<1>2. ASSUME NEW n \in 1..k, n - 1 \in Good PROVE n \in Good
  <2>1. PICK g \in [0..n - 1 -> D] : Steps(g, n - 1)
    BY <1>2
  <2> DEFINE f == [i \in 0..n |-> IF i = n THEN step[<<g[n - 1], n>>] ELSE g[i]]
  <2>2. f \in [0..n -> D]
    OBVIOUS
  <2>3. ASSUME NEW i \in 1..n PROVE f[i] = step[<<f[i - 1], i>>]
    <3>1. CASE i = n
      BY <3>1, SMTT(30)
    <3>2. CASE i # n
      <4>1. i \in 1..n - 1 /\ i \in 0..n /\ i - 1 \in 0..n /\ i - 1 # n
        BY <3>2
      <4>2. f[i] = g[i] /\ f[i - 1] = g[i - 1]
        BY <3>2, <4>1
      <4> HIDE DEF f
      <4> QED BY <2>1, <4>1, <4>2
    <3> QED BY <3>1, <3>2
  <2>4. f[0] = base
    BY <2>1
  <2>5. \E h \in [0..n -> D] : Steps(h, n)
    <3> HIDE DEF f
    <3> QED BY <2>2, <2>3, <2>4
  <2> QED BY <2>5
<1>3. k \in Good
  <2> HIDE DEF Good
  <2> QED BY <1>1, <1>2, UpTo
<1> QED BY <1>3

-----------------------------------------------------------------------------
(* Sequences                                                               *)

\* What SelectInSeq finds: for entries that are equal to a line.
LEMMA EqualFinds ==
  ASSUME NEW w, NEW line, w.entry \in Seq(Line)
  PROVE  /\ Equal(w, line) = 0 => \A i \in 1..Len(w.entry) : w.entry[i] # line
         /\ Equal(w, line) # 0 => Equal(w, line) \in 1..Len(w.entry) /\ w.entry[Equal(w, line)] = line
<1> DEFINE I == {i \in 1..Len(w.entry) : w.entry[i] = line}
<1>1. Equal(w, line) = IF I # {} THEN Min(I) ELSE 0
  BY DEF Equal, SelectInSeq
<1>2. CASE I # {}
  <2>1. I \subseteq Nat
    OBVIOUS
  <2>2. Min(I) \in I
    <3> HIDE DEF I
    <3>1. \E x \in I : \A y \in I : x <= y
      BY <1>2, <2>1, Least
    <3> QED BY <3>1 DEF Min
  <2> QED BY <1>1, <1>2, <2>2
<1>3. CASE I = {}
  BY <1>1, <1>3
<1> QED BY <1>2, <1>3

\* Without, step by step.
LEMMA WithoutSteps ==
  ASSUME NEW s \in Seq(Watch), NEW m
  PROVE  \E rest \in [0..Len(s) -> Seq(Watch)] :
           /\ rest[0] = << >>
           /\ \A n \in 1..Len(s) :
                rest[n] = IF s[n].mount = m THEN rest[n - 1] ELSE Append(rest[n - 1], s[n])
           /\ Without(s, m) = rest[Len(s)]
<1> DEFINE k == Len(s)
           D == Seq(Watch)
           Next_(v, n) == IF s[n].mount = m THEN v ELSE Append(v, s[n])
           step == [p \in D \X (1..k) |-> Next_(p[1], p[2])]
           Is(g) == g = [n \in 0..k |-> IF n = 0 THEN << >> ELSE Next_(g[n - 1], n)]
           G == CHOOSE g : Is(g)
<1>1. k \in Nat /\ << >> \in D /\ \A n \in 1..k : s[n] \in Watch
  OBVIOUS
<1>2. step \in [D \X (1..k) -> D]
  BY <1>1
<1>3. PICK f \in [0..k -> D] : Repeats(f, << >>, step, k)
  <2> HIDE DEF step, D, k
  <2> QED BY <1>1, <1>2, Recursion
<1>4. ASSUME NEW n \in 1..k PROVE f[n] = Next_(f[n - 1], n)
  <2>1. f[n - 1] \in D
    OBVIOUS
  <2> HIDE DEF D, k, Next_
  <2> QED BY <1>3, <2>1 DEF Repeats
<1>5. f[0] = << >> /\ Is(f)
  <2> HIDE DEF D, Next_, k
  <2> QED BY <1>1, <1>3, <1>4 DEF Repeats
<1>6. Is(G)
  <2> HIDE DEF Is
  <2> QED BY <1>5
<1>7. Without(s, m) = G[k]
  BY DEF Without
<1>8. G[0] = << >> /\ \A n \in 1..k : G[n] = Next_(G[n - 1], n)
  <2> HIDE DEF G, Next_, k
  <2> QED BY <1>1, <1>6
<1>9. \A n \in 0..k : n \in {i \in 0..k : G[i] = f[i]}
  <2> DEFINE Same == {i \in 0..k : G[i] = f[i]}
  <2>1. 0 \in Same
    <3> HIDE DEF G
    <3> QED BY <1>1, <1>5, <1>8
  <2>2. ASSUME NEW n \in 1..k, n - 1 \in Same PROVE n \in Same
    <3> HIDE DEF G, Next_
    <3> QED BY <1>4, <1>8, <2>2
  <2> HIDE DEF Same, k
  <2> QED BY <1>1, <2>1, <2>2, UpTo DEF Same
<1>10. G \in [0..k -> D] /\ G[0] = << >> /\ \A n \in 1..k : G[n] = Next_(G[n - 1], n)
  <2>1. G = f
    <3> HIDE DEF G, k, Next_
    <3> QED BY <1>5, <1>6, <1>9
  <2> HIDE DEF G
  <2> QED BY <2>1, <1>4, <1>5
<1> HIDE DEF G
<1> QED BY <1>7, <1>10

\* What is left are watches.
LEMMA WithoutType ==
  ASSUME NEW s \in Seq(Watch), NEW m
  PROVE  Without(s, m) \in Seq(Watch)
BY WithoutSteps

\* Where one watch is at mount point m, it goes and those behind it move up.
LEMMA WithoutOne ==
  ASSUME NEW s \in Seq(Watch), NEW m, NEW p \in 1..Len(s),
         \A i \in 1..Len(s) : s[i].mount = m <=> i = p
  PROVE  /\ Without(s, m) \in Seq(Watch)
         /\ Len(Without(s, m)) = Len(s) - 1
         /\ \A i \in 1..Len(s) - 1 : Without(s, m)[i] = IF i < p THEN s[i] ELSE s[i + 1]
<1>1. PICK rest \in [0..Len(s) -> Seq(Watch)] :
        /\ rest[0] = << >>
        /\ \A n \in 1..Len(s) :
             rest[n] = IF s[n].mount = m THEN rest[n - 1] ELSE Append(rest[n - 1], s[n])
        /\ Without(s, m) = rest[Len(s)]
  BY WithoutSteps
<1> DEFINE Before(n) == n < p => Len(rest[n]) = n /\ \A i \in 1..n : rest[n][i] = s[i]
           Behind(n) == n >= p => /\ Len(rest[n]) = n - 1
                                  /\ \A i \in 1..n - 1 :
                                       rest[n][i] = IF i < p THEN s[i] ELSE s[i + 1]
           Good == {n \in 0..Len(s) : Before(n) /\ Behind(n)}
<1>2. 0 \in Good
  BY <1>1
<1>3. ASSUME NEW n \in 1..Len(s), n - 1 \in Good PROVE n \in Good
  <2>1. rest[n - 1] \in Seq(Watch) /\ rest[n] \in Seq(Watch) /\ s[n] \in Watch
    <3>1. Len(s) \in Nat
      OBVIOUS
    <3>2. n - 1 \in 0..Len(s) /\ n \in 0..Len(s)
      BY <3>1
    <3> QED BY <3>2
  <2>2. CASE n = p
    <3>1. rest[n] = rest[n - 1]
      BY <1>1, <2>2
    <3>2. n - 1 < p /\ Before(n - 1)
      BY <1>3, <2>2
    <3>3. Behind(n)
      BY <2>2, <3>1, <3>2
    <3> QED BY <2>2, <3>3
  <2>3. CASE n # p
    <3>1. rest[n] = Append(rest[n - 1], s[n])
      BY <1>1, <2>3
    <3>2. /\ Len(rest[n]) = Len(rest[n - 1]) + 1
          /\ \A i \in 1..Len(rest[n - 1]) : rest[n][i] = rest[n - 1][i]
          /\ rest[n][Len(rest[n - 1]) + 1] = s[n]
      BY <2>1, <3>1
    <3>3. Before(n)
      BY <1>3, <3>2, <2>3
    <3>4. Behind(n)
      <4> SUFFICES ASSUME n >= p PROVE Behind(n)
        OBVIOUS
      <4>1. n - 1 >= p /\ Behind(n - 1)
        BY <1>3, <2>3
      <4>2. Len(rest[n - 1]) = n - 2 /\ Len(rest[n]) = n - 1
        BY <3>2, <4>1
      <4>3. ASSUME NEW i \in 1..n - 1 PROVE rest[n][i] = IF i < p THEN s[i] ELSE s[i + 1]
        <5>1. CASE i = n - 1
          BY <3>2, <4>1, <4>2, <5>1
        <5>2. CASE i # n - 1
          <6>1. i \in 1..n - 2 /\ n - 2 = (n - 1) - 1
            BY <5>2
          <6> QED BY <3>2, <4>1, <4>2, <6>1
        <5> QED BY <5>1, <5>2
      <4> QED BY <4>2, <4>3
    <3> QED BY <3>3, <3>4
  <2> QED BY <2>2, <2>3
<1>4. Len(s) \in Good
  <2>1. Len(s) \in Nat /\ Len(s) \in 0..Len(s)
    OBVIOUS
  <2> HIDE DEF Good
  <2> QED BY <1>2, <1>3, <2>1, UpTo
<1> QED BY <1>1, <1>4

-----------------------------------------------------------------------------
(* What mountwatch_diff works on                                           *)

Work == [entry : Seq(Line), ientry : Seq(Watch), handle : [Device -> Nat], next : Nat \ {0},
         change : Seq(MountChange), seen : SUBSET Nat, refused : SUBSET Device]

\* With other entries the rest is as it was, and of its type.
LEMMA EntryType ==
  ASSUME NEW w \in Work, NEW e \in Seq(Line)
  PROVE  /\ [w EXCEPT !.entry = e] \in Work
         /\ [w EXCEPT !.entry = e].entry = e
         /\ [w EXCEPT !.entry = e].ientry = w.ientry
         /\ [w EXCEPT !.entry = e].handle = w.handle
         /\ [w EXCEPT !.entry = e].next = w.next
         /\ [w EXCEPT !.entry = e].change = w.change
         /\ [w EXCEPT !.entry = e].refused = w.refused
BY DEF Work

\* Unwatch works on what mountwatch_diff works on, ...
LEMMA UnwatchType ==
  ASSUME NEW w \in Work, NEW m
  PROVE  /\ Unwatch(w, m) \in Work
         /\ Unwatch(w, m).ientry = Without(w.ientry, m)
         /\ Unwatch(w, m).entry = w.entry
         /\ Unwatch(w, m).next = w.next
         /\ Unwatch(w, m).change = w.change
         /\ Unwatch(w, m).seen = w.seen
         /\ Unwatch(w, m).refused = w.refused
<1> DEFINE lost == {x.handle : x \in {y \in ToSet(w.ientry) : y.mount = m}}
           h == [d \in Device |-> IF w.handle[d] \in lost THEN 0 ELSE w.handle[d]]
<1>1. Without(w.ientry, m) \in Seq(Watch)
  BY WithoutType DEF Work
<1>2. h \in [Device -> Nat]
  <2> HIDE DEF lost
  <2> QED BY DEF Work
<1>3. Unwatch(w, m) = [w EXCEPT !.ientry = Without(w.ientry, m), !.handle = h]
  BY DEF Unwatch
<1> HIDE DEF h
<1> QED BY <1>1, <1>2, <1>3 DEF Work

\* ... and so do Found, ...
LEMMA FoundType ==
  ASSUME NEW w \in Work, NEW t \in {"ADDED", "CHANGED", "REMOVED"}, NEW line,
         line.mount \in Mount, line.device \in Device
  PROVE  /\ Found(w, t, line) \in Work
         /\ Found(w, t, line).change =
              Append(w.change, [tag |-> t, mount |-> line.mount, device |-> line.device])
         /\ Found(w, t, line).entry = w.entry
         /\ Found(w, t, line).ientry = w.ientry
         /\ Found(w, t, line).handle = w.handle
         /\ Found(w, t, line).next = w.next
         /\ Found(w, t, line).seen = w.seen
         /\ Found(w, t, line).refused = w.refused
<1> DEFINE c == [tag |-> t, mount |-> line.mount, device |-> line.device]
<1>1. c \in MountChange
  BY DEF MountChange
<1>2. Found(w, t, line) = [w EXCEPT !.change = Append(w.change, c)]
  BY DEF Found
<1> HIDE DEF c
<1>3. w.change \in Seq(MountChange) /\ Append(w.change, c) \in Seq(MountChange)
  BY <1>1 DEF Work
<1>4. QED
  <2>1. /\ Found(w, t, line) \in Work
        /\ Found(w, t, line).change = Append(w.change, c)
        /\ Found(w, t, line).entry = w.entry
        /\ Found(w, t, line).ientry = w.ientry
        /\ Found(w, t, line).handle = w.handle
        /\ Found(w, t, line).next = w.next
        /\ Found(w, t, line).seen = w.seen
        /\ Found(w, t, line).refused = w.refused
    BY <1>2, <1>3 DEF Work
  <2> QED BY <2>1 DEF c

\* At the mount point of every line something is to be seen.
LEMMA ShowsOne ==
  ASSUME table \in Seq(Line), NEW n \in 1..Len(table)
  PROVE  \E d \in Device : Shows(table[n].mount, d)
<1> DEFINE Behind == {Len(table) - i : i \in {j \in 1..Len(table) : table[j].mount = table[n].mount}}
<1>1. Behind \subseteq Nat /\ Behind # {}
  OBVIOUS
<1>2. PICK b \in Behind : \A c \in Behind : b <= c
  <2> HIDE DEF Behind
  <2> QED BY <1>1, Least
<1>3. PICK i \in 1..Len(table) : table[i].mount = table[n].mount /\ b = Len(table) - i
  OBVIOUS
<1>4. ASSUME NEW j \in i + 1..Len(table), table[j].mount = table[n].mount PROVE FALSE
  <2>1. Len(table) - j \in Behind
    BY <1>4
  <2>2. b <= Len(table) - j
    <3> HIDE DEF Behind
    <3> QED BY <1>2, <2>1
  <2> QED BY <1>3, <2>2
<1>5. table[i] \in Line
  OBVIOUS
<1>6. table[i].device \in Device /\ table[i] = [mount |-> table[n].mount, device |-> table[i].device]
  BY <1>3, <1>5 DEF Line
<1> QED BY <1>3, <1>4, <1>6 DEF Shows

\* ... Watched, ...
LEMMA WatchedType ==
  ASSUME table \in Seq(Line), NEW w \in Work, NEW n \in 1..Len(table)
  PROVE  /\ Watched(w, table[n]) \in Work
         /\ Watched(w, table[n]).entry = w.entry
         /\ Watched(w, table[n]).change = w.change
         /\ Watched(w, table[n]).seen = w.seen
         /\ Watched(w, table[n]).refused = w.refused
<1> DEFINE line == table[n]
           d == CHOOSE x \in Device : Shows(line.mount, x)
           h == AddWatch(w, d)
           x == [mount |-> line.mount, device |-> line.device, handle |-> h]
           next == IF h = w.next THEN w.next + 1 ELSE w.next
           handles == [w.handle EXCEPT ![d] = IF h = 0 THEN @ ELSE h]
<1>1. line \in Line
  OBVIOUS
<1>2. d \in Device
  BY ShowsOne
<1> HIDE DEF d, line
<1>3. h \in Nat
  BY <1>2 DEF Work, AddWatch
<1>4. Watched(w, line) = [w EXCEPT !.ientry = Append(@, x), !.handle = handles, !.next = next]
  BY DEF Watched, d
<1> HIDE DEF h
<1>5. x \in Watch /\ next \in Nat \ {0}
  BY <1>1, <1>3 DEF Watch, Line, Work
<1> HIDE DEF x, next
<1>6. Append(w.ientry, x) \in Seq(Watch) /\ handles \in [Device -> Nat]
  BY <1>2, <1>3, <1>5 DEF Work
<1> HIDE DEF handles
<1>7. /\ Watched(w, line) \in Work
      /\ Watched(w, line).entry = w.entry
      /\ Watched(w, line).change = w.change
      /\ Watched(w, line).seen = w.seen
      /\ Watched(w, line).refused = w.refused
  BY <1>4, <1>5, <1>6 DEF Work
<1> QED BY <1>7 DEF line

\* ... Moved, entry by entry, ...
LEMMA MovedSteps ==
  ASSUME table \in Seq(Line), NEW w \in Work, NEW t \in 1..Len(table)
  PROVE  \E moved \in [0..Len(w.entry) -> Work] :
           /\ moved[0] = w
           /\ \A n \in 1..Len(w.entry) :
                moved[n] = IF n \in Partly(w, table[t])
                           THEN Found(Watched(Unwatch(moved[n - 1], w.entry[n].mount), table[t]),
                                      "CHANGED", table[t])
                           ELSE moved[n - 1]
           /\ Moved(w, table[t]) = moved[Len(w.entry)]
<1> DEFINE k == Len(w.entry)
           D == Work
           base == w
           Next_(v, n) == IF n \in Partly(w, table[t])
                          THEN Found(Watched(Unwatch(v, w.entry[n].mount), table[t]), "CHANGED", table[t])
                          ELSE v
           step == [p \in D \X (1..k) |-> Next_(p[1], p[2])]
           Is(g) == g = [n \in 0..k |-> IF n = 0 THEN base ELSE Next_(g[n - 1], n)]
           G == CHOOSE g : Is(g)
<1>1. k \in Nat /\ base \in D
  BY DEF Work
<1>2. step \in [D \X (1..k) -> D]
  <2>1. ASSUME NEW v \in D, NEW n \in 1..k PROVE Next_(v, n) \in D
    <3>1. Unwatch(v, w.entry[n].mount) \in Work
      BY UnwatchType
    <3>2. Watched(Unwatch(v, w.entry[n].mount), table[t]) \in Work
      <4> HIDE DEF D
      <4> QED BY <3>1, WatchedType
    <3>3. table[t].mount \in Mount /\ table[t].device \in Device
      <4>1. table[t] \in Line
        OBVIOUS
      <4> QED BY <4>1 DEF Line
    <3>4. Found(Watched(Unwatch(v, w.entry[n].mount), table[t]), "CHANGED", table[t]) \in Work
      BY <3>2, <3>3, FoundType
    <3> QED BY <3>4
  <2> HIDE DEF D, Next_, k
  <2> QED BY <2>1
<1>3. PICK f \in [0..k -> D] : Repeats(f, base, step, k)
  <2> HIDE DEF step, D, k, base
  <2> QED BY <1>1, <1>2, Recursion
<1>4. ASSUME NEW n \in 1..k PROVE f[n] = Next_(f[n - 1], n)
  <2> HIDE DEF D, k, Next_
  <2>1. f[n - 1] \in D
    BY <1>1
  <2> QED BY <1>3, <2>1 DEF Repeats
<1>5. f[0] = base /\ Is(f)
  <2> HIDE DEF D, Next_, k, base
  <2> QED BY <1>1, <1>3, <1>4 DEF Repeats
<1>6. Is(G)
  <2> HIDE DEF Is
  <2> QED BY <1>5
<1>7. Moved(w, table[t]) = G[k]
  BY DEF Moved
<1>8. G[0] = base /\ \A n \in 1..k : G[n] = Next_(G[n - 1], n)
  <2> HIDE DEF G, Next_, k, base
  <2> QED BY <1>1, <1>6
<1>9. \A n \in 0..k : n \in {i \in 0..k : G[i] = f[i]}
  <2> DEFINE Same == {i \in 0..k : G[i] = f[i]}
  <2>1. 0 \in Same
    <3> HIDE DEF G, k, base
    <3> QED BY <1>1, <1>5, <1>8
  <2>2. ASSUME NEW n \in 1..k, n - 1 \in Same PROVE n \in Same
    <3> HIDE DEF G, Next_, k
    <3> QED BY <1>1, <1>4, <1>8, <2>2
  <2> HIDE DEF Same, k
  <2> QED BY <1>1, <2>1, <2>2, UpTo DEF Same
<1>10. G \in [0..k -> D] /\ G[0] = base /\ \A n \in 1..k : G[n] = Next_(G[n - 1], n)
  <2>1. G = f
    <3> HIDE DEF G, k, Next_, base
    <3> QED BY <1>5, <1>6, <1>9
  <2> HIDE DEF G, Next_, k, base
  <2> QED BY <2>1, <1>4, <1>5
<1> HIDE DEF G
<1> QED BY <1>7, <1>10

\* ... Compare, ...
LEMMA CompareType ==
  ASSUME table \in Seq(Line), NEW w \in Work, NEW t \in 1..Len(table)
  PROVE  Compare(w, table[t]) \in Work
<1> DEFINE line == table[t]
           seen == w.seen \cup Partly(w, line)
<1>1. Moved(w, line) \in Work /\ Len(w.entry) \in Nat
  <2>1. Len(w.entry) \in Nat /\ Len(w.entry) \in 0..Len(w.entry)
    BY DEF Work
  <2>2. PICK moved \in [0..Len(w.entry) -> Work] : Moved(w, line) = moved[Len(w.entry)]
    BY MovedSteps
  <2> QED BY <2>1, <2>2
<1>2. Equal(w, line) \in Nat /\ Partly(w, line) \in SUBSET Nat
  <2>1. Equal(w, line) \in Nat
    <3>1. w.entry \in Seq(Line)
      BY DEF Work
    <3> HIDE DEF line, seen
    <3>2. Equal(w, line) # 0 => Equal(w, line) \in 1..Len(w.entry)
      BY <3>1, EqualFinds
    <3> QED BY <1>1, <3>2
  <2>2. Len(w.entry) \in Nat
    BY <1>1
  <2>3. \A i \in Partly(w, line) : i \in Nat
    BY <2>1, <2>2 DEF Partly
  <2> QED BY <2>1, <2>3
<1>3. line \in Line /\ line.mount \in Mount /\ line.device \in Device
  <2>1. line \in Line
    OBVIOUS
  <2> QED BY <2>1 DEF Line
<1>4. CASE Equal(w, line) # 0
  <2>1. Compare(w, line) = [Moved(w, line) EXCEPT !.seen = seen \cup {Equal(w, line)}]
    BY <1>4 DEF Compare
  <2> HIDE DEF line
  <2> QED BY <1>1, <1>2, <2>1 DEF Work, line
<1>5. CASE Equal(w, line) = 0
  <2> DEFINE v == Watched(Found(Moved(w, line), "ADDED", line), line)
  <2>1. v \in Work
    <3>1. Found(Moved(w, line), "ADDED", line) \in Work
      BY <1>1, <1>3, FoundType
    <3> QED BY <3>1, WatchedType
  <2>2. Compare(w, line) =
          [v EXCEPT !.entry = Append(@, line), !.seen = seen \cup {Len(w.entry) + 1}]
    BY <1>5 DEF Compare
  <2> HIDE DEF v
  <2>3. Append(v.entry, line) \in Seq(Line) /\ seen \cup {Len(w.entry) + 1} \in SUBSET Nat
    BY <1>1, <1>2, <1>3, <2>1, SMTT(30) DEF Work
  <2> HIDE DEF line, seen
  <2> QED BY <2>1, <2>2, <2>3 DEF Work, line
<1> QED BY <1>4, <1>5

\* ... Purge, step by step, ...
LEMMA PurgeSteps ==
  ASSUME NEW w \in Work
  PROVE  \E kept \in [0..Len(w.entry) -> Work] :
           /\ kept[0] = [w EXCEPT !.entry = << >>]
           /\ \A n \in 1..Len(w.entry) :
                kept[n] = IF n \in Gone(w)
                          THEN Found(Unwatch(kept[n - 1], w.entry[n].mount), "REMOVED", w.entry[n])
                          ELSE [kept[n - 1] EXCEPT !.entry = Append(@, w.entry[n])]
           /\ Purge(w) = kept[Len(w.entry)]
<1> DEFINE k == Len(w.entry)
           D == Work
           base == [w EXCEPT !.entry = << >>]
           Next_(v, n) == IF n \in Gone(w)
                          THEN Found(Unwatch(v, w.entry[n].mount), "REMOVED", w.entry[n])
                          ELSE [v EXCEPT !.entry = Append(@, w.entry[n])]
           step == [p \in D \X (1..k) |-> Next_(p[1], p[2])]
           Is(g) == g = [n \in 0..k |-> IF n = 0 THEN base ELSE Next_(g[n - 1], n)]
           G == CHOOSE g : Is(g)
<1>1. k \in Nat /\ base \in D
  <2>1. << >> \in Seq(Line) /\ k \in Nat
    BY DEF Work
  <2> QED BY <2>1, EntryType
<1>2. step \in [D \X (1..k) -> D]
  <2>1. ASSUME NEW v \in D, NEW n \in 1..k PROVE Next_(v, n) \in D
    <3>1. w.entry[n] \in Line /\ w.entry[n].mount \in Mount /\ w.entry[n].device \in Device
      <4>1. w.entry[n] \in Line
        BY DEF Work
      <4> QED BY <4>1 DEF Line
    <3>2. Unwatch(v, w.entry[n].mount) \in Work
      BY UnwatchType
    <3>3. Found(Unwatch(v, w.entry[n].mount), "REMOVED", w.entry[n]) \in Work
      BY <3>1, <3>2, FoundType
    <3>4. [v EXCEPT !.entry = Append(@, w.entry[n])] \in Work
      <4>1. Append(v.entry, w.entry[n]) \in Seq(Line)
        BY <3>1 DEF Work
      <4> QED BY <4>1, EntryType
    <3> QED BY <3>3, <3>4
  <2> HIDE DEF D, Next_, k
  <2> QED BY <2>1
<1>3. PICK f \in [0..k -> D] : Repeats(f, base, step, k)
  <2> HIDE DEF step, D, k, base
  <2> QED BY <1>1, <1>2, Recursion
<1>4. ASSUME NEW n \in 1..k PROVE f[n] = Next_(f[n - 1], n)
  <2> HIDE DEF D, k, Next_
  <2>1. f[n - 1] \in D
    BY <1>1
  <2> QED BY <1>3, <2>1 DEF Repeats
<1>5. f[0] = base /\ Is(f)
  <2> HIDE DEF D, Next_, k, base
  <2> QED BY <1>1, <1>3, <1>4 DEF Repeats
<1>6. Is(G)
  <2> HIDE DEF Is
  <2> QED BY <1>5
<1>7. Purge(w) = G[k]
  BY DEF Purge
<1>8. G[0] = base /\ \A n \in 1..k : G[n] = Next_(G[n - 1], n)
  <2> HIDE DEF G, Next_, k, base
  <2> QED BY <1>1, <1>6
<1>9. \A n \in 0..k : n \in {i \in 0..k : G[i] = f[i]}
  <2> DEFINE Same == {i \in 0..k : G[i] = f[i]}
  <2>1. 0 \in Same
    <3> HIDE DEF G, k, base
    <3> QED BY <1>1, <1>5, <1>8
  <2>2. ASSUME NEW n \in 1..k, n - 1 \in Same PROVE n \in Same
    <3> HIDE DEF G, Next_, k
    <3> QED BY <1>1, <1>4, <1>8, <2>2
  <2> HIDE DEF Same, k
  <2> QED BY <1>1, <2>1, <2>2, UpTo DEF Same
<1>10. G \in [0..k -> D] /\ G[0] = base /\ \A n \in 1..k : G[n] = Next_(G[n - 1], n)
  <2>1. G = f
    <3> HIDE DEF G, k, Next_, base
    <3> QED BY <1>5, <1>6, <1>9
  <2> HIDE DEF G, Next_, k, base
  <2> QED BY <2>1, <1>4, <1>5
<1> HIDE DEF G
<1> QED BY <1>7, <1>10

\* ... and in all, ...
LEMMA PurgeType ==
  ASSUME NEW w \in Work
  PROVE  Purge(w) \in Work
<1>1. PICK kept \in [0..Len(w.entry) -> Work] : Purge(w) = kept[Len(w.entry)]
  BY PurgeSteps
<1>2. Len(w.entry) \in 0..Len(w.entry)
  BY DEF Work
<1> QED BY <1>1, <1>2

\* ... and the pass over the lines.
LEMMA ComparedSteps ==
  ASSUME TypeOK, NEW refused \in SUBSET Device
  PROVE  \E compared \in [0..Len(table) -> Work] :
           /\ compared[0] = [entry |-> entry, ientry |-> ientry, handle |-> handle,
                             next |-> next_handle, change |-> << >>, seen |-> {}, refused |-> refused]
           /\ \A n \in 1..Len(table) : compared[n] = Compare(compared[n - 1], table[n])
           /\ Compared(refused) = compared[Len(table)]
<1> DEFINE k == Len(table)
           D == Work
           base == [entry |-> entry, ientry |-> ientry, handle |-> handle,
                    next |-> next_handle, change |-> << >>, seen |-> {}, refused |-> refused]
           Next_(v, n) == Compare(v, table[n])
           step == [p \in D \X (1..k) |-> Next_(p[1], p[2])]
           Is(g) == g = [n \in 0..k |-> IF n = 0 THEN base ELSE Next_(g[n - 1], n)]
           G == CHOOSE g : Is(g)
<1>1. k \in Nat /\ base \in D
  BY DEF Work, TypeOK
<1>2. step \in [D \X (1..k) -> D]
  <2>1. ASSUME NEW v \in D, NEW n \in 1..k PROVE Next_(v, n) \in D
    BY CompareType DEF TypeOK
  <2> HIDE DEF D, Next_, k
  <2> QED BY <2>1
<1>3. PICK f \in [0..k -> D] : Repeats(f, base, step, k)
  <2> HIDE DEF step, D, k, base
  <2> QED BY <1>1, <1>2, Recursion
<1>4. ASSUME NEW n \in 1..k PROVE f[n] = Next_(f[n - 1], n)
  <2> HIDE DEF D, k, Next_
  <2>1. f[n - 1] \in D
    BY <1>1
  <2> QED BY <1>3, <2>1 DEF Repeats
<1>5. f[0] = base /\ Is(f)
  <2> HIDE DEF D, Next_, k, base
  <2> QED BY <1>1, <1>3, <1>4 DEF Repeats
<1>6. Is(G)
  <2> HIDE DEF Is
  <2> QED BY <1>5
<1>7. Compared(refused) = G[k]
  BY DEF Compared
<1>8. G[0] = base /\ \A n \in 1..k : G[n] = Next_(G[n - 1], n)
  <2> HIDE DEF G, Next_, k, base
  <2> QED BY <1>1, <1>6
<1>9. \A n \in 0..k : n \in {i \in 0..k : G[i] = f[i]}
  <2> DEFINE Same == {i \in 0..k : G[i] = f[i]}
  <2>1. 0 \in Same
    <3> HIDE DEF G, k, base
    <3> QED BY <1>1, <1>5, <1>8
  <2>2. ASSUME NEW n \in 1..k, n - 1 \in Same PROVE n \in Same
    <3> HIDE DEF G, Next_, k
    <3> QED BY <1>1, <1>4, <1>8, <2>2
  <2> HIDE DEF Same, k
  <2> QED BY <1>1, <2>1, <2>2, UpTo DEF Same
<1>10. G \in [0..k -> D] /\ G[0] = base /\ \A n \in 1..k : G[n] = Next_(G[n - 1], n)
  <2>1. G = f
    <3> HIDE DEF G, k, Next_, base
    <3> QED BY <1>5, <1>6, <1>9
  <2> HIDE DEF G, Next_, k, base
  <2> QED BY <2>1, <1>4, <1>5
<1> HIDE DEF G
<1> QED BY <1>7, <1>10

\* So does mountwatch_diff.
LEMMA DiffType ==
  ASSUME TypeOK, NEW refused \in SUBSET Device
  PROVE  Diff(refused) \in Work
<1>1. Compared(refused) \in Work
  <2>1. Len(table) \in 0..Len(table)
    BY DEF TypeOK
  <2>2. PICK compared \in [0..Len(table) -> Work] : Compared(refused) = compared[Len(table)]
    BY ComparedSteps
  <2> QED BY <2>1, <2>2
<1>2. Purge(Compared(refused)) \in Work
  BY <1>1, PurgeType
<1> QED BY <1>2 DEF Diff

\* What mountwatch_diff makes of its work
Differs(w) ==
  /\ entry' = w.entry /\ ientry' = w.ientry /\ handle' = w.handle
  /\ next_handle' = w.next /\ change' = w.change
  /\ main' = Returns(w.change, dir_change) /\ dir_change' = FALSE
  /\ unwatched' = {d \in unwatched \cup w.refused : w.handle[d] = 0}
  /\ UNCHANGED <<table, content, events, registered, missed>>

LEMMA DiffEffect ==
  ASSUME TypeOK, mountwatch_diff
  PROVE  main = "wait" /\ \E refused \in SUBSET Device : Differs(Diff(refused))
<1>1. PICK refused \in SUBSET {x.device : x \in Mounted} : Differs(Diff(refused))
  BY Zenon DEF mountwatch_diff, Differs
<1>2. {x.device : x \in Mounted} \subseteq Device
  <2>1. \A x \in Mounted : x \in Line
    BY DEF TypeOK, Mounted, ToSet
  <2> QED BY <2>1 DEF Line
<1>3. main = "wait"
  BY DEF mountwatch_diff
<1> QED BY <1>1, <1>2, <1>3

-----------------------------------------------------------------------------
(* Events and the mount table                                              *)

\* The first watch with the handle of an event, or 0
WatchOf(e) == SelectInSeq(ientry, LAMBDA x : x.handle = e.handle)

\* The watch that an event is looked up by: the first with its handle
LEMMA WatchOfFinds ==
  ASSUME TypeOK, NEW e
  PROVE  /\ WatchOf(e) = 0 => \A i \in 1..Len(ientry) : ientry[i].handle # e.handle
         /\ WatchOf(e) # 0 => /\ WatchOf(e) \in 1..Len(ientry)
                              /\ ientry[WatchOf(e)].handle = e.handle
<1> DEFINE I == {i \in 1..Len(ientry) : ientry[i].handle = e.handle}
<1>1. WatchOf(e) = IF I # {} THEN Min(I) ELSE 0
  BY DEF WatchOf, SelectInSeq
<1>2. CASE I # {}
  <2>1. I \subseteq Nat
    OBVIOUS
  <2>2. Min(I) \in I
    <3> HIDE DEF I
    <3>1. \E x \in I : \A y \in I : x <= y
      BY <1>2, <2>1, Least
    <3> QED BY <3>1 DEF Min
  <2>3. WatchOf(e) \in I
    <3> HIDE DEF I
    <3> QED BY <1>1, <1>2, <2>2
  <2>4. WatchOf(e) # 0
    BY <2>3 DEF TypeOK
  <2> QED BY <2>3, <2>4
<1>3. CASE I = {}
  BY <1>1, <1>3
<1> QED BY <1>2, <1>3

\* The changes of an event: none if no watch has its handle, or else what its
\* tags say about the watch's mount and the event's file.
LEMMA ChangesOfEvent ==
  ASSUME TypeOK, NEW e \in Event
  PROVE  /\ ChangesOf(e) \in Seq(FileChange)
         /\ WatchOf(e) = 0 => ChangesOf(e) = << >>
         /\ WatchOf(e) # 0 =>
              LET x == ientry[WatchOf(e)]
                  Told(t) == [tag |-> t, mount |-> x.mount, device |-> x.device, file |-> e.file]
              IN /\ e.what = "created" => ChangesOf(e) = <<Told("PKG_ADDED")>>
                 /\ e.what = "written" => ChangesOf(e) = <<Told("PKG_REMOVED"), Told("PKG_ADDED")>>
                 /\ e.what = "gone" => ChangesOf(e) = <<Told("PKG_REMOVED")>>
<1>1. CASE WatchOf(e) = 0
  <2>1. ChangesOf(e) = << >>
    BY <1>1 DEF ChangesOf, WatchOf
  <2> QED BY <1>1, <2>1
<1>2. CASE WatchOf(e) # 0
  <2> DEFINE x == ientry[WatchOf(e)]
             Told(t) == [tag |-> t, mount |-> x.mount, device |-> x.device, file |-> e.file]
  <2>1. x \in Watch
    BY <1>2, WatchOfFinds DEF TypeOK
  <2>2. x.mount \in Mount /\ x.device \in Device /\ e.file \in File
    BY <2>1 DEF Watch, Event
  <2>3. Told("PKG_ADDED") \in FileChange /\ Told("PKG_REMOVED") \in FileChange
    <3> HIDE DEF x
    <3> QED BY <2>2 DEF FileChange
  <2>4. ChangesOf(e) = [n \in 1..Len(Tags(e.what)) |-> Told(Tags(e.what)[n])]
    BY <1>2 DEF ChangesOf, WatchOf
  <2>5. CASE e.what = "created"
    <3>1. Tags(e.what) = <<"PKG_ADDED">>
      BY <2>5 DEF Tags
    <3>2. ChangesOf(e) = <<Told("PKG_ADDED")>>
      <4> HIDE DEF Told
      <4> QED BY <2>4, <3>1
    <3>3. ChangesOf(e) \in Seq(FileChange)
      <4> HIDE DEF Told
      <4> QED BY <2>3, <3>2
    <3> QED BY <1>2, <2>5, <3>2, <3>3
  <2>6. CASE e.what = "written"
    <3>1. Tags(e.what) = <<"PKG_REMOVED", "PKG_ADDED">>
      BY <2>6 DEF Tags
    <3>2. ChangesOf(e) = <<Told("PKG_REMOVED"), Told("PKG_ADDED")>>
      <4> HIDE DEF Told
      <4> QED BY <2>4, <3>1
    <3>3. ChangesOf(e) \in Seq(FileChange)
      <4> HIDE DEF Told
      <4> QED BY <2>3, <3>2
    <3> QED BY <1>2, <2>6, <3>2, <3>3
  <2>7. CASE e.what = "gone"
    <3>1. Tags(e.what) = <<"PKG_REMOVED">>
      BY <2>7 DEF Tags
    <3>2. ChangesOf(e) = <<Told("PKG_REMOVED")>>
      <4> HIDE DEF Told
      <4> QED BY <2>4, <3>1
    <3>3. ChangesOf(e) \in Seq(FileChange)
      <4> HIDE DEF Told
      <4> QED BY <2>3, <3>2
    <3> QED BY <1>2, <2>7, <3>2, <3>3
  <2> QED BY <2>5, <2>6, <2>7 DEF Event
<1> QED BY <1>1, <1>2

\* The changes of the events, event by event.
LEMMA ChangesSteps ==
  ASSUME TypeOK
  PROVE  /\ ChangesUpTo \in [0..Len(events) -> Seq(FileChange)]
         /\ ChangesUpTo[0] = << >>
         /\ \A n \in 1..Len(events) : ChangesUpTo[n] = ChangesUpTo[n - 1] \o ChangesOf(events[n])
         /\ EventChanges \in Seq(FileChange)
<1> DEFINE k == Len(events)
           D == Seq(FileChange)
           base == << >>
           Next_(v, n) == v \o ChangesOf(events[n])
           step == [p \in D \X (1..k) |-> Next_(p[1], p[2])]
           Is(g) == g = [n \in 0..k |-> IF n = 0 THEN base ELSE Next_(g[n - 1], n)]
           G == CHOOSE g : Is(g)
<1>1. k \in Nat /\ base \in D
  BY DEF TypeOK
<1>2. step \in [D \X (1..k) -> D]
  <2>1. ASSUME NEW v \in D, NEW n \in 1..k PROVE Next_(v, n) \in D
    <3>1. events[n] \in Event
      BY DEF TypeOK
    <3>2. ChangesOf(events[n]) \in Seq(FileChange)
      BY <3>1, ChangesOfEvent
    <3> QED BY <3>2
  <2> HIDE DEF D, Next_, k
  <2> QED BY <2>1
<1>3. PICK f \in [0..k -> D] : Repeats(f, base, step, k)
  <2> HIDE DEF step, D, k, base
  <2> QED BY <1>1, <1>2, Recursion
<1>4. ASSUME NEW n \in 1..k PROVE f[n] = Next_(f[n - 1], n)
  <2> HIDE DEF D, k, Next_
  <2>1. f[n - 1] \in D
    BY <1>1
  <2> QED BY <1>3, <2>1 DEF Repeats
<1>5. f[0] = base /\ Is(f)
  <2> HIDE DEF D, Next_, k, base
  <2> QED BY <1>1, <1>3, <1>4 DEF Repeats
<1>6. Is(G)
  <2> HIDE DEF Is
  <2> QED BY <1>5
<1>7. ChangesUpTo = G
  BY DEF ChangesUpTo
<1>8. G[0] = base /\ \A n \in 1..k : G[n] = Next_(G[n - 1], n)
  <2> HIDE DEF G, Next_, k, base
  <2> QED BY <1>1, <1>6
<1>9. \A n \in 0..k : n \in {i \in 0..k : G[i] = f[i]}
  <2> DEFINE Same == {i \in 0..k : G[i] = f[i]}
  <2>1. 0 \in Same
    <3> HIDE DEF G, k, base
    <3> QED BY <1>1, <1>5, <1>8
  <2>2. ASSUME NEW n \in 1..k, n - 1 \in Same PROVE n \in Same
    <3> HIDE DEF G, Next_, k
    <3> QED BY <1>1, <1>4, <1>8, <2>2
  <2> HIDE DEF Same, k
  <2> QED BY <1>1, <2>1, <2>2, UpTo DEF Same
<1>10. G \in [0..k -> D] /\ G[0] = base /\ \A n \in 1..k : G[n] = Next_(G[n - 1], n)
  <2>1. G = f
    <3> HIDE DEF G, k, Next_, base
    <3> QED BY <1>5, <1>6, <1>9
  <2> HIDE DEF G, Next_, k, base
  <2> QED BY <2>1, <1>4, <1>5
<1>11. Len(events) \in 0..Len(events)
  BY <1>1
<1> HIDE DEF G
<1> QED BY <1>7, <1>10, <1>11 DEF EventChanges

\* The topmost mount at a mount point goes.
LEMMA UnmountTakes ==
  ASSUME table \in Seq(Line), NEW m, Unmount(m)
  PROVE  \E i \in 1..Len(table) :
           /\ table[i].mount = m
           /\ table' \in Seq(Line)
           /\ Len(table') = Len(table) - 1
           /\ \A j \in 1..Len(table) - 1 : table'[j] = IF j < i THEN table[j] ELSE table[j + 1]
           /\ handle' = IF \E x \in ToSet(table') : x.device = table[i].device THEN handle
                        ELSE [handle EXCEPT ![table[i].device] = 0]
           /\ \A d : d # table[i].device => (d \in unwatched' <=> d \in unwatched)
           /\ \A f : DeviceOf[f] # table[i].device => (f \in missed' <=> f \in missed)
<1> DEFINE I == {i \in 1..Len(table) : table[i].mount = m}
           i == SelectLastInSeq(table, LAMBDA x : x.mount = m)
<1>1. i = IF I # {} THEN Max(I) ELSE 0
  BY DEF SelectLastInSeq
<1>2. /\ i # 0
      /\ table' = RemoveAt(table, i)
      /\ handle' = IF \E x \in ToSet(table') : x.device = table[i].device THEN handle
                   ELSE [handle EXCEPT ![table[i].device] = 0]
      /\ \/ UNCHANGED <<unwatched, missed>>
         \/ /\ unwatched' = unwatched \ {table[i].device}
            /\ missed' = {f \in missed : DeviceOf[f] # table[i].device}
  BY DEF Unmount, history
<1> HIDE DEF i
<1>3. i \in I
  <2>1. I # {}
    BY <1>1, <1>2
  <2> DEFINE Behind == {Len(table) - j : j \in I}
  <2>2. Behind \subseteq Nat /\ Behind # {}
    BY <2>1
  <2>3. PICK b \in Behind : \A c \in Behind : b <= c
    <3> HIDE DEF Behind
    <3> QED BY <2>2, Least
  <2>4. PICK k \in I : b = Len(table) - k
    OBVIOUS
  <2>5. ASSUME NEW j \in I PROVE k >= j
    <3>1. Len(table) - j \in Behind
      BY <2>5
    <3>2. b <= Len(table) - j
      <4> HIDE DEF Behind
      <4> QED BY <2>3, <3>1
    <3> QED BY <2>4, <3>2
  <2>6. Max(I) \in I
    <3> HIDE DEF I
    <3> QED BY <2>5 DEF Max
  <2> QED BY <1>1, <2>1, <2>6
<1>4. i \in 1..Len(table) /\ table[i].mount = m
  BY <1>3
<1>5. /\ table' \in Seq(Line)
      /\ Len(table') = Len(table) - 1
      /\ \A j \in 1..Len(table) - 1 : table'[j] = IF j < i THEN table[j] ELSE table[j + 1]
  <2> DEFINE a == SubSeq(table, 1, i - 1)
             b == SubSeq(table, i + 1, Len(table))
  <2>1. table' = a \o b
    BY <1>2 DEF RemoveAt
  <2>2. /\ a \in Seq(Line) /\ Len(a) = i - 1
        /\ \A j \in 1..i - 1 : a[j] = table[j]
    BY <1>4
  <2>3. /\ b \in Seq(Line) /\ Len(b) = Len(table) - i
        /\ \A j \in 1..Len(table) - i : b[j] = table[i + j]
    BY <1>4
  <2> HIDE DEF a, b
  <2>4. /\ table' \in Seq(Line)
        /\ Len(table') = Len(table) - 1
        /\ \A j \in 1..Len(table) - 1 : table'[j] = IF j <= i - 1 THEN a[j] ELSE b[j - (i - 1)]
    BY <1>4, <2>1, <2>2, <2>3, ConcatProperties
  <2>5. ASSUME NEW j \in 1..Len(table) - 1
        PROVE  table'[j] = IF j < i THEN table[j] ELSE table[j + 1]
    <3>1. CASE j < i
      <4>1. j <= i - 1 /\ j \in 1..i - 1
        BY <1>4, <3>1
      <4> QED BY <2>2, <2>4, <3>1, <4>1
    <3>2. CASE ~(j < i)
      <4>1. ~(j <= i - 1) /\ j - (i - 1) \in 1..Len(table) - i /\ i + (j - (i - 1)) = j + 1
        BY <1>4, <3>2
      <4> QED BY <2>3, <2>4, <3>2, <4>1
    <3> QED BY <3>1, <3>2
  <2> QED BY <2>4, <2>5
<1> QED BY <1>2, <1>4, <1>5

-----------------------------------------------------------------------------
(* Types                                                                   *)

\* main applies changes while there are any.
Typed == TypeOK /\ (main = "apply" => change # << >>)

\* What an operation on a file changes of the files and the events.
LEMMA FileOperationEffect ==
  ASSUME TypeOK, NEW f \in File, FileOperation(f) \/ Elsewhere(f)
  PROVE  /\ content' \in [File -> {"absent", "partial", "whole"}]
         /\ \A g \in File \ {f} : content'[g] = content[g]
         /\ UNCHANGED <<table, handle, next_handle, watch, main, change, registered, unwatched>>
         /\ missed' \subseteq File /\ \A g \in File \ {f} : g \in missed' <=> g \in missed
         /\ events' \in Seq(Event)
         /\ \/ events' = events
            \/ /\ handle[DeviceOf[f]] # 0
               /\ \E what \in {"created", "written", "gone"} :
                    events' = Append(events, [handle |-> handle[DeviceOf[f]], file |-> f, what |-> what])
<1> DEFINE Effect == /\ UNCHANGED <<table, handle, next_handle, watch, main, change, registered, unwatched>>
                     /\ content' \in [File -> {"absent", "partial", "whole"}]
                     /\ \A g \in File \ {f} : content'[g] = content[g]
           Miss == missed' \subseteq File /\ \A g \in File \ {f} : g \in missed' <=> g \in missed
           Told == \/ events' = events
                   \/ /\ handle[DeviceOf[f]] # 0
                      /\ \E what \in {"created", "written", "gone"} :
                           events' = Append(events, [handle |-> handle[DeviceOf[f]], file |-> f, what |-> what])
<1>1. ASSUME NEW from, NEW to \in {"absent", "partial", "whole"}, ContentChange(f, from, to) PROVE Effect
  BY <1>1 DEF ContentChange, TypeOK
<1>2. ASSUME NEW what \in {"created", "written", "gone"}, Reported(f, what) PROVE Told /\ Miss
  <2>1. Told
    BY <1>2 DEF Reported
  <2>2. missed' \in {missed, missed \ {f}, missed \cup {f}}
    BY <1>2 DEF Reported
  <2> QED BY <2>1, <2>2 DEF TypeOK
<1>3. Effect /\ Told /\ Miss
  <2>1. CASE Create(f)
    BY <1>1, <1>2, <2>1 DEF Create
  <2>2. CASE Close(f)
    BY <1>1, <1>2, <2>2 DEF Close
  <2>3. CASE MoveTo(f)
    BY <1>1, <1>2, <2>3 DEF MoveTo
  <2>4. CASE Delete(f)
    BY <1>1, <1>2, <2>4 DEF Delete
  <2>5. CASE Chmod(f)
    BY <1>1, <1>2, <2>5 DEF Chmod
  <2>6. CASE Rewrite(f)
    BY <1>1, <2>6 DEF Rewrite, TypeOK
  <2>7. CASE Elsewhere(f)
    BY <1>1, <2>7 DEF Elsewhere, TypeOK
  <2> HIDE DEF Effect, Told, Miss
  <2> QED BY <2>1, <2>2, <2>3, <2>4, <2>5, <2>6, <2>7 DEF FileOperation
<1>4. events' \in Seq(Event)
  <2>1. handle[DeviceOf[f]] \in Nat
    BY MountWatchAssumption DEF TypeOK
  <2>2. ASSUME NEW what \in {"created", "written", "gone"}
        PROVE  Append(events, [handle |-> handle[DeviceOf[f]], file |-> f, what |-> what]) \in Seq(Event)
    <3> DEFINE e == [handle |-> handle[DeviceOf[f]], file |-> f, what |-> what]
    <3>1. e \in Event
      BY <2>1 DEF Event
    <3> HIDE DEF e
    <3>2. Append(events, e) \in Seq(Event)
      BY <3>1 DEF TypeOK
    <3> QED BY <3>2 DEF e
  <2> QED BY <1>3, <2>2 DEF TypeOK
<1> QED BY <1>3, <1>4

\* The registry after a change of which these packages could be opened
Applied(c, opened) == Left(c) \cup Entries(opened, c)

\* What applying a change adds to the registry, and what it keeps
LEMMA AppliedEffect ==
  ASSUME TypeOK, NEW c \in MountChange \cup FileChange, NEW opened \in SUBSET Offered(c)
  PROVE  /\ Offered(c) \subseteq File
         /\ Applied(c, opened) \subseteq [file : File, mount : Mount, device : Device]
         /\ \A r \in Applied(c, opened) \ registered :
              /\ content[r.file] = "whole"
              /\ Shows(c.mount, DeviceOf[r.file])
              /\ r.mount = c.mount /\ r.device = c.device
              /\ c.tag \in {"ADDED", "PKG_ADDED"}
         /\ c.tag \in {"ADDED", "PKG_ADDED", "CHANGED"} => registered \subseteq Applied(c, opened)
         /\ c.tag = "REMOVED" => Applied(c, opened) = {r \in registered : r.device # c.device}
         /\ c.tag = "PKG_REMOVED" =>
              Applied(c, opened) = {r \in registered : r.file # c.file \/ r.mount # c.mount}
<1> DEFINE R == [file : File, mount : Mount, device : Device]
           Right(r) == /\ content[r.file] = "whole"
                       /\ Shows(c.mount, DeviceOf[r.file])
                       /\ r.mount = c.mount /\ r.device = c.device
<1>1. registered \subseteq R /\ c.mount \in Mount /\ c.device \in Device
  BY DEF TypeOK, MountChange, FileChange
<1>2. /\ Offered(c) \subseteq New(c.mount) /\ Offered(c) \subseteq File
      /\ c.tag \notin {"ADDED", "PKG_ADDED"} => Offered(c) = {}
  BY DEF Offered, New
<1>3. \A r \in Entries(opened, c) : r \in R /\ Right(r)
  BY <1>1, <1>2 DEF Entries, New
<1>4. c.tag \notin {"ADDED", "PKG_ADDED"} => Entries(opened, c) = {}
  BY <1>2 DEF Entries
<1>5. CASE c.tag \in {"ADDED", "PKG_ADDED"}
  <2>1. Left(c) = registered
    BY <1>5 DEF Left
  <2> QED BY <1>1, <1>2, <1>3, <1>5, <2>1 DEF Applied
<1>6. CASE c.tag = "REMOVED"
  <2>1. Left(c) = {r \in registered : r.device # c.device}
    BY <1>6 DEF Left
  <2> QED BY <1>1, <1>2, <1>4, <1>6, <2>1 DEF Applied
<1>7. CASE c.tag = "PKG_REMOVED"
  <2>1. Left(c) = {r \in registered : r.file # c.file \/ r.mount # c.mount}
    BY <1>7 DEF Left
  <2> QED BY <1>1, <1>2, <1>4, <1>7, <2>1 DEF Applied
<1>8. CASE c.tag = "CHANGED"
  <2>1. Left(c) = registered
    BY <1>8 DEF Left
  <2> QED BY <1>1, <1>2, <1>4, <1>8, <2>1 DEF Applied
<1>9. c.tag \in {"ADDED", "CHANGED", "REMOVED", "PKG_ADDED", "PKG_REMOVED"}
  BY DEF MountChange, FileChange
<1> QED BY <1>5, <1>6, <1>7, <1>8, <1>9

\* Applying the first change
LEMMA ApplyNextEffect ==
  ASSUME TypeOK, ApplyNext, change # << >>
  PROVE  \E opened \in SUBSET Offered(Head(change)) :
           /\ registered' = Applied(Head(change), opened)
           /\ missed' = missed \cup (Offered(Head(change)) \ opened)
BY Zenon DEF ApplyNext, Applied

\* In the beginning nothing is known, and the types are right.
LEMMA InitTyped == Init => Typed
<1> SUFFICES ASSUME Init PROVE Typed
  OBVIOUS
<1>1. table \in Seq(Line) /\ events \in Seq(Event) /\ entry \in Seq(Line)
  BY DEF Init
<1>2. ientry \in Seq(Watch) /\ change \in Seq(MountChange \cup FileChange)
  BY DEF Init
<1>3. content \in [File -> {"absent", "partial", "whole"}]
  BY DEF Init
<1>4. handle \in [Device -> Nat] /\ next_handle \in Nat \ {0}
  BY DEF Init
<1>6. dir_change \in BOOLEAN
  BY Zenon DEF Init
<1>5. main = "wait" /\ change = << >> /\ registered = {} /\ unwatched = {} /\ missed = {}
  BY DEF Init
<1> QED BY <1>1, <1>2, <1>3, <1>4, <1>5, <1>6 DEF Typed, TypeOK

\* Every step keeps them so.
LEMMA NextTyped == Typed /\ [Next]_vars => Typed'
<1> SUFFICES ASSUME Typed, [Next]_vars PROVE Typed'
  OBVIOUS
<1> USE DEF Typed
<1>1. CASE mountwatch_diff
  <2>1. PICK refused \in SUBSET Device : Differs(Diff(refused))
    BY <1>1, DiffEffect
  <2> DEFINE w == Diff(refused)
  <2>2. w \in Work /\ unwatched \subseteq Device
    BY DiffType DEF TypeOK
  <2> HIDE DEF Typed, w
  <2>3. /\ entry' \in Seq(Line) /\ ientry' \in Seq(Watch) /\ handle' \in [Device -> Nat]
        /\ next_handle' \in Nat \ {0} /\ change' \in Seq(MountChange) /\ unwatched' \subseteq Device
    BY <2>1, <2>2 DEF Work, Differs, w
  <2>4. change' \in Seq(MountChange \cup FileChange)
    <3>1. MountChange \subseteq MountChange \cup FileChange
      OBVIOUS
    <3> QED BY <2>3, <3>1, SeqMonotonic
  <2>5. /\ main' \in {"wait", "handle", "apply"}
        /\ main' = "wait" => change' = << >>
        /\ main' = "apply" => change' # << >>
    BY <2>1 DEF Returns, Differs, w
  <2> QED BY <2>1, <2>3, <2>4, <2>5 DEF TypeOK, Typed, Differs
<1>2. CASE DirNotices
  BY <1>2 DEF DirNotices, kernel, history, TypeOK
<1>3. CASE mountwatch_inotify_handle
  <2>1. EventChanges \in Seq(FileChange)
    BY ChangesSteps
  <2>2. EventChanges \in Seq(MountChange \cup FileChange)
    <3>1. FileChange \subseteq MountChange \cup FileChange
      OBVIOUS
    <3> QED BY <2>1, <3>1, SeqMonotonic
  <2>3. change' \in Seq(MountChange \cup FileChange)
    <3>1. change' = change \o EventChanges
      BY <1>3 DEF mountwatch_inotify_handle
    <3> QED BY <2>2, <3>1 DEF TypeOK
  <2>4. /\ events' = << >>
        /\ main' = IF change' = << >> THEN "wait" ELSE "apply"
        /\ UNCHANGED <<table, content, handle, next_handle, entry, ientry, dir_change, registered>>
        /\ UNCHANGED <<unwatched, missed>>
    BY <1>3 DEF mountwatch_inotify_handle, watch, history
  <2> QED BY <2>3, <2>4 DEF TypeOK
<1>4. CASE ApplyNext
  <2>1. change # << >>
    BY <1>4 DEF ApplyNext
  <2>2. Head(change) \in MountChange \cup FileChange /\ Tail(change) \in Seq(MountChange \cup FileChange)
    BY <2>1 DEF TypeOK
  <2>3. /\ registered' \subseteq [file : File, mount : Mount, device : Device]
        /\ missed' \subseteq File
    <3>1. PICK opened \in SUBSET Offered(Head(change)) :
            /\ registered' = Applied(Head(change), opened)
            /\ missed' = missed \cup (Offered(Head(change)) \ opened)
      BY <1>4, <2>1, ApplyNextEffect
    <3>2. /\ Applied(Head(change), opened) \subseteq [file : File, mount : Mount, device : Device]
          /\ Offered(Head(change)) \subseteq File
      BY <2>2, AppliedEffect
    <3> QED BY <3>1, <3>2 DEF TypeOK
  <2>4. /\ change' = Tail(change)
        /\ main' = IF change' = << >> THEN "wait" ELSE "apply"
        /\ UNCHANGED <<table, content, handle, next_handle, events, entry, ientry, dir_change, unwatched>>
    BY <1>4 DEF ApplyNext, kernel, watch
  <2> QED BY <2>2, <2>3, <2>4 DEF TypeOK
<1>5. ASSUME NEW m \in Mount, NEW d \in Device, MountDevice(m, d) PROVE Typed'
  <2>1. [mount |-> m, device |-> d] \in Line
    BY DEF Line
  <2>2. table' \in Seq(Line)
    BY <1>5, <2>1 DEF MountDevice, TypeOK
  <2> QED BY <1>5, <2>2 DEF MountDevice, watch, history, TypeOK
<1>6. ASSUME NEW m \in Mount, Unmount(m) PROVE Typed'
  <2>1. PICK i \in 1..Len(table) :
          /\ table' \in Seq(Line)
          /\ handle' = IF \E x \in ToSet(table') : x.device = table[i].device THEN handle
                       ELSE [handle EXCEPT ![table[i].device] = 0]
    BY <1>6, UnmountTakes DEF TypeOK
  <2>2. handle' \in [Device -> Nat]
    BY <2>1 DEF TypeOK
  <2>3. unwatched' \subseteq Device /\ missed' \subseteq File
    BY <1>6 DEF Unmount, history, TypeOK
  <2> QED BY <1>6, <2>1, <2>2, <2>3 DEF Unmount, watch, TypeOK
<1>7. ASSUME NEW f \in File, FileOperation(f) \/ Elsewhere(f) PROVE Typed'
  BY <1>7, FileOperationEffect DEF watch, TypeOK
<1>8. CASE UNCHANGED vars
  BY <1>8 DEF vars, kernel, watch, history, TypeOK
<1> HIDE DEF Typed
<1> QED BY <1>1, <1>2, <1>3, <1>4, <1>5, <1>6, <1>7, <1>8 DEF Next, Daemon, Environment

\* Whatever is mounted, one device at several places or one place several times
\* included, the walk through /proc/mounts leaves entries, watches and changes
\* that are well formed, and dbpd waits for news only with all changes applied.
THEOREM TypeCorrect == Spec => []TypeOK
<1>1. Spec => []Typed
  BY InitTyped, NextTyped, PTL DEF Spec
<1>2. Typed => TypeOK
  BY DEF Typed
<1> QED BY <1>1, <1>2, PTL

-----------------------------------------------------------------------------
(* Mounts and entries that correspond one to one                           *)

LineOf(x) == [mount |-> x.mount, device |-> x.device]

\* No mount point and no device twice
Distinct(s) ==
  \A i, j \in 1..Len(s) : s[i].mount = s[j].mount \/ s[i].device = s[j].device => i = j

Separate ==
  \A x \in Mounted, y \in Known : x.mount = y.mount \/ x.device = y.device => x = y

\* The watches are those of the entries, in their order
Aligned(en, ien) ==
  /\ Len(ien) = Len(en)
  /\ \A i \in 1..Len(en) : ien[i].mount = en[i].mount /\ ien[i].device = en[i].device

OneByOne == Distinct(table) /\ Distinct(entry) /\ Separate /\ Aligned(entry, ientry)

\* Watches en, ien and handles hs: handles are in use once, below next, unless
\* they are 0, and a device has the handle of its watch just if it is mounted.
HandlesOf(en, ien, hs, next) ==
  /\ \A i, j \in 1..Len(ien) : ien[i].handle = ien[j].handle => i = j \/ ien[i].handle = 0
  /\ \A i \in 1..Len(ien) : ien[i].handle \in 0..next - 1
  /\ \A i \in 1..Len(en) : en[i] \in Mounted => hs[en[i].device] = ien[i].handle
  /\ \A d \in Device : hs[d] # 0 => \E i \in 1..Len(en) : en[i].device = d /\ en[i] \in Mounted

HandlesRight == HandlesOf(entry, ientry, handle, next_handle)

\* A mount without a watch is one that inotify refused.
RefusedRight ==
  \A i \in 1..Len(entry) :
    entry[i] \in Mounted /\ ientry[i].handle = 0 => entry[i].device \in unwatched

-----------------------------------------------------------------------------
(* The first loop of mountwatch_diff                                       *)

\* What the first n lines of /proc/mounts have made of the entries
Scan(w, n) ==
  /\ Len(w.entry) >= Len(entry)
  /\ Distinct(w.entry) /\ Aligned(w.entry, w.ientry)
  /\ \A i \in 1..Len(entry) : w.entry[i] = entry[i] /\ w.ientry[i] = ientry[i]
  /\ \A i \in Len(entry) + 1..Len(w.entry) :
       /\ w.entry[i] \notin Known
       /\ \/ w.ientry[i].handle >= next_handle
          \/ w.ientry[i].handle = 0 /\ w.entry[i].device \in w.refused
       /\ i \in w.seen
  /\ \A i \in 1..Len(w.entry) : i \in w.seen <=> \E j \in 1..n : table[j] = w.entry[i]
  /\ \A j \in 1..n : \E i \in 1..Len(w.entry) : w.entry[i] = table[j]
  /\ next_handle <= w.next
  /\ HandlesOf(w.entry, w.ientry, w.handle, w.next)
  /\ Len(w.change) = Len(w.entry) - Len(entry)
  /\ \A i \in 1..Len(w.change) :
       w.change[i] = [tag |-> "ADDED", mount |-> w.entry[Len(entry) + i].mount,
                      device |-> w.entry[Len(entry) + i].device]

\* A mounted line is at some place of the table, ...
LEMMA InTable ==
  ASSUME table \in Seq(Line), NEW x
  PROVE  x \in Mounted <=> \E n \in 1..Len(table) : table[n] = x
BY DEF Mounted, ToSet

\* ... and a known one among the entries.
LEMMA InEntry ==
  ASSUME entry \in Seq(Line), NEW x
  PROVE  x \in Known <=> \E n \in 1..Len(entry) : entry[n] = x
BY DEF Known, ToSet

\* An entry that has the mount point or the device of the next line is equal to it.
LEMMA SameLine ==
  ASSUME TypeOK, OneByOne, NEW w \in Work, NEW n \in 1..Len(table), Scan(w, n - 1),
         NEW i \in 1..Len(w.entry),
         w.entry[i].mount = table[n].mount \/ w.entry[i].device = table[n].device
  PROVE  w.entry[i] = table[n]
<1>1. table[n] \in Mounted
  BY InTable DEF TypeOK
<1>2. CASE i \in 1..Len(entry)
  <2>1. w.entry[i] \in Known
    BY <1>2, InEntry DEF Scan, TypeOK
  <2> QED BY <1>1, <2>1 DEF OneByOne, Separate
<1>3. CASE i \notin 1..Len(entry)
  <2>1. Len(entry) \in Nat /\ Len(w.entry) \in Nat
    BY DEF TypeOK, Work
  <2>2. i \in Len(entry) + 1..Len(w.entry)
    BY <1>3, <2>1
  <2>3. PICK j \in 1..n - 1 : table[j] = w.entry[i]
    BY <2>2 DEF Scan
  <2>4. j \in 1..Len(table)
    BY DEF TypeOK
  <2>5. j = n
    BY <2>3, <2>4 DEF OneByOne, Distinct
  <2> QED BY <2>3, <2>5
<1> QED BY <1>2, <1>3

\* Where no entry is partly equal to a line no watch is moved.
LEMMA MovedNone ==
  ASSUME table \in Seq(Line), NEW w \in Work, NEW n \in 1..Len(table), Partly(w, table[n]) = {}
  PROVE  Moved(w, table[n]) = w
<1>1. PICK moved \in [0..Len(w.entry) -> Work] :
        /\ moved[0] = w
        /\ \A i \in 1..Len(w.entry) :
             moved[i] = IF i \in Partly(w, table[n])
                        THEN Found(Watched(Unwatch(moved[i - 1], w.entry[i].mount), table[n]),
                                   "CHANGED", table[n])
                        ELSE moved[i - 1]
        /\ Moved(w, table[n]) = moved[Len(w.entry)]
  BY MovedSteps
<1>2. \A i \in 1..Len(w.entry) : moved[i] = moved[i - 1]
  BY <1>1
<1> DEFINE Same == {i \in 0..Len(w.entry) : moved[i] = w}
<1>3. Len(w.entry) \in Nat /\ Len(w.entry) \in 0..Len(w.entry)
  BY DEF Work
<1>4. 0 \in Same
  BY <1>1, <1>3
<1>5. \A i \in 1..Len(w.entry) : i - 1 \in Same => i \in Same
  BY <1>2
<1>6. Len(w.entry) \in Same
  <2> HIDE DEF Same
  <2> QED BY <1>3, <1>4, <1>5, UpTo
<1> QED BY <1>1, <1>6

\* While mounts and entries correspond one to one there is no such entry.
LEMMA PartlyNone ==
  ASSUME TypeOK, OneByOne, NEW w \in Work, NEW n \in 1..Len(table), Scan(w, n - 1)
  PROVE  Partly(w, table[n]) = {} /\ Moved(w, table[n]) = w
<1>1. ASSUME NEW i \in Partly(w, table[n]) PROVE FALSE
  <2>1. w.entry \in Seq(Line) /\ Len(w.entry) \in Nat
    BY DEF Work
  <2>2. i \in 1..Len(w.entry) /\ i # Equal(w, table[n])
    BY <2>1, EqualFinds DEF Partly
  <2>3. w.entry[i] = table[n]
    <3>1. w.entry[i].mount = table[n].mount \/ w.entry[i].device = table[n].device
      BY DEF Partly
    <3> QED BY <2>2, <3>1, SameLine
  <2>4. Equal(w, table[n]) \in 1..Len(w.entry) /\ w.entry[Equal(w, table[n])] = table[n]
    BY <2>1, <2>2, <2>3, EqualFinds
  <2>5. Distinct(w.entry)
    BY DEF Scan
  <2> QED BY <2>2, <2>3, <2>4, <2>5 DEF Distinct
<1>2. Partly(w, table[n]) = {}
  BY <1>1
<1> QED BY <1>2, MovedNone DEF TypeOK

\* Each mount point shows the device of its line.
LEMMA ShowsLine ==
  ASSUME table \in Seq(Line), Distinct(table), NEW m \in Mount, NEW d \in Device
  PROVE  Shows(m, d) <=> [mount |-> m, device |-> d] \in Mounted
<1>1. ASSUME NEW n \in 1..Len(table), table[n] = [mount |-> m, device |-> d],
             NEW j \in n + 1..Len(table)
      PROVE  table[j].mount # m
  <2>1. j \in 1..Len(table) /\ j # n
    BY <1>1
  <2> QED BY <1>1, <2>1 DEF Distinct
<1> QED BY <1>1, InTable DEF Shows

\* The watch of a new line gets a new handle or, if it is refused, none.
LEMMA WatchedNew ==
  ASSUME TypeOK, OneByOne, NEW w \in Work, NEW n \in 1..Len(table), w.handle[table[n].device] = 0
  PROVE  LET h == IF table[n].device \in w.refused THEN 0 ELSE w.next
         IN /\ Watched(w, table[n]) \in Work
            /\ Watched(w, table[n]).entry = w.entry
            /\ Watched(w, table[n]).change = w.change
            /\ Watched(w, table[n]).seen = w.seen
            /\ Watched(w, table[n]).refused = w.refused
            /\ Watched(w, table[n]).ientry =
                 Append(w.ientry, [mount |-> table[n].mount, device |-> table[n].device, handle |-> h])
            /\ Watched(w, table[n]).handle = [w.handle EXCEPT ![table[n].device] = h]
            /\ Watched(w, table[n]).next = IF h = w.next THEN w.next + 1 ELSE w.next
<1> DEFINE line == table[n]
           d == CHOOSE x \in Device : Shows(line.mount, x)
           h == IF line.device \in w.refused THEN 0 ELSE w.next
           x == [mount |-> line.mount, device |-> line.device, handle |-> h]
           next == IF h = w.next THEN w.next + 1 ELSE w.next
<1>1. line \in Line /\ line \in Mounted
  BY InTable DEF TypeOK
<1>2. line.mount \in Mount /\ line.device \in Device /\ line = LineOf(line)
  <2> HIDE DEF line
  <2> QED BY <1>1 DEF Line, LineOf
<1>3. d = line.device
  <2>1. ASSUME NEW y \in Device, Shows(line.mount, y) PROVE y = line.device
    <3>1. [mount |-> line.mount, device |-> y] \in Mounted
      <4> HIDE DEF line
      <4> QED BY <1>2, <2>1, ShowsLine DEF TypeOK, OneByOne
    <3>2. PICK j \in 1..Len(table) : table[j] = [mount |-> line.mount, device |-> y]
      BY <3>1, InTable DEF TypeOK
    <3>3. j = n
      BY <3>2 DEF OneByOne, Distinct
    <3> QED BY <3>2, <3>3
  <2>2. \E y \in Device : Shows(line.mount, y)
    BY ShowsOne DEF TypeOK
  <2> QED BY <2>1, <2>2
<1> HIDE DEF d
<1>4. AddWatch(w, line.device) = h
  BY DEF AddWatch
<1> HIDE DEF h
<1>5. Watched(w, line) = [w EXCEPT !.ientry = Append(@, x),
                                   !.handle[line.device] = IF h = 0 THEN @ ELSE h,
                                   !.next = IF h = @ THEN @ + 1 ELSE @]
  <2> HIDE DEF line
  <2>1. AddWatch(w, d) = h
    BY <1>3, <1>4
  <2>2. Watched(w, line) = [w EXCEPT !.ientry = Append(@, [mount |-> line.mount, device |-> line.device,
                                                          handle |-> AddWatch(w, d)]),
                                     !.handle[d] = IF AddWatch(w, d) = 0 THEN @ ELSE AddWatch(w, d),
                                     !.next = IF AddWatch(w, d) = @ THEN @ + 1 ELSE @]
    BY DEF Watched, d
  <2> QED BY <1>3, <2>1, <2>2
<1>6. /\ Watched(w, line) \in Work
      /\ Watched(w, line).entry = w.entry
      /\ Watched(w, line).change = w.change
      /\ Watched(w, line).seen = w.seen
      /\ Watched(w, line).refused = w.refused
  BY WatchedType DEF TypeOK
<1>7. [w.handle EXCEPT ![line.device] = IF h = 0 THEN @ ELSE h] = [w.handle EXCEPT ![line.device] = h]
  <2> HIDE DEF line
  <2>1. w.handle[line.device] = 0
    BY DEF line
  <2> QED BY <2>1
<1>8. /\ Watched(w, line).ientry = Append(w.ientry, x)
      /\ Watched(w, line).handle = [w.handle EXCEPT ![line.device] = h]
      /\ Watched(w, line).next = next
  <2> HIDE DEF line, x
  <2> QED BY <1>5, <1>7 DEF Work
<1> QED BY <1>6, <1>8 DEF line, x, h

\* A line that is known: its entry is marked.
LEMMA CompareOld ==
  ASSUME TypeOK, OneByOne, NEW w \in Work, NEW n \in 1..Len(table), Scan(w, n - 1),
         Equal(w, table[n]) # 0
  PROVE  Scan(Compare(w, table[n]), n)
<1> DEFINE v == Compare(w, table[n])
           e == Equal(w, table[n])
<1>1. v = [w EXCEPT !.seen = w.seen \cup {e}]
  BY PartlyNone DEF Compare
<1>2. /\ v.entry = w.entry /\ v.ientry = w.ientry /\ v.handle = w.handle
      /\ v.next = w.next /\ v.change = w.change /\ v.seen = w.seen \cup {e}
      /\ v.refused = w.refused
  <2> HIDE DEF e, v
  <2> QED BY <1>1 DEF Work
<1>3. e \in 1..Len(w.entry) /\ w.entry[e] = table[n]
  BY EqualFinds DEF Work
<1> HIDE DEF e, v
<1>4. Distinct(w.entry) /\ Len(w.entry) \in Nat /\ Len(entry) \in Nat
  BY DEF Scan, Work, TypeOK
<1>5. \A j \in 1..n : j = n \/ j \in 1..n - 1
  OBVIOUS
<1>6. ASSUME NEW i \in 1..Len(w.entry)
      PROVE  i \in v.seen <=> \E j \in 1..n : table[j] = w.entry[i]
  <2>1. i \in w.seen <=> \E j \in 1..n - 1 : table[j] = w.entry[i]
    BY DEF Scan
  <2>2. table[n] = w.entry[i] <=> i = e
    BY <1>3, <1>4 DEF Distinct
  <2> QED BY <1>2, <1>5, <2>1, <2>2
<1>7. \A j \in 1..n : \E i \in 1..Len(w.entry) : w.entry[i] = table[j]
  BY <1>3, <1>5 DEF Scan
<1> QED BY <1>2, <1>6, <1>7, SMTT(20) DEF Scan, v

\* A line that is new: it gets an entry, a watch and a change.
LEMMA CompareNew ==
  ASSUME TypeOK, OneByOne, NEW w \in Work, NEW n \in 1..Len(table), Scan(w, n - 1),
         Equal(w, table[n]) = 0
  PROVE  Scan(Compare(w, table[n]), n)
<1> DEFINE line == table[n]
           v == Compare(w, line)
           k == Len(w.entry)
           h == IF line.device \in w.refused THEN 0 ELSE w.next
           x == [mount |-> line.mount, device |-> line.device, handle |-> h]
           c == [tag |-> "ADDED", mount |-> line.mount, device |-> line.device]
           f == Found(w, "ADDED", line)
           g == Watched(f, line)
<1>1. line \in Line /\ line \in Mounted /\ line.mount \in Mount /\ line.device \in Device
  <2>1. line \in Line /\ line \in Mounted
    BY InTable DEF TypeOK
  <2> QED BY <2>1 DEF Line
<1>2. k \in Nat /\ Len(entry) \in Nat /\ Len(entry) <= k /\ Len(w.ientry) = k
  BY DEF Work, TypeOK, Scan, Aligned
<1>3. /\ w.entry \in Seq(Line) /\ w.ientry \in Seq(Watch) /\ w.change \in Seq(MountChange)
      /\ w.handle \in [Device -> Nat] /\ w.next \in Nat \ {0}
  BY DEF Work
<1>4. \A i \in 1..k : w.entry[i].mount # line.mount /\ w.entry[i].device # line.device
  BY <1>3, EqualFinds, SameLine, SMTT(30)
<1>5. w.handle[line.device] = 0
  <2>1. HandlesOf(w.entry, w.ientry, w.handle, w.next)
    BY DEF Scan
  <2> HIDE DEF line
  <2> QED BY <1>1, <1>4, <2>1 DEF HandlesOf
<1>6. /\ f \in Work /\ f.entry = w.entry /\ f.ientry = w.ientry /\ f.handle = w.handle
      /\ f.next = w.next /\ f.seen = w.seen /\ f.change = Append(w.change, c)
      /\ f.refused = w.refused
  BY <1>1, FoundType
<1>7. /\ g \in Work /\ g.entry = w.entry /\ g.change = Append(w.change, c) /\ g.seen = w.seen
      /\ g.ientry = Append(w.ientry, x)
      /\ g.handle = [w.handle EXCEPT ![line.device] = h]
      /\ g.next = IF h = w.next THEN w.next + 1 ELSE w.next
      /\ g.refused = w.refused
  <2>1. f \in Work /\ f.handle[table[n].device] = 0
    BY <1>5, <1>6
  <2> HIDE DEF f, c
  <2> DEFINE i == IF table[n].device \in f.refused THEN 0 ELSE f.next
  <2>2. /\ Watched(f, table[n]) \in Work
        /\ Watched(f, table[n]).entry = f.entry
        /\ Watched(f, table[n]).change = f.change
        /\ Watched(f, table[n]).seen = f.seen
        /\ Watched(f, table[n]).refused = f.refused
        /\ Watched(f, table[n]).ientry =
             Append(f.ientry, [mount |-> table[n].mount, device |-> table[n].device, handle |-> i])
        /\ Watched(f, table[n]).handle = [f.handle EXCEPT ![table[n].device] = i]
        /\ Watched(f, table[n]).next = IF i = f.next THEN f.next + 1 ELSE f.next
    BY <2>1, WatchedNew
  <2>3. i = h
    BY <1>6
  <2> HIDE DEF i, h
  <2> QED BY <1>6, <2>2, <2>3
<1>8. v = [g EXCEPT !.entry = Append(w.entry, line), !.seen = w.seen \cup {k + 1}]
  <2>1. Partly(w, line) = {} /\ Moved(w, line) = w
    BY PartlyNone
  <2>2. v = [g EXCEPT !.entry = Append(@, line), !.seen = (w.seen \cup {}) \cup {k + 1}]
    BY <2>1 DEF Compare
  <2> HIDE DEF v, g, line, k, h
  <2> QED BY <1>7, <2>2
<1>9. /\ v.entry = Append(w.entry, line) /\ v.ientry = Append(w.ientry, x)
      /\ v.handle = [w.handle EXCEPT ![line.device] = h]
      /\ v.next = IF h = w.next THEN w.next + 1 ELSE w.next
      /\ v.change = Append(w.change, c) /\ v.seen = w.seen \cup {k + 1} /\ v.refused = w.refused
  <2> HIDE DEF v, g, line, k, x, c, h
  <2> QED BY <1>7, <1>8 DEF Work
<1>27. /\ h \in Nat
       /\ \/ h = w.next /\ v.next = w.next + 1
          \/ h = 0 /\ v.next = w.next /\ line.device \in w.refused
  <2> HIDE DEF v, line
  <2> QED BY <1>3, <1>9
<1> HIDE DEF v, f, g, line, k, h
<1>10. /\ Len(v.entry) = k + 1 /\ v.entry[k + 1] = line /\ \A i \in 1..k : v.entry[i] = w.entry[i]
  BY <1>1, <1>3, <1>9 DEF k
<1>11. x \in Watch
  BY <1>1, <1>27 DEF Watch
<1>12. /\ Len(v.ientry) = k + 1 /\ v.ientry[k + 1] = x /\ \A i \in 1..k : v.ientry[i] = w.ientry[i]
  <2> HIDE DEF x
  <2>1. w.ientry \in Seq(Watch) /\ v.ientry = Append(w.ientry, x) /\ Len(w.ientry) = k /\ x \in Watch
    BY <1>2, <1>3, <1>9, <1>11
  <2> DEFINE s == w.ientry
  <2> HIDE DEF s
  <2>2. /\ Len(Append(s, x)) = Len(s) + 1 /\ Append(s, x)[Len(s) + 1] = x
        /\ \A i \in 1..Len(s) : Append(s, x)[i] = s[i]
    BY <2>1, AppendProperties DEF s
  <2> QED BY <2>1, <2>2 DEF s
<1> HIDE DEF x
<1>13. \A i \in 1..k + 1 : i = k + 1 \/ i \in 1..k
  BY <1>2
<1>14. Distinct(v.entry)
  <2>1. Distinct(w.entry)
    BY DEF Scan
  <2>2. \A i, j \in 1..k :
          w.entry[i].mount = w.entry[j].mount \/ w.entry[i].device = w.entry[j].device => i = j
    BY <2>1 DEF Distinct, k
  <2>3. ASSUME NEW i \in 1..k + 1, NEW j \in 1..k + 1,
               v.entry[i].mount = v.entry[j].mount \/ v.entry[i].device = v.entry[j].device
        PROVE  i = j
    <3>1. CASE i \in 1..k /\ j \in 1..k
      BY <1>10, <2>2, <2>3, <3>1
    <3>2. CASE i = k + 1 /\ j \in 1..k
      BY <1>4, <1>10, <2>3, <3>2
    <3>3. CASE i \in 1..k /\ j = k + 1
      BY <1>4, <1>10, <2>3, <3>3
    <3> QED BY <1>13, <3>1, <3>2, <3>3
  <2> QED BY <1>10, <2>3 DEF Distinct
<1>15. Aligned(v.entry, v.ientry)
  <2>1. Aligned(w.entry, w.ientry)
    BY DEF Scan
  <2>2. \A i \in 1..k : w.ientry[i].mount = w.entry[i].mount /\ w.ientry[i].device = w.entry[i].device
    BY <2>1 DEF Aligned, k
  <2>3. ASSUME NEW i \in 1..k + 1
        PROVE  v.ientry[i].mount = v.entry[i].mount /\ v.ientry[i].device = v.entry[i].device
    <3>1. CASE i \in 1..k
      BY <1>10, <1>12, <2>2, <3>1
    <3>2. CASE i = k + 1
      BY <1>10, <1>12, <3>2 DEF x
    <3> QED BY <1>13, <3>1, <3>2
  <2> QED BY <1>10, <1>12, <2>3 DEF Aligned
<1>16. \A i \in 1..Len(entry) : v.entry[i] = entry[i] /\ v.ientry[i] = ientry[i]
  <2>1. \A i \in 1..Len(entry) : w.entry[i] = entry[i] /\ w.ientry[i] = ientry[i]
    BY DEF Scan
  <2>2. \A i \in 1..Len(entry) : i \in 1..k
    BY <1>2
  <2> QED BY <1>10, <1>12, <2>1, <2>2
<1>17. line \notin Known
  <2>1. ASSUME line \in Known PROVE FALSE
    <3>1. PICK i \in 1..Len(entry) : entry[i] = line
      BY <2>1, InEntry DEF TypeOK
    <3>2. i \in 1..k /\ w.entry[i] = line
      BY <1>2, <3>1 DEF Scan
    <3> QED BY <1>4, <3>2
  <2> QED BY <2>1
<1>18. next_handle <= w.next /\ next_handle \in Nat
  BY DEF Scan, TypeOK
<1>19. ASSUME NEW i \in Len(entry) + 1..Len(v.entry)
       PROVE  /\ v.entry[i] \notin Known /\ i \in v.seen
              /\ \/ v.ientry[i].handle >= next_handle
                 \/ v.ientry[i].handle = 0 /\ v.entry[i].device \in v.refused
  <2>1. CASE i = k + 1
    <3>1. v.ientry[i].handle = h /\ v.entry[i] = line
      BY <1>10, <1>12, <2>1 DEF x
    <3> QED BY <1>3, <1>9, <1>17, <1>18, <1>27, <2>1, <3>1
  <2>2. CASE i # k + 1
    <3>1. i \in Len(entry) + 1..Len(w.entry) /\ i \in 1..k
      BY <1>2, <1>10, <2>2 DEF k
    <3>2. /\ w.entry[i] \notin Known /\ i \in w.seen
          /\ \/ w.ientry[i].handle >= next_handle
             \/ w.ientry[i].handle = 0 /\ w.entry[i].device \in w.refused
      BY <3>1 DEF Scan
    <3> QED BY <1>9, <1>10, <1>12, <3>1, <3>2
  <2> QED BY <2>1, <2>2
<1>20. \A j \in 1..n : j = n \/ j \in 1..n - 1
  OBVIOUS
<1>21. ASSUME NEW i \in 1..Len(v.entry)
       PROVE  i \in v.seen <=> \E j \in 1..n : table[j] = v.entry[i]
  <2>1. CASE i = k + 1
    <3>1. i \in v.seen /\ table[n] = v.entry[i] /\ n \in 1..n
      BY <1>9, <1>10, <2>1 DEF line
    <3> QED BY <3>1
  <2>2. CASE i # k + 1
    <3>1. i \in 1..k
      BY <1>10, <1>13, <2>2
    <3>2. i \in w.seen <=> \E j \in 1..n - 1 : table[j] = w.entry[i]
      BY <3>1 DEF Scan, k
    <3>3. table[n] # w.entry[i]
      BY <1>4, <3>1 DEF line
    <3> QED BY <1>9, <1>10, <1>20, <2>2, <3>1, <3>2, <3>3
  <2> QED BY <2>1, <2>2
<1>22. ASSUME NEW j \in 1..n PROVE \E i \in 1..Len(v.entry) : v.entry[i] = table[j]
  <2>1. CASE j = n
    <3>1. k + 1 \in 1..Len(v.entry)
      BY <1>2, <1>10
    <3> QED BY <1>10, <2>1, <3>1 DEF line
  <2>2. CASE j # n
    <3>1. j \in 1..n - 1
      BY <1>20, <2>2
    <3>2. PICK i \in 1..k : w.entry[i] = table[j]
      BY <3>1 DEF Scan, k
    <3>3. i \in 1..Len(v.entry)
      BY <1>2, <1>10
    <3> QED BY <1>10, <3>2, <3>3
  <2> QED BY <2>1, <2>2
<1>23. HandlesOf(v.entry, v.ientry, v.handle, v.next)
  <2>1. HandlesOf(w.entry, w.ientry, w.handle, w.next)
    BY DEF Scan
  <2>2. \A i \in 1..k : w.ientry[i].handle \in 0..w.next - 1
    BY <1>2, <2>1 DEF HandlesOf
  <2>3. \A i \in 1..Len(v.ientry) : v.ientry[i].handle \in 0..v.next - 1
    <3>1. /\ x.handle = h /\ h \in 0..v.next - 1
          /\ w.next \in Nat \ {0} /\ v.next \in Nat /\ w.next <= v.next
      BY <1>3, <1>27 DEF x
    <3>2. \A i \in 1..k : v.ientry[i].handle \in 0..v.next - 1
      <4>1. \A a \in 0..w.next - 1 : a \in 0..v.next - 1
        BY <3>1
      <4> QED BY <1>12, <2>2, <4>1
    <3> QED BY <1>12, <1>13, <3>1, <3>2
  <2>4. \A i, j \in 1..Len(v.ientry) :
          v.ientry[i].handle = v.ientry[j].handle => i = j \/ v.ientry[i].handle = 0
    <3>1. \A i, j \in 1..k :
            w.ientry[i].handle = w.ientry[j].handle => i = j \/ w.ientry[i].handle = 0
      BY <1>2, <2>1 DEF HandlesOf
    <3>2. x.handle = h
      BY DEF x
    <3>3. \A i \in 1..k : v.ientry[i].handle = v.ientry[k + 1].handle => v.ientry[k + 1].handle = 0
      <4>1. \A a \in 0..w.next - 1 : a # w.next
        BY <1>3
      <4> QED BY <1>12, <1>27, <2>2, <3>2, <4>1
    <3>4. ASSUME NEW i \in 1..k + 1, NEW j \in 1..k + 1, v.ientry[i].handle = v.ientry[j].handle
          PROVE  i = j \/ v.ientry[i].handle = 0
      <4>1. CASE i \in 1..k /\ j \in 1..k
        BY <1>12, <3>1, <3>4, <4>1
      <4>2. CASE i = k + 1 /\ j \in 1..k
        BY <3>3, <3>4, <4>2
      <4>3. CASE i \in 1..k /\ j = k + 1
        BY <3>3, <3>4, <4>3
      <4> QED BY <1>13, <4>1, <4>2, <4>3
    <3> QED BY <1>12, <3>4
  <2>5. ASSUME NEW i \in 1..Len(v.entry), v.entry[i] \in Mounted
        PROVE  v.handle[v.entry[i].device] = v.ientry[i].handle
    <3>1. CASE i = k + 1
      <4>1. v.entry[i] = line /\ v.ientry[i].handle = h
        BY <1>10, <1>12, <3>1 DEF x
      <4>2. v.handle[line.device] = h
        BY <1>1, <1>3, <1>9
      <4> QED BY <4>1, <4>2
    <3>2. CASE i # k + 1
      <4>1. i \in 1..k
        BY <1>10, <1>13, <3>2
      <4>2. w.handle[w.entry[i].device] = w.ientry[i].handle
        BY <1>10, <2>1, <2>5, <4>1 DEF HandlesOf, k
      <4>3. w.entry[i].device \in Device
        <5>1. w.entry[i] \in Line
          BY <1>3, <4>1 DEF k
        <5> QED BY <5>1 DEF Line
      <4>4. v.handle[w.entry[i].device] = w.handle[w.entry[i].device]
        BY <1>3, <1>4, <1>9, <4>1, <4>3
      <4> QED BY <1>10, <1>12, <4>1, <4>2, <4>4
    <3> QED BY <3>1, <3>2
  <2>6. ASSUME NEW d \in Device, v.handle[d] # 0
        PROVE  \E i \in 1..Len(v.entry) : v.entry[i].device = d /\ v.entry[i] \in Mounted
    <3>1. CASE d = line.device
      <4>1. k + 1 \in 1..Len(v.entry)
        BY <1>2, <1>10
      <4> QED BY <1>1, <1>10, <3>1, <4>1
    <3>2. CASE d # line.device
      <4>1. w.handle[d] # 0
        BY <1>3, <1>9, <2>6, <3>2
      <4>2. PICK i \in 1..k : w.entry[i].device = d /\ w.entry[i] \in Mounted
        BY <2>1, <4>1 DEF HandlesOf, k
      <4>3. i \in 1..Len(v.entry)
        BY <1>2, <1>10
      <4> QED BY <1>10, <4>2, <4>3
    <3> QED BY <3>1, <3>2
  <2> HIDE DEF v
  <2> QED BY <2>3, <2>4, <2>5, <2>6 DEF HandlesOf
<1>24. /\ Len(v.change) = Len(v.entry) - Len(entry)
       /\ \A i \in 1..Len(v.change) :
            v.change[i] = [tag |-> "ADDED", mount |-> v.entry[Len(entry) + i].mount,
                           device |-> v.entry[Len(entry) + i].device]
  <2>1. c \in MountChange
    BY <1>1 DEF MountChange
  <2>2. /\ Len(w.change) = k - Len(entry)
        /\ \A i \in 1..Len(w.change) :
             w.change[i] = [tag |-> "ADDED", mount |-> w.entry[Len(entry) + i].mount,
                            device |-> w.entry[Len(entry) + i].device]
    BY DEF Scan, k
  <2>3. /\ Len(v.change) = Len(w.change) + 1
        /\ \A i \in 1..Len(w.change) : v.change[i] = w.change[i]
        /\ v.change[Len(w.change) + 1] = c
    <3> HIDE DEF c
    <3> QED BY <1>3, <1>9, <2>1
  <2>4. Len(v.change) = Len(v.entry) - Len(entry)
    BY <1>2, <1>10, <2>2, <2>3
  <2>5. ASSUME NEW i \in 1..Len(v.change)
        PROVE  v.change[i] = [tag |-> "ADDED", mount |-> v.entry[Len(entry) + i].mount,
                              device |-> v.entry[Len(entry) + i].device]
    <3>1. CASE i = Len(w.change) + 1
      <4>1. Len(entry) + i = k + 1
        BY <1>2, <2>2, <3>1
      <4> QED BY <1>10, <2>3, <3>1, <4>1
    <3>2. CASE i # Len(w.change) + 1
      <4>1. i \in 1..Len(w.change) /\ Len(entry) + i \in 1..k
        BY <1>2, <2>2, <2>3, <3>2, SMTT(30)
      <4> QED BY <1>10, <2>2, <2>3, <4>1
    <3> QED BY <3>1, <3>2
  <2> QED BY <2>4, <2>5
<1>25. Len(v.entry) >= Len(entry) /\ next_handle <= v.next
  BY <1>2, <1>3, <1>10, <1>18, <1>27, SMTT(30)
<1>26. Scan(v, n)
  BY <1>14, <1>15, <1>16, <1>19, <1>21, <1>22, <1>23, <1>24, <1>25 DEF Scan
<1> QED BY <1>26 DEF v, line

\* So the scan holds after each line.
LEMMA ScanAll ==
  ASSUME TypeOK, OneByOne, HandlesRight, NEW refused \in SUBSET Device
  PROVE  Compared(refused) \in Work /\ Scan(Compared(refused), Len(table))
<1>1. PICK compared \in [0..Len(table) -> Work] :
        /\ compared[0] = [entry |-> entry, ientry |-> ientry, handle |-> handle,
                          next |-> next_handle, change |-> << >>, seen |-> {}, refused |-> refused]
        /\ \A n \in 1..Len(table) : compared[n] = Compare(compared[n - 1], table[n])
        /\ Compared(refused) = compared[Len(table)]
  BY ComparedSteps
<1> DEFINE Good == {n \in 0..Len(table) : Scan(compared[n], n)}
<1>2. Len(table) \in Nat /\ Len(table) \in 0..Len(table)
  BY DEF TypeOK
<1>3. 0 \in Good
  <2> DEFINE w == compared[0]
  <2>1. /\ w.entry = entry /\ w.ientry = ientry /\ w.handle = handle /\ w.next = next_handle
        /\ w.change = << >> /\ w.seen = {}
    BY <1>1
  <2> HIDE DEF w
  <2>2. Len(entry) \in Nat /\ next_handle \in Nat
    BY DEF TypeOK
  <2>3. Distinct(w.entry) /\ Aligned(w.entry, w.ientry) /\ HandlesOf(w.entry, w.ientry, w.handle, w.next)
    BY <2>1 DEF OneByOne, HandlesRight
  <2>4. Scan(w, 0)
    <3>1. 1..0 = {} /\ Len(entry) + 1..Len(entry) = {} /\ Len(w.change) = 0
      BY <2>1, <2>2
    <3> QED BY <2>1, <2>2, <2>3, <3>1 DEF Scan
  <2> QED BY <1>2, <2>4 DEF w
<1>4. ASSUME NEW n \in 1..Len(table), n - 1 \in Good PROVE n \in Good
  <2> DEFINE w == compared[n - 1]
  <2>1. w \in Work /\ Scan(w, n - 1)
    BY <1>4
  <2>2. compared[n] = Compare(w, table[n])
    BY <1>1
  <2> HIDE DEF w
  <2>3. Scan(Compare(w, table[n]), n)
    BY <2>1, CompareOld, CompareNew
  <2> QED BY <1>2, <2>2, <2>3
<1>5. Len(table) \in Good
  <2> HIDE DEF Good
  <2> QED BY <1>2, <1>3, <1>4, UpTo
<1> QED BY <1>1, <1>2, <1>5

-----------------------------------------------------------------------------
(* The second loop of mountwatch_diff                                      *)

\* What the second loop finds
Scanned(w) ==
  /\ Distinct(w.entry) /\ Aligned(w.entry, w.ientry)
  /\ HandlesOf(w.entry, w.ientry, w.handle, w.next)
  /\ \A i \in 1..Len(w.entry) : i \in Gone(w) <=> w.entry[i] \notin Mounted

Removed(line) == [tag |-> "REMOVED", mount |-> line.mount, device |-> line.device]

\* What its first n entries have made of it
Purged(w, v, n) ==
  /\ Len(v.ientry) = Len(v.entry) + Len(w.entry) - n
  /\ \A i \in 1..Len(w.entry) - n : v.ientry[Len(v.entry) + i] = w.ientry[n + i]
  /\ \A i \in 1..Len(v.entry) : \E j \in 1..n :
       j \notin Gone(w) /\ v.entry[i] = w.entry[j] /\ v.ientry[i] = w.ientry[j]
  /\ \A j \in 1..n : j \notin Gone(w) => \E i \in 1..Len(v.entry) : v.entry[i] = w.entry[j]
  /\ Distinct(v.entry)
  /\ v.handle = w.handle /\ v.next = w.next /\ v.refused = w.refused
  /\ Len(w.change) <= Len(v.change)
  /\ \A i \in 1..Len(w.change) : v.change[i] = w.change[i]
  /\ \A i \in Len(w.change) + 1..Len(v.change) : \E j \in 1..n :
       j \in Gone(w) /\ v.change[i] = Removed(w.entry[j])
  /\ \A j \in 1..n : j \in Gone(w) =>
       \E i \in Len(w.change) + 1..Len(v.change) : v.change[i] = Removed(w.entry[j])
  /\ \A i, j \in Len(w.change) + 1..Len(v.change) : v.change[i] = v.change[j] => i = j

\* The handle of a mount that is gone belongs to no device, unless it is 0.
LEMMA LostHandle ==
  ASSUME NEW w \in Work, Scanned(w), NEW n \in Gone(w), NEW d \in Device
  PROVE  w.handle[d] = w.ientry[n].handle => w.handle[d] = 0
<1>1. n \in 1..Len(w.entry) /\ w.entry[n] \notin Mounted /\ Len(w.ientry) = Len(w.entry)
  BY DEF Scanned, Gone, Aligned
<1>2. /\ \A i, j \in 1..Len(w.ientry) :
           w.ientry[i].handle = w.ientry[j].handle => i = j \/ w.ientry[i].handle = 0
      /\ \A i \in 1..Len(w.entry) : w.entry[i] \in Mounted => w.handle[w.entry[i].device] = w.ientry[i].handle
      /\ \A x \in Device : w.handle[x] # 0 =>
           \E i \in 1..Len(w.entry) : w.entry[i].device = x /\ w.entry[i] \in Mounted
  BY DEF Scanned, HandlesOf
<1>3. ASSUME w.handle[d] = w.ientry[n].handle, w.handle[d] # 0 PROVE FALSE
  <2>1. PICK i \in 1..Len(w.entry) : w.entry[i].device = d /\ w.entry[i] \in Mounted
    BY <1>2, <1>3
  <2>2. w.ientry[i].handle = w.ientry[n].handle
    BY <1>2, <1>3, <2>1
  <2>3. i = n
    BY <1>1, <1>2, <1>3, <2>2
  <2> QED BY <1>1, <2>1, <2>3
<1> QED BY <1>3

\* Where the watch of the entry stands among those that are left
LEMMA WatchThere ==
  ASSUME NEW w \in Work, Scanned(w), NEW n \in 1..Len(w.entry), NEW v \in Work, Purged(w, v, n - 1)
  PROVE  /\ Len(v.entry) + 1 \in 1..Len(v.ientry)
         /\ v.ientry[Len(v.entry) + 1] = w.ientry[n]
         /\ \A i \in 1..Len(v.ientry) :
              v.ientry[i].mount = w.entry[n].mount <=> i = Len(v.entry) + 1
<1> DEFINE k == Len(v.entry)
           e == Len(w.entry)
<1>1. k \in Nat /\ e \in Nat /\ Len(v.ientry) = k + e - (n - 1) /\ Len(w.ientry) = e
  <2>1. k \in Nat /\ e \in Nat
    BY DEF Work
  <2>2. Len(v.ientry) = k + e - (n - 1)
    BY DEF Purged
  <2> QED BY <2>1, <2>2 DEF Scanned, Aligned
<1>2. \A i \in 1..e - (n - 1) : v.ientry[k + i] = w.ientry[(n - 1) + i]
  BY DEF Purged
<1>3. \A i \in 1..k : \E j \in 1..n - 1 : v.ientry[i] = w.ientry[j]
  BY DEF Purged
<1>4. \A i \in 1..e : w.ientry[i].mount = w.entry[i].mount
  BY DEF Scanned, Aligned
<1>5. \A i, j \in 1..e : w.entry[i].mount = w.entry[j].mount => i = j
  BY DEF Scanned, Distinct
<1> HIDE DEF k, e
<1>6. n \in 1..e
  BY DEF e
<1>7. k + 1 \in 1..Len(v.ientry) /\ v.ientry[k + 1] = w.ientry[n]
  <2>1. 1 \in 1..e - (n - 1) /\ (n - 1) + 1 = n
    BY <1>1, <1>6
  <2>2. v.ientry[k + 1] = w.ientry[(n - 1) + 1]
    BY <1>2, <2>1
  <2> QED BY <1>1, <1>6, <2>1, <2>2
<1>8. v.ientry[k + 1].mount = w.entry[n].mount
  BY <1>4, <1>6, <1>7
<1>9. ASSUME NEW i \in 1..Len(v.ientry), i # k + 1
      PROVE  v.ientry[i].mount # w.entry[n].mount
  <2>1. CASE i \in 1..k
    <3>1. PICK j \in 1..n - 1 : v.ientry[i] = w.ientry[j]
      BY <1>3, <2>1
    <3>2. j \in 1..e /\ j # n
      BY <1>1, <1>6
    <3> QED BY <1>4, <1>5, <1>6, <3>1, <3>2
  <2>2. CASE i \notin 1..k
    <3>1. i - k \in 1..e - (n - 1) /\ k + (i - k) = i
      BY <1>1, <1>9, <2>2
    <3>2. v.ientry[k + (i - k)] = w.ientry[(n - 1) + (i - k)]
      BY <1>2, <3>1
    <3>3. (n - 1) + (i - k) \in 1..e /\ (n - 1) + (i - k) # n
      BY <1>1, <1>6, <1>9, <2>2
    <3> QED BY <1>4, <1>5, <1>6, <3>1, <3>2, <3>3
  <2> QED BY <2>1, <2>2
<1> QED BY <1>7, <1>8, <1>9 DEF k
\* An entry that is gone: its watch goes, and nothing else of the watches.
LEMMA PurgeGone ==
  ASSUME NEW w \in Work, Scanned(w), NEW n \in Gone(w), NEW v \in Work, Purged(w, v, n - 1)
  PROVE  Purged(w, Found(Unwatch(v, w.entry[n].mount), "REMOVED", w.entry[n]), n)
<1> DEFINE line == w.entry[n]
           m == w.entry[n].mount
           u == Found(Unwatch(v, m), "REMOVED", line)
           k == Len(v.entry)
           e == Len(w.entry)
           c == Len(v.change)
           b == Len(w.change)
<1>1. /\ n \in 1..e /\ k \in Nat /\ e \in Nat /\ c \in Nat /\ b \in Nat
      /\ v.ientry \in Seq(Watch) /\ v.change \in Seq(MountChange)
  BY DEF Gone, Work
<1>2. line \in Line /\ line.mount \in Mount /\ line.device \in Device
  <2>1. line \in Line
    BY <1>1 DEF Work
  <2> QED BY <2>1 DEF Line
<1>3. /\ u.entry = v.entry /\ u.ientry = Without(v.ientry, m) /\ u.handle = Unwatch(v, m).handle
      /\ u.next = v.next /\ u.change = Append(v.change, Removed(line)) /\ u.refused = v.refused
  <2>1. /\ Unwatch(v, m) \in Work /\ Unwatch(v, m).ientry = Without(v.ientry, m)
        /\ Unwatch(v, m).entry = v.entry /\ Unwatch(v, m).next = v.next
        /\ Unwatch(v, m).change = v.change /\ Unwatch(v, m).refused = v.refused
    BY UnwatchType
  <2> DEFINE x == Unwatch(v, m)
  <2> HIDE DEF x, line, m
  <2>2. /\ Found(x, "REMOVED", line).change = Append(x.change, Removed(line))
        /\ Found(x, "REMOVED", line).entry = x.entry
        /\ Found(x, "REMOVED", line).ientry = x.ientry
        /\ Found(x, "REMOVED", line).handle = x.handle
        /\ Found(x, "REMOVED", line).next = x.next
        /\ Found(x, "REMOVED", line).refused = x.refused
    BY <1>2, <2>1, FoundType DEF x, Removed
  <2> QED BY <2>1, <2>2 DEF x
<1> HIDE DEF u
<1>4. /\ k + 1 \in 1..Len(v.ientry) /\ v.ientry[k + 1] = w.ientry[n]
      /\ \A i \in 1..Len(v.ientry) : v.ientry[i].mount = m <=> i = k + 1
  BY <1>1, WatchThere
<1>5. v.handle = w.handle /\ v.next = w.next /\ v.refused = w.refused
  BY DEF Purged
<1>6. u.handle = v.handle
  <2>1. ASSUME NEW y \in ToSet(v.ientry), y.mount = m PROVE y = w.ientry[n]
    <3>1. PICK i \in 1..Len(v.ientry) : v.ientry[i] = y
      BY <2>1 DEF ToSet
    <3> QED BY <1>4, <2>1, <3>1
  <2> DEFINE lost == {x.handle : x \in {y \in ToSet(v.ientry) : y.mount = m}}
  <2>2. \A h \in lost : h = w.ientry[n].handle
    BY <2>1
  <2>3. u.handle = [d \in Device |-> IF v.handle[d] \in lost THEN 0 ELSE v.handle[d]]
    <3>1. Unwatch(v, m) = [v EXCEPT !.ientry = Without(v.ientry, m),
                             !.handle = [d \in Device |-> IF v.handle[d] \in lost THEN 0 ELSE v.handle[d]]]
      BY DEF Unwatch
    <3> HIDE DEF lost, m
    <3> QED BY <1>3, <3>1 DEF Work
  <2> HIDE DEF lost
  <2>4. \A d \in Device : v.handle[d] \in lost => v.handle[d] = 0
    BY <1>5, <2>2, LostHandle
  <2> QED BY <2>3, <2>4 DEF Work
<1>7. /\ Len(v.ientry) = k + e - (n - 1)
      /\ \A i \in 1..e - (n - 1) : v.ientry[k + i] = w.ientry[(n - 1) + i]
  BY DEF Purged
<1>8. /\ Len(u.ientry) = Len(v.ientry) - 1
      /\ \A i \in 1..Len(v.ientry) - 1 :
           u.ientry[i] = IF i < k + 1 THEN v.ientry[i] ELSE v.ientry[i + 1]
  <2> DEFINE s == v.ientry
             p == k + 1
  <2>1. s \in Seq(Watch) /\ p \in 1..Len(s) /\ \A i \in 1..Len(s) : s[i].mount = m <=> i = p
    BY <1>1, <1>4
  <2> HIDE DEF s, p, m
  <2>2. /\ Len(Without(s, m)) = Len(s) - 1
        /\ \A i \in 1..Len(s) - 1 : Without(s, m)[i] = IF i < p THEN s[i] ELSE s[i + 1]
    BY <2>1, WithoutOne
  <2> QED BY <1>3, <2>2 DEF s, p
<1> HIDE DEF line, m, k, e, c, b
<1>9. Len(u.ientry) = k + e - n
  BY <1>1, <1>7, <1>8
<1>10. ASSUME NEW i \in 1..e - n PROVE u.ientry[k + i] = w.ientry[n + i]
  <2>1. /\ k + i \in 1..Len(v.ientry) - 1 /\ ~(k + i < k + 1)
        /\ i + 1 \in 1..e - (n - 1) /\ k + (i + 1) = (k + i) + 1 /\ (n - 1) + (i + 1) = n + i
    BY <1>1, <1>7
  <2>2. u.ientry[k + i] = v.ientry[(k + i) + 1]
    BY <1>8, <2>1
  <2>3. v.ientry[k + (i + 1)] = w.ientry[(n - 1) + (i + 1)]
    BY <1>7, <2>1
  <2> QED BY <2>1, <2>2, <2>3
<1>11. \A i \in 1..n : i = n \/ i \in 1..n - 1
  BY <1>1
<1>12. \A i \in 1..n - 1 : i \in 1..n
  BY <1>1
<1>13. ASSUME NEW i \in 1..k
       PROVE  \E j \in 1..n :
                j \notin Gone(w) /\ u.entry[i] = w.entry[j] /\ u.ientry[i] = w.ientry[j]
  <2>1. u.ientry[i] = v.ientry[i]
    <3>1. i \in 1..Len(v.ientry) - 1 /\ i < k + 1
      BY <1>1, <1>7
    <3> QED BY <1>8, <3>1
  <2>2. PICK j \in 1..n - 1 :
          j \notin Gone(w) /\ v.entry[i] = w.entry[j] /\ v.ientry[i] = w.ientry[j]
    BY DEF Purged, k
  <2> QED BY <1>3, <1>12, <2>1, <2>2
<1>14. ASSUME NEW j \in 1..n, j \notin Gone(w) PROVE \E i \in 1..k : u.entry[i] = w.entry[j]
  <2>1. j \in 1..n - 1
    BY <1>11, <1>14
  <2> QED BY <1>3, <1>14, <2>1 DEF Purged, k
<1>15. Distinct(u.entry)
  BY <1>3 DEF Purged
<1>16. /\ Len(u.change) = c + 1 /\ u.change[c + 1] = Removed(line)
       /\ \A i \in 1..c : u.change[i] = v.change[i]
  <2>1. Removed(line) \in MountChange
    BY <1>2 DEF Removed, MountChange
  <2> DEFINE r == Removed(line)
  <2> HIDE DEF r
  <2> QED BY <1>1, <1>3, <2>1, AppendProperties DEF r, c
<1>17. /\ b <= c
       /\ \A i \in 1..b : v.change[i] = w.change[i]
       /\ \A i \in b + 1..c : \E j \in 1..n - 1 : j \in Gone(w) /\ v.change[i] = Removed(w.entry[j])
       /\ \A j \in 1..n - 1 : j \in Gone(w) => \E i \in b + 1..c : v.change[i] = Removed(w.entry[j])
       /\ \A i, j \in b + 1..c : v.change[i] = v.change[j] => i = j
  BY DEF Purged, b, c
<1>18. b <= c + 1 /\ \A i \in 1..b : u.change[i] = w.change[i]
  <2>1. \A i \in 1..b : i \in 1..c
    BY <1>1, <1>17
  <2> QED BY <1>1, <1>16, <1>17, <2>1
<1>19. \A i \in b + 1..c + 1 : i = c + 1 \/ (i \in b + 1..c /\ i \in 1..c)
  BY <1>1
<1>20. c + 1 \in b + 1..c + 1 /\ \A i \in b + 1..c : i \in b + 1..c + 1 /\ i \in 1..c
  BY <1>1, <1>17
<1>21. ASSUME NEW i \in b + 1..c + 1
       PROVE  \E j \in 1..n : j \in Gone(w) /\ u.change[i] = Removed(w.entry[j])
  <2>1. CASE i = c + 1
    BY <1>1, <1>16, <2>1 DEF line
  <2>2. CASE i \in b + 1..c
    <3>1. PICK j \in 1..n - 1 : j \in Gone(w) /\ v.change[i] = Removed(w.entry[j])
      BY <1>17, <2>2
    <3> QED BY <1>12, <1>16, <1>20, <2>2, <3>1
  <2> QED BY <1>19, <2>1, <2>2
<1>22. ASSUME NEW j \in 1..n, j \in Gone(w)
       PROVE  \E i \in b + 1..c + 1 : u.change[i] = Removed(w.entry[j])
  <2>1. CASE j = n
    BY <1>16, <1>20, <2>1 DEF line
  <2>2. CASE j \in 1..n - 1
    <3>1. PICK i \in b + 1..c : v.change[i] = Removed(w.entry[j])
      BY <1>17, <1>22, <2>2
    <3> QED BY <1>16, <1>20, <3>1
  <2> QED BY <1>11, <2>1, <2>2
<1>23. ASSUME NEW i \in b + 1..c PROVE u.change[i] # u.change[c + 1]
  <2>1. PICK j \in 1..n - 1 : v.change[i] = Removed(w.entry[j])
    BY <1>17
  <2>2. w.entry[j].device # line.device
    <3>1. \A x, y \in 1..e : w.entry[x].device = w.entry[y].device => x = y
      BY DEF Scanned, Distinct, e
    <3>2. j \in 1..e /\ j # n
      BY <1>1
    <3> QED BY <1>1, <3>1, <3>2 DEF line
  <2>3. Removed(w.entry[j]) # Removed(line)
    BY <2>2 DEF Removed
  <2> QED BY <1>16, <1>20, <2>1, <2>3
<1>24. \A i, j \in b + 1..c + 1 : u.change[i] = u.change[j] => i = j
  <2>1. \A i, j \in b + 1..c : u.change[i] = u.change[j] => i = j
    BY <1>16, <1>17, <1>20
  <2> QED BY <1>19, <1>23, <2>1
<1>25. /\ Len(u.entry) = k /\ Len(w.entry) = e /\ Len(u.change) = c + 1 /\ Len(w.change) = b
       /\ u.handle = w.handle /\ u.next = w.next /\ u.refused = w.refused
  BY <1>3, <1>5, <1>6, <1>16 DEF k, e, b
<1>26. Purged(w, u, n)
  BY <1>9, <1>10, <1>13, <1>14, <1>15, <1>18, <1>21, <1>22, <1>24, <1>25 DEF Purged
<1> QED BY <1>26 DEF u, line, m

\* An entry that stays
LEMMA PurgeKept ==
  ASSUME NEW w \in Work, Scanned(w), NEW n \in 1..Len(w.entry), n \notin Gone(w),
         NEW v \in Work, Purged(w, v, n - 1)
  PROVE  Purged(w, [v EXCEPT !.entry = Append(@, w.entry[n])], n)
<1> DEFINE line == w.entry[n]
           u == [v EXCEPT !.entry = Append(@, line)]
           k == Len(v.entry)
           e == Len(w.entry)
<1>1. n \in 1..e /\ k \in Nat /\ e \in Nat /\ v.entry \in Seq(Line) /\ line \in Line
  BY DEF Work
<1>2. /\ u.entry = Append(v.entry, line) /\ u.ientry = v.ientry /\ u.handle = v.handle
      /\ u.next = v.next /\ u.change = v.change /\ u.refused = v.refused
  <2> HIDE DEF line
  <2> QED BY DEF Work
<1> HIDE DEF u
<1>3. k + 1 \in 1..Len(v.ientry) /\ v.ientry[k + 1] = w.ientry[n]
  BY <1>1, WatchThere
<1>4. Len(u.entry) = k + 1 /\ u.entry[k + 1] = line /\ \A i \in 1..k : u.entry[i] = v.entry[i]
  <2> HIDE DEF line
  <2> QED BY <1>1, <1>2, AppendProperties DEF k
<1>5. /\ Len(v.ientry) = k + e - (n - 1)
      /\ \A i \in 1..e - (n - 1) : v.ientry[k + i] = w.ientry[(n - 1) + i]
      /\ v.handle = w.handle /\ v.next = w.next /\ v.refused = w.refused
  BY DEF Purged
<1> HIDE DEF line, k, e
<1>6. Len(u.ientry) = (k + 1) + e - n
  BY <1>1, <1>2, <1>5
<1>7. ASSUME NEW i \in 1..e - n PROVE u.ientry[(k + 1) + i] = w.ientry[n + i]
  <2>1. i + 1 \in 1..e - (n - 1) /\ k + (i + 1) = (k + 1) + i /\ (n - 1) + (i + 1) = n + i
    BY <1>1
  <2>2. v.ientry[k + (i + 1)] = w.ientry[(n - 1) + (i + 1)]
    BY <1>5, <2>1
  <2> QED BY <1>2, <2>1, <2>2
<1>8. \A i \in 1..n : i = n \/ i \in 1..n - 1
  BY <1>1
<1>9. \A i \in 1..n - 1 : i \in 1..n /\ i \in 1..e /\ i # n
  BY <1>1
<1>10. (\A i \in 1..k + 1 : i = k + 1 \/ i \in 1..k) /\ k + 1 \in 1..k + 1 /\ \A i \in 1..k : i \in 1..k + 1
  BY <1>1
<1>11. \A i \in 1..k : \E j \in 1..n - 1 :
         j \notin Gone(w) /\ v.entry[i] = w.entry[j] /\ v.ientry[i] = w.ientry[j]
  BY DEF Purged, k
<1>12. ASSUME NEW i \in 1..k + 1
       PROVE  \E j \in 1..n :
                j \notin Gone(w) /\ u.entry[i] = w.entry[j] /\ u.ientry[i] = w.ientry[j]
  <2>1. CASE i = k + 1
    <3>1. n \in 1..n /\ n \notin Gone(w)
      BY <1>1
    <3>2. u.entry[i] = w.entry[n] /\ u.ientry[i] = w.ientry[n]
      BY <1>2, <1>3, <1>4, <2>1 DEF line
    <3> QED BY <3>1, <3>2
  <2>2. CASE i \in 1..k
    <3>1. PICK j \in 1..n - 1 :
            j \notin Gone(w) /\ v.entry[i] = w.entry[j] /\ v.ientry[i] = w.ientry[j]
      BY <1>11, <2>2
    <3> QED BY <1>2, <1>4, <1>9, <2>2, <3>1
  <2> QED BY <1>10, <2>1, <2>2
<1>13. ASSUME NEW j \in 1..n, j \notin Gone(w) PROVE \E i \in 1..k + 1 : u.entry[i] = w.entry[j]
  <2>1. CASE j = n
    BY <1>4, <1>10, <2>1 DEF line
  <2>2. CASE j \in 1..n - 1
    <3>1. PICK i \in 1..k : v.entry[i] = w.entry[j]
      BY <1>13, <2>2 DEF Purged, k
    <3> QED BY <1>4, <1>10, <3>1
  <2> QED BY <1>8, <2>1, <2>2
<1>14. Distinct(u.entry)
  <2>1. \A i, j \in 1..k :
          v.entry[i].mount = v.entry[j].mount \/ v.entry[i].device = v.entry[j].device => i = j
    BY DEF Purged, Distinct, k
  <2>2. \A i \in 1..k : v.entry[i].mount # line.mount /\ v.entry[i].device # line.device
    <3>1. \A i, j \in 1..e :
            w.entry[i].mount = w.entry[j].mount \/ w.entry[i].device = w.entry[j].device => i = j
      BY DEF Scanned, Distinct, e
    <3> QED BY <1>1, <1>9, <1>11, <3>1 DEF line
  <2>3. ASSUME NEW i \in 1..k + 1, NEW j \in 1..k + 1,
               u.entry[i].mount = u.entry[j].mount \/ u.entry[i].device = u.entry[j].device
        PROVE  i = j
    <3>1. CASE i \in 1..k /\ j \in 1..k
      BY <1>4, <2>1, <2>3, <3>1
    <3>2. CASE i = k + 1 /\ j \in 1..k
      BY <1>4, <2>2, <2>3, <3>2
    <3>3. CASE i \in 1..k /\ j = k + 1
      BY <1>4, <2>2, <2>3, <3>3
    <3> QED BY <1>10, <3>1, <3>2, <3>3
  <2> QED BY <1>4, <2>3 DEF Distinct
<1>15. /\ Len(u.entry) = k + 1 /\ Len(w.entry) = e /\ u.handle = w.handle /\ u.next = w.next
       /\ u.refused = w.refused
  BY <1>2, <1>4, <1>5 DEF e
<1>16. /\ Len(w.change) <= Len(u.change)
       /\ \A i \in 1..Len(w.change) : u.change[i] = w.change[i]
       /\ \A i, j \in Len(w.change) + 1..Len(u.change) : u.change[i] = u.change[j] => i = j
  BY <1>2 DEF Purged
<1>17. ASSUME NEW i \in Len(w.change) + 1..Len(u.change)
       PROVE  \E j \in 1..n : j \in Gone(w) /\ u.change[i] = Removed(w.entry[j])
  <2>1. \E j \in 1..n - 1 : j \in Gone(w) /\ v.change[i] = Removed(w.entry[j])
    BY <1>2 DEF Purged
  <2> QED BY <1>2, <1>9, <2>1
<1>18. ASSUME NEW j \in 1..n, j \in Gone(w)
       PROVE  \E i \in Len(w.change) + 1..Len(u.change) : u.change[i] = Removed(w.entry[j])
  <2>1. j \in 1..n - 1
    BY <1>8, <1>18
  <2>2. \E i \in Len(w.change) + 1..Len(v.change) : v.change[i] = Removed(w.entry[j])
    BY <1>18, <2>1 DEF Purged
  <2> QED BY <1>2, <2>2
<1>19. Purged(w, u, n)
  BY <1>6, <1>7, <1>12, <1>13, <1>14, <1>15, <1>16, <1>17, <1>18 DEF Purged
<1> QED BY <1>19 DEF u, line

\* So the purge holds after each entry.
LEMMA PurgeAll ==
  ASSUME NEW w \in Work, Scanned(w)
  PROVE  Purge(w) \in Work /\ Purged(w, Purge(w), Len(w.entry))
<1>1. PICK kept \in [0..Len(w.entry) -> Work] :
        /\ kept[0] = [w EXCEPT !.entry = << >>]
        /\ \A n \in 1..Len(w.entry) :
             kept[n] = IF n \in Gone(w)
                       THEN Found(Unwatch(kept[n - 1], w.entry[n].mount), "REMOVED", w.entry[n])
                       ELSE [kept[n - 1] EXCEPT !.entry = Append(@, w.entry[n])]
        /\ Purge(w) = kept[Len(w.entry)]
  BY PurgeSteps
<1> DEFINE Good == {n \in 0..Len(w.entry) : Purged(w, kept[n], n)}
<1>2. Len(w.entry) \in Nat /\ Len(w.change) \in Nat /\ Len(w.entry) \in 0..Len(w.entry)
  BY DEF Work
<1>3. 0 \in Good
  <2> DEFINE v == kept[0]
  <2>1. << >> \in Seq(Line)
    OBVIOUS
  <2>2. /\ v.entry = << >> /\ v.ientry = w.ientry /\ v.handle = w.handle /\ v.next = w.next
        /\ v.change = w.change /\ v.refused = w.refused
    BY <1>1, <2>1, EntryType
  <2> HIDE DEF v
  <2>3. Len(v.entry) = 0 /\ Len(w.ientry) = Len(w.entry) /\ 1..0 = {}
    BY <2>2 DEF Scanned, Aligned
  <2>4. Len(w.change) + 1..Len(w.change) = {}
    BY <1>2
  <2>5. Distinct(v.entry)
    BY <2>3 DEF Distinct
  <2>6. Purged(w, v, 0)
    BY <1>2, <2>2, <2>3, <2>4, <2>5 DEF Purged
  <2> QED BY <1>2, <2>6 DEF v
<1>4. ASSUME NEW n \in 1..Len(w.entry), n - 1 \in Good PROVE n \in Good
  <2>1. kept[n - 1] \in Work /\ Purged(w, kept[n - 1], n - 1)
    BY <1>4
  <2>2. CASE n \in Gone(w)
    <3>1. kept[n] = Found(Unwatch(kept[n - 1], w.entry[n].mount), "REMOVED", w.entry[n])
      BY <1>1, <2>2
    <3> DEFINE v == kept[n - 1]
    <3> HIDE DEF v
    <3>2. Purged(w, Found(Unwatch(v, w.entry[n].mount), "REMOVED", w.entry[n]), n)
      BY <2>1, <2>2, PurgeGone DEF v
    <3> QED BY <1>2, <3>1, <3>2 DEF v
  <2>3. CASE n \notin Gone(w)
    <3>1. kept[n] = [kept[n - 1] EXCEPT !.entry = Append(@, w.entry[n])]
      BY <1>1, <2>3
    <3> DEFINE v == kept[n - 1]
    <3> HIDE DEF v
    <3>2. Purged(w, [v EXCEPT !.entry = Append(@, w.entry[n])], n)
      BY <2>1, <2>3, PurgeKept DEF v
    <3> QED BY <1>2, <3>1, <3>2 DEF v
  <2> QED BY <2>2, <2>3
<1>5. Len(w.entry) \in Good
  <2> HIDE DEF Good
  <2> QED BY <1>2, <1>3, <1>4, UpTo
<1> QED BY <1>1, <1>2, <1>5

\* What the scan knows at its end: the entries marked are those that are mounted.
LEMMA ScanEnds ==
  ASSUME TypeOK, NEW w \in Work, Scan(w, Len(table))
  PROVE  Scanned(w)
<1>1. ASSUME NEW i \in 1..Len(w.entry) PROVE i \in Gone(w) <=> w.entry[i] \notin Mounted
  <2>1. i \in w.seen <=> \E j \in 1..Len(table) : table[j] = w.entry[i]
    BY DEF Scan
  <2>2. w.entry[i] \in Mounted <=> \E j \in 1..Len(table) : table[j] = w.entry[i]
    BY InTable DEF TypeOK
  <2> QED BY <2>1, <2>2 DEF Gone
<1> QED BY <1>1 DEF Scan, Scanned

-----------------------------------------------------------------------------
(* What mountwatch_diff comes to                                           *)

Added(line) == [tag |-> "ADDED", mount |-> line.mount, device |-> line.device]

\* The entries are the mounts, each with a watch; those known before have kept
\* theirs, the others have a new handle or were refused one.
Follows(v) ==
  /\ Distinct(v.entry) /\ Aligned(v.entry, v.ientry) /\ ToSet(v.entry) = Mounted
  /\ HandlesOf(v.entry, v.ientry, v.handle, v.next)
  /\ next_handle <= v.next
  /\ \A i \in 1..Len(v.entry) :
       \/ \E j \in 1..Len(entry) : v.entry[i] = entry[j] /\ v.ientry[i] = ientry[j]
       \/ /\ v.entry[i] \notin Known
          /\ \/ v.ientry[i].handle >= next_handle
             \/ v.ientry[i].handle = 0 /\ v.entry[i].device \in v.refused

\* The changes are the difference of the two sets.
Difference(s) ==
  /\ \A i \in 1..Len(s) : \/ \E x \in Mounted \ Known : s[i] = Added(x)
                          \/ \E x \in Known \ Mounted : s[i] = Removed(x)
  /\ \A x \in Mounted \ Known : \E i \in 1..Len(s) : s[i] = Added(x)
  /\ \A x \in Known \ Mounted : \E i \in 1..Len(s) : s[i] = Removed(x)
  /\ \A i, j \in 1..Len(s) : s[i] = s[j] => i = j

\* After mountwatch_diff the entries follow the mounts, with a watch for each.
LEMMA DiffFollows ==
  ASSUME TypeOK, OneByOne, HandlesRight, NEW refused \in SUBSET Device
  PROVE  Follows(Diff(refused))
<1> DEFINE w == Compared(refused)
           v == Purge(w)
<1>1. w \in Work /\ Scan(w, Len(table)) /\ Scanned(w)
  BY ScanAll, ScanEnds
<1> HIDE DEF w
<1>2. v \in Work /\ Purged(w, v, Len(w.entry))
  BY <1>1, PurgeAll
<1> HIDE DEF v
<1>3. /\ \A i \in 1..Len(v.entry) : \E j \in 1..Len(w.entry) :
            j \notin Gone(w) /\ v.entry[i] = w.entry[j] /\ v.ientry[i] = w.ientry[j]
      /\ \A j \in 1..Len(w.entry) : j \notin Gone(w) => \E i \in 1..Len(v.entry) : v.entry[i] = w.entry[j]
      /\ v.handle = w.handle /\ v.next = w.next /\ v.refused = w.refused /\ Distinct(v.entry)
      /\ Len(v.ientry) = Len(v.entry) + Len(w.entry) - Len(w.entry)
  BY <1>2 DEF Purged
<1>4. /\ \A i \in 1..Len(w.entry) : i \in Gone(w) <=> w.entry[i] \notin Mounted
      /\ \A i \in 1..Len(w.entry) :
           w.ientry[i].mount = w.entry[i].mount /\ w.ientry[i].device = w.entry[i].device
      /\ Len(w.ientry) = Len(w.entry)
  BY <1>1 DEF Scanned, Aligned
<1>5. /\ Len(w.entry) \in Nat /\ Len(v.entry) \in Nat /\ Len(entry) \in Nat /\ v.entry \in Seq(Line)
  BY <1>1, <1>2 DEF Work, TypeOK
<1>6. Len(v.ientry) = Len(v.entry)
  BY <1>3, <1>5
<1>7. Aligned(v.entry, v.ientry)
  <2>1. ASSUME NEW i \in 1..Len(v.entry)
        PROVE  v.ientry[i].mount = v.entry[i].mount /\ v.ientry[i].device = v.entry[i].device
    <3>1. PICK j \in 1..Len(w.entry) : v.entry[i] = w.entry[j] /\ v.ientry[i] = w.ientry[j]
      BY <1>3
    <3> QED BY <1>4, <3>1
  <2> QED BY <1>6, <2>1 DEF Aligned
<1>8. ASSUME NEW x PROVE x \in Mounted <=> \E i \in 1..Len(v.entry) : v.entry[i] = x
  <2>1. ASSUME x \in Mounted PROVE \E i \in 1..Len(v.entry) : v.entry[i] = x
    <3>1. PICK n \in 1..Len(table) : table[n] = x
      BY <2>1, InTable DEF TypeOK
    <3>2. PICK j \in 1..Len(w.entry) : w.entry[j] = x
      BY <1>1, <3>1 DEF Scan
    <3> QED BY <1>3, <1>4, <2>1, <3>2
  <2>2. ASSUME NEW i \in 1..Len(v.entry), v.entry[i] = x PROVE x \in Mounted
    BY <1>3, <1>4, <2>2
  <2> QED BY <2>1, <2>2
<1>9. ToSet(v.entry) = Mounted
  BY <1>8 DEF ToSet
<1>10. /\ \A i, j \in 1..Len(w.ientry) :
            w.ientry[i].handle = w.ientry[j].handle => i = j \/ w.ientry[i].handle = 0
       /\ \A i \in 1..Len(w.ientry) : w.ientry[i].handle \in 0..w.next - 1
       /\ \A i \in 1..Len(w.entry) :
            w.entry[i] \in Mounted => w.handle[w.entry[i].device] = w.ientry[i].handle
       /\ \A d \in Device : w.handle[d] # 0 =>
            \E i \in 1..Len(w.entry) : w.entry[i].device = d /\ w.entry[i] \in Mounted
  BY <1>1 DEF Scanned, HandlesOf
<1>11. HandlesOf(v.entry, v.ientry, v.handle, v.next)
  <2>1. ASSUME NEW i \in 1..Len(v.ientry), NEW j \in 1..Len(v.ientry),
               v.ientry[i].handle = v.ientry[j].handle, v.ientry[i].handle # 0
        PROVE  i = j
    <3>1. PICK a \in 1..Len(w.entry) : v.entry[i] = w.entry[a] /\ v.ientry[i] = w.ientry[a]
      BY <1>3, <1>6
    <3>2. PICK b \in 1..Len(w.entry) : v.entry[j] = w.entry[b] /\ v.ientry[j] = w.ientry[b]
      BY <1>3, <1>6
    <3>3. a = b
      <4>1. /\ a \in 1..Len(w.ientry) /\ b \in 1..Len(w.ientry)
            /\ w.ientry[a].handle = w.ientry[b].handle /\ w.ientry[a].handle # 0
        BY <1>4, <2>1, <3>1, <3>2
      <4> QED BY <1>10, <4>1
    <3>4. v.entry[i].mount = v.entry[j].mount
      BY <3>1, <3>2, <3>3
    <3> QED BY <1>3, <1>6, <3>4 DEF Distinct
  <2>2. \A i \in 1..Len(v.ientry) : v.ientry[i].handle \in 0..v.next - 1
    <3>1. ASSUME NEW i \in 1..Len(v.entry) PROVE v.ientry[i].handle \in 0..w.next - 1
      <4>1. PICK j \in 1..Len(w.ientry) : v.ientry[i] = w.ientry[j]
        BY <1>3, <1>4
      <4> QED BY <1>10, <4>1
    <3> QED BY <1>3, <1>6, <3>1
  <2>3. ASSUME NEW i \in 1..Len(v.entry), v.entry[i] \in Mounted
        PROVE  v.handle[v.entry[i].device] = v.ientry[i].handle
    <3>1. PICK j \in 1..Len(w.entry) : v.entry[i] = w.entry[j] /\ v.ientry[i] = w.ientry[j]
      BY <1>3
    <3> QED BY <1>3, <1>10, <2>3, <3>1
  <2>4. ASSUME NEW d \in Device, v.handle[d] # 0
        PROVE  \E i \in 1..Len(v.entry) : v.entry[i].device = d /\ v.entry[i] \in Mounted
    <3>1. PICK j \in 1..Len(w.entry) : w.entry[j].device = d /\ w.entry[j] \in Mounted
      BY <1>3, <1>10, <2>4
    <3>2. PICK i \in 1..Len(v.entry) : v.entry[i] = w.entry[j]
      BY <1>3, <1>4, <3>1
    <3> QED BY <3>1, <3>2
  <2> QED BY <2>1, <2>2, <2>3, <2>4 DEF HandlesOf
<1>12. ASSUME NEW i \in 1..Len(v.entry)
       PROVE  \/ \E j \in 1..Len(entry) : v.entry[i] = entry[j] /\ v.ientry[i] = ientry[j]
              \/ /\ v.entry[i] \notin Known
                 /\ \/ v.ientry[i].handle >= next_handle
                    \/ v.ientry[i].handle = 0 /\ v.entry[i].device \in v.refused
  <2>1. PICK j \in 1..Len(w.entry) : v.entry[i] = w.entry[j] /\ v.ientry[i] = w.ientry[j]
    BY <1>3
  <2>2. CASE j \in 1..Len(entry)
    BY <1>1, <2>1, <2>2 DEF Scan
  <2>3. CASE j \notin 1..Len(entry)
    <3>1. j \in Len(entry) + 1..Len(w.entry)
      BY <1>5, <2>3
    <3>2. /\ w.entry[j] \notin Known
          /\ \/ w.ientry[j].handle >= next_handle
             \/ w.ientry[j].handle = 0 /\ w.entry[j].device \in w.refused
      BY <1>1, <3>1 DEF Scan
    <3> QED BY <1>3, <2>1, <3>2
  <2> QED BY <2>2, <2>3
<1>13. next_handle <= v.next
  BY <1>1, <1>3 DEF Scan
<1>14. Follows(v)
  BY <1>3, <1>7, <1>9, <1>11, <1>12, <1>13 DEF Follows
<1> QED BY <1>14 DEF Diff, v, w

\* Its changes are the lines new and the entries gone, once each.
LEMMA DiffDifference ==
  ASSUME TypeOK, OneByOne, HandlesRight, NEW refused \in SUBSET Device
  PROVE  Difference(Diff(refused).change)
<1> DEFINE w == Compared(refused)
           v == Purge(w)
           b == Len(w.change)
           c == Len(v.change)
           k == Len(entry)
           e == Len(w.entry)
<1>1. w \in Work /\ Scan(w, Len(table)) /\ Scanned(w)
  BY ScanAll, ScanEnds
<1> HIDE DEF w
<1>2. v \in Work /\ Purged(w, v, Len(w.entry))
  BY <1>1, PurgeAll
<1> HIDE DEF v
<1>3. b \in Nat /\ c \in Nat /\ k \in Nat /\ e \in Nat
  BY <1>1, <1>2 DEF Work, TypeOK
<1>4. /\ b <= c
      /\ \A i \in 1..b : v.change[i] = w.change[i]
      /\ \A i \in b + 1..c : \E j \in 1..e : j \in Gone(w) /\ v.change[i] = Removed(w.entry[j])
      /\ \A j \in 1..e : j \in Gone(w) => \E i \in b + 1..c : v.change[i] = Removed(w.entry[j])
      /\ \A i, j \in b + 1..c : v.change[i] = v.change[j] => i = j
  BY <1>2 DEF Purged
<1>5. /\ k <= e /\ b = e - k
      /\ \A i \in 1..b : w.change[i] = Added(w.entry[k + i])
      /\ \A i \in 1..k : w.entry[i] = entry[i]
      /\ \A i \in k + 1..e : w.entry[i] \notin Known /\ i \in w.seen
  BY <1>1 DEF Scan, Added
<1>6. /\ \A i \in 1..e : i \in Gone(w) <=> w.entry[i] \notin Mounted
      /\ \A i, j \in 1..e : w.entry[i].device = w.entry[j].device => i = j
  BY <1>1 DEF Scanned, Distinct
<1>7. \A i \in k + 1..e : i \in 1..e /\ w.entry[i] \in Mounted \ Known
  <2>1. \A i \in k + 1..e : i \notin Gone(w)
    BY <1>5 DEF Gone
  <2> QED BY <1>3, <1>5, <1>6, <2>1
<1>8. \A i \in Gone(w) : i \in 1..e /\ w.entry[i] \in Known \ Mounted
  <2> SUFFICES ASSUME NEW i \in Gone(w) PROVE i \in 1..e /\ w.entry[i] \in Known \ Mounted
    OBVIOUS
  <2>1. i \in 1..e /\ i \notin w.seen
    BY DEF Gone
  <2>2. i \in 1..k
    BY <1>3, <1>5, <2>1
  <2>3. w.entry[i] \in Known
    BY <1>5, <2>2, InEntry DEF TypeOK
  <2> QED BY <1>6, <2>1, <2>3
<1> HIDE DEF b, c, k, e
<1>9. \A i \in 1..b : k + i \in k + 1..e
  BY <1>3, <1>5
<1>10. \A i \in 1..c : i \in 1..b \/ i \in b + 1..c
  BY <1>3
<1>11. \A i \in 1..b : i \in 1..c
  BY <1>3, <1>4
<1>12. \A i \in b + 1..c : i \in 1..c
  BY <1>3
<1>13. \A i \in 1..b : v.change[i] = Added(w.entry[k + i]) /\ w.entry[k + i] \in Mounted \ Known
  BY <1>4, <1>5, <1>7, <1>9
<1>14. ASSUME NEW i \in 1..c
       PROVE  \/ \E x \in Mounted \ Known : v.change[i] = Added(x)
              \/ \E x \in Known \ Mounted : v.change[i] = Removed(x)
  BY <1>4, <1>8, <1>10, <1>13
<1>15. ASSUME NEW x \in Mounted \ Known PROVE \E i \in 1..c : v.change[i] = Added(x)
  <2>1. PICK n \in 1..Len(table) : table[n] = x
    BY InTable DEF TypeOK
  <2>2. PICK j \in 1..e : w.entry[j] = x
    BY <1>1, <2>1 DEF Scan, e
  <2>3. j \notin 1..k
    <3>1. \A i \in 1..k : w.entry[i] \in Known
      BY <1>5, InEntry DEF TypeOK, k
    <3> QED BY <2>2, <3>1
  <2>4. j - k \in 1..b /\ k + (j - k) = j
    BY <1>3, <1>5, <2>3
  <2> QED BY <1>11, <1>13, <2>2, <2>4
<1>16. ASSUME NEW x \in Known \ Mounted PROVE \E i \in 1..c : v.change[i] = Removed(x)
  <2>1. PICK j \in 1..k : entry[j] = x
    BY InEntry DEF TypeOK, k
  <2>2. j \in 1..e /\ w.entry[j] = x
    BY <1>3, <1>5, <2>1
  <2>3. j \in Gone(w)
    BY <1>6, <2>2
  <2> QED BY <1>4, <1>12, <2>2, <2>3
<1>17. ASSUME NEW i \in 1..b, NEW j \in 1..b, v.change[i] = v.change[j] PROVE i = j
  <2>1. w.entry[k + i].device = w.entry[k + j].device
    <3>1. Added(w.entry[k + i]) = Added(w.entry[k + j])
      BY <1>13, <1>17
    <3>2. Added(w.entry[k + i]).device = Added(w.entry[k + j]).device
      BY <3>1
    <3> QED BY <3>2 DEF Added
  <2>2. k + i \in 1..e /\ k + j \in 1..e
    BY <1>7, <1>9
  <2>3. k + i = k + j
    BY <1>6, <2>1, <2>2
  <2> QED BY <1>3, <2>3
<1>18. ASSUME NEW i \in 1..b, NEW j \in b + 1..c PROVE v.change[i] # v.change[j]
  <2>1. PICK x \in 1..e : v.change[j] = Removed(w.entry[x])
    BY <1>4
  <2>2. v.change[i].tag = "ADDED"
    <3>1. \A y : Added(y).tag = "ADDED"
      BY DEF Added
    <3> QED BY <1>13, <3>1
  <2>3. v.change[j].tag = "REMOVED"
    BY <2>1 DEF Removed
  <2> QED BY <2>2, <2>3
<1>19. \A i, j \in 1..c : v.change[i] = v.change[j] => i = j
  BY <1>4, <1>10, <1>17, <1>18
<1>20. Difference(v.change)
  BY <1>14, <1>15, <1>16, <1>19 DEF Difference, c
<1> QED BY <1>20 DEF Diff, v, w

\* The changes of a difference are as many as the lines in which two sets differ.
LEMMA DifferenceCount ==
  ASSUME NEW s, Len(s) \in Nat, Difference(s), Mounted \subseteq Line, Known \subseteq Line
  PROVE  Len(s) = Cardinality((Mounted \ Known) \cup (Known \ Mounted))
<1> DEFINE D == (Mounted \ Known) \cup (Known \ Mounted)
           f == [i \in 1..Len(s) |-> LineOf(s[i])]
<1>1. \A x \in Line : LineOf(Added(x)) = x /\ LineOf(Removed(x)) = x
  BY DEF Line, LineOf, Added, Removed
<1>2. \A x \in D : x \in Line
  OBVIOUS
<1>3. ASSUME NEW i \in 1..Len(s)
      PROVE  \/ LineOf(s[i]) \in Mounted \ Known /\ s[i] = Added(LineOf(s[i]))
             \/ LineOf(s[i]) \in Known \ Mounted /\ s[i] = Removed(LineOf(s[i]))
  <2>1. CASE \E x \in Mounted \ Known : s[i] = Added(x)
    BY <1>1, <2>1
  <2>2. CASE \E x \in Known \ Mounted : s[i] = Removed(x)
    BY <1>1, <2>2
  <2> QED BY <2>1, <2>2 DEF Difference
<1>4. f \in [1..Len(s) -> D]
  BY <1>3
<1>5. \A i, j \in 1..Len(s) : f[i] = f[j] => i = j
  <2> SUFFICES ASSUME NEW i \in 1..Len(s), NEW j \in 1..Len(s), LineOf(s[i]) = LineOf(s[j])
               PROVE  i = j
    OBVIOUS
  <2>1. s[i] = s[j]
    BY <1>3
  <2> QED BY <2>1 DEF Difference
<1>6. \A x \in D : \E i \in 1..Len(s) : f[i] = x
  <2> SUFFICES ASSUME NEW x \in D PROVE \E i \in 1..Len(s) : LineOf(s[i]) = x
    OBVIOUS
  <2>1. PICK i \in 1..Len(s) : s[i] = Added(x) \/ s[i] = Removed(x)
    BY DEF Difference
  <2> QED BY <1>1, <1>2, <2>1
<1>7. ExistsBijection(1..Len(s), D)
  <2> HIDE DEF f, D
  <2>1. f \in Bijection(1..Len(s), D)
    BY <1>4, <1>5, <1>6 DEF Bijection, Injection, Surjection, IsInjective
  <2> QED BY <2>1 DEF ExistsBijection
<1> HIDE DEF D
<1>8. Cardinality(D) = Len(s)
  BY <1>7, FS_CountingElements
<1> QED BY <1>8 DEF D

-----------------------------------------------------------------------------
(* The invariant, for mounts and entries that correspond one to one        *)

\* An event not read yet is of a watch that was set, and of a file on the
\* device of that watch.
EventsRight ==
  \A k \in 1..Len(events) :
    /\ events[k].handle \in 1..next_handle - 1
    /\ \A i \in 1..Len(ientry) :
         ientry[i].handle = events[k].handle => ientry[i].device = DeviceOf[events[k].file]

\* The changes to apply are about mounts that are known or, if they say that
\* one is gone, of a device that no mount known is of.
ChangesRight ==
  \A k \in 1..Len(change) :
    /\ change[k].tag # "CHANGED"
    /\ change[k].tag = "REMOVED" => \A x \in Known : x.device # change[k].device
    /\ change[k].tag # "REMOVED" => LineOf(change[k]) \in Known
    /\ change[k].tag \in {"PKG_ADDED", "PKG_REMOVED"} => change[k].device = DeviceOf[change[k].file]

\* Every registered package is from a mount that is known or about to be removed.
RegisteredRight ==
  \A r \in registered :
    /\ r.device = DeviceOf[r.file]
    /\ \/ LineOf(r) \in Known
       \/ \E k \in 1..Len(change) : change[k].tag = "REMOVED" /\ change[k].device = r.device

\* An event of the watch on the file's device tells one of these about f.
About(e, f, what) == e.file = f /\ e.handle = handle[DeviceOf[f]] /\ e.what \in what

Takes(c, f) == c.tag = "PKG_REMOVED" /\ c.file = f

Gives(c, f) == \/ c.tag = "ADDED" /\ c.device = DeviceOf[f]
               \/ c.tag = "PKG_ADDED" /\ c.file = f

\* That the file of a registered package is gone is among the events or changes,
\* unless it was missed.
GoneNoticed ==
  \A r \in registered :
    /\ content[r.file] = "absent" /\ r.file \notin missed
    /\ LineOf(r) \in Known /\ LineOf(r) \in Mounted
    =>
      \/ \E k \in 1..Len(events) : About(events[k], r.file, {"written", "gone"})
      \/ \E k \in 1..Len(change) : Takes(change[k], r.file)

\* The first n events say that f is there, and not that it went afterwards.
EventsGive(f, n) ==
  \E k \in 1..n :
    /\ About(events[k], f, {"created", "written"})
    /\ \A j \in k + 1..n : ~About(events[j], f, {"gone"})

\* The changes s add f and do not remove it afterwards.
ChangesGive(s, f) ==
  \E k \in 1..Len(s) :
    /\ Gives(s[k], f)
    /\ \A j \in k + 1..Len(s) : ~Takes(s[j], f)

Stays(f) == IsRegistered(f) /\ \A k \in 1..Len(change) : ~Takes(change[k], f)

\* A file that can be read and was not missed is registered or will be by what is
\* still to be read and applied.
WholeNoticed ==
  \A f \in File \ missed, x \in Known :
    content[f] = "whole" /\ x \in Mounted /\ x.device = DeviceOf[f] =>
      \/ EventsGive(f, Len(events))
      \/ /\ \A k \in 1..Len(events) : ~About(events[k], f, {"written", "gone"})
         /\ ChangesGive(change, f) \/ Stays(f)

TidyInv ==
  /\ OneByOne /\ HandlesRight /\ RefusedRight
  /\ EventsRight /\ ChangesRight /\ RegisteredRight
  /\ GoneNoticed /\ WholeNoticed

Inv == Typed /\ (Tidy => TidyInv)

-----------------------------------------------------------------------------
(* Reading the events                                                      *)

\* The watch of a mount that is known and still there has its device's handle,
\* and is the only one to have it unless it was refused.
LEMMA WatchIs ==
  ASSUME TypeOK, OneByOne, HandlesRight, NEW x \in Known, x \in Mounted
  PROVE  \E i \in 1..Len(ientry) :
           /\ entry[i] = x /\ ientry[i].mount = x.mount /\ ientry[i].device = x.device
           /\ ientry[i].handle = handle[x.device]
           /\ handle[x.device] \in 0..next_handle - 1
           /\ \A j \in 1..Len(ientry) :
                \/ ientry[j].device = x.device
                \/ ientry[j].handle = handle[x.device] /\ handle[x.device] # 0
                => j = i
<1>1. PICK i \in 1..Len(entry) : entry[i] = x
  BY InEntry DEF TypeOK
<1>2. /\ Len(ientry) = Len(entry)
      /\ \A j \in 1..Len(entry) : ientry[j].mount = entry[j].mount /\ ientry[j].device = entry[j].device
      /\ \A j \in 1..Len(entry) : entry[i].device = entry[j].device => i = j
  BY DEF OneByOne, Aligned, Distinct
<1>3. /\ ientry[i].handle = handle[x.device]
      /\ ientry[i].handle \in 0..next_handle - 1
      /\ \A j \in 1..Len(ientry) :
           ientry[i].handle = ientry[j].handle => i = j \/ ientry[i].handle = 0
  BY <1>1, <1>2 DEF HandlesRight, HandlesOf
<1> QED BY <1>1, <1>2, <1>3

\* Every change of an event is about the file and about a mount that is known.
LEMMA ChangesOfRight ==
  ASSUME TypeOK, OneByOne, EventsRight, NEW k \in 1..Len(events),
         NEW a \in 1..Len(ChangesOf(events[k]))
  PROVE  LET c == ChangesOf(events[k])[a]
             i == WatchOf(events[k])
         IN /\ c.tag \in {"PKG_ADDED", "PKG_REMOVED"}
            /\ c.tag = "PKG_REMOVED" => events[k].what \in {"written", "gone"}
            /\ c.file = events[k].file
            /\ c.device = DeviceOf[c.file]
            /\ LineOf(c) \in Known
            /\ i \in 1..Len(ientry) /\ ientry[i].handle = events[k].handle
            /\ ientry[i].device = c.device
<1> DEFINE e == events[k]
           s == ChangesOf(e)
           i == WatchOf(e)
           Told(t) == [tag |-> t, mount |-> ientry[i].mount, device |-> ientry[i].device, file |-> e.file]
<1>1. e \in Event
  BY DEF TypeOK
<1> HIDE DEF e
<1>2. /\ i = 0 => s = << >>
      /\ i # 0 => /\ e.what = "created" => s = <<Told("PKG_ADDED")>>
                  /\ e.what = "written" => s = <<Told("PKG_REMOVED"), Told("PKG_ADDED")>>
                  /\ e.what = "gone" => s = <<Told("PKG_REMOVED")>>
  BY <1>1, ChangesOfEvent
<1>3. i # 0
  BY <1>2 DEF e
<1>4. i \in 1..Len(ientry) /\ ientry[i].handle = e.handle
  BY <1>3, WatchOfFinds
<1> HIDE DEF i
<1>5. ientry[i].device = DeviceOf[e.file]
  BY <1>4 DEF EventsRight, e
<1>6. [mount |-> ientry[i].mount, device |-> ientry[i].device] \in Known
  <2>1. i \in 1..Len(entry) /\ ientry[i].mount = entry[i].mount /\ ientry[i].device = entry[i].device
    BY <1>4 DEF OneByOne, Aligned
  <2>2. entry[i] \in Line /\ entry[i] \in Known
    BY <2>1, InEntry DEF TypeOK
  <2> QED BY <2>1, <2>2 DEF Line
<1>7. \E t \in {"PKG_ADDED", "PKG_REMOVED"} :
        s[a] = Told(t) /\ (t = "PKG_REMOVED" => e.what \in {"written", "gone"})
  <2> HIDE DEF Told
  <2>1. a \in 1..Len(s)
    BY DEF e
  <2> HIDE DEF s
  <2>2. CASE e.what = "created"
    <3>1. s = <<Told("PKG_ADDED")>>
      BY <1>2, <1>3, <2>2
    <3> QED BY <2>1, <3>1
  <2>3. CASE e.what = "written"
    <3>1. s = <<Told("PKG_REMOVED"), Told("PKG_ADDED")>>
      BY <1>2, <1>3, <2>3
    <3>2. a = 1 \/ a = 2
      BY <2>1, <3>1
    <3> QED BY <3>1, <3>2, <2>3
  <2>4. CASE e.what = "gone"
    <3>1. s = <<Told("PKG_REMOVED")>>
      BY <1>2, <1>3, <2>4
    <3> QED BY <2>1, <3>1, <2>4
  <2> QED BY <1>1, <2>2, <2>3, <2>4 DEF Event
<1>8. PICK t \in {"PKG_ADDED", "PKG_REMOVED"} :
        s[a] = Told(t) /\ (t = "PKG_REMOVED" => e.what \in {"written", "gone"})
  BY <1>7
<1>9. /\ s[a].tag = t /\ s[a].file = e.file /\ s[a].device = ientry[i].device
      /\ LineOf(s[a]) = [mount |-> ientry[i].mount, device |-> ientry[i].device]
  BY <1>8 DEF LineOf
<1> HIDE DEF s
<1>10. /\ s[a].tag \in {"PKG_ADDED", "PKG_REMOVED"}
       /\ s[a].tag = "PKG_REMOVED" => e.what \in {"written", "gone"}
       /\ s[a].file = e.file /\ s[a].device = DeviceOf[s[a].file] /\ LineOf(s[a]) \in Known
       /\ i \in 1..Len(ientry) /\ ientry[i].handle = e.handle /\ ientry[i].device = s[a].device
  BY <1>4, <1>5, <1>6, <1>8, <1>9
<1> QED BY <1>10 DEF s, e, i

\* For a file on a mount that is known and still there, the changes of an event
\* are those of the watch on its device.
LEMMA AboutFile ==
  ASSUME TypeOK, OneByOne, HandlesRight, EventsRight,
         NEW f \in File, NEW x \in Known, x \in Mounted, x.device = DeviceOf[f],
         NEW k \in 1..Len(events)
  PROVE  LET s == ChangesOf(events[k])
         IN /\ \A a \in 1..Len(s) : Takes(s[a], f) => About(events[k], f, {"written", "gone"})
            /\ About(events[k], f, {"created", "written"}) => Len(s) # 0 /\ Gives(s[Len(s)], f)
            /\ About(events[k], f, {"written", "gone"}) => Len(s) # 0 /\ Takes(s[1], f)
<1> DEFINE e == events[k]
           s == ChangesOf(e)
           i == WatchOf(e)
           Told(t) == [tag |-> t, mount |-> ientry[i].mount, device |-> ientry[i].device, file |-> e.file]
<1>1. e \in Event
  BY DEF TypeOK
<1>2. PICK p \in 1..Len(ientry) :
        /\ ientry[p].handle = handle[x.device]
        /\ \A j \in 1..Len(ientry) : ientry[j].device = x.device => j = p
  BY WatchIs
<1>3. ASSUME NEW a \in 1..Len(s), Takes(s[a], f) PROVE About(e, f, {"written", "gone"})
  <2>1. /\ s[a].tag = "PKG_REMOVED" => e.what \in {"written", "gone"}
        /\ s[a].file = e.file /\ s[a].device = DeviceOf[s[a].file]
        /\ i \in 1..Len(ientry) /\ ientry[i].handle = e.handle /\ ientry[i].device = s[a].device
    BY ChangesOfRight
  <2>2. s[a].file = f /\ s[a].tag = "PKG_REMOVED"
    BY <1>3 DEF Takes
  <2> HIDE DEF s, i, e
  <2>3. i = p
    BY <1>2, <2>1, <2>2
  <2>4. e.handle = handle[DeviceOf[f]]
    BY <1>2, <2>1, <2>3
  <2> QED BY <2>1, <2>2, <2>4 DEF About
<1>4. /\ i # 0 => /\ e.what = "created" => s = <<Told("PKG_ADDED")>>
                  /\ e.what = "written" => s = <<Told("PKG_REMOVED"), Told("PKG_ADDED")>>
                  /\ e.what = "gone" => s = <<Told("PKG_REMOVED")>>
  BY <1>1, ChangesOfEvent
<1>5. ASSUME e.handle = handle[DeviceOf[f]] PROVE i # 0
  <2>1. ientry[p].handle = e.handle
    BY <1>2, <1>5
  <2> QED BY <2>1, WatchOfFinds
<1> HIDE DEF s, i, e
<1>6. Told("PKG_ADDED").tag = "PKG_ADDED" /\ Told("PKG_ADDED").file = e.file
  OBVIOUS
<1>7. Told("PKG_REMOVED").tag = "PKG_REMOVED" /\ Told("PKG_REMOVED").file = e.file
  OBVIOUS
<1> HIDE DEF Told
<1>8. ASSUME About(e, f, {"created", "written"}) PROVE Len(s) # 0 /\ Gives(s[Len(s)], f)
  <2>1. e.file = f /\ i # 0 /\ e.what \in {"created", "written"}
    BY <1>5, <1>8 DEF About
  <2>2. Len(s) # 0 /\ s[Len(s)] = Told("PKG_ADDED")
    <3>1. CASE s = <<Told("PKG_ADDED")>>
      BY <3>1
    <3>2. CASE s = <<Told("PKG_REMOVED"), Told("PKG_ADDED")>>
      BY <3>2
    <3> QED BY <1>4, <2>1, <3>1, <3>2
  <2> QED BY <1>6, <2>1, <2>2 DEF Gives
<1>9. ASSUME About(e, f, {"written", "gone"}) PROVE Len(s) # 0 /\ Takes(s[1], f)
  <2>1. e.file = f /\ i # 0 /\ e.what \in {"written", "gone"}
    BY <1>5, <1>9 DEF About
  <2>2. Len(s) # 0 /\ s[1] = Told("PKG_REMOVED")
    <3>1. CASE s = <<Told("PKG_REMOVED")>>
      BY <3>1
    <3>2. CASE s = <<Told("PKG_REMOVED"), Told("PKG_ADDED")>>
      BY <3>2
    <3> QED BY <1>4, <2>1, <3>1, <3>2
  <2> QED BY <1>7, <2>1, <2>2 DEF Takes
<1> QED BY <1>3, <1>8, <1>9 DEF s, e
\* s is a followed by b, position by position.
Joins(s, a, b) ==
  /\ Len(s) = Len(a) + Len(b) /\ Len(a) \in Nat /\ Len(b) \in Nat
  /\ \A i \in 1..Len(a) : i \in 1..Len(s) /\ s[i] = a[i]
  /\ \A i \in 1..Len(b) : Len(a) + i \in 1..Len(s) /\ s[Len(a) + i] = b[i]
  /\ \A i \in 1..Len(s) : \/ i \in 1..Len(a) /\ s[i] = a[i]
                          \/ \E j \in 1..Len(b) : i = Len(a) + j /\ s[i] = b[j]

\* A change of two lists together is of the one or the other.
LEMMA Joined ==
  ASSUME NEW S, NEW a \in Seq(S), NEW b \in Seq(S)
  PROVE  Joins(a \o b, a, b)
<1>1. /\ Len(a \o b) = Len(a) + Len(b)
      /\ \A i \in 1..Len(a) + Len(b) :
           (a \o b)[i] = IF i <= Len(a) THEN a[i] ELSE b[i - Len(a)]
  BY ConcatProperties
<1>2. Len(a) \in Nat /\ Len(b) \in Nat
  OBVIOUS
<1> DEFINE s == a \o b
<1> HIDE DEF s
<1>3. \A i \in 1..Len(a) : i \in 1..Len(s) /\ s[i] = a[i]
  BY <1>1, <1>2 DEF s
<1>4. ASSUME NEW i \in 1..Len(b) PROVE Len(a) + i \in 1..Len(s) /\ s[Len(a) + i] = b[i]
  <2>1. Len(a) + i \in 1..Len(a) + Len(b) /\ ~(Len(a) + i <= Len(a)) /\ (Len(a) + i) - Len(a) = i
    BY <1>2
  <2> QED BY <1>1, <2>1 DEF s
<1>5. ASSUME NEW i \in 1..Len(s), i \notin 1..Len(a)
      PROVE  \E j \in 1..Len(b) : i = Len(a) + j /\ s[i] = b[j]
  <2>1. i - Len(a) \in 1..Len(b) /\ i = Len(a) + (i - Len(a)) /\ ~(i <= Len(a)) /\ i \in 1..Len(a) + Len(b)
    BY <1>1, <1>2, <1>5 DEF s
  <2>2. s[i] = b[i - Len(a)]
    BY <1>1, <2>1 DEF s
  <2> QED BY <2>1, <2>2
<1>6. Len(s) = Len(a) + Len(b)
  BY <1>1 DEF s
<1>7. Joins(s, a, b)
  BY <1>2, <1>3, <1>4, <1>5, <1>6 DEF Joins
<1> QED BY <1>7 DEF s

\* What follows does not take, or ends with giving.
LEMMA StillGives ==
  ASSUME NEW S, NEW a \in Seq(S), NEW b \in Seq(S), NEW f,
         \/ ChangesGive(a, f) /\ \A j \in 1..Len(b) : ~Takes(b[j], f)
         \/ Len(b) # 0 /\ Gives(b[Len(b)], f)
  PROVE  ChangesGive(a \o b, f)
<1> DEFINE s == a \o b
<1>1. /\ Len(s) = Len(a) + Len(b) /\ Len(a) \in Nat /\ Len(b) \in Nat
      /\ \A i \in 1..Len(a) : i \in 1..Len(s) /\ s[i] = a[i]
      /\ \A i \in 1..Len(b) : Len(a) + i \in 1..Len(s) /\ s[Len(a) + i] = b[i]
      /\ \A i \in 1..Len(s) : \/ i \in 1..Len(a) /\ s[i] = a[i]
                              \/ \E j \in 1..Len(b) : i = Len(a) + j /\ s[i] = b[j]
  <2>1. Joins(s, a, b)
    BY Joined
  <2> HIDE DEF s
  <2> QED BY <2>1 DEF Joins
<1> HIDE DEF s
<1>2. CASE Len(b) # 0 /\ Gives(b[Len(b)], f)
  <2>1. Len(b) \in 1..Len(b) /\ Len(a) + Len(b) \in 1..Len(s)
    BY <1>1, <1>2
  <2>2. Gives(s[Len(a) + Len(b)], f)
    BY <1>1, <1>2, <2>1
  <2>3. (Len(a) + Len(b)) + 1..Len(s) = {}
    BY <1>1
  <2> QED BY <2>1, <2>2, <2>3 DEF ChangesGive, s
<1>3. CASE ChangesGive(a, f) /\ \A j \in 1..Len(b) : ~Takes(b[j], f)
  <2>1. PICK k \in 1..Len(a) : Gives(a[k], f) /\ \A j \in k + 1..Len(a) : ~Takes(a[j], f)
    BY <1>3 DEF ChangesGive
  <2>2. k \in 1..Len(s) /\ Gives(s[k], f)
    BY <1>1, <2>1
  <2>3. ASSUME NEW j \in k + 1..Len(s) PROVE ~Takes(s[j], f)
    <3>1. j \in 1..Len(s)
      BY <1>1
    <3>2. CASE j \in 1..Len(a) /\ s[j] = a[j]
      <4>1. j \in k + 1..Len(a)
        BY <3>2
      <4> QED BY <2>1, <3>2, <4>1
    <3>3. CASE \E i \in 1..Len(b) : j = Len(a) + i /\ s[j] = b[i]
      BY <1>3, <3>3
    <3> QED BY <1>1, <3>1, <3>2, <3>3
  <2> QED BY <2>2, <2>3 DEF ChangesGive, s
<1> QED BY <1>2, <1>3

\* All that is read is from some event, and nothing of an event gets lost.
LEMMA ReadEvents ==
  ASSUME TypeOK
  PROVE  /\ \A i \in 1..Len(EventChanges) : \E k \in 1..Len(events) :
              \E a \in 1..Len(ChangesOf(events[k])) : EventChanges[i] = ChangesOf(events[k])[a]
         /\ \A k \in 1..Len(events) : \A a \in 1..Len(ChangesOf(events[k])) :
              \E i \in 1..Len(EventChanges) : EventChanges[i] = ChangesOf(events[k])[a]
<1> DEFINE From(n) == \A i \in 1..Len(ChangesUpTo[n]) : \E k \in 1..n :
                        \E a \in 1..Len(ChangesOf(events[k])) :
                          ChangesUpTo[n][i] = ChangesOf(events[k])[a]
           All(n) == \A k \in 1..n : \A a \in 1..Len(ChangesOf(events[k])) :
                       \E i \in 1..Len(ChangesUpTo[n]) : ChangesUpTo[n][i] = ChangesOf(events[k])[a]
           Good == {n \in 0..Len(events) : From(n) /\ All(n)}
<1>1. Len(events) \in Nat /\ Len(events) \in 0..Len(events)
  BY DEF TypeOK
<1>2. 0 \in Good
  <2>1. Len(ChangesUpTo[0]) = 0 /\ 1..0 = {}
    BY ChangesSteps
  <2> QED BY <1>1, <2>1
<1>3. ASSUME NEW n \in 1..Len(events), n - 1 \in Good PROVE n \in Good
  <2> DEFINE a == ChangesUpTo[n - 1]
             b == ChangesOf(events[n])
             s == ChangesUpTo[n]
  <2>1. n - 1 \in 0..Len(events) /\ n \in 0..Len(events) /\ events[n] \in Event
    BY DEF TypeOK
  <2>2. a \in Seq(FileChange) /\ b \in Seq(FileChange) /\ s = a \o b
    BY <2>1, ChangesSteps, ChangesOfEvent
  <2>3. /\ \A i \in 1..Len(a) : i \in 1..Len(s) /\ s[i] = a[i]
        /\ \A i \in 1..Len(b) : Len(a) + i \in 1..Len(s) /\ s[Len(a) + i] = b[i]
        /\ \A i \in 1..Len(s) : \/ i \in 1..Len(a) /\ s[i] = a[i]
                                \/ \E j \in 1..Len(b) : i = Len(a) + j /\ s[i] = b[j]
    <3> HIDE DEF a, b, s
    <3>1. Joins(s, a, b)
      BY <2>2, Joined
    <3> QED BY <3>1 DEF Joins
  <2>4. From(n - 1) /\ All(n - 1)
    BY <1>3
  <2>5. \A k \in 1..n : k = n \/ k \in 1..n - 1
    OBVIOUS
  <2>6. n \in 1..n /\ \A k \in 1..n - 1 : k \in 1..n
    OBVIOUS
  <2>7. From(n)
    <3> SUFFICES ASSUME NEW i \in 1..Len(s)
                 PROVE  \E k \in 1..n : \E x \in 1..Len(ChangesOf(events[k])) :
                          s[i] = ChangesOf(events[k])[x]
      OBVIOUS
    <3>1. CASE i \in 1..Len(a) /\ s[i] = a[i]
      <4>1. PICK k \in 1..n - 1 : \E x \in 1..Len(ChangesOf(events[k])) : a[i] = ChangesOf(events[k])[x]
        BY <2>4, <3>1
      <4> HIDE DEF a, s
      <4> QED BY <2>6, <3>1, <4>1
    <3>2. CASE \E j \in 1..Len(b) : i = Len(a) + j /\ s[i] = b[j]
      <4> HIDE DEF a, s
      <4> QED BY <2>6, <3>2
    <3> HIDE DEF a, b, s
    <3> QED BY <2>3, <3>1, <3>2
  <2>8. All(n)
    <3> SUFFICES ASSUME NEW k \in 1..n, NEW x \in 1..Len(ChangesOf(events[k]))
                 PROVE  \E i \in 1..Len(s) : s[i] = ChangesOf(events[k])[x]
      OBVIOUS
    <3>1. CASE k = n
      <4>1. x \in 1..Len(b) /\ ChangesOf(events[k])[x] = b[x]
        BY <3>1
      <4> HIDE DEF a, b, s
      <4> QED BY <2>3, <4>1
    <3>2. CASE k \in 1..n - 1
      <4>1. PICK i \in 1..Len(a) : a[i] = ChangesOf(events[k])[x]
        BY <2>4, <3>2
      <4> HIDE DEF a, b, s
      <4> QED BY <2>3, <4>1
    <3> QED BY <2>5, <3>1, <3>2
  <2> QED BY <2>1, <2>7, <2>8
<1>4. Len(events) \in Good
  <2> HIDE DEF Good
  <2> QED BY <1>1, <1>2, <1>3, UpTo
<1> QED BY <1>4 DEF EventChanges

\* Where the events say that a file is there, so do the changes read from them.
LEMMA ReadGives ==
  ASSUME TypeOK, OneByOne, HandlesRight, EventsRight,
         NEW f \in File, NEW x \in Known, x \in Mounted, x.device = DeviceOf[f],
         EventsGive(f, Len(events))
  PROVE  ChangesGive(EventChanges, f)
<1> DEFINE Good == {n \in 0..Len(events) : EventsGive(f, n) => ChangesGive(ChangesUpTo[n], f)}
<1>1. Len(events) \in Nat /\ Len(events) \in 0..Len(events)
  BY DEF TypeOK
<1>2. 0 \in Good
  BY <1>1 DEF EventsGive
<1>3. ASSUME NEW n \in 1..Len(events), n - 1 \in Good PROVE n \in Good
  <2> SUFFICES ASSUME EventsGive(f, n) PROVE ChangesGive(ChangesUpTo[n], f)
    BY <1>1
  <2> DEFINE a == ChangesUpTo[n - 1]
             b == ChangesOf(events[n])
  <2>1. n - 1 \in 0..Len(events) /\ events[n] \in Event
    BY DEF TypeOK
  <2>2. a \in Seq(FileChange) /\ b \in Seq(FileChange) /\ ChangesUpTo[n] = a \o b
    BY <2>1, ChangesSteps, ChangesOfEvent
  <2>3. /\ \A i \in 1..Len(b) : Takes(b[i], f) => About(events[n], f, {"written", "gone"})
        /\ About(events[n], f, {"created", "written"}) => Len(b) # 0 /\ Gives(b[Len(b)], f)
    BY AboutFile
  <2>4. PICK k \in 1..n : /\ About(events[k], f, {"created", "written"})
                          /\ \A j \in k + 1..n : ~About(events[j], f, {"gone"})
    BY DEF EventsGive
  <2>5. CASE About(events[n], f, {"created", "written"})
    <3> HIDE DEF a, b
    <3> QED BY <2>2, <2>3, <2>5, StillGives
  <2>6. CASE ~About(events[n], f, {"created", "written"})
    <3>1. k # n
      BY <2>4, <2>6
    <3>2. n \in k + 1..n /\ k \in 1..n - 1 /\ \A j \in k + 1..n - 1 : j \in k + 1..n
      BY <3>1
    <3>3. EventsGive(f, n - 1)
      BY <2>4, <3>2 DEF EventsGive
    <3>4. ChangesGive(a, f)
      BY <1>3, <3>3
    <3>5. \A i \in 1..Len(b) : ~Takes(b[i], f)
      <4>1. ~About(events[n], f, {"gone"})
        BY <2>4, <3>2
      <4>2. ~About(events[n], f, {"written", "gone"})
        BY <2>6, <4>1 DEF About
      <4> HIDE DEF b
      <4> QED BY <2>3, <4>2
    <3> HIDE DEF a, b
    <3> QED BY <2>2, <3>4, <3>5, StillGives
  <2> QED BY <2>5, <2>6
<1>4. Len(events) \in Good
  <2> HIDE DEF Good
  <2> QED BY <1>1, <1>2, <1>3, UpTo
<1> QED BY <1>4 DEF EventChanges

-----------------------------------------------------------------------------
(* Each step keeps the invariant                                           *)

\* A step that changes nothing of what TidyInv is about keeps it.
LEMMA TidySame ==
  ASSUME TidyInv,
         UNCHANGED <<table, content, handle, next_handle, events, entry, ientry, change, registered>>,
         UNCHANGED <<unwatched, missed>>
  PROVE  TidyInv'
<1>1. UNCHANGED <<Mounted, Known>>
  BY DEF Mounted, Known
<1>2. OneByOne' /\ HandlesRight' /\ RefusedRight'
  BY <1>1 DEF TidyInv, OneByOne, Separate, HandlesRight, HandlesOf, RefusedRight
<1>3. EventsRight' /\ ChangesRight' /\ RegisteredRight'
  BY <1>1 DEF TidyInv, EventsRight, ChangesRight, RegisteredRight
<1>4. GoneNoticed'
  BY <1>1 DEF TidyInv, GoneNoticed, About
<1>5. WholeNoticed'
  BY <1>1 DEF TidyInv, WholeNoticed, EventsGive, About, Stays, IsRegistered
<1> QED BY <1>2, <1>3, <1>4, <1>5 DEF TidyInv

\* What happens to a file of a device that has a handle, or was refused one, is
\* told if the file is gone or can be read then, or it is missed.
LEMMA FileOperationTold ==
  ASSUME TypeOK, NEW f \in File, FileOperation(f), f \notin missed',
         handle[DeviceOf[f]] # 0 \/ DeviceOf[f] \in unwatched
  PROVE  \/ content'[f] = "partial"
         \/ \E what \in {"created", "written", "gone"} :
              /\ events' = Append(events, [handle |-> handle[DeviceOf[f]], file |-> f, what |-> what])
              /\ content'[f] = "absent" => what = "gone"
              /\ content'[f] = "whole" => what \in {"created", "written"}
<1>1. ASSUME NEW from, NEW to, ContentChange(f, from, to) PROVE content'[f] = to
  BY <1>1 DEF ContentChange, TypeOK
<1>2. ASSUME NEW what, Reported(f, what)
      PROVE  events' = Append(events, [handle |-> handle[DeviceOf[f]], file |-> f, what |-> what])
  <2>1. f \in missed \cup {f}
    OBVIOUS
  <2> QED BY <1>2, <2>1 DEF Reported
<1>3. CASE Create(f)
  BY <1>1, <1>3 DEF Create
<1>4. CASE Close(f)
  BY <1>1, <1>2, <1>4 DEF Close
<1>5. CASE MoveTo(f)
  BY <1>1, <1>2, <1>5 DEF MoveTo
<1>6. CASE Delete(f)
  BY <1>1, <1>2, <1>6 DEF Delete
<1>7. CASE Chmod(f)
  BY <1>1, <1>2, <1>7 DEF Chmod
<1>8. CASE Rewrite(f)
  BY <1>1, <1>8 DEF Rewrite
<1> QED BY <1>3, <1>4, <1>5, <1>6, <1>7, <1>8 DEF FileOperation

\* Operations on files keep it, as inotify reports them or they are missed.
LEMMA TidyFile ==
  ASSUME TypeOK, TidyInv, NEW f \in File,
         (IsMounted(DeviceOf[f]) /\ FileOperation(f)) \/ Elsewhere(f)
  PROVE  TidyInv'
<1>1. /\ content' \in [File -> {"absent", "partial", "whole"}]
      /\ \A g \in File \ {f} : content'[g] = content[g]
      /\ UNCHANGED <<table, handle, next_handle, watch, main, change, registered, unwatched>>
      /\ \A g \in File \ {f} : g \in missed' <=> g \in missed
      /\ \/ events' = events
         \/ /\ handle[DeviceOf[f]] # 0
            /\ \E what \in {"created", "written", "gone"} :
                 events' = Append(events, [handle |-> handle[DeviceOf[f]], file |-> f, what |-> what])
  BY FileOperationEffect
<1>2. UNCHANGED <<Mounted, Known, entry, ientry>>
  BY <1>1 DEF Mounted, Known, watch
<1>3. OneByOne' /\ HandlesRight' /\ RefusedRight' /\ ChangesRight' /\ RegisteredRight'
  <2>1. OneByOne' /\ HandlesRight' /\ RefusedRight'
    BY <1>1, <1>2 DEF TidyInv, OneByOne, Separate, HandlesRight, HandlesOf, RefusedRight
  <2> QED BY <1>1, <1>2, <2>1 DEF TidyInv, ChangesRight, RegisteredRight
<1>4. /\ DeviceOf[f] \in Device /\ handle[DeviceOf[f]] \in Nat
      /\ events \in Seq(Event) /\ Len(events) \in Nat
  BY MountWatchAssumption DEF TypeOK
<1>5. \/ events' = events
      \/ /\ handle[DeviceOf[f]] # 0
         /\ Len(events') = Len(events) + 1
         /\ \A k \in 1..Len(events) : events'[k] = events[k]
         /\ events'[Len(events) + 1].handle = handle[DeviceOf[f]]
         /\ events'[Len(events) + 1].file = f
  <2> SUFFICES ASSUME events' # events
               PROVE  /\ handle[DeviceOf[f]] # 0
                      /\ Len(events') = Len(events) + 1
                      /\ \A k \in 1..Len(events) : events'[k] = events[k]
                      /\ events'[Len(events) + 1].handle = handle[DeviceOf[f]]
                      /\ events'[Len(events) + 1].file = f
    OBVIOUS
  <2>1. PICK what \in {"created", "written", "gone"} :
          events' = Append(events, [handle |-> handle[DeviceOf[f]], file |-> f, what |-> what])
    BY <1>1
  <2> DEFINE e == [handle |-> handle[DeviceOf[f]], file |-> f, what |-> what]
  <2>2. e \in Event
    BY <1>4 DEF Event
  <2>3. e.handle = handle[DeviceOf[f]] /\ e.file = f
    OBVIOUS
  <2>4. events' = Append(events, e)
    BY <2>1
  <2> HIDE DEF e
  <2>5. /\ Len(events') = Len(events) + 1
        /\ \A k \in 1..Len(events) : events'[k] = events[k]
        /\ events'[Len(events) + 1] = e
    BY <1>4, <2>2, <2>4, AppendProperties
  <2> QED BY <1>1, <2>3, <2>5
<1>6. \A k \in 1..Len(events) : k \in 1..Len(events') /\ events'[k] = events[k]
  BY <1>4, <1>5
<1>7. \A k \in 1..Len(events') :
        \/ k \in 1..Len(events)
        \/ /\ k = Len(events) + 1 /\ handle[DeviceOf[f]] # 0
           /\ events'[k].handle = handle[DeviceOf[f]] /\ events'[k].file = f
  BY <1>4, <1>5
<1>8. EventsRight'
  <2> SUFFICES ASSUME NEW k \in 1..Len(events')
               PROVE  /\ events'[k].handle \in 1..next_handle - 1
                      /\ \A i \in 1..Len(ientry) :
                           ientry[i].handle = events'[k].handle => ientry[i].device = DeviceOf[events'[k].file]
    BY <1>1, <1>2 DEF EventsRight
  <2>1. CASE k \in 1..Len(events)
    BY <1>6, <2>1 DEF TidyInv, EventsRight
  <2>2. CASE k \notin 1..Len(events)
    <3>1. PICK j \in 1..Len(entry) : entry[j].device = DeviceOf[f] /\ entry[j] \in Mounted
      BY <1>4, <1>7, <2>2 DEF TidyInv, HandlesRight, HandlesOf
    <3>2. entry[j] \in Known
      BY InEntry DEF TypeOK
    <3>3. handle[DeviceOf[f]] # 0 /\ next_handle \in Nat
      BY <1>7, <2>2 DEF TypeOK
    <3>4. PICK i \in 1..Len(ientry) :
            /\ ientry[i].device = DeviceOf[f]
            /\ handle[DeviceOf[f]] \in 0..next_handle - 1
            /\ \A y \in 1..Len(ientry) :
                 ientry[y].handle = handle[DeviceOf[f]] /\ handle[DeviceOf[f]] # 0 => y = i
      BY <3>1, <3>2, WatchIs DEF TidyInv
    <3>5. handle[DeviceOf[f]] \in 1..next_handle - 1
      BY <3>3, <3>4
    <3> QED BY <1>7, <2>2, <3>3, <3>4, <3>5
  <2> QED BY <2>1, <2>2
<1>9. ASSUME NEW x \in Known, x \in Mounted, x.device = DeviceOf[f], content'[f] # "partial",
             f \notin missed'
      PROVE  \E k \in 1..Len(events') :
               /\ k = Len(events')
               /\ events'[k].file = f /\ events'[k].handle = handle[DeviceOf[f]]
               /\ content'[f] = "absent" => events'[k].what = "gone"
               /\ content'[f] = "whole" => events'[k].what \in {"created", "written"}
  <2>1. IsMounted(DeviceOf[f])
    BY <1>9 DEF IsMounted
  <2>2. FileOperation(f)
    BY <2>1 DEF Elsewhere
  <2>3. handle[DeviceOf[f]] # 0 \/ DeviceOf[f] \in unwatched
    <3>1. PICK i \in 1..Len(ientry) : entry[i] = x /\ ientry[i].handle = handle[x.device]
      BY <1>9, WatchIs DEF TidyInv
    <3>2. i \in 1..Len(entry)
      BY <3>1 DEF TidyInv, OneByOne, Aligned
    <3> QED BY <1>9, <3>1, <3>2 DEF TidyInv, RefusedRight
  <2>4. PICK what \in {"created", "written", "gone"} :
          /\ events' = Append(events, [handle |-> handle[DeviceOf[f]], file |-> f, what |-> what])
          /\ content'[f] = "absent" => what = "gone"
          /\ content'[f] = "whole" => what \in {"created", "written"}
    BY <1>9, <2>2, <2>3, FileOperationTold
  <2> DEFINE e == [handle |-> handle[DeviceOf[f]], file |-> f, what |-> what]
  <2>5. e \in Event /\ e.what = what /\ e.file = f /\ e.handle = handle[DeviceOf[f]]
    BY <1>4 DEF Event
  <2>6. events' = Append(events, e)
    BY <2>4
  <2> HIDE DEF e
  <2>7. Len(events') = Len(events) + 1 /\ events'[Len(events) + 1] = e
    BY <1>4, <2>5, <2>6, AppendProperties
  <2>8. Len(events') \in 1..Len(events')
    BY <1>4, <2>7
  <2> QED BY <2>4, <2>5, <2>7, <2>8
<1>10. ASSUME NEW r \in registered, content'[r.file] = "absent", r.file \notin missed',
              LineOf(r) \in Known, LineOf(r) \in Mounted
       PROVE  \/ \E k \in 1..Len(events') : About(events'[k], r.file, {"written", "gone"})
              \/ \E k \in 1..Len(change) : Takes(change[k], r.file)
  <2>1. r.file \in File /\ r.device = DeviceOf[r.file] /\ LineOf(r).device = r.device
    BY DEF TypeOK, TidyInv, RegisteredRight, LineOf
  <2>2. CASE r.file = f
    <3>1. PICK k \in 1..Len(events') :
            events'[k].file = f /\ events'[k].handle = handle[DeviceOf[f]] /\ events'[k].what = "gone"
      BY <1>9, <1>10, <2>1, <2>2
    <3> QED BY <2>2, <3>1 DEF About
  <2>3. CASE r.file # f
    <3>1. content[r.file] = "absent" /\ r.file \notin missed
      BY <1>1, <1>10, <2>1, <2>3
    <3> QED BY <1>6, <1>10, <3>1 DEF TidyInv, GoneNoticed
  <2> QED BY <2>2, <2>3
<1>11. GoneNoticed'
  BY <1>1, <1>2, <1>10 DEF GoneNoticed, About
<1>12. ASSUME NEW g \in File, NEW x \in Known, content'[g] = "whole", g \notin missed',
              x \in Mounted, x.device = DeviceOf[g]
       PROVE  \/ \E k \in 1..Len(events') :
                   /\ About(events'[k], g, {"created", "written"})
                   /\ \A j \in k + 1..Len(events') : ~About(events'[j], g, {"gone"})
              \/ /\ \A k \in 1..Len(events') : ~About(events'[k], g, {"written", "gone"})
                 /\ ChangesGive(change, g) \/ Stays(g)
  <2>1. CASE g = f
    <3>1. PICK k \in 1..Len(events') :
            /\ k = Len(events')
            /\ events'[k].file = f /\ events'[k].handle = handle[DeviceOf[f]]
            /\ events'[k].what \in {"created", "written"}
      BY <1>9, <1>12, <2>1
    <3>2. k + 1..Len(events') = {}
      BY <3>1
    <3> QED BY <2>1, <3>1, <3>2 DEF About
  <2>2. CASE g # f
    <3>1. content[g] = "whole" /\ g \notin missed
      BY <1>1, <1>12, <2>2
    <3>2. \A k \in 1..Len(events') : events'[k].file = g => k \in 1..Len(events) /\ events'[k] = events[k]
      BY <1>6, <1>7, <2>2
    <3>3. CASE EventsGive(g, Len(events))
      <4>1. PICK k \in 1..Len(events) :
              /\ About(events[k], g, {"created", "written"})
              /\ \A j \in k + 1..Len(events) : ~About(events[j], g, {"gone"})
        BY <3>3 DEF EventsGive
      <4>2. k \in 1..Len(events') /\ About(events'[k], g, {"created", "written"})
        BY <1>6, <4>1
      <4>3. ASSUME NEW j \in k + 1..Len(events') PROVE ~About(events'[j], g, {"gone"})
        <5>1. j \in 1..Len(events')
          OBVIOUS
        <5>2. CASE events'[j].file = g
          <6>1. j \in k + 1..Len(events) /\ events'[j] = events[j]
            BY <3>2, <5>1, <5>2
          <6> QED BY <4>1, <6>1
        <5> QED BY <5>2 DEF About
      <4> QED BY <4>2, <4>3
    <3>4. CASE /\ \A k \in 1..Len(events) : ~About(events[k], g, {"written", "gone"})
               /\ ChangesGive(change, g) \/ Stays(g)
      BY <3>2, <3>4 DEF About
    <3> QED BY <1>12, <3>1, <3>3, <3>4 DEF TidyInv, WholeNoticed
  <2> QED BY <2>1, <2>2
<1>13. WholeNoticed'
  BY <1>1, <1>2, <1>12 DEF WholeNoticed, EventsGive, About, Stays, IsRegistered
<1> QED BY <1>3, <1>8, <1>11, <1>13 DEF TidyInv

\* A device that is mounted is not known yet.
LEMMA TidyMount ==
  ASSUME TypeOK, Tidy, TidyInv, NEW m \in Mount, NEW d \in Device, MountDevice(m, d)
  PROVE  TidyInv'
<1> DEFINE line == [mount |-> m, device |-> d]
<1>1. /\ \A x \in Mounted \cup Known : x.mount # m /\ x.device # d
      /\ table' = Append(table, line)
      /\ UNCHANGED <<content, handle, next_handle, events, entry, ientry, change, registered>>
      /\ UNCHANGED <<unwatched, missed>>
  BY DEF MountDevice, Tidy, watch, history
<1>2. line \in Line /\ line.mount = m /\ line.device = d
  BY DEF Line
<1> HIDE DEF line
<1>3. /\ table' \in Seq(Line) /\ Len(table) \in Nat
      /\ Len(table') = Len(table) + 1 /\ table'[Len(table) + 1] = line
      /\ \A i \in 1..Len(table) : table'[i] = table[i]
  BY <1>1, <1>2, AppendProperties DEF TypeOK
<1>4. Mounted' = Mounted \cup {line}
  <2>1. ASSUME NEW x PROVE x \in Mounted' <=> \E i \in 1..Len(table') : table'[i] = x
    BY DEF Mounted, ToSet
  <2>2. ASSUME NEW x PROVE x \in Mounted <=> \E i \in 1..Len(table) : table[i] = x
    BY DEF Mounted, ToSet
  <2>3. Len(table) + 1 \in 1..Len(table') /\ \A i \in 1..Len(table) : i \in 1..Len(table')
    BY <1>3
  <2>4. \A i \in 1..Len(table') : i = Len(table) + 1 \/ i \in 1..Len(table)
    BY <1>3
  <2> QED BY <1>3, <2>1, <2>2, <2>3, <2>4
<1>5. Known' = Known
  BY <1>1 DEF Known
<1>6. line \notin Known
  BY <1>1, <1>2
<1>7. \A x \in Known : x \in Mounted' <=> x \in Mounted
  BY <1>4, <1>6
<1>8. \A i \in 1..Len(entry) : entry[i] \in Known
  BY InEntry DEF TypeOK
<1>9. Distinct(table')
  <2>1. \A i \in 1..Len(table) : table[i] \in Mounted
    BY InTable DEF TypeOK
  <2>2. \A i \in 1..Len(table) : table'[i].mount # m /\ table'[i].device # d
    BY <1>1, <1>3, <2>1
  <2>3. \A i \in 1..Len(table') : i = Len(table) + 1 \/ i \in 1..Len(table)
    BY <1>3
  <2>4. ASSUME NEW i \in 1..Len(table'), NEW j \in 1..Len(table'),
               table'[i].mount = table'[j].mount \/ table'[i].device = table'[j].device
        PROVE  i = j
    <3>1. CASE i \in 1..Len(table) /\ j \in 1..Len(table)
      BY <1>3, <2>4, <3>1 DEF TidyInv, OneByOne, Distinct
    <3>2. CASE i = Len(table) + 1 /\ j \in 1..Len(table)
      BY <1>2, <1>3, <2>2, <2>4, <3>2
    <3>3. CASE i \in 1..Len(table) /\ j = Len(table) + 1
      BY <1>2, <1>3, <2>2, <2>4, <3>3
    <3> QED BY <2>3, <3>1, <3>2, <3>3
  <2> QED BY <2>4 DEF Distinct
<1>10. OneByOne'
  <2>1. Separate'
    BY <1>1, <1>2, <1>4, <1>5 DEF TidyInv, OneByOne, Separate
  <2> QED BY <1>1, <1>9, <2>1 DEF TidyInv, OneByOne
<1>11. HandlesRight' /\ RefusedRight'
  BY <1>1, <1>7, <1>8 DEF TidyInv, HandlesRight, HandlesOf, RefusedRight
<1>12. EventsRight' /\ ChangesRight' /\ RegisteredRight'
  BY <1>1, <1>5 DEF TidyInv, EventsRight, ChangesRight, RegisteredRight
<1>13. GoneNoticed'
  BY <1>1, <1>5, <1>7 DEF TidyInv, GoneNoticed, About
<1>14. WholeNoticed'
  BY <1>1, <1>5, <1>7 DEF TidyInv, WholeNoticed, EventsGive, About, Stays, IsRegistered
<1> QED BY <1>10, <1>11, <1>12, <1>13, <1>14 DEF TidyInv

\* A device that is unmounted leaves its entry behind.
LEMMA TidyUnmount ==
  ASSUME TypeOK, TidyInv, NEW m \in Mount, Unmount(m)
  PROVE  TidyInv'
<1>1. PICK i \in 1..Len(table) :
        /\ Len(table') = Len(table) - 1
        /\ \A j \in 1..Len(table) - 1 : table'[j] = IF j < i THEN table[j] ELSE table[j + 1]
        /\ handle' = IF \E x \in ToSet(table') : x.device = table[i].device THEN handle
                     ELSE [handle EXCEPT ![table[i].device] = 0]
        /\ \A d : d # table[i].device => (d \in unwatched' <=> d \in unwatched)
        /\ \A f : DeviceOf[f] # table[i].device => (f \in missed' <=> f \in missed)
  BY UnmountTakes DEF TypeOK
<1>2. UNCHANGED <<content, next_handle, events, entry, ientry, change, registered>>
  BY DEF Unmount, watch
<1> DEFINE line == table[i]
           from == [j \in 1..Len(table') |-> IF j < i THEN j ELSE j + 1]
<1>3. Len(table) \in Nat /\ line \in Line /\ line.device \in Device
  <2>1. line \in Line
    BY DEF TypeOK
  <2> QED BY <2>1 DEF TypeOK, Line
<1> HIDE DEF line
<1>4. /\ \A j \in 1..Len(table') : from[j] \in 1..Len(table) /\ from[j] # i /\ table'[j] = table[from[j]]
      /\ \A j \in 1..Len(table) : j # i => \E k \in 1..Len(table') : from[k] = j
      /\ \A j, k \in 1..Len(table') : from[j] = from[k] => j = k
  <2>1. \A j \in 1..Len(table') : from[j] \in 1..Len(table) /\ from[j] # i /\ table'[j] = table[from[j]]
    BY <1>1, <1>3
  <2>2. ASSUME NEW j \in 1..Len(table), j # i PROVE \E k \in 1..Len(table') : from[k] = j
    <3>1. CASE j < i
      <4>1. j \in 1..Len(table') /\ from[j] = j
        BY <1>1, <1>3, <3>1
      <4> QED BY <4>1
    <3>2. CASE ~(j < i)
      <4>1. j - 1 \in 1..Len(table') /\ ~(j - 1 < i) /\ (j - 1) + 1 = j
        BY <1>1, <1>3, <2>2, <3>2
      <4> QED BY <4>1
    <3> QED BY <3>1, <3>2
  <2>3. \A j, k \in 1..Len(table') : from[j] = from[k] => j = k
    BY <1>1, <1>3
  <2> QED BY <2>1, <2>2, <2>3
<1> HIDE DEF from
<1>5. \A j, k \in 1..Len(table) :
        table[j].mount = table[k].mount \/ table[j].device = table[k].device => j = k
  BY DEF TidyInv, OneByOne, Distinct
<1>6. Mounted' = Mounted \ {line}
  <2>1. ASSUME NEW x PROVE x \in Mounted' <=> \E j \in 1..Len(table') : table'[j] = x
    BY DEF Mounted, ToSet
  <2>2. ASSUME NEW x PROVE x \in Mounted <=> \E j \in 1..Len(table) : table[j] = x
    BY DEF Mounted, ToSet
  <2>3. \A j \in 1..Len(table) : table[j] = line => j = i
    BY <1>5 DEF line
  <2>4. table[i] = line
    BY DEF line
  <2>5. ASSUME NEW x PROVE x \in Mounted' <=> x \in Mounted /\ x # line
    <3>1. ASSUME x \in Mounted' PROVE x \in Mounted /\ x # line
      <4>1. PICK j \in 1..Len(table') : table'[j] = x
        BY <2>1, <3>1
      <4>2. from[j] \in 1..Len(table) /\ from[j] # i /\ table[from[j]] = x
        BY <1>4, <4>1
      <4> QED BY <2>2, <2>3, <4>2
    <3>2. ASSUME x \in Mounted, x # line PROVE x \in Mounted'
      <4>1. PICK j \in 1..Len(table) : table[j] = x
        BY <2>2, <3>2
      <4>2. PICK k \in 1..Len(table') : from[k] = j
        BY <1>4, <2>4, <3>2, <4>1
      <4>3. table'[k] = x
        BY <1>4, <4>1, <4>2
      <4> QED BY <2>1, <4>3
    <3> QED BY <3>1, <3>2
  <2> QED BY <2>5
<1>7. line \in Mounted /\ \A x \in Mounted : x.device = line.device => x = line
  <2>1. line \in Mounted
    BY InTable DEF TypeOK, line
  <2>2. ASSUME NEW x \in Mounted, x.device = line.device PROVE x = line
    <3>1. PICK j \in 1..Len(table) : table[j] = x
      BY InTable DEF TypeOK
    <3> QED BY <1>5, <2>2, <3>1 DEF line
  <2> QED BY <2>1, <2>2
<1>8. handle' = [handle EXCEPT ![line.device] = 0]
  <2>1. \A x \in Mounted' : x.device # line.device
    BY <1>6, <1>7
  <2> QED BY <1>1, <2>1 DEF Mounted, line
<1>9. \A d \in Device : handle'[d] = IF d = line.device THEN 0 ELSE handle[d]
  BY <1>3, <1>8 DEF TypeOK
<1>10. \A x \in Mounted' : x \in Mounted /\ x.device # line.device
  BY <1>6, <1>7
<1>11. Known' = Known
  BY <1>2 DEF Known
<1>12. \A x \in Mounted' : x.device \in Device /\ handle'[x.device] = handle[x.device]
  <2>1. \A x \in Mounted : x.device \in Device
    <3>1. \A x \in Mounted : x \in Line
      BY InTable DEF TypeOK
    <3> QED BY <3>1 DEF Line
  <2> QED BY <1>9, <1>10, <2>1
<1>13. OneByOne'
  <2>1. Distinct(table')
    <3>1. ASSUME NEW j \in 1..Len(table'), NEW k \in 1..Len(table'),
                 table'[j].mount = table'[k].mount \/ table'[j].device = table'[k].device
          PROVE  j = k
      <4>1. /\ from[j] \in 1..Len(table) /\ table'[j] = table[from[j]]
            /\ from[k] \in 1..Len(table) /\ table'[k] = table[from[k]]
        BY <1>4
      <4> DEFINE a == from[j]
                 b == from[k]
      <4> HIDE DEF a, b
      <4>2. a = b
        <5>1. /\ a \in 1..Len(table) /\ b \in 1..Len(table)
              /\ table[a].mount = table[b].mount \/ table[a].device = table[b].device
          BY <3>1, <4>1 DEF a, b
        <5> QED BY <1>5, <5>1
      <4>3. from[j] = from[k]
        BY <4>2 DEF a, b
      <4> QED BY <1>4, <4>3
    <3> QED BY <3>1 DEF Distinct
  <2>2. Separate'
    BY <1>10, <1>11 DEF TidyInv, OneByOne, Separate
  <2> QED BY <1>2, <2>1, <2>2 DEF TidyInv, OneByOne
<1>14. HandlesRight'
  <2>1. /\ \A a, b \in 1..Len(ientry) :
             ientry[a].handle = ientry[b].handle => a = b \/ ientry[a].handle = 0
        /\ \A a \in 1..Len(ientry) : ientry[a].handle \in 0..next_handle - 1
        /\ \A a \in 1..Len(entry) : entry[a] \in Mounted => handle[entry[a].device] = ientry[a].handle
        /\ \A d \in Device : handle[d] # 0 =>
             \E a \in 1..Len(entry) : entry[a].device = d /\ entry[a] \in Mounted
    BY DEF TidyInv, HandlesRight, HandlesOf
  <2>2. \A a \in 1..Len(entry) : entry[a] \in Mounted' => handle'[entry[a].device] = ientry[a].handle
    BY <1>10, <1>12, <2>1
  <2>3. ASSUME NEW d \in Device, handle'[d] # 0
        PROVE  \E a \in 1..Len(entry) : entry[a].device = d /\ entry[a] \in Mounted'
    <3>1. d # line.device /\ handle[d] # 0
      BY <1>9, <2>3
    <3>2. PICK a \in 1..Len(entry) : entry[a].device = d /\ entry[a] \in Mounted
      BY <2>1, <3>1
    <3>3. entry[a] # line
      BY <3>1, <3>2
    <3> QED BY <1>6, <3>2, <3>3
  <2> QED BY <1>2, <2>1, <2>2, <2>3 DEF HandlesRight, HandlesOf
<1>15. EventsRight' /\ ChangesRight' /\ RegisteredRight'
  BY <1>2, <1>11 DEF TidyInv, EventsRight, ChangesRight, RegisteredRight
<1>16. ASSUME NEW f, NEW x \in Mounted', x.device = DeviceOf[f]
       PROVE  handle'[DeviceOf[f]] = handle[DeviceOf[f]] /\ (f \in missed' <=> f \in missed)
  <2>1. DeviceOf[f] # line.device
    BY <1>10, <1>16
  <2> QED BY <1>1, <1>12, <1>16, <2>1 DEF line
<1>19. RefusedRight'
  <2>1. \A a \in 1..Len(entry) : entry[a] \in Mounted' /\ ientry[a].handle = 0 =>
          entry[a].device \in unwatched /\ entry[a].device # line.device
    BY <1>10 DEF TidyInv, RefusedRight
  <2> QED BY <1>1, <1>2, <2>1 DEF RefusedRight, line
<1>17. GoneNoticed'
  <2> SUFFICES ASSUME NEW r \in registered, content[r.file] = "absent", r.file \notin missed',
                      LineOf(r) \in Known, LineOf(r) \in Mounted'
               PROVE  \/ \E k \in 1..Len(events) : About(events[k], r.file, {"written", "gone"})'
                      \/ \E k \in 1..Len(change) : Takes(change[k], r.file)
    BY <1>2, <1>11 DEF GoneNoticed
  <2>1. LineOf(r).device = DeviceOf[r.file]
    BY DEF TidyInv, RegisteredRight, LineOf
  <2>2. handle'[DeviceOf[r.file]] = handle[DeviceOf[r.file]] /\ r.file \notin missed
    BY <1>16, <2>1
  <2> QED BY <1>2, <1>10, <2>2 DEF TidyInv, GoneNoticed, About
<1>18. WholeNoticed'
  <2> SUFFICES ASSUME NEW f \in File, NEW x \in Known, content[f] = "whole", f \notin missed',
                      x \in Mounted', x.device = DeviceOf[f]
               PROVE  \/ EventsGive(f, Len(events))'
                      \/ /\ \A k \in 1..Len(events) : ~About(events[k], f, {"written", "gone"})'
                         /\ ChangesGive(change, f) \/ Stays(f)
    BY <1>2, <1>11 DEF WholeNoticed, Stays, IsRegistered
  <2>1. handle'[DeviceOf[f]] = handle[DeviceOf[f]] /\ f \notin missed
    BY <1>16
  <2> QED BY <1>2, <1>10, <2>1 DEF TidyInv, WholeNoticed, EventsGive, About
<1> QED BY <1>13, <1>14, <1>15, <1>17, <1>18, <1>19 DEF TidyInv

\* mountwatch_diff turns what it has not known into changes.
LEMMA TidyDiff ==
  ASSUME TypeOK, TidyInv, mountwatch_diff
  PROVE  TidyInv'
<1>0. PICK refused \in SUBSET Device : Differs(Diff(refused))
  BY DiffEffect
<1> DEFINE v == Diff(refused)
<1>1. /\ main = "wait" /\ change = << >>
      /\ entry' = v.entry /\ ientry' = v.ientry /\ handle' = v.handle
      /\ next_handle' = v.next /\ change' = v.change
      /\ unwatched' = {d \in unwatched \cup v.refused : v.handle[d] = 0}
      /\ UNCHANGED <<table, content, events, registered, missed>>
  <2>1. main = "wait" /\ change = << >>
    BY DiffEffect DEF TypeOK
  <2> QED BY <1>0, <2>1 DEF Differs
<1>2. v \in Work /\ Follows(v) /\ Difference(v.change)
  BY DiffType, DiffFollows, DiffDifference DEF TidyInv
<1> HIDE DEF v
<1>3. Mounted' = Mounted /\ Known' = Mounted
  BY <1>1, <1>2 DEF Mounted, Known, Follows
<1>4. /\ next_handle <= next_handle' /\ next_handle \in Nat /\ next_handle' \in Nat
      /\ \A i \in 1..Len(entry') :
           \/ \E j \in 1..Len(entry) : entry'[i] = entry[j] /\ ientry'[i] = ientry[j]
           \/ /\ entry'[i] \notin Known
              /\ \/ ientry'[i].handle >= next_handle
                 \/ ientry'[i].handle = 0 /\ entry'[i].device \in v.refused
  BY <1>1, <1>2 DEF Follows, Work, TypeOK
<1>5. /\ \A i \in 1..Len(change') : \/ \E x \in Mounted \ Known : change'[i] = Added(x)
                                    \/ \E x \in Known \ Mounted : change'[i] = Removed(x)
      /\ \A x \in Mounted \ Known : \E i \in 1..Len(change') : change'[i] = Added(x)
      /\ \A x \in Known \ Mounted : \E i \in 1..Len(change') : change'[i] = Removed(x)
  BY <1>1, <1>2 DEF Difference
<1>6. \A x, y \in Mounted : x.mount = y.mount \/ x.device = y.device => x = y
  <2> SUFFICES ASSUME NEW x \in Mounted, NEW y \in Mounted, x.mount = y.mount \/ x.device = y.device
               PROVE  x = y
    OBVIOUS
  <2>1. PICK i \in 1..Len(table) : table[i] = x
    BY InTable DEF TypeOK
  <2>2. PICK j \in 1..Len(table) : table[j] = y
    BY InTable DEF TypeOK
  <2> QED BY <2>1, <2>2 DEF TidyInv, OneByOne, Distinct
<1>7. \A x \in Mounted, y \in Known : x.mount = y.mount \/ x.device = y.device => x = y
  BY DEF TidyInv, OneByOne, Separate
<1>8. OneByOne'
  <2>1. Distinct(table') /\ Distinct(entry') /\ Aligned(entry', ientry')
    BY <1>1, <1>2 DEF TidyInv, OneByOne, Follows
  <2>2. Separate'
    BY <1>3, <1>6 DEF Separate
  <2> QED BY <2>1, <2>2 DEF OneByOne
<1>9. HandlesRight'
  BY <1>1, <1>2, <1>3 DEF HandlesRight, Follows, HandlesOf
<1>25. RefusedRight'
  <2> SUFFICES ASSUME NEW i \in 1..Len(entry'), entry'[i] \in Mounted, ientry'[i].handle = 0
               PROVE  entry'[i].device \in unwatched'
    BY <1>3 DEF RefusedRight
  <2>1. handle'[entry'[i].device] = 0
    BY <1>3, <1>9 DEF HandlesRight, HandlesOf
  <2>2. CASE \E j \in 1..Len(entry) : entry'[i] = entry[j] /\ ientry'[i] = ientry[j]
    <3>1. entry'[i].device \in unwatched
      BY <2>2 DEF TidyInv, RefusedRight
    <3> QED BY <1>1, <2>1, <3>1
  <2>3. CASE entry'[i].device \in v.refused
    BY <1>1, <2>1, <2>3
  <2>4. ~(ientry'[i].handle >= next_handle)
    BY <1>4 DEF TypeOK
  <2> QED BY <1>4, <2>2, <2>3, <2>4
<1>10. \A k \in 1..Len(events) :
         /\ events[k].handle \in 1..next_handle - 1
         /\ \A i \in 1..Len(ientry) :
              ientry[i].handle = events[k].handle => ientry[i].device = DeviceOf[events[k].file]
  BY DEF TidyInv, EventsRight
<1>11. Len(ientry') = Len(entry') /\ Len(ientry) = Len(entry)
  BY <1>8 DEF TidyInv, OneByOne, Aligned
<1>12. EventsRight'
  <2> SUFFICES ASSUME NEW k \in 1..Len(events)
               PROVE  /\ events[k].handle \in 1..next_handle' - 1
                      /\ \A i \in 1..Len(ientry') :
                           ientry'[i].handle = events[k].handle => ientry'[i].device = DeviceOf[events[k].file]
    BY <1>1 DEF EventsRight
  <2>1. events[k].handle \in 1..next_handle - 1
    BY <1>10
  <2>2. events[k].handle \in 1..next_handle' - 1
    BY <1>4, <2>1
  <2>3. ASSUME NEW i \in 1..Len(ientry'), ientry'[i].handle = events[k].handle
        PROVE  ientry'[i].device = DeviceOf[events[k].file]
    <3>1. ~(ientry'[i].handle >= next_handle) /\ ientry'[i].handle # 0
      BY <1>4, <2>1, <2>3
    <3>2. PICK j \in 1..Len(ientry) : ientry'[i] = ientry[j]
      BY <1>4, <1>11, <3>1
    <3> QED BY <1>10, <2>3, <3>2
  <2> QED BY <2>2, <2>3
<1>13. \A x \in Mounted \cup Known : x \in Line
  <2>1. \A x \in Mounted : x \in Line
    BY InTable DEF TypeOK
  <2>2. \A x \in Known : x \in Line
    BY InEntry DEF TypeOK
  <2> QED BY <2>1, <2>2
<1>14. \A x \in Line : LineOf(Added(x)) = x /\ Added(x).device = x.device /\ Added(x).tag = "ADDED"
  BY DEF Line, LineOf, Added
<1>15. \A x : Removed(x).device = x.device /\ Removed(x).tag = "REMOVED"
  BY DEF Removed
<1>16. \A k \in 1..Len(change') : change'[k].tag \in {"ADDED", "REMOVED"}
  BY <1>5, <1>13, <1>14, <1>15
<1>17. ChangesRight'
  <2> SUFFICES ASSUME NEW k \in 1..Len(change')
               PROVE  /\ change'[k].tag = "REMOVED" => \A y \in Mounted : y.device # change'[k].device
                      /\ change'[k].tag # "REMOVED" => LineOf(change'[k]) \in Mounted
    BY <1>3, <1>16 DEF ChangesRight
  <2>1. CASE \E x \in Mounted \ Known : change'[k] = Added(x)
    BY <1>13, <1>14, <2>1
  <2>2. CASE \E x \in Known \ Mounted : change'[k] = Removed(x)
    BY <1>7, <1>15, <2>2
  <2> QED BY <1>5, <2>1, <2>2
<1>18. \A r \in registered : r.device = DeviceOf[r.file] /\ LineOf(r) \in Known /\ LineOf(r).device = r.device
  <2>1. 1..Len(change) = {}
    BY <1>1
  <2> QED BY <2>1 DEF TidyInv, RegisteredRight, LineOf
<1>19. RegisteredRight'
  <2> SUFFICES ASSUME NEW r \in registered, LineOf(r) \notin Mounted
               PROVE  \E k \in 1..Len(change') : change'[k].tag = "REMOVED" /\ change'[k].device = r.device
    BY <1>1, <1>3, <1>18 DEF RegisteredRight
  <2>1. PICK k \in 1..Len(change') : change'[k] = Removed(LineOf(r))
    BY <1>5, <1>18
  <2> QED BY <1>15, <1>18, <2>1
<1>20. ASSUME NEW x \in Known, x \in Mounted PROVE handle'[x.device] = handle[x.device]
  <2>1. x \in Known' /\ x \in Mounted'
    BY <1>3, <1>20
  <2>2. PICK i \in 1..Len(entry') : entry'[i] = x
    BY <2>1 DEF Known, ToSet
  <2>3. handle'[x.device] = ientry'[i].handle
    BY <1>9, <2>1, <2>2 DEF HandlesRight, HandlesOf
  <2>4. PICK j \in 1..Len(entry) : entry'[i] = entry[j] /\ ientry'[i] = ientry[j]
    BY <1>4, <1>20, <2>2
  <2>5. handle[x.device] = ientry[j].handle
    BY <1>20, <2>2, <2>4 DEF TidyInv, HandlesRight, HandlesOf
  <2> QED BY <2>3, <2>4, <2>5
<1>21. ASSUME NEW x \in Mounted, x \notin Known
       PROVE  handle'[x.device] >= next_handle \/ handle'[x.device] = 0
  <2>1. x \in Known' /\ x \in Mounted'
    BY <1>3, <1>21
  <2>2. PICK i \in 1..Len(entry') : entry'[i] = x
    BY <2>1 DEF Known, ToSet
  <2>3. handle'[x.device] = ientry'[i].handle
    BY <1>9, <2>1, <2>2 DEF HandlesRight, HandlesOf
  <2>4. ~\E j \in 1..Len(entry) : entry'[i] = entry[j]
    BY <1>21, <2>2, InEntry DEF TypeOK
  <2> QED BY <1>4, <2>3, <2>4
<1>22. \A k \in 1..Len(change') : \A f : ~Takes(change'[k], f)
  BY <1>16 DEF Takes
<1>23. GoneNoticed'
  <2> SUFFICES ASSUME NEW r \in registered, content[r.file] = "absent", r.file \notin missed,
                      LineOf(r) \in Mounted
               PROVE  \E k \in 1..Len(events) : About(events[k], r.file, {"written", "gone"})'
    BY <1>1, <1>3 DEF GoneNoticed
  <2>1. handle'[DeviceOf[r.file]] = handle[DeviceOf[r.file]]
    BY <1>18, <1>20
  <2>2. \E k \in 1..Len(events) : About(events[k], r.file, {"written", "gone"})
    <3>1. 1..Len(change) = {}
      BY <1>1
    <3> QED BY <1>18, <3>1 DEF TidyInv, GoneNoticed
  <2> QED BY <1>1, <2>1, <2>2 DEF About
<1>24. WholeNoticed'
  <2> SUFFICES ASSUME NEW f \in File, NEW x \in Mounted, content[f] = "whole", f \notin missed,
                      x.device = DeviceOf[f]
               PROVE  \/ EventsGive(f, Len(events))'
                      \/ /\ \A k \in 1..Len(events) : ~About(events[k], f, {"written", "gone"})'
                         /\ ChangesGive(change', f) \/ IsRegistered(f)
    BY <1>1, <1>3, <1>22 DEF WholeNoticed, Stays, IsRegistered
  <2>1. CASE x \in Known
    <3>1. handle'[DeviceOf[f]] = handle[DeviceOf[f]]
      BY <1>20, <2>1
    <3>2. ~ChangesGive(change, f)
      BY <1>1 DEF ChangesGive
    <3>3. \/ EventsGive(f, Len(events))
          \/ /\ \A k \in 1..Len(events) : ~About(events[k], f, {"written", "gone"})
             /\ Stays(f)
      BY <2>1, <3>2 DEF TidyInv, WholeNoticed
    <3> QED BY <1>1, <3>1, <3>3 DEF EventsGive, About, Stays
  <2>2. CASE x \notin Known
    <3>1. handle'[DeviceOf[f]] >= next_handle \/ handle'[DeviceOf[f]] = 0
      BY <1>21, <2>2
    <3>2. \A k \in 1..Len(events) : events[k].handle # handle'[DeviceOf[f]]
      BY <1>4, <1>10, <3>1
    <3>3. \A k \in 1..Len(events) : ~About(events[k], f, {"written", "gone"})'
      BY <1>1, <3>2 DEF About
    <3>4. PICK k \in 1..Len(change') : change'[k] = Added(x)
      BY <1>5, <2>2
    <3>5. Gives(change'[k], f)
      BY <1>13, <1>14, <3>4 DEF Gives
    <3>6. \A j \in k + 1..Len(change') : j \in 1..Len(change')
      BY <3>4
    <3>7. ChangesGive(change', f)
      BY <1>22, <3>5, <3>6 DEF ChangesGive
    <3> QED BY <3>3, <3>7
  <2> QED BY <2>1, <2>2
<1> QED BY <1>8, <1>9, <1>12, <1>17, <1>19, <1>23, <1>24, <1>25 DEF TidyInv

\* mountwatch_inotify_handle turns events into changes.
LEMMA TidyRead ==
  ASSUME TypeOK, TidyInv, mountwatch_inotify_handle
  PROVE  TidyInv'
<1>1. /\ events' = << >> /\ change' = change \o EventChanges
      /\ UNCHANGED <<table, content, handle, next_handle, entry, ientry, registered>>
      /\ UNCHANGED <<unwatched, missed>>
  BY DEF mountwatch_inotify_handle, watch, history
<1>2. UNCHANGED <<Mounted, Known>>
  BY <1>1 DEF Mounted, Known
<1>3. OneByOne' /\ HandlesRight' /\ RefusedRight'
  BY <1>1, <1>2 DEF TidyInv, OneByOne, Separate, HandlesRight, HandlesOf, RefusedRight
<1>4. Len(events') = 0 /\ 1..0 = {}
  BY <1>1
<1>5. EventsRight'
  BY <1>4 DEF EventsRight
<1> DEFINE S == MountChange \cup FileChange
           b == EventChanges
<1>6. change \in Seq(S) /\ b \in Seq(S)
  <2>1. b \in Seq(FileChange) /\ FileChange \subseteq S
    BY ChangesSteps
  <2> QED BY <2>1, SeqMonotonic DEF TypeOK
<1>7. /\ \A i \in 1..Len(change) : i \in 1..Len(change') /\ change'[i] = change[i]
      /\ \A i \in 1..Len(b) : Len(change) + i \in 1..Len(change') /\ change'[Len(change) + i] = b[i]
      /\ \A i \in 1..Len(change') : \/ i \in 1..Len(change) /\ change'[i] = change[i]
                                    \/ \E j \in 1..Len(b) : change'[i] = b[j]
  <2> HIDE DEF S, b
  <2>1. change' = change \o b
    BY <1>1 DEF b
  <2>2. Joins(change', change, b)
    BY <1>6, <2>1, Joined
  <2> QED BY <2>2 DEF Joins
<1>8. /\ \A i \in 1..Len(b) : \E k \in 1..Len(events) : \E a \in 1..Len(ChangesOf(events[k])) :
           b[i] = ChangesOf(events[k])[a]
      /\ \A k \in 1..Len(events) : \A a \in 1..Len(ChangesOf(events[k])) :
           \E i \in 1..Len(b) : b[i] = ChangesOf(events[k])[a]
  BY ReadEvents
<1> HIDE DEF S, b
<1>9. ASSUME NEW i \in 1..Len(b)
      PROVE  /\ b[i].tag \in {"PKG_ADDED", "PKG_REMOVED"}
             /\ LineOf(b[i]) \in Known
             /\ b[i].device = DeviceOf[b[i].file]
  <2>1. PICK k \in 1..Len(events) :
          \E a \in 1..Len(ChangesOf(events[k])) : b[i] = ChangesOf(events[k])[a]
    BY <1>8
  <2>2. PICK a \in 1..Len(ChangesOf(events[k])) : b[i] = ChangesOf(events[k])[a]
    BY <2>1
  <2> DEFINE c == ChangesOf(events[k])[a]
  <2>3. c.tag \in {"PKG_ADDED", "PKG_REMOVED"} /\ c.device = DeviceOf[c.file] /\ LineOf(c) \in Known
    BY ChangesOfRight DEF TidyInv
  <2> QED BY <2>2, <2>3
<1>10. ChangesRight'
  <2> SUFFICES ASSUME NEW i \in 1..Len(change')
               PROVE  /\ change'[i].tag # "CHANGED"
                      /\ change'[i].tag = "REMOVED" => \A x \in Known : x.device # change'[i].device
                      /\ change'[i].tag # "REMOVED" => LineOf(change'[i]) \in Known
                      /\ change'[i].tag \in {"PKG_ADDED", "PKG_REMOVED"} =>
                           change'[i].device = DeviceOf[change'[i].file]
    BY <1>2 DEF ChangesRight
  <2>1. CASE i \in 1..Len(change) /\ change'[i] = change[i]
    BY <2>1 DEF TidyInv, ChangesRight
  <2>2. CASE \E j \in 1..Len(b) : change'[i] = b[j]
    BY <1>9, <2>2
  <2> QED BY <1>7, <2>1, <2>2
<1>11. RegisteredRight'
  BY <1>1, <1>2, <1>7 DEF TidyInv, RegisteredRight
<1>12. ASSUME NEW f \in File, NEW x \in Known, x \in Mounted, x.device = DeviceOf[f], NEW k \in 1..Len(events)
       PROVE  /\ \A a \in 1..Len(ChangesOf(events[k])) :
                   Takes(ChangesOf(events[k])[a], f) => About(events[k], f, {"written", "gone"})
              /\ About(events[k], f, {"written", "gone"}) =>
                   \E i \in 1..Len(b) : Takes(b[i], f)
  <2> DEFINE s == ChangesOf(events[k])
  <2>1. /\ \A a \in 1..Len(s) : Takes(s[a], f) => About(events[k], f, {"written", "gone"})
        /\ About(events[k], f, {"written", "gone"}) => Len(s) # 0 /\ Takes(s[1], f)
    BY <1>12, AboutFile DEF TidyInv
  <2>2. Len(s) \in Nat
    <3>1. events[k] \in Event
      BY DEF TypeOK
    <3>2. s \in Seq(FileChange)
      BY <3>1, ChangesOfEvent
    <3> QED BY <3>2
  <2>3. ASSUME About(events[k], f, {"written", "gone"}) PROVE \E i \in 1..Len(b) : Takes(b[i], f)
    <3>1. 1 \in 1..Len(s) /\ Takes(s[1], f)
      BY <2>1, <2>2, <2>3
    <3>2. PICK i \in 1..Len(b) : b[i] = s[1]
      BY <1>8, <3>1
    <3> QED BY <3>1, <3>2
  <2> QED BY <2>1, <2>3
<1>13. GoneNoticed'
  <2> SUFFICES ASSUME NEW r \in registered, content[r.file] = "absent", r.file \notin missed,
                      LineOf(r) \in Known, LineOf(r) \in Mounted
               PROVE  \E k \in 1..Len(change') : Takes(change'[k], r.file)
    BY <1>1, <1>2 DEF GoneNoticed
  <2>1. r.file \in File /\ LineOf(r).device = DeviceOf[r.file]
    BY DEF TypeOK, TidyInv, RegisteredRight, LineOf
  <2>2. CASE \E k \in 1..Len(events) : About(events[k], r.file, {"written", "gone"})
    <3>1. PICK i \in 1..Len(b) : Takes(b[i], r.file)
      BY <1>12, <2>1, <2>2
    <3> QED BY <1>7, <3>1
  <2>3. CASE \E k \in 1..Len(change) : Takes(change[k], r.file)
    BY <1>7, <2>3
  <2> QED BY <2>2, <2>3 DEF TidyInv, GoneNoticed
<1>14. WholeNoticed'
  <2> SUFFICES ASSUME NEW f \in File, NEW x \in Known, content[f] = "whole", f \notin missed,
                      x \in Mounted, x.device = DeviceOf[f]
               PROVE  ChangesGive(change', f) \/ Stays(f)'
    BY <1>1, <1>2, <1>4 DEF WholeNoticed
  <2>1. CASE EventsGive(f, Len(events))
    <3>1. ChangesGive(b, f)
      BY <2>1, ReadGives DEF TidyInv, b
    <3>2. PICK k \in 1..Len(b) : Gives(b[k], f) /\ \A j \in k + 1..Len(b) : ~Takes(b[j], f)
      BY <3>1 DEF ChangesGive
    <3>3. /\ Len(change) \in Nat /\ Len(b) \in Nat /\ Len(change') = Len(change) + Len(b)
      <4>1. change' = change \o b
        BY <1>1 DEF b
      <4> QED BY <1>6, <4>1
    <3>4. Len(change) + k \in 1..Len(change') /\ Gives(change'[Len(change) + k], f)
      BY <1>7, <3>2
    <3>5. ASSUME NEW j \in (Len(change) + k) + 1..Len(change') PROVE ~Takes(change'[j], f)
      <4>1. j - Len(change) \in k + 1..Len(b) /\ j - Len(change) \in 1..Len(b) /\ Len(change) + (j - Len(change)) = j
        BY <3>2, <3>3
      <4>2. change'[Len(change) + (j - Len(change))] = b[j - Len(change)]
        BY <1>7, <4>1
      <4> QED BY <3>2, <4>1, <4>2
    <3> QED BY <3>4, <3>5 DEF ChangesGive
  <2>2. CASE /\ \A k \in 1..Len(events) : ~About(events[k], f, {"written", "gone"})
             /\ ChangesGive(change, f) \/ Stays(f)
    <3>1. ASSUME NEW i \in 1..Len(b) PROVE ~Takes(b[i], f)
      <4>1. PICK k \in 1..Len(events) :
              \E a \in 1..Len(ChangesOf(events[k])) : b[i] = ChangesOf(events[k])[a]
        BY <1>8
      <4> QED BY <1>12, <2>2, <4>1
    <3>2. CASE ChangesGive(change, f)
      <4>1. change' = change \o b
        BY <1>1 DEF b
      <4> QED BY <1>6, <3>1, <3>2, <4>1, StillGives
    <3>3. CASE Stays(f)
      BY <1>1, <1>7, <3>1, <3>3 DEF Stays, IsRegistered
    <3> QED BY <2>2, <3>2, <3>3
  <2> QED BY <2>1, <2>2 DEF TidyInv, WholeNoticed
<1> QED BY <1>3, <1>5, <1>10, <1>11, <1>13, <1>14 DEF TidyInv

\* Applying a change: what it gives is there afterwards.
LEMMA TidyApply ==
  ASSUME TypeOK, TidyInv, ApplyNext, change # << >>
  PROVE  TidyInv'
<1> DEFINE c == Head(change)
<1>0. PICK opened \in SUBSET Offered(c) :
        /\ registered' = Applied(c, opened)
        /\ missed' = missed \cup (Offered(c) \ opened)
  BY ApplyNextEffect
<1>1. /\ change' = Tail(change)
      /\ UNCHANGED <<table, content, handle, next_handle, events, entry, ientry, unwatched>>
  BY DEF ApplyNext, kernel, watch
<1>2. UNCHANGED <<Mounted, Known>>
  BY <1>1 DEF Mounted, Known
<1>3. OneByOne' /\ HandlesRight' /\ RefusedRight' /\ EventsRight'
  <2>1. OneByOne' /\ HandlesRight' /\ RefusedRight'
    BY <1>1, <1>2 DEF TidyInv, OneByOne, Separate, HandlesRight, HandlesOf, RefusedRight
  <2> QED BY <1>1, <2>1 DEF TidyInv, EventsRight
<1>4. /\ Len(change) \in Nat /\ 1 \in 1..Len(change) /\ c = change[1]
      /\ c \in MountChange \cup FileChange
      /\ Len(change') = Len(change) - 1
      /\ \A k \in 1..Len(change') : change'[k] = change[k + 1]
  BY <1>1 DEF TypeOK
<1>5. c.tag \in {"ADDED", "CHANGED", "REMOVED", "PKG_ADDED", "PKG_REMOVED"} /\ c.mount \in Mount /\ c.device \in Device
  BY <1>4 DEF MountChange, FileChange
<1>6. /\ registered' \subseteq [file : File, mount : Mount, device : Device]
      /\ \A r \in registered' \ registered :
           /\ content[r.file] = "whole"
           /\ Shows(c.mount, DeviceOf[r.file])
           /\ r.mount = c.mount /\ r.device = c.device
           /\ c.tag \in {"ADDED", "PKG_ADDED"}
      /\ c.tag \in {"ADDED", "PKG_ADDED", "CHANGED"} => registered \subseteq registered'
      /\ c.tag = "REMOVED" => registered' = {r \in registered : r.device # c.device}
      /\ c.tag = "PKG_REMOVED" =>
           registered' = {r \in registered : r.file # c.file \/ r.mount # c.mount}
  <2> HIDE DEF c
  <2> QED BY <1>0, <1>4, AppliedEffect
<1> HIDE DEF c
<1>7. /\ \A k \in 1..Len(change') : k + 1 \in 1..Len(change) /\ change'[k] = change[k + 1]
      /\ \A k \in 1..Len(change) : k = 1 \/ (k - 1 \in 1..Len(change') /\ change'[k - 1] = change[k])
  <2>1. \A k \in 1..Len(change') : k + 1 \in 1..Len(change) /\ change'[k] = change[k + 1]
    BY <1>4
  <2>2. ASSUME NEW k \in 1..Len(change), k # 1
        PROVE  k - 1 \in 1..Len(change') /\ change'[k - 1] = change[k]
    <3>1. k - 1 \in 1..Len(change') /\ (k - 1) + 1 = k
      BY <1>4, <2>2
    <3>2. change'[k - 1] = change[(k - 1) + 1]
      BY <1>4, <3>1
    <3> QED BY <3>1, <3>2
  <2> QED BY <2>1, <2>2
<1>8. /\ c.tag # "CHANGED"
      /\ c.tag = "REMOVED" => \A x \in Known : x.device # c.device
      /\ c.tag # "REMOVED" => LineOf(c) \in Known
      /\ c.tag \in {"PKG_ADDED", "PKG_REMOVED"} => c.device = DeviceOf[c.file]
  BY <1>4 DEF TidyInv, ChangesRight
<1>9. \A x, y \in Known : x.device = y.device => x = y
  <2> SUFFICES ASSUME NEW x \in Known, NEW y \in Known, x.device = y.device PROVE x = y
    OBVIOUS
  <2>1. PICK i \in 1..Len(entry) : entry[i] = x
    BY InEntry DEF TypeOK
  <2>2. PICK j \in 1..Len(entry) : entry[j] = y
    BY InEntry DEF TypeOK
  <2> QED BY <2>1, <2>2 DEF TidyInv, OneByOne, Distinct
<1>10. \A x \in Mounted, y \in Known : x.mount = y.mount \/ x.device = y.device => x = y
  BY DEF TidyInv, OneByOne, Separate
<1>11. ASSUME NEW d \in Device, c.tag # "REMOVED"
       PROVE  Shows(c.mount, d) <=> LineOf(c) \in Mounted /\ d = c.device
  <2> DEFINE line == [mount |-> c.mount, device |-> d]
  <2>1. Shows(c.mount, d) <=> line \in Mounted
    BY <1>5, ShowsLine DEF TidyInv, OneByOne, TypeOK
  <2>2. line.mount = LineOf(c).mount /\ line.device = d /\ LineOf(c).device = c.device
    BY DEF LineOf
  <2>3. d = c.device => line = LineOf(c)
    BY DEF LineOf
  <2> HIDE DEF line
  <2>4. line \in Mounted => line = LineOf(c)
    BY <1>8, <1>10, <1>11, <2>2
  <2> QED BY <2>1, <2>2, <2>3, <2>4
<1>12. ChangesRight'
  BY <1>2, <1>7 DEF TidyInv, ChangesRight
<1>13. \A r \in registered' : r.file \in File /\ DeviceOf[r.file] \in Device
  BY <1>6, MountWatchAssumption
<1>14. \A r \in registered :
         /\ r.device = DeviceOf[r.file]
         /\ \/ LineOf(r) \in Known
            \/ \E k \in 1..Len(change) : change[k].tag = "REMOVED" /\ change[k].device = r.device
  BY DEF TidyInv, RegisteredRight
<1>15. ASSUME NEW r \in registered', r \notin registered
       PROVE  /\ r.device = DeviceOf[r.file] /\ LineOf(r) \in Known /\ content[r.file] = "whole"
  <2>1. /\ content[r.file] = "whole" /\ Shows(c.mount, DeviceOf[r.file])
        /\ r.mount = c.mount /\ r.device = c.device /\ c.tag \in {"ADDED", "PKG_ADDED"}
    BY <1>6, <1>15
  <2>2. DeviceOf[r.file] = c.device
    BY <1>11, <1>13, <2>1
  <2>3. LineOf(r) = LineOf(c)
    BY <2>1 DEF LineOf
  <2> QED BY <1>8, <2>1, <2>2, <2>3
<1>16. RegisteredRight'
  <2> SUFFICES ASSUME NEW r \in registered'
               PROVE  /\ r.device = DeviceOf[r.file]
                      /\ \/ LineOf(r) \in Known
                         \/ \E k \in 1..Len(change') : change'[k].tag = "REMOVED" /\ change'[k].device = r.device
    BY <1>2 DEF RegisteredRight
  <2>1. CASE r \notin registered
    BY <1>15, <2>1
  <2>2. CASE r \in registered
    <3>1. CASE LineOf(r) \in Known
      BY <1>14, <2>2, <3>1
    <3>2. CASE \E k \in 1..Len(change) : change[k].tag = "REMOVED" /\ change[k].device = r.device
      <4>1. PICK k \in 1..Len(change) : change[k].tag = "REMOVED" /\ change[k].device = r.device
        BY <3>2
      <4>2. k # 1
        <5>1. ASSUME k = 1 PROVE FALSE
          <6>1. c.tag = "REMOVED" /\ c.device = r.device
            BY <1>4, <4>1, <5>1
          <6> QED BY <1>6, <6>1
        <5> QED BY <5>1
      <4> QED BY <1>7, <1>14, <2>2, <4>1, <4>2
    <3> QED BY <1>14, <2>2, <3>1, <3>2
  <2> QED BY <2>1, <2>2
<1>17. GoneNoticed'
  <2> SUFFICES ASSUME NEW r \in registered', content[r.file] = "absent", r.file \notin missed',
                      LineOf(r) \in Known, LineOf(r) \in Mounted
               PROVE  \/ \E k \in 1..Len(events) : About(events[k], r.file, {"written", "gone"})
                      \/ \E k \in 1..Len(change') : Takes(change'[k], r.file)
    BY <1>1, <1>2 DEF GoneNoticed, About
  <2>1. r \in registered /\ r.file \notin missed
    BY <1>0, <1>15
  <2>2. CASE \E k \in 1..Len(change) : Takes(change[k], r.file)
    <3>1. PICK k \in 1..Len(change) : Takes(change[k], r.file)
      BY <2>2
    <3>2. k # 1
      <4>1. ASSUME k = 1 PROVE FALSE
        <5>1. c.tag = "PKG_REMOVED" /\ c.file = r.file
          BY <1>4, <3>1, <4>1 DEF Takes
        <5>2. LineOf(c).device = LineOf(r).device
          BY <1>8, <1>14, <2>1, <5>1 DEF LineOf
        <5>3. LineOf(c) = LineOf(r)
          BY <1>8, <1>9, <5>1, <5>2
        <5>4. c.mount = r.mount
          BY <5>3 DEF LineOf
        <5> QED BY <1>6, <5>1, <5>4
      <4> QED BY <4>1
    <3> QED BY <1>7, <3>1, <3>2
  <2> QED BY <2>1, <2>2 DEF TidyInv, GoneNoticed
<1>18. ASSUME NEW f \in File, NEW x \in Known, content[f] = "whole", f \notin missed',
              x \in Mounted, x.device = DeviceOf[f],
              ChangesGive(change, f) \/ Stays(f)
       PROVE  ChangesGive(change', f) \/ (IsRegistered(f)' /\ \A k \in 1..Len(change') : ~Takes(change'[k], f))
  <2>1. CASE ChangesGive(change, f)
    <3>1. PICK k \in 1..Len(change) : Gives(change[k], f) /\ \A j \in k + 1..Len(change) : ~Takes(change[j], f)
      BY <2>1 DEF ChangesGive
    <3>2. \A j \in 1..Len(change') : j + 1 > k => ~Takes(change'[j], f)
      <4> SUFFICES ASSUME NEW j \in 1..Len(change'), j + 1 > k PROVE ~Takes(change'[j], f)
        OBVIOUS
      <4>1. j + 1 \in k + 1..Len(change)
        BY <1>4, <1>7
      <4> QED BY <1>7, <3>1, <4>1
    <3>3. CASE k # 1
      <4>1. k - 1 \in 1..Len(change') /\ Gives(change'[k - 1], f)
        BY <1>7, <3>1, <3>3
      <4>2. \A j \in (k - 1) + 1..Len(change') : j \in 1..Len(change') /\ j + 1 > k
        OBVIOUS
      <4> QED BY <3>2, <4>1, <4>2 DEF ChangesGive
    <3>4. CASE k = 1
      <4>1. Gives(c, f) /\ c.tag \in {"ADDED", "PKG_ADDED"} /\ c.device = DeviceOf[f]
        BY <1>4, <1>8, <3>1, <3>4 DEF Gives
      <4>2. LineOf(c) = x
        <5>1. LineOf(c).device = x.device
          BY <1>18, <4>1 DEF LineOf
        <5> QED BY <1>8, <1>9, <4>1, <5>1
      <4>3. Shows(c.mount, DeviceOf[f])
        BY <1>11, <1>18, <4>1, <4>2, <1>5
      <4>4. IsRegistered(f)'
        <5>1. CASE IsRegistered(f)
          <6>1. registered \subseteq registered'
            BY <1>6, <4>1
          <6> QED BY <5>1, <6>1 DEF IsRegistered
        <5>2. CASE ~IsRegistered(f)
          <6>1. f \in New(c.mount)
            BY <1>18, <4>3, <5>2 DEF New
          <6>2. f \in Offered(c)
            BY <4>1, <6>1 DEF Offered, Gives
          <6>3. f \in opened
            BY <1>0, <1>18, <6>2
          <6> DEFINE r == [file |-> f, mount |-> c.mount, device |-> c.device]
          <6>4. r \in registered' /\ r.file = f
            BY <1>0, <6>3 DEF Applied, Entries
          <6> QED BY <6>4 DEF IsRegistered
        <5> QED BY <5>1, <5>2
      <4> QED BY <3>2, <3>4, <4>4
    <3> QED BY <3>3, <3>4
  <2>2. CASE Stays(f)
    <3>1. PICK r \in registered : r.file = f
      BY <2>2 DEF Stays, IsRegistered
    <3>2. \A k \in 1..Len(change') : ~Takes(change'[k], f)
      BY <1>7, <2>2 DEF Stays
    <3>3. ~Takes(c, f)
      BY <1>4, <2>2 DEF Stays
    <3>4. r \in registered'
      <4>1. CASE c.tag = "REMOVED"
        <5>1. r.device # c.device
          BY <1>8, <1>14, <1>18, <3>1, <4>1
        <5> QED BY <1>6, <4>1, <5>1
      <4>2. CASE c.tag = "PKG_REMOVED"
        <5>1. r.file # c.file
          BY <3>1, <3>3, <4>2 DEF Takes
        <5> QED BY <1>6, <4>2, <5>1
      <4>3. CASE c.tag \in {"ADDED", "PKG_ADDED"}
        BY <1>6, <4>3
      <4> QED BY <1>5, <1>8, <4>1, <4>2, <4>3
    <3> QED BY <3>1, <3>2, <3>4 DEF IsRegistered
  <2> QED BY <1>18, <2>1, <2>2
<1>19. WholeNoticed'
  <2> SUFFICES ASSUME NEW f \in File, NEW x \in Known, content[f] = "whole", f \notin missed',
                      x \in Mounted, x.device = DeviceOf[f]
               PROVE  \/ EventsGive(f, Len(events))
                      \/ /\ \A k \in 1..Len(events) : ~About(events[k], f, {"written", "gone"})
                         /\ \/ ChangesGive(change', f)
                            \/ IsRegistered(f)' /\ \A k \in 1..Len(change') : ~Takes(change'[k], f)
    BY <1>1, <1>2 DEF WholeNoticed, EventsGive, About, Stays
  <2>1. f \notin missed
    BY <1>0
  <2> QED BY <1>18, <2>1 DEF TidyInv, WholeNoticed
<1> QED BY <1>3, <1>12, <1>16, <1>17, <1>19 DEF TidyInv

\* The invariant holds in the beginning, ...
LEMMA InitInv == Init => Inv
<1> SUFFICES ASSUME Init PROVE TidyInv
  BY InitTyped DEF Inv
<1>1. /\ table = << >> /\ handle = [d \in Device |-> 0] /\ events = << >>
      /\ entry = << >> /\ ientry = << >> /\ change = << >> /\ registered = {}
  BY DEF Init
<1>2. Len(table) = 0 /\ Len(entry) = 0 /\ Len(ientry) = 0 /\ Len(events) = 0 /\ Len(change) = 0 /\ 1..0 = {}
  BY <1>1
<1>3. Mounted = {} /\ Known = {}
  BY <1>2 DEF Mounted, Known, ToSet
<1>4. OneByOne /\ HandlesRight /\ RefusedRight
  BY <1>1, <1>2, <1>3 DEF OneByOne, Distinct, Separate, Aligned, HandlesRight, HandlesOf, RefusedRight
<1>5. EventsRight /\ ChangesRight /\ RegisteredRight /\ GoneNoticed /\ WholeNoticed
  BY <1>1, <1>2, <1>3 DEF EventsRight, ChangesRight, RegisteredRight, GoneNoticed, WholeNoticed
<1> QED BY <1>4, <1>5 DEF TidyInv

\* ... is kept by every step, ...
LEMMA NextInv == Inv /\ [Next]_vars => Inv'
<1> SUFFICES ASSUME Inv, [Next]_vars PROVE Inv'
  OBVIOUS
<1>1. Typed /\ TypeOK /\ Typed'
  BY NextTyped DEF Inv, Typed
<1>2. Tidy' = Tidy
  BY DEF Tidy
<1> SUFFICES ASSUME Tidy PROVE TidyInv'
  BY <1>1, <1>2 DEF Inv
<1>3. TidyInv
  BY DEF Inv
<1>4. CASE mountwatch_diff
  BY <1>1, <1>3, <1>4, TidyDiff
<1>5. CASE DirNotices
  BY <1>3, <1>5, TidySame DEF DirNotices, kernel, history
<1>6. CASE mountwatch_inotify_handle
  BY <1>1, <1>3, <1>6, TidyRead
<1>7. CASE ApplyNext
  <2>1. change # << >>
    BY <1>1, <1>7 DEF ApplyNext, Typed
  <2> QED BY <1>1, <1>3, <1>7, <2>1, TidyApply
<1>8. ASSUME NEW m \in Mount, NEW d \in Device, MountDevice(m, d) PROVE TidyInv'
  BY <1>1, <1>3, <1>8, TidyMount
<1>9. ASSUME NEW m \in Mount, Unmount(m) PROVE TidyInv'
  BY <1>1, <1>3, <1>9, TidyUnmount
<1>10. ASSUME NEW f \in File, (IsMounted(DeviceOf[f]) /\ FileOperation(f)) \/ Elsewhere(f) PROVE TidyInv'
  BY <1>1, <1>3, <1>10, TidyFile
<1>11. CASE UNCHANGED vars
  BY <1>3, <1>11, TidySame DEF vars, kernel, watch, history
<1> QED BY <1>4, <1>5, <1>6, <1>7, <1>8, <1>9, <1>10, <1>11 DEF Next, Daemon, Environment

\* ... and so holds always.
LEMMA InvAlways == Spec => []Inv
BY InitInv, NextInv, PTL DEF Spec

-----------------------------------------------------------------------------
(* What follows                                                            *)

\* mountwatch_diff finds what is new and what is gone, each once, for every
\* table of mounts: the changes it makes are the difference of two sets.
THEOREM DifferenceFound == Spec => DiffIsDifference
<1>1. Inv /\ [Next]_vars =>
        [Tidy /\ main = "wait" /\ main' # "wait" =>
           /\ ToSet(entry)' = Mounted
           /\ {<<c.mount, c.device>> : c \in {x \in ToSet(change') : x.tag = "ADDED"}}
                = {<<x.mount, x.device>> : x \in Mounted \ Known}
           /\ {c.device : c \in {x \in ToSet(change') : x.tag = "REMOVED"}}
                = {x.device : x \in Known \ Mounted}
           /\ Len(change') = Cardinality((Mounted \ Known) \cup (Known \ Mounted))]_vars
  <2> HAVE Inv /\ [Next]_vars
  <2>1. CASE Tidy /\ main = "wait" /\ main' # "wait"
    <3>1. mountwatch_diff
      <4>1. /\ ~DirNotices /\ ~mountwatch_inotify_handle /\ ~ApplyNext
            /\ \A m \in Mount, d \in Device : ~MountDevice(m, d)
            /\ \A m \in Mount : ~Unmount(m)
        BY <2>1 DEF DirNotices, mountwatch_inotify_handle, ApplyNext, MountDevice, Unmount
      <4>2. \A f \in File : ~FileOperation(f) /\ ~Elsewhere(f)
        BY <2>1, FileOperationEffect DEF Inv, Typed
      <4>3. Next
        BY <2>1 DEF vars
      <4> QED BY <4>1, <4>2, <4>3 DEF Next, Daemon, Environment
    <3>2. TypeOK /\ OneByOne /\ HandlesRight
      BY <2>1 DEF Inv, Typed, TidyInv
    <3>0. PICK refused \in SUBSET Device : Differs(Diff(refused))
      BY <3>1, <3>2, DiffEffect
    <3> DEFINE v == Diff(refused)
    <3>3. Follows(v) /\ Difference(v.change) /\ v \in Work
      BY <3>2, DiffFollows, DiffDifference, DiffType
    <3>4. entry' = v.entry /\ change' = v.change
      BY <3>0 DEF Differs
    <3> HIDE DEF v
    <3> DEFINE s == change'
    <3>5. Difference(s) /\ s \in Seq(MountChange) /\ ToSet(entry') = Mounted
      BY <3>3, <3>4 DEF Follows, Work
    <3>6. Mounted \subseteq Line /\ Known \subseteq Line
      <4>1. \A x \in Mounted : x \in Line
        BY <3>2, InTable DEF TypeOK
      <4>2. \A x \in Known : x \in Line
        BY <3>2, InEntry, SMTT(30) DEF TypeOK
      <4> QED BY <4>1, <4>2
    <3> HIDE DEF s
    <3>7. Len(s) = Cardinality((Mounted \ Known) \cup (Known \ Mounted))
      <4>1. Len(s) \in Nat
        BY <3>5
      <4> QED BY <3>5, <3>6, <4>1, DifferenceCount
    <3>8. \A x : /\ Added(x).tag = "ADDED" /\ Added(x).mount = x.mount /\ Added(x).device = x.device
                 /\ Removed(x).tag = "REMOVED" /\ Removed(x).device = x.device
      BY DEF Added, Removed
    <3>9. /\ \A c \in ToSet(s) : \/ \E x \in Mounted \ Known : c = Added(x)
                                 \/ \E x \in Known \ Mounted : c = Removed(x)
          /\ \A x \in Mounted \ Known : Added(x) \in ToSet(s)
          /\ \A x \in Known \ Mounted : Removed(x) \in ToSet(s)
      BY <3>5 DEF Difference, ToSet
    <3>10. {<<c.mount, c.device>> : c \in {x \in ToSet(s) : x.tag = "ADDED"}}
             = {<<x.mount, x.device>> : x \in Mounted \ Known}
      <4>1. ASSUME NEW c \in ToSet(s), c.tag = "ADDED"
            PROVE  \E x \in Mounted \ Known : c.mount = x.mount /\ c.device = x.device
        BY <3>8, <3>9, <4>1
      <4>2. ASSUME NEW x \in Mounted \ Known
            PROVE  \E c \in ToSet(s) : c.tag = "ADDED" /\ c.mount = x.mount /\ c.device = x.device
        BY <3>8, <3>9
      <4> QED BY <4>1, <4>2
    <3>11. {c.device : c \in {x \in ToSet(s) : x.tag = "REMOVED"}} = {x.device : x \in Known \ Mounted}
      <4>1. ASSUME NEW c \in ToSet(s), c.tag = "REMOVED"
            PROVE  \E x \in Known \ Mounted : c.device = x.device
        BY <3>8, <3>9, <4>1
      <4>2. ASSUME NEW x \in Known \ Mounted
            PROVE  \E c \in ToSet(s) : c.tag = "REMOVED" /\ c.device = x.device
        BY <3>8, <3>9
      <4> QED BY <4>1, <4>2
    <3> QED BY <3>5, <3>7, <3>10, <3>11 DEF s
  <2>2. CASE ~(Tidy /\ main = "wait" /\ main' # "wait")
    BY <2>2
  <2> QED BY <2>1, <2>2
<1> QED BY <1>1, InvAlways, PTL DEF Spec, DiffIsDifference

\* Of every mount that dbpd knows there is one watch, and while it is mounted
\* that watch is the one inotify has on its directory, or inotify refused one.
THEOREM WatchesKept == Spec => []WatchesMatch
<1>1. Inv => WatchesMatch
  <2> SUFFICES ASSUME Inv, Tidy PROVE /\ Len(ientry) = Len(entry)
                                      /\ \A e \in Known : \E x \in ToSet(ientry) :
                                           /\ x.mount = e.mount /\ x.device = e.device
                                           /\ e \in Mounted =>
                                                /\ handle[e.device] = x.handle
                                                /\ x.handle = 0 => x.device \in unwatched
    BY DEF WatchesMatch
  <2>1. TypeOK /\ Aligned(entry, ientry) /\ HandlesRight /\ RefusedRight
    BY DEF Inv, Typed, TidyInv, OneByOne
  <2>2. Len(ientry) = Len(entry)
    BY <2>1 DEF Aligned
  <2>3. ASSUME NEW e \in Known
        PROVE  \E x \in ToSet(ientry) : /\ x.mount = e.mount /\ x.device = e.device
                                        /\ e \in Mounted =>
                                             /\ handle[e.device] = x.handle
                                             /\ x.handle = 0 => x.device \in unwatched
    <3>1. PICK i \in 1..Len(entry) : entry[i] = e
      BY <2>1, InEntry DEF TypeOK
    <3>2. ientry[i] \in ToSet(ientry)
      BY <2>2 DEF ToSet
    <3>3. ientry[i].mount = e.mount /\ ientry[i].device = e.device
      BY <2>1, <3>1 DEF Aligned
    <3>4. e \in Mounted => handle[e.device] = ientry[i].handle
      BY <2>1, <3>1 DEF HandlesRight, HandlesOf
    <3>5. e \in Mounted /\ ientry[i].handle = 0 => ientry[i].device \in unwatched
      BY <2>1, <3>1, <3>3 DEF RefusedRight
    <3> QED BY <3>2, <3>3, <3>4, <3>5
  <2> QED BY <2>2, <2>3
<1> QED BY <1>1, InvAlways, PTL

\* Once dbpd has dealt with all there was, the packages registered are those on
\* the devices that are mounted, however mounts, writes and dbpd's own steps
\* came between each other, but for those it missed.
THEOREM InStepAtRest == Spec => []InStep
<1>1. Inv => InStep
  <2> SUFFICES ASSUME Inv, Tidy, Quiet PROVE AllRegistered /\ NoneStale
    BY DEF InStep
  <2>1. TypeOK /\ TidyInv
    BY DEF Inv, Typed
  <2>2. events = << >> /\ change = << >> /\ Known = Mounted
    BY <2>1 DEF Quiet, TypeOK
  <2>3. 1..Len(events) = {} /\ 1..Len(change) = {}
    BY <2>2
  <2>4. \A m \in Mount, d \in Device : Shows(m, d) <=> [mount |-> m, device |-> d] \in Mounted
    BY <2>1, ShowsLine DEF TypeOK, TidyInv, OneByOne
  <2>5. AllRegistered
    <3> SUFFICES ASSUME NEW f \in File \ missed, content[f] = "whole", NEW m \in Mount, Shows(m, DeviceOf[f])
                 PROVE  IsRegistered(f)
      BY DEF AllRegistered
    <3> DEFINE x == [mount |-> m, device |-> DeviceOf[f]]
    <3>1. x \in Mounted /\ x \in Known /\ x.device = DeviceOf[f]
      BY <2>2, <2>4, MountWatchAssumption
    <3> HIDE DEF x
    <3>2. ~EventsGive(f, Len(events)) /\ ~ChangesGive(change, f)
      BY <2>3 DEF EventsGive, ChangesGive
    <3> QED BY <2>1, <3>1, <3>2 DEF TidyInv, WholeNoticed, Stays
  <2>6. NoneStale
    <3> SUFFICES ASSUME NEW r \in registered
                 PROVE  /\ r.file \notin missed => content[r.file] # "absent"
                        /\ r.device = DeviceOf[r.file] /\ Shows(r.mount, r.device)
      BY DEF NoneStale
    <3>1. r.device = DeviceOf[r.file] /\ LineOf(r) \in Mounted
      BY <2>1, <2>2, <2>3 DEF TidyInv, RegisteredRight
    <3>2. r.file \notin missed => content[r.file] # "absent"
      BY <2>1, <2>2, <2>3, <3>1 DEF TidyInv, GoneNoticed
    <3>3. r.mount \in Mount /\ r.device \in Device
      BY <2>1 DEF TypeOK
    <3>4. Shows(r.mount, r.device)
      BY <2>4, <3>1, <3>3 DEF LineOf
    <3> QED BY <3>1, <3>2, <3>4
  <2> QED BY <2>5, <2>6
<1> QED BY <1>1, InvAlways, PTL
=============================================================================
