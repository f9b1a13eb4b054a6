----------------------- MODULE SessionMembership_proofs -----------------------
(***************************************************************************)
(* What an edit and a rebinding leave in the list of a session, for lists  *)
(* of any length.  Each list is computed by one pass over the list that    *)
(* was read; the pass is shown to go through one list after the other      *)
(* (Pass), and what holds of the empty list and survives each of its steps *)
(* holds of the last one (Upward).                                         *)
(***************************************************************************)
EXTENDS SessionMembership, SequenceTheorems, WellFoundedInduction, TLAPS

\* A set of numbers that holds 0, and each number that follows one it holds.
LEMMA Upward ==
    ASSUME NEW n \in Nat, NEW D, 0 \in D,
           \A k \in 1 .. n : k - 1 \in D => k \in D
    PROVE  \A k \in 0 .. n : k \in D
  <1> DEFINE S == {k \in 0 .. n : k \notin D}
             R == OpToRel(<, Nat)
  <1> SUFFICES ASSUME S # {} PROVE FALSE
    OBVIOUS
  <1>1. R = {ss \in Nat \X Nat : ss[1] < ss[2]}
    BY DEF OpToRel
  <1>2. IsWellFoundedOn(R, Nat)
    BY NatLessThanWellFounded
  <1>3. \A x, y \in Nat : <<y, x>> \in R <=> y < x
    BY <1>1
  <1>4. \A k \in S : k \in 0 .. n /\ k \in Nat /\ k \notin D
    OBVIOUS
  <1>5. \A k \in 0 .. n : k \notin S => k \in D
    OBVIOUS
  <1> HIDE DEF R, S
  <1>6. S \subseteq Nat
    BY <1>4
  <1>7. PICK k \in S : \A y \in S : ~(<<y, k>> \in R)
    BY <1>2, <1>6, WFMin
  <1>8. k \in 1 .. n /\ k - 1 \in 0 .. n /\ k - 1 < k
    BY <1>4
  <1>9. k - 1 \notin S
    BY <1>3, <1>6, <1>7, <1>8
  <1> QED
    BY <1>4, <1>5, <1>8, <1>9

\* The greatest of the first numbers.
LEMMA MaxIs ==
    ASSUME NEW k \in Nat, NEW s \in SUBSET (1 .. k), k \in s
    PROVE  Max(s) = k
  <1>1. \A y \in s : k >= y
    OBVIOUS
  <1>2. \A x \in s : (\A y \in s : x >= y) => x = k
    BY <1>1
  <1>3. \A x \in s : x = k => \A y \in s : x >= y
    BY <1>1
  <1> QED
    BY <1>2, <1>3 DEF Max

LEMMA MaxFirst ==
    ASSUME NEW k \in Nat, k # 0
    PROVE  Max(1 .. k) = k /\ (1 .. k) \ {k} = 1 .. (k - 1)
  <1>1. k \in 1 .. k
    OBVIOUS
  <1> QED
    BY <1>1, MaxIs

Holds(list, run) == \E i \in DOMAIN list : list[i] = run

\* A run added at the end.
LEMMA Added ==
    ASSUME NEW list \in Seq(Runs), NEW run \in Runs
    PROVE  /\ Append(list, run) \in Seq(Runs)
           /\ \A r : Holds(Append(list, run), r) <=> Holds(list, r) \/ r = run
           /\ IsInjective(list) /\ ~Holds(list, run) => IsInjective(Append(list, run))
           /\ \A i, j \in DOMAIN Append(list, run) : i < j =>
                 /\ i \in DOMAIN list /\ Append(list, run)[i] = list[i]
                 /\ \/ j \in DOMAIN list /\ Append(list, run)[j] = list[j]
                    \/ Append(list, run)[j] = run
  <1> DEFINE more == Append(list, run)
  <1>1. Len(list) \in Nat /\ DOMAIN list = 1 .. Len(list)
    BY LenProperties
  <1>2. /\ more \in Seq(Runs) /\ DOMAIN more = 1 .. (Len(list) + 1)
        /\ more[Len(list) + 1] = run
        /\ \A i \in 1 .. Len(list) : more[i] = list[i]
    BY <1>1, AppendProperties, LenProperties
  <1> HIDE DEF more
  <1>3. \A i \in DOMAIN more : i \in DOMAIN list \/ i = Len(list) + 1
    BY <1>1, <1>2
  <1>4. DOMAIN list \subseteq DOMAIN more /\ Len(list) + 1 \in DOMAIN more
    BY <1>1, <1>2
  <1>5. \A r : Holds(more, r) <=> Holds(list, r) \/ r = run
    BY <1>1, <1>2, <1>3, <1>4 DEF Holds
  <1>6. IsInjective(list) /\ ~Holds(list, run) => IsInjective(more)
    BY <1>1, <1>2, <1>3, <1>4 DEF Holds, IsInjective
  <1>7. \A i, j \in DOMAIN more : i < j =>
           /\ i \in DOMAIN list /\ more[i] = list[i]
           /\ (j \in DOMAIN list /\ more[j] = list[j]) \/ more[j] = run
    BY <1>1, <1>2
  <1> QED
    BY <1>2, <1>5, <1>6, <1>7 DEF more

-----------------------------------------------------------------------------
(***************************************************************************)
(* One pass over a list.  next(kept, r) is written out for each of the two *)
(* passes: an operator cannot be handed to a lemma.                        *)
(***************************************************************************)
\* The list without a run.
Kept(list, run) ==
    LET keep(kept, r) == IF r = run THEN kept ELSE Append(kept, r)
    IN  FoldLeft(keep, <<>>, list)

LEMMA KeptPass ==
    ASSUME NEW list \in Seq(Runs), NEW run
    PROVE  \E g : /\ g[0] = <<>>
                  /\ \A k \in 1 .. Len(list) :
                        g[k] = IF list[k] = run THEN g[k - 1]
                               ELSE Append(g[k - 1], list[k])
                  /\ Kept(list, run) = g[Len(list)]
  <1> DEFINE n == Len(list)
             next(kept, r) == IF r = run THEN kept ELSE Append(kept, r)
             Pass(k, f) == f = [s \in SUBSET (1 .. k) |->
                                   IF s = {} THEN <<>>
                                   ELSE next(f[s \ {Max(s)}], list[Max(s)])]
             D == {k \in 0 .. n : \E f : Pass(k, f)}
             iter == CHOOSE f : Pass(n, f)
  <1>0. n \in Nat /\ DOMAIN list = 1 .. n
    BY LenProperties
  <1>1. Kept(list, run) = iter[1 .. n]
    BY <1>0 DEF Kept, FoldLeft, MapThenFoldSet
  <1>2. 0 \in D
    <2>1. \A s \in SUBSET (1 .. 0) : s = {}
      OBVIOUS
    <2> DEFINE f == [s \in SUBSET (1 .. 0) |-> <<>>]
    <2>2. Pass(0, f)
      BY <2>1
    <2> HIDE DEF Pass, f
    <2>3. \E e : Pass(0, e)
      BY <2>2
    <2> QED
      BY <1>0, <2>3
  <1>3. ASSUME NEW k \in 1 .. n, k - 1 \in D
        PROVE  k \in D
    <2>1. k \in Nat /\ k \in 0 .. n /\ k - 1 \in Nat
      BY <1>0
    <2>2. PICK f : Pass(k - 1, f)
      BY <1>3
    <2> DEFINE h == [s \in SUBSET (1 .. k) |->
                        IF k \in s THEN next(f[s \ {k}], list[k]) ELSE f[s]]
    <2>3. \A s \in SUBSET (1 .. k) : k \notin s => s \in SUBSET (1 .. (k - 1))
      BY <2>1
    <2>4. ASSUME NEW s \in SUBSET (1 .. k)
          PROVE  h[s] = IF s = {} THEN <<>> ELSE next(h[s \ {Max(s)}], list[Max(s)])
      <3>1. CASE k \in s
        <4>1. Max(s) = k
          BY <2>1, <3>1, MaxIs
        <4>2. h[s \ {k}] = f[s \ {k}]
          OBVIOUS
        <4>3. h[s] = next(f[s \ {k}], list[k])
          BY <3>1
        <4> QED
          BY <3>1, <4>1, <4>2, <4>3
      <3>2. CASE k \notin s
        <4>1. s \in SUBSET (1 .. (k - 1))
          BY <2>3, <3>2
        <4>2. h[s] = f[s]
          BY <3>2
        <4>3. h[s \ {Max(s)}] = f[s \ {Max(s)}]
          BY <3>2
        <4>4. f[s] = IF s = {} THEN <<>> ELSE next(f[s \ {Max(s)}], list[Max(s)])
          BY <2>2, <4>1
        <4> QED
          BY <4>2, <4>3, <4>4
      <3> QED
        BY <3>1, <3>2
    <2>5. Pass(k, h)
      <3>1. h = [s \in SUBSET (1 .. k) |-> h[s]]
        OBVIOUS
      <3> QED
        BY <2>4, <3>1
    <2> QED
      BY <2>1, <2>5
  <1>4. Pass(n, iter)
    <2>1. n \in 0 .. n
      BY <1>0
    <2> HIDE DEF D
    <2>2. n \in D
      BY <1>0, <1>2, <1>3, <2>1, Upward
    <2> QED
      BY <2>2 DEF D
  <1> DEFINE g == [k \in 0 .. n |-> iter[1 .. k]]
  <1>5. g[0] = <<>>
    <2>1. 1 .. 0 = {}
      OBVIOUS
    <2>2. g[0] = iter[{}] /\ {} \in SUBSET (1 .. n)
      BY <1>0, <2>1
    <2> HIDE DEF iter
    <2> QED
      BY <1>4, <2>2
  <1>6. ASSUME NEW k \in 1 .. n
        PROVE  g[k] = next(g[k - 1], list[k])
    <2>1. /\ k \in Nat /\ k # 0 /\ k \in 0 .. n /\ k - 1 \in 0 .. n
          /\ k \in 1 .. k /\ 1 .. k \in SUBSET (1 .. n)
      BY <1>0
    <2>2. Max(1 .. k) = k /\ (1 .. k) \ {k} = 1 .. (k - 1)
      BY <2>1, MaxFirst
    <2> HIDE DEF iter
    <2>3. iter[1 .. k] = next(iter[1 .. (k - 1)], list[k])
      BY <1>4, <2>1, <2>2
    <2> QED
      BY <2>1, <2>3
  <1>7. Kept(list, run) = g[n]
    BY <1>0, <1>1
  <1> HIDE DEF g
  <1> QED
    BY <1>5, <1>6, <1>7
\* The list with its aliases resolved.
Resolved(list, aliases, owner) ==
    LET resolved(run) == IF run \in aliases THEN owner ELSE run
        add(kept, run) == IF Contains(kept, resolved(run)) THEN kept
                          ELSE Append(kept, resolved(run))
    IN  FoldLeft(add, <<>>, list)

Name(run, aliases, owner) == IF run \in aliases THEN owner ELSE run

\* A step of the pass.
Following(kept, run, aliases, owner) ==
    IF Contains(kept, Name(run, aliases, owner)) THEN kept
    ELSE Append(kept, Name(run, aliases, owner))

LEMMA ResolvedPass ==
    ASSUME NEW list \in Seq(Runs), NEW aliases, NEW owner
    PROVE  \E g : /\ g[0] = <<>>
                  /\ \A k \in 1 .. Len(list) :
                        g[k] = Following(g[k - 1], list[k], aliases, owner)
                  /\ Resolved(list, aliases, owner) = g[Len(list)]
  <1> DEFINE n == Len(list)
             next(kept, r) == Following(kept, r, aliases, owner)
             Pass(k, f) == f = [s \in SUBSET (1 .. k) |->
                                   IF s = {} THEN <<>>
                                   ELSE next(f[s \ {Max(s)}], list[Max(s)])]
             D == {k \in 0 .. n : \E f : Pass(k, f)}
             iter == CHOOSE f : Pass(n, f)
  <1>0. n \in Nat /\ DOMAIN list = 1 .. n
    BY LenProperties
  <1>1. Resolved(list, aliases, owner) = iter[1 .. n]
    BY <1>0 DEF Resolved, Following, Name, FoldLeft, MapThenFoldSet
  <1>2. 0 \in D
    <2>1. \A s \in SUBSET (1 .. 0) : s = {}
      OBVIOUS
    <2> DEFINE f == [s \in SUBSET (1 .. 0) |-> <<>>]
    <2>2. Pass(0, f)
      BY <2>1
    <2> HIDE DEF Pass, f
    <2>3. \E e : Pass(0, e)
      BY <2>2
    <2> QED
      BY <1>0, <2>3
  <1>3. ASSUME NEW k \in 1 .. n, k - 1 \in D
        PROVE  k \in D
    <2>1. k \in Nat /\ k \in 0 .. n /\ k - 1 \in Nat
      BY <1>0
    <2>2. PICK f : Pass(k - 1, f)
      BY <1>3
    <2> DEFINE h == [s \in SUBSET (1 .. k) |->
                        IF k \in s THEN next(f[s \ {k}], list[k]) ELSE f[s]]
    <2>3. \A s \in SUBSET (1 .. k) : k \notin s => s \in SUBSET (1 .. (k - 1))
      BY <2>1
    <2>4. ASSUME NEW s \in SUBSET (1 .. k)
          PROVE  h[s] = IF s = {} THEN <<>> ELSE next(h[s \ {Max(s)}], list[Max(s)])
      <3>1. CASE k \in s
        <4>1. Max(s) = k
          BY <2>1, <3>1, MaxIs
        <4>2. h[s \ {k}] = f[s \ {k}]
          OBVIOUS
        <4>3. h[s] = next(f[s \ {k}], list[k])
          BY <3>1
        <4> QED
          BY <3>1, <4>1, <4>2, <4>3
      <3>2. CASE k \notin s
        <4>1. s \in SUBSET (1 .. (k - 1))
          BY <2>3, <3>2
        <4>2. h[s] = f[s]
          BY <3>2
        <4>3. h[s \ {Max(s)}] = f[s \ {Max(s)}]
          BY <3>2
        <4>4. f[s] = IF s = {} THEN <<>> ELSE next(f[s \ {Max(s)}], list[Max(s)])
          BY <2>2, <4>1
        <4> QED
          BY <4>2, <4>3, <4>4
      <3> QED
        BY <3>1, <3>2
    <2>5. Pass(k, h)
      <3>1. h = [s \in SUBSET (1 .. k) |-> h[s]]
        OBVIOUS
      <3> QED
        BY <2>4, <3>1
    <2> QED
      BY <2>1, <2>5
  <1>4. Pass(n, iter)
    <2>1. n \in 0 .. n
      BY <1>0
    <2> HIDE DEF D
    <2>2. n \in D
      BY <1>0, <1>2, <1>3, <2>1, Upward
    <2> QED
      BY <2>2 DEF D
  <1> DEFINE g == [k \in 0 .. n |-> iter[1 .. k]]
  <1>5. g[0] = <<>>
    <2>1. 1 .. 0 = {}
      OBVIOUS
    <2>2. g[0] = iter[{}] /\ {} \in SUBSET (1 .. n)
      BY <1>0, <2>1
    <2> HIDE DEF iter
    <2> QED
      BY <1>4, <2>2
  <1>6. ASSUME NEW k \in 1 .. n
        PROVE  g[k] = next(g[k - 1], list[k])
    <2>1. /\ k \in Nat /\ k # 0 /\ k \in 0 .. n /\ k - 1 \in 0 .. n
          /\ k \in 1 .. k /\ 1 .. k \in SUBSET (1 .. n)
      BY <1>0
    <2>2. Max(1 .. k) = k /\ (1 .. k) \ {k} = 1 .. (k - 1)
      BY <2>1, MaxFirst
    <2> HIDE DEF iter
    <2>3. iter[1 .. k] = next(iter[1 .. (k - 1)], list[k])
      BY <1>4, <2>1, <2>2
    <2> QED
      BY <2>1, <2>3
  <1>7. Resolved(list, aliases, owner) = g[n]
    BY <1>0, <1>1
  <1> HIDE DEF g
  <1> QED
    BY <1>5, <1>6, <1>7
-----------------------------------------------------------------------------
(***************************************************************************)
(* What a pass leaves.                                                     *)
(***************************************************************************)
\* Without a run: the other runs, each as often as before.
LEMMA KeptList ==
    ASSUME NEW list \in Seq(Runs), NEW run
    PROVE  /\ Kept(list, run) \in Seq(Runs)
           /\ \A r : Holds(Kept(list, run), r) <=> Holds(list, r) /\ r # run
           /\ IsInjective(list) => IsInjective(Kept(list, run))
  <1> DEFINE n == Len(list)
  <1>0. n \in Nat /\ DOMAIN list = 1 .. n /\ \A k \in 1 .. n : list[k] \in Runs
    BY LenProperties, ElementOfSeq
  <1>1. PICK g : /\ g[0] = <<>>
                 /\ \A k \in 1 .. n :
                       g[k] = IF list[k] = run THEN g[k - 1] ELSE Append(g[k - 1], list[k])
                 /\ Kept(list, run) = g[n]
    BY KeptPass
  <1> DEFINE Good(k) ==
               /\ g[k] \in Seq(Runs)
               /\ \A r : Holds(g[k], r) <=> r # run /\ \E i \in 1 .. k : list[i] = r
               /\ IsInjective(list) => IsInjective(g[k])
             D == {k \in 0 .. n : Good(k)}
  <1>2. 0 \in D
    <2>1. Good(0)
      BY <1>1 DEF Holds, IsInjective
    <2> QED
      BY <1>0, <2>1
  <1>3. ASSUME NEW k \in 1 .. n, k - 1 \in D
        PROVE  k \in D
    <2>1. Good(k - 1)
      BY <1>3
    <2>2. /\ k \in 0 .. n
          /\ \A i : i \in 1 .. k <=> i \in 1 .. (k - 1) \/ i = k
          /\ k \notin 1 .. (k - 1) /\ 1 .. k \subseteq DOMAIN list
      BY <1>0
    <2>3. list[k] \in Runs
      BY <1>0
    <2>4. CASE list[k] = run
      <3>1. g[k] = g[k - 1]
        BY <1>1, <2>4
      <3>2. Good(k)
        BY <2>1, <2>2, <2>4, <3>1
      <3> QED
        BY <2>2, <3>2
    <2>5. CASE list[k] # run
      <3>1. g[k] = Append(g[k - 1], list[k])
        BY <1>1, <2>5
      <3>2. IsInjective(list) => ~Holds(g[k - 1], list[k])
        BY <2>1, <2>2 DEF IsInjective
      <3>3. /\ g[k] \in Seq(Runs)
            /\ \A r : Holds(g[k], r) <=> Holds(g[k - 1], r) \/ r = list[k]
            /\ IsInjective(g[k - 1]) /\ ~Holds(g[k - 1], list[k]) => IsInjective(g[k])
        BY <2>1, <2>3, <3>1, Added
      <3>4. \A r : Holds(g[k], r) <=> r # run /\ \E i \in 1 .. k : list[i] = r
        BY <2>1, <2>2, <2>5, <3>3
      <3>5. Good(k)
        BY <2>1, <3>2, <3>3, <3>4
      <3> QED
        BY <2>2, <3>5
    <2> QED
      BY <2>4, <2>5
  <1>4. n \in 0 .. n
    BY <1>0
  <1> HIDE DEF D
  <1>5. n \in D
    BY <1>0, <1>2, <1>3, <1>4, Upward
  <1> QED
    BY <1>0, <1>1, <1>5 DEF D, Holds

\* What is kept of the first k runs is in the order of their first mention: of two
\* names, the list mentions the one kept first before it mentions the other at all.
InOrder(kept, list, k, aliases, owner) ==
    \A m, q \in DOMAIN kept : m < q =>
       \E i \in 1 .. k :
          /\ Name(list[i], aliases, owner) = kept[m]
          /\ \A j \in 1 .. k : Name(list[j], aliases, owner) = kept[q] => i < j

\* With its aliases resolved: each name that comes of it, once and in order.
LEMMA ResolvedList ==
    ASSUME NEW list \in Seq(Runs), NEW aliases, NEW owner \in Runs
    PROVE  /\ Resolved(list, aliases, owner) \in Seq(Runs)
           /\ \A r : Holds(Resolved(list, aliases, owner), r) <=>
                        \E i \in DOMAIN list : Name(list[i], aliases, owner) = r
           /\ IsInjective(Resolved(list, aliases, owner))
           /\ InOrder(Resolved(list, aliases, owner), list, Len(list), aliases, owner)
  <1> DEFINE n == Len(list)
             name(k) == Name(list[k], aliases, owner)
  <1>0. n \in Nat /\ DOMAIN list = 1 .. n /\ \A k \in 1 .. n : name(k) \in Runs
    BY LenProperties, ElementOfSeq DEF Name
  <1>1. PICK g : /\ g[0] = <<>>
                 /\ \A k \in 1 .. n : g[k] = Following(g[k - 1], list[k], aliases, owner)
                 /\ Resolved(list, aliases, owner) = g[n]
    BY ResolvedPass
  <1> DEFINE Good(k) ==
               /\ g[k] \in Seq(Runs)
               /\ \A r : Holds(g[k], r) <=> \E i \in 1 .. k : name(i) = r
               /\ IsInjective(g[k])
               /\ InOrder(g[k], list, k, aliases, owner)
             D == {k \in 0 .. n : Good(k)}
  <1>2. 0 \in D
    <2>1. Good(0)
      BY <1>1 DEF Holds, IsInjective, InOrder
    <2> QED
      BY <1>0, <2>1
  <1>3. ASSUME NEW k \in 1 .. n, k - 1 \in D
        PROVE  k \in D
    <2>1. Good(k - 1)
      BY <1>3
    <2>2. k \in 0 .. n /\ \A i : i \in 1 .. k <=> i \in 1 .. (k - 1) \/ i = k
      BY <1>0
    <2>3. name(k) \in Runs
      BY <1>0
    <2>4. Contains(g[k - 1], name(k)) <=> Holds(g[k - 1], name(k))
      BY <2>1, LenProperties DEF Contains, Holds
    <2>5. CASE Holds(g[k - 1], name(k))
      <3>1. g[k] = g[k - 1]
        BY <1>1, <2>4, <2>5 DEF Following
      <3>2. \A i \in 1 .. (k - 1) : i < k
        BY <1>0
      <3>3. InOrder(g[k], list, k, aliases, owner)
        BY <2>1, <2>2, <3>1, <3>2 DEF InOrder
      <3>4. \A r : Holds(g[k], r) <=> \E i \in 1 .. k : name(i) = r
        BY <2>1, <2>2, <2>5, <3>1
      <3> QED
        BY <2>1, <2>2, <3>1, <3>3, <3>4
    <2>6. CASE ~Holds(g[k - 1], name(k))
      <3>1. g[k] = Append(g[k - 1], name(k))
        BY <1>1, <2>4, <2>6 DEF Following
      <3>2. /\ g[k] \in Seq(Runs)
            /\ \A r : Holds(g[k], r) <=> Holds(g[k - 1], r) \/ r = name(k)
            /\ IsInjective(g[k])
            /\ \A i, j \in DOMAIN g[k] : i < j =>
                  /\ i \in DOMAIN g[k - 1] /\ g[k][i] = g[k - 1][i]
                  /\ (j \in DOMAIN g[k - 1] /\ g[k][j] = g[k - 1][j]) \/ g[k][j] = name(k)
        BY <2>1, <2>3, <2>6, <3>1, Added
      <3>3. \A r : Holds(g[k], r) <=> \E i \in 1 .. k : name(i) = r
        BY <2>1, <2>2, <3>2
      <3>4. InOrder(g[k], list, k, aliases, owner)
        <4> SUFFICES ASSUME NEW m \in DOMAIN g[k], NEW q \in DOMAIN g[k], m < q
                     PROVE  \E i \in 1 .. k :
                               /\ name(i) = g[k][m]
                               /\ \A j \in 1 .. k : name(j) = g[k][q] => i < j
          BY DEF InOrder
        <4>1. \A i \in 1 .. (k - 1) : i < k
          BY <1>0
        <4>2. m \in DOMAIN g[k - 1] /\ g[k][m] = g[k - 1][m]
          BY <3>2
        <4>3. CASE q \in DOMAIN g[k - 1] /\ g[k][q] = g[k - 1][q]
          <5>1. PICK i \in 1 .. (k - 1) :
                   /\ name(i) = g[k - 1][m]
                   /\ \A j \in 1 .. (k - 1) : name(j) = g[k - 1][q] => i < j
            BY <2>1, <4>2, <4>3 DEF InOrder
          <5> QED
            BY <2>2, <4>1, <4>2, <4>3, <5>1
        <4>4. CASE g[k][q] = name(k)
          <5>1. Holds(g[k - 1], g[k][m])
            BY <4>2 DEF Holds
          <5>2. PICK i \in 1 .. (k - 1) : name(i) = g[k][m]
            BY <2>1, <5>1
          <5>3. \A j \in 1 .. (k - 1) : name(j) # name(k)
            BY <2>1, <2>6
          <5> QED
            BY <2>2, <4>1, <4>4, <5>2, <5>3
        <4> QED
          BY <3>2, <4>3, <4>4
      <3> QED
        BY <2>2, <3>2, <3>3, <3>4
    <2> QED
      BY <2>5, <2>6
  <1>4. n \in 0 .. n
    BY <1>0
  <1> HIDE DEF D
  <1>5. n \in D
    BY <1>0, <1>2, <1>3, <1>4, Upward
  <1> QED
    BY <1>0, <1>1, <1>5 DEF D
-----------------------------------------------------------------------------
(***************************************************************************)
(* What an edit and a rebinding make of a session.                         *)
(***************************************************************************)
\* A session that lists different runs.
Sound(s) == s \in Session /\ IsInjective(s.runs)

LEMMA WithIsSound ==
    ASSUME NEW s, Sound(s), NEW run \in Runs
    PROVE  Sound(With(s, run))
  <1>1. s.runs \in Seq(Runs) /\ s.last \in Runs \cup {None}
        /\ s = [runs |-> s.runs, last |-> s.last]
    BY DEF Sound, Session
  <1>2. CASE Lists(s, run)
    BY <1>2 DEF With
  <1>3. CASE ~Lists(s, run)
    <2>1. With(s, run) = [runs |-> Append(s.runs, run), last |-> s.last]
      BY <1>1, <1>3 DEF With
    <2>2. Append(s.runs, run) \in Seq(Runs) /\ IsInjective(Append(s.runs, run))
      BY <1>1, <1>3, Added DEF Lists, Holds, Sound
    <2> QED
      BY <1>1, <2>1, <2>2 DEF Sound, Session
  <1> QED
    BY <1>2, <1>3

LEMMA WithoutIsSound ==
    ASSUME NEW s, Sound(s), NEW run
    PROVE  Sound(Without(s, run))
  <1>1. s.runs \in Seq(Runs) /\ s.last \in Runs \cup {None}
        /\ s = [runs |-> s.runs, last |-> s.last]
    BY DEF Sound, Session
  <1>2. Without(s, run) = [s EXCEPT !.runs = Kept(s.runs, run)]
    BY Zenon DEF Without, Kept
  <1>3. Without(s, run) = [runs |-> Kept(s.runs, run), last |-> s.last]
    BY <1>1, <1>2
  <1>4. Kept(s.runs, run) \in Seq(Runs) /\ IsInjective(Kept(s.runs, run))
    BY <1>1, KeptList DEF Sound
  <1> QED
    BY <1>1, <1>3, <1>4 DEF Sound, Session

\* A rebinding, of a list of any length: the runs it leaves are those the list
\* names once its aliases are resolved, each listed once, in the order of their first
\* mention.
THEOREM ReboundIsResolved ==
    ASSUME NEW s \in Session, NEW aliases, NEW owner \in Runs
    PROVE  LET after == Rebound(s, aliases, owner)
           IN  /\ Sound(after)
               /\ \A r : Lists(after, r) <=>
                            \E i \in DOMAIN s.runs : Name(s.runs[i], aliases, owner) = r
               /\ InOrder(after.runs, s.runs, Len(s.runs), aliases, owner)
  <1> DEFINE last == IF s.last = None THEN None ELSE Name(s.last, aliases, owner)
  <1>1. s.runs \in Seq(Runs) /\ s.last \in Runs \cup {None}
    BY DEF Session
  <1>2. Rebound(s, aliases, owner) =
           [runs |-> Resolved(s.runs, aliases, owner), last |-> last]
    BY DEF Rebound, Resolved, Name
  <1>3. last \in Runs \cup {None}
    BY <1>1 DEF Name
  <1> HIDE DEF last
  <1>4. /\ Resolved(s.runs, aliases, owner) \in Seq(Runs)
        /\ IsInjective(Resolved(s.runs, aliases, owner))
        /\ \A r : Holds(Resolved(s.runs, aliases, owner), r) <=>
                     \E i \in DOMAIN s.runs : Name(s.runs[i], aliases, owner) = r
        /\ InOrder(Resolved(s.runs, aliases, owner), s.runs, Len(s.runs), aliases, owner)
    BY <1>1, ResolvedList
  <1> QED
    BY <1>2, <1>3, <1>4 DEF Sound, Session, Lists, Holds
====
