--------------------------- MODULE ThrottleProofs ---------------------------
(***************************************************************************)
(* Proofs about Throttle, for any periods, limits and bound of the clocks. *)
(***************************************************************************)
EXTENDS Throttle, FiniteSetTheorems, SequenceTheorems, WellFoundedInduction, TLAPS

-----------------------------------------------------------------------------
(* Induction over an interval, stated for sets                             *)

(* What holds of 0 and passes from each number to the next holds up to n.  *)
LEMMA UpTo ==
  ASSUME NEW n \in Nat, NEW S, 0 \in S, \A i \in 0 .. n - 1 : i \in S => i + 1 \in S
  PROVE  \A i \in 0 .. n : i \in S
<1> SUFFICES ASSUME NEW x \in 0 .. n, x \notin S
             PROVE  FALSE
  OBVIOUS
<1> DEFINE T == {i \in 0 .. n : i \notin S}
           R == {xy \in Nat \X Nat : xy[1] < xy[2]}
<1>1. IsWellFoundedOn(R, Nat)
  BY NatLessThanWellFounded DEF R, OpToRel
<1>2. PICK d \in T : \A e \in T : ~ (<<e, d>> \in R)
  <2>1. T \subseteq Nat /\ x \in T
    OBVIOUS
  <2> HIDE DEF T, R
  <2> QED
    BY <1>1, <2>1, WFMin
<1>3. d \in 1 .. n /\ d \notin S
  BY <1>2
<1>4. d - 1 \in 0 .. n - 1 /\ <<d - 1, d>> \in R
  BY <1>3
<1>5. d - 1 \in S
  <2>1. d - 1 \notin T
    BY <1>2, <1>4
  <2> QED
    BY <1>4, <2>1
<1>6. (d - 1) + 1 = d
  BY <1>3
<1> QED
  BY <1>3, <1>4, <1>5, <1>6

-----------------------------------------------------------------------------
(* Pruning                                                                 *)

\* The lists that Recent builds one call at a time.
IsKeep(f, k, s, d) ==
  /\ f \in [0 .. d -> Seq(Nat)]
  /\ f[0] = <<>>
  /\ \A i \in 1 .. d : f[i] = IF s[i] + period[k[1]] > clock THEN Append(f[i - 1], s[i])
                                                             ELSE f[i - 1]

(* The list that _handle_throttling builds from _rate_limited_calls is     *)
(* well defined, element after element.                                    *)
LEMMA RecentBuilt ==
  ASSUME NEW k \in Keys, NEW s \in Seq(Nat)
  PROVE  \E f : IsKeep(f, k, s, Len(s)) /\ Recent(k, s) = f[Len(s)]
<1> DEFINE n == Len(s)
           live(i) == s[i] + period[k[1]] > clock
           S == {d \in 0 .. n : \E f : IsKeep(f, k, s, d)}
           G(h) == [i \in 0 .. n |->
                      IF i = 0 THEN <<>>
                      ELSE IF live(i) THEN Append(h[i - 1], s[i]) ELSE h[i - 1]]
<1>1. n \in Nat /\ \A i \in 1 .. n : s[i] \in Nat
  OBVIOUS
<1>2. 0 \in S
  <2>1. IsKeep([i \in 0 .. 0 |-> <<>>], k, s, 0)
    BY EmptySeq DEF IsKeep
  <2> QED
    BY <1>1, <2>1
<1>3. ASSUME NEW i \in 0 .. n - 1, i \in S
      PROVE  i + 1 \in S
  <2>1. PICK f : IsKeep(f, k, s, i)
    BY <1>3
  <2> DEFINE e == IF live(i + 1) THEN Append(f[i], s[i + 1]) ELSE f[i]
             g == [x \in 0 .. i + 1 |-> IF x = i + 1 THEN e ELSE f[x]]
  <2>2. i \in Nat /\ i + 1 \in 1 .. n /\ f[i] \in Seq(Nat)
    BY <1>1, <1>3, <2>1 DEF IsKeep
  <2>3. e \in Seq(Nat)
    BY <1>1, <2>2, AppendProperties
  <2>4. g \in [0 .. i + 1 -> Seq(Nat)] /\ g[0] = <<>>
    <3> HIDE DEF e
    <3> QED
      BY <2>1, <2>2, <2>3 DEF IsKeep
  <2>5. ASSUME NEW x \in 1 .. i + 1
        PROVE  g[x] = IF live(x) THEN Append(g[x - 1], s[x]) ELSE g[x - 1]
    <3>1. CASE x = i + 1
      <4>1. g[x] = e /\ g[x - 1] = f[i]
        BY <2>2, <3>1
      <4> QED
        BY <3>1, <4>1
    <3>2. CASE x # i + 1
      <4>1. x \in 1 .. i /\ g[x] = f[x] /\ g[x - 1] = f[x - 1]
        BY <2>2, <2>5, <3>2
      <4>2. f[x] = IF live(x) THEN Append(f[x - 1], s[x]) ELSE f[x - 1]
        BY <2>1, <4>1 DEF IsKeep
      <4> QED
        BY <4>1, <4>2
    <3> QED
      BY <3>1, <3>2
  <2>6. IsKeep(g, k, s, i + 1)
    <3> HIDE DEF g
    <3> QED
      BY <2>4, <2>5 DEF IsKeep
  <2> QED
    BY <2>2, <2>6
<1>4. PICK f : IsKeep(f, k, s, n)
  <2>1. \A i \in 0 .. n : i \in S
    <3> HIDE DEF S, n
    <3> QED
      BY <1>1, <1>2, <1>3, UpTo
  <2> QED
    BY <1>1, <2>1
<1>5. f = G(f)
  <2>1. ASSUME NEW i \in 0 .. n
        PROVE  f[i] = G(f)[i]
    <3>1. CASE i = 0
      BY <1>1, <1>4, <3>1 DEF IsKeep
    <3>2. CASE i # 0
      <4>1. i \in 1 .. n
        BY <1>1, <3>2
      <4> QED
        BY <1>4, <4>1, <3>2 DEF IsKeep
    <3> QED
      BY <3>1, <3>2
  <2> QED
    BY <1>4, <2>1 DEF IsKeep
<1> DEFINE keep == CHOOSE h : h = G(h)
<1>6. Recent(k, s) = keep[n]
  BY DEF Recent
<1>7. keep = G(keep)
  <2> HIDE DEF G
  <2> QED
    BY <1>5
<1>8. \A i \in 0 .. n :
        keep[i] = IF i = 0 THEN <<>>
                  ELSE IF live(i) THEN Append(keep[i - 1], s[i]) ELSE keep[i - 1]
  <2> HIDE DEF keep
  <2> QED
    BY <1>7
<1> HIDE DEF keep
<1>9. \A i \in 0 .. n : keep[i] \in Seq(Nat)
  <2> DEFINE K == {i \in 0 .. n : keep[i] \in Seq(Nat)}
  <2>1. 0 \in K
    <3>1. 0 \in 0 .. n
      BY <1>1
    <3>2. keep[0] = <<>>
      BY <1>8, <3>1
    <3> QED
      BY <3>1, <3>2, EmptySeq
  <2>2. ASSUME NEW i \in 0 .. n - 1, i \in K
        PROVE  i + 1 \in K
    <3>1. i + 1 \in 1 .. n /\ (i + 1) - 1 = i
      BY <1>1
    <3>2. keep[i + 1] = IF live(i + 1) THEN Append(keep[i], s[i + 1]) ELSE keep[i]
      BY <1>1, <1>8, <3>1
    <3>3. keep[i] \in Seq(Nat) /\ s[i + 1] \in Nat
      BY <1>1, <2>2, <3>1
    <3>4. Append(keep[i], s[i + 1]) \in Seq(Nat)
      BY <3>3, AppendProperties
    <3>5. keep[i + 1] \in Seq(Nat)
      BY <3>2, <3>3, <3>4
    <3> QED
      BY <1>1, <3>1, <3>5
  <2> HIDE DEF K
  <2>3. \A i \in 0 .. n : i \in K
    BY <1>1, <2>1, <2>2, UpTo
  <2> QED
    BY <2>3 DEF K
<1>10. keep \in [0 .. n -> Seq(Nat)]
  <2>1. keep = [i \in 0 .. n |-> G(keep)[i]]
    BY <1>7
  <2>2. keep = [i \in 0 .. n |-> keep[i]]
    BY <1>7, <2>1
  <2> HIDE DEF G
  <2> QED
    BY <1>9, <2>2
<1>11. IsKeep(keep, k, s, n)
  <2>1. keep[0] = <<>>
    BY <1>1, <1>8
  <2>2. \A i \in 1 .. n : keep[i] = IF live(i) THEN Append(keep[i - 1], s[i]) ELSE keep[i - 1]
    BY <1>1, <1>8
  <2> QED
    BY <1>10, <2>1, <2>2 DEF IsKeep
<1> QED
  BY <1>6, <1>11

\* The last c elements of r are those of the first d of s, and the others of
\* these after the first a are over.
EndsAs(r, s, a, d, c, p) ==
  /\ c \in 0 .. d - a /\ c <= Len(r) /\ Len(r) <= a + c
  /\ \A i \in 1 .. c : r[Len(r) - c + i] = s[d - c + i]
  /\ \A i \in a + 1 .. d - c : s[i] + p <= clock

(* A list of calls whose times do not decrease after the first a loses of  *)
(* these only the oldest when it is pruned, and all it keeps is covered by *)
(* the period still.                                                       *)
LEMMA RecentSuffix ==
  ASSUME NEW k \in Keys, NEW p \in Nat, period[k[1]] = p, clock \in Nat,
         NEW s \in Seq(Nat), NEW a \in 0 .. Len(s),
         \A i, j \in a + 1 .. Len(s) : i <= j => s[i] <= s[j]
  PROVE  /\ Recent(k, s) \in Seq(Nat) /\ Len(Recent(k, s)) <= Len(s)
         /\ \A i \in 1 .. Len(Recent(k, s)) : Recent(k, s)[i] + p > clock
         /\ \E c \in Nat : EndsAs(Recent(k, s), s, a, Len(s), c, p)
<1> DEFINE n == Len(s)
<1>1. PICK f : IsKeep(f, k, s, n) /\ Recent(k, s) = f[n]
  BY RecentBuilt
<1> DEFINE S == {d \in 0 .. n : /\ Len(f[d]) <= d
                                /\ \A i \in 1 .. Len(f[d]) : f[d][i] + p > clock
                                /\ d >= a => \E c \in Nat : EndsAs(f[d], s, a, d, c, p)}
<1>2. n \in Nat /\ a \in Nat /\ \A i \in 1 .. n : s[i] \in Nat
  OBVIOUS
<1>3. \A i \in 0 .. n : f[i] \in Seq(Nat) /\ Len(f[i]) \in Nat
  BY <1>1, LenProperties DEF IsKeep
<1>4. 0 \in S
  <2>1. f[0] = <<>> /\ Len(f[0]) = 0
    BY <1>1 DEF IsKeep
  <2>2. 0 >= a => EndsAs(f[0], s, a, 0, 0, p)
    BY <1>2, <2>1 DEF EndsAs
  <2> QED
    BY <1>2, <2>1, <2>2
<1>5. ASSUME NEW d \in 0 .. n - 1, d \in S
      PROVE  d + 1 \in S
  <2> DEFINE r == f[d]
             t == f[d + 1]
             m == Len(f[d])
             x == s[d + 1]
  <2>1. d \in Nat /\ d + 1 \in 1 .. n /\ d + 1 \in 0 .. n /\ (d + 1) - 1 = d
    BY <1>2
  <2>2. t = IF x + p > clock THEN Append(r, x) ELSE r
    BY <1>1, <2>1 DEF IsKeep
  <2>3. r \in Seq(Nat) /\ m \in Nat /\ m = Len(r) /\ x \in Nat
    BY <1>2, <1>3, <2>1
  <2>4. m <= d /\ \A i \in 1 .. m : r[i] + p > clock
    BY <1>5
  <2>5. CASE x + p > clock
    <3>1. t = Append(r, x)
      BY <2>2, <2>5
    <3>2. /\ Len(t) = m + 1 /\ t[m + 1] = x
          /\ \A i \in 1 .. m : t[i] = r[i]
      BY <2>3, <3>1, AppendProperties
    <3>3. ASSUME NEW i \in 1 .. Len(t)
          PROVE  t[i] + p > clock
      <4>1. CASE i = m + 1
        BY <2>5, <3>2, <4>1
      <4>2. CASE i # m + 1
        <5>1. i \in 1 .. m
          BY <2>3, <3>2, <4>2
        <5> QED
          BY <2>4, <3>2, <5>1
      <4> QED
        BY <4>1, <4>2
    <3>4. ASSUME d >= a
          PROVE  \E c \in Nat : EndsAs(t, s, a, d + 1, c, p)
      <4>1. PICK c \in Nat : EndsAs(r, s, a, d, c, p)
        BY <1>5, <3>4
      <4>2. ASSUME NEW i \in 1 .. c + 1
            PROVE  t[Len(t) - (c + 1) + i] = s[d + 1 - (c + 1) + i]
        <5>1. CASE i = c + 1
          <6>1. Len(t) - (c + 1) + i = m + 1 /\ d + 1 - (c + 1) + i = d + 1
            <7>1. \A u, v \in Nat : u - v + v = u
              OBVIOUS
            <7>2. m + 1 \in Nat /\ d + 1 \in Nat /\ c + 1 \in Nat
              <8>1. d \in Nat /\ m \in Nat
                BY <2>1, <2>3
              <8> HIDE DEF m, n
              <8> QED
                BY <8>1
            <7>3. (m + 1) - (c + 1) + (c + 1) = m + 1
              BY <7>1, <7>2
            <7>4. (d + 1) - (c + 1) + (c + 1) = d + 1
              BY <7>1, <7>2
            <7>5. Len(t) = m + 1
              BY <3>2
            <7> HIDE DEF t, m
            <7> QED
              BY <5>1, <7>3, <7>4, <7>5
          <6> QED
            BY <3>2, <6>1
        <5>2. CASE i # c + 1
          <6>1. i \in 1 .. c
            BY <4>2, <5>2
          <6>2. Len(t) - (c + 1) + i = m - c + i /\ d + 1 - (c + 1) + i = d - c + i
            <7>1. Len(t) = m + 1 /\ m \in Nat /\ d \in Nat /\ i \in Nat
              BY <2>1, <2>3, <3>2, <6>1
            <7> HIDE DEF m, t, n
            <7> QED
              BY <7>1
          <6>3. m - c + i \in 1 .. m
            <7>1. m \in Nat /\ c <= m
              BY <2>3, <4>1 DEF EndsAs
            <7> HIDE DEF m, n
            <7> QED
              BY <6>1, <7>1
          <6> QED
            BY <2>3, <3>2, <4>1, <6>1, <6>2, <6>3 DEF EndsAs
        <5> QED
          BY <5>1, <5>2
      <4>3. c + 1 \in 0 .. (d + 1) - a /\ c + 1 <= Len(t) /\ Len(t) <= a + (c + 1)
        <5>1. /\ c \in 0 .. d - a /\ c <= m /\ m <= a + c /\ Len(t) = m + 1
              /\ m \in Nat /\ d \in Nat /\ a \in Nat
          BY <1>2, <2>1, <2>3, <3>2, <4>1 DEF EndsAs
        <5> HIDE DEF m, t, n
        <5> QED
          BY <5>1
      <4>4. (d + 1) - (c + 1) = d - c
        BY <2>1
      <4>5. EndsAs(t, s, a, d + 1, c + 1, p)
        BY <4>1, <4>2, <4>3, <4>4 DEF EndsAs
      <4> QED
        BY <4>5
    <3>5. Len(t) <= d + 1
      <4>1. Len(t) = m + 1 /\ m \in Nat /\ d \in Nat /\ m <= d
        BY <2>1, <2>3, <2>4, <3>2
      <4> HIDE DEF m, t, n
      <4> QED
        BY <4>1
    <3>6. d + 1 >= a => \E c \in Nat : EndsAs(t, s, a, d + 1, c, p)
      <4>1. CASE d + 1 = a
        <5>1. EndsAs(t, s, a, d + 1, 0, p)
          BY <1>2, <2>1, <3>2, <3>5, <2>3, <4>1 DEF EndsAs
        <5> QED
          BY <5>1
      <4>2. CASE d + 1 # a
        BY <1>2, <2>1, <3>4, <4>2
      <4> QED
        BY <4>1, <4>2
    <3> QED
      BY <2>1, <3>3, <3>5, <3>6
  <2>6. CASE ~(x + p > clock)
    <3>1. t = r
      BY <2>2, <2>6
    <3>2. ASSUME d >= a
          PROVE  EndsAs(r, s, a, d + 1, 0, p)
      <4>1. PICK c \in Nat : EndsAs(r, s, a, d, c, p)
        BY <1>5, <3>2
      <4>2. c = 0
        <5>1. SUFFICES ASSUME c # 0
                       PROVE  FALSE
          OBVIOUS
        <5>2. c \in 1 .. c /\ c <= d - a /\ c <= m /\ m - c + c = m /\ d - c + c = d
          BY <2>1, <2>3, <4>1, <5>1 DEF EndsAs
        <5>3. r[m] = s[d]
          BY <4>1, <2>3, <5>2 DEF EndsAs
        <5>4. m \in 1 .. m /\ d \in a + 1 .. n /\ d + 1 \in a + 1 .. n /\ d <= d + 1
          <6>1. m \in Nat /\ d \in Nat /\ n \in Nat /\ a \in Nat /\ d + 1 <= n
            BY <1>2, <2>1, <2>3
          <6> HIDE DEF m, n
          <6> QED
            BY <5>1, <5>2, <6>1
        <5>5. s[d] + p > clock
          <6>1. r[m] + p > clock
            BY <2>4, <5>4
          <6> QED
            BY <5>3, <6>1
        <5>6. s[d] <= x
          BY <5>4
        <5>7. s[d] \in Nat
          BY <1>2, <5>4
        <5> QED
          BY <2>3, <2>6, <5>5, <5>6, <5>7
      <4>3. m <= a
        BY <2>3, <4>1, <4>2 DEF EndsAs
      <4>4. ASSUME NEW i \in a + 1 .. d + 1
            PROVE  s[i] + p <= clock
        <5>1. i \in 1 .. n /\ s[i] \in Nat
          BY <1>2, <2>1
        <5>2. CASE i = d + 1
          BY <2>3, <2>6, <5>2
        <5>3. CASE i # d + 1
          BY <1>2, <2>1, <4>1, <4>2, <5>3 DEF EndsAs
        <5> QED
          BY <5>2, <5>3
      <4> QED
        BY <1>2, <2>1, <2>3, <3>2, <4>3, <4>4 DEF EndsAs
    <3>3. d + 1 >= a => \E c \in Nat : EndsAs(r, s, a, d + 1, c, p)
      <4>1. CASE d + 1 = a
        <5>1. EndsAs(r, s, a, d + 1, 0, p)
          BY <1>2, <2>1, <2>3, <2>4, <4>1 DEF EndsAs
        <5> QED
          BY <5>1
      <4>2. CASE d + 1 # a
        BY <1>2, <2>1, <3>2, <4>2
      <4> QED
        BY <4>1, <4>2
    <3>4. Len(r) <= d + 1
      BY <2>1, <2>3, <2>4
    <3> QED
      BY <2>1, <2>3, <2>4, <3>1, <3>3, <3>4
  <2> QED
    BY <2>5, <2>6
<1>6. n \in S
  <2>1. \A i \in 0 .. n : i \in S
    <3> HIDE DEF S, n
    <3> QED
      BY <1>2, <1>4, <1>5, UpTo
  <2> QED
    BY <1>2, <2>1
<1> QED
  BY <1>1, <1>2, <1>3, <1>6

-----------------------------------------------------------------------------
(* The inductive invariant                                                 *)

\* The lists by key.
Shape ==
  /\ rateLimitedCalls \in [Keys -> Seq(Nat)]
  /\ ran \in [Keys -> Seq(Nat)]

\* The runs of a method are noted in the order in which they were.
InOrder(k) ==
  /\ \A i, j \in 1 .. Len(ran[k]) : i <= j => ran[k][i] <= ran[k][j]
  /\ \A i \in 1 .. Len(ran[k]) : ran[k][i] <= elapsed

\* Runs are a period apart, and the stamp of the last one is as old as the run.
Spaced(k) == IsThrottle(k[1]) =>
  /\ \A i, j \in 1 .. Len(ran[k]) : i < j => ran[k][i] + period[k[1]] <= ran[k][j]
  /\ ran[k] # <<>> => /\ lastCall[k] # NeverCalled
                      /\ lastCall[k] - clock = ran[k][Len(ran[k])] - elapsed
  /\ ~adjusted /\ lastCall[k] # NeverCalled => ran[k] # <<>>

\* The last c stamps of the list s are those of the last c runs of k, and the
\* period of all the others is over; with no clock set there are no more stamps.
Stamps(k, s, c) ==
  /\ c \in 0 .. Len(ran[k]) /\ c <= Len(s)
  /\ \A i \in 1 .. c : s[Len(s) - c + i] - clock = ran[k][Len(ran[k]) - c + i] - elapsed
  /\ \A i \in 1 .. Len(ran[k]) - c : ran[k][i] + period[k[1]] <= elapsed
  /\ ~adjusted => Len(s) = c

\* Of any max + 1 runs in a row the last is a period after the first.
Limited(k) == IsRateLimit(k[1]) =>
  /\ \A i \in 1 .. Len(ran[k]) - maxCalls[k[1]] :
       ran[k][i] + period[k[1]] <= ran[k][i + maxCalls[k[1]]]
  /\ \E c \in 0 .. Len(ran[k]) : Stamps(k, rateLimitedCalls[k], c)

\* Nobody has set the clock.
Straight == ~adjusted => clock = elapsed

IInv ==
  /\ TypeOK /\ Shape /\ Straight
  /\ \A k \in Keys : InOrder(k) /\ Spaced(k) /\ Limited(k)

(* Pruning the list of stamps (_handle_throttling) leaves them in step     *)
(* with the runs, and if the list is still full the period covers them all.*)
LEMMA PrunedStamps ==
  ASSUME ThrottleAssumption, IInv, NEW k \in Keys, IsRateLimit(k[1])
  PROVE  /\ Pruned(k) \in Seq(Nat) /\ Len(Pruned(k)) <= Len(rateLimitedCalls[k])
         /\ \E c \in 0 .. Len(ran[k]) : Stamps(k, Pruned(k), c)
         /\ Len(Pruned(k)) >= maxCalls[k[1]] =>
              \A i \in 1 .. Len(Pruned(k)) : Pruned(k)[i] + period[k[1]] > clock
<1> DEFINE s == rateLimitedCalls[k]
           r == ran[k]
           p == period[k[1]]
           u == Len(s)
           n == Len(r)
<1>1. /\ s \in Seq(Nat) /\ r \in Seq(Nat) /\ u \in Nat /\ n \in Nat /\ p \in Nat
      /\ maxCalls[k[1]] \in Nat /\ clock \in Nat /\ elapsed \in Nat
  BY DEF IInv, TypeOK, Shape, ThrottleAssumption, Keys<1>0. u \in Nat /\ n \in Nat /\ p \in Nat /\ clock \in Nat /\ elapsed \in Nat
  BY <1>1
<1>2. \A i \in 1 .. n : r[i] \in Nat
  BY <1>1
<1>3. \A i \in 1 .. u : s[i] \in Nat
  BY <1>1
<1>4. PICK e \in 0 .. n : Stamps(k, s, e)
  BY DEF IInv, Limited
<1>5. CASE u < maxCalls[k[1]]
  <2>1. Pruned(k) = s
    BY <1>1, <1>5 DEF Pruned
  <2> QED
    BY <1>1, <1>4, <1>5, <2>1
<1>6. CASE u >= maxCalls[k[1]]
  <2> DEFINE q == Recent(k, s)
             a == u - e
  <2>1. Pruned(k) = q
    BY <1>6 DEF Pruned
  <2>2. e \in Nat /\ e <= n /\ a \in 0 .. u /\ a = u - e /\ a \in Nat
    BY <1>1, <1>4 DEF Stamps
  <2>3. ASSUME NEW i \in a + 1 .. u
        PROVE  /\ i - a \in 1 .. e /\ n - e + (i - a) \in 1 .. n
               /\ s[i] - clock = r[n - e + (i - a)] - elapsed
    <3>1. i - a \in 1 .. e /\ u - e + (i - a) = i /\ n - e + (i - a) \in 1 .. n
      <4> HIDE DEF a, u, n
      <4> QED
        BY <1>0, <2>2
    <3>2. s[u - e + (i - a)] - clock = r[n - e + (i - a)] - elapsed
      BY <1>4, <3>1 DEF Stamps
    <3> QED
      BY <3>1, <3>2
  <2>4. ASSUME NEW i \in a + 1 .. u, NEW j \in a + 1 .. u, i <= j
        PROVE  s[i] <= s[j]
    <3>1. n - e + (i - a) <= n - e + (j - a)
      <4> HIDE DEF a, u, n
      <4> QED
        BY <1>0, <2>2, <2>4
    <3>2. r[n - e + (i - a)] <= r[n - e + (j - a)]
      BY <2>3, <3>1 DEF IInv, InOrder
    <3>3. i \in 1 .. u /\ j \in 1 .. u
      <4> HIDE DEF a, u, n
      <4> QED
        BY <1>0, <2>2
    <3>4. /\ s[i] \in Nat /\ s[j] \in Nat
          /\ r[n - e + (i - a)] \in Nat /\ r[n - e + (j - a)] \in Nat
      BY <1>2, <1>3, <2>3, <3>3
    <3>5. /\ s[i] - clock = r[n - e + (i - a)] - elapsed
          /\ s[j] - clock = r[n - e + (j - a)] - elapsed
      BY <2>3
    <3>6. \A x, y, v, w \in Nat :
            x - clock = v - elapsed /\ y - clock = w - elapsed /\ v <= w => x <= y
      BY <1>0
    <3> HIDE DEF a, n, r, s
    <3> QED
      BY <3>2, <3>4, <3>5, <3>6
  <2>5. /\ q \in Seq(Nat) /\ Len(q) <= u
        /\ \A i \in 1 .. Len(q) : q[i] + p > clock
        /\ \E c \in Nat : EndsAs(q, s, a, u, c, p)
    <3> HIDE DEF q, p, a
    <3>1. a \in 0 .. Len(s) /\ \A i, j \in a + 1 .. Len(s) : i <= j => s[i] <= s[j]
      BY <2>2, <2>4
    <3> QED
      BY <1>1, <3>1, RecentSuffix DEF q, p
  <2>6. PICK c \in Nat : EndsAs(q, s, a, u, c, p)
    BY <2>5
  <2>7. c <= e /\ c <= Len(q) /\ Len(q) <= a + c /\ c \in 0 .. n /\ Len(q) \in Nat
    BY <1>1, <2>2, <2>5, <2>6 DEF EndsAs
  <2>8. ASSUME NEW i \in 1 .. c
        PROVE  q[Len(q) - c + i] - clock = r[n - c + i] - elapsed
    <3>1. q[Len(q) - c + i] = s[u - c + i]
      BY <2>6 DEF EndsAs
    <3>2. u - c + i \in a + 1 .. u /\ n - e + ((u - c + i) - a) = n - c + i
      <4> HIDE DEF a, u, n, q
      <4> QED
        BY <1>0, <2>2, <2>7
    <3> QED
      BY <2>3, <3>1, <3>2
  <2>9. ASSUME NEW i \in 1 .. n - c
        PROVE  r[i] + p <= elapsed
    <3>1. CASE i <= n - e
      <4>1. i \in 1 .. n - e
        BY <1>1, <2>2, <3>1
      <4> QED
        BY <1>4, <4>1 DEF Stamps
    <3>2. CASE i > n - e
      <4> DEFINE h == a + (i - (n - e))
      <4>1. /\ h \in a + 1 .. u - c /\ h \in a + 1 .. u /\ h \in 1 .. u
            /\ i \in 1 .. n /\ n - e + (h - a) = i
        <5> HIDE DEF a, u, n, q
        <5> QED
          BY <1>0, <2>2, <2>7, <3>2
      <4>2. s[h] + p <= clock
        BY <2>6, <4>1 DEF EndsAs
      <4>3. s[h] - clock = r[i] - elapsed
        BY <2>3, <4>1
      <4>4. s[h] \in Nat /\ r[i] \in Nat
        BY <1>2, <1>3, <4>1
      <4>5. \A x, y \in Nat : x + p <= clock /\ x - clock = y - elapsed => y + p <= elapsed
        BY <1>0
      <4> HIDE DEF h, s, r, p
      <4> QED
        BY <4>2, <4>3, <4>4, <4>5
    <3> QED
      BY <1>1, <2>2, <3>1, <3>2
  <2>10. ~adjusted => Len(q) = c
    BY <1>1, <1>4, <2>2, <2>7 DEF Stamps
  <2>11. Stamps(k, q, c)
    BY <2>7, <2>8, <2>9, <2>10 DEF Stamps
  <2> QED
    BY <2>1, <2>5, <2>7, <2>11
<1> QED
  BY <1>1, <1>5, <1>6

(* A call that runs is stamped, and is a period behind the run that is     *)
(* throttle_max_calls before it.                                           *)
LEMMA RunStamps ==
  ASSUME ThrottleAssumption, IInv, NEW k \in Keys, IsRateLimit(k[1]), CallRuns(k)
  PROVE  /\ Limited(k)'
         /\ Len(rateLimitedCalls'[k]) <= maxCalls[k[1]]
<1> DEFINE r == ran[k]
           n == Len(r)
           q == Pruned(k)
           w == Len(q)
           b == maxCalls[k[1]]
<1>1. /\ r \in Seq(Nat) /\ n \in Nat /\ b \in Nat \ {0} /\ period[k[1]] \in Nat
      /\ clock \in Nat /\ elapsed \in Nat
  BY DEF IInv, TypeOK, Shape, ThrottleAssumption, Keys
<1>2. q \in Seq(Nat) /\ w \in Nat
  BY PrunedStamps
<1>0. /\ n \in Nat /\ w \in Nat /\ b \in Nat \ {0} /\ clock \in Nat /\ elapsed \in Nat
  BY <1>1, <1>2
<1>3. PICK c \in 0 .. n : Stamps(k, q, c)
  BY PrunedStamps
<1>4. w < b
  BY DEF CallRuns, Admitted, IsRateLimit, IsThrottle
<1>5. /\ rateLimitedCalls'[k] = Append(q, clock) /\ ran'[k] = Append(r, elapsed)
      /\ UNCHANGED <<clock, elapsed, adjusted>>
  BY DEF CallRuns, IInv, Shape
<1>6. /\ Len(ran'[k]) = n + 1 /\ ran'[k][n + 1] = elapsed
      /\ \A i \in 1 .. n : ran'[k][i] = r[i]
  BY <1>1, <1>5, AppendProperties
<1>7. /\ Len(rateLimitedCalls'[k]) = w + 1 /\ rateLimitedCalls'[k][w + 1] = clock
      /\ \A i \in 1 .. w : rateLimitedCalls'[k][i] = q[i]
  BY <1>1, <1>2, <1>5, AppendProperties
<1>8. c \in Nat /\ c <= n /\ c <= w
  BY <1>1, <1>3 DEF Stamps
<1>9. ASSUME NEW i \in 1 .. (n + 1) - b
      PROVE  ran'[k][i] + period[k[1]] <= ran'[k][i + b]
  <2>1. i \in 1 .. n /\ i + b \in 1 .. n + 1
    <3> HIDE DEF n, b
    <3> QED
      BY <1>0
  <2>2. CASE i + b = n + 1
    <3>1. i \in 1 .. n - c
      <4> HIDE DEF n, b, w
      <4> QED
        BY <1>0, <1>4, <1>8, <2>2
    <3>2. r[i] + period[k[1]] <= elapsed
      BY <1>3, <3>1 DEF Stamps
    <3> QED
      BY <1>6, <2>1, <2>2, <3>2
  <2>3. CASE i + b # n + 1
    <3>1. i \in 1 .. n - b /\ i + b \in 1 .. n
      <4> HIDE DEF n, b
      <4> QED
        BY <1>0, <2>1, <2>3
    <3>2. r[i] + period[k[1]] <= r[i + b]
      BY <3>1 DEF IInv, Limited
    <3> QED
      BY <1>6, <2>1, <3>1, <3>2
  <2> QED
    BY <2>2, <2>3
<1>10. ASSUME NEW i \in 1 .. c + 1
       PROVE  rateLimitedCalls'[k][(w + 1) - (c + 1) + i] - clock
                = ran'[k][(n + 1) - (c + 1) + i] - elapsed
  <2>1. (w + 1) - (c + 1) + i = w - c + i /\ (n + 1) - (c + 1) + i = n - c + i
    <3> HIDE DEF n, w
    <3> QED
      BY <1>0, <1>8
  <2>2. CASE i = c + 1
    <3>1. w - c + i = w + 1 /\ n - c + i = n + 1
      <4> HIDE DEF n, w
      <4> QED
        BY <1>0, <1>8, <2>2
    <3>2. /\ rateLimitedCalls'[k][(w + 1) - (c + 1) + i] = clock
          /\ ran'[k][(n + 1) - (c + 1) + i] = elapsed
      BY <1>6, <1>7, <2>1, <3>1
    <3>3. clock - clock = 0 /\ elapsed - elapsed = 0
      BY <1>0
    <3> QED
      BY <3>2, <3>3
  <2>3. CASE i # c + 1
    <3>1. i \in 1 .. c /\ w - c + i \in 1 .. w /\ n - c + i \in 1 .. n
      <4> HIDE DEF n, w
      <4> QED
        BY <1>0, <1>8, <2>3
    <3>2. q[w - c + i] - clock = r[n - c + i] - elapsed
      BY <1>3, <3>1 DEF Stamps
    <3> QED
      BY <1>6, <1>7, <2>1, <3>1, <3>2
  <2> QED
    BY <2>2, <2>3
<1>11. ASSUME NEW i \in 1 .. (n + 1) - (c + 1)
       PROVE  ran'[k][i] + period[k[1]] <= elapsed
  <2>1. i \in 1 .. n - c /\ i \in 1 .. n
    <3> HIDE DEF n
    <3> QED
      BY <1>0, <1>8
  <2> QED
    BY <1>3, <1>6, <2>1 DEF Stamps
<1>12. c + 1 \in 0 .. n + 1 /\ c + 1 <= w + 1 /\ (~adjusted => w + 1 = c + 1)
  BY <1>1, <1>2, <1>3, <1>8 DEF Stamps
<1>13. (\E h \in 0 .. Len(ran[k]) : Stamps(k, rateLimitedCalls[k], h))'
  <2>1. Stamps(k, rateLimitedCalls[k], c + 1)'
    BY <1>5, <1>6, <1>7, <1>10, <1>11, <1>12 DEF Stamps
  <2> QED
    BY <1>6, <1>12, <2>1
<1>14. Limited(k)'
  BY <1>6, <1>9, <1>13 DEF Limited
<1> QED
  BY <1>1, <1>2, <1>4, <1>7, <1>14

(* A throttled call that runs is a period behind the last run.             *)
LEMMA RunSpaced ==
  ASSUME ThrottleAssumption, IInv, NEW k \in Keys, IsThrottle(k[1]), CallRuns(k)
  PROVE  Spaced(k)'
<1> DEFINE r == ran[k]
           n == Len(r)
           p == period[k[1]]
<1>1. /\ r \in Seq(Nat) /\ n \in Nat /\ p \in Nat /\ clock \in Nat /\ elapsed \in Nat
      /\ lastCall[k] \in Nat \cup {NeverCalled} /\ \A i \in 1 .. n : r[i] \in Nat
  BY DEF IInv, TypeOK, Shape, ThrottleAssumption, Keys
<1>2. /\ lastCall'[k] = clock /\ ran'[k] = Append(r, elapsed)
      /\ UNCHANGED <<clock, elapsed, adjusted>>
  BY DEF CallRuns, IInv, Shape, TypeOK
<1>3. /\ Len(ran'[k]) = n + 1 /\ ran'[k][n + 1] = elapsed
      /\ \A i \in 1 .. n : ran'[k][i] = r[i]
  BY <1>1, <1>2, AppendProperties
<1>0. p \in Nat /\ clock \in Nat /\ elapsed \in Nat
  BY <1>1
<1>4. ASSUME NEW i \in 1 .. n
      PROVE  r[i] + p <= elapsed
  <2>1. r # <<>> /\ n \in 1 .. n
    BY <1>1
  <2>2. lastCall[k] # NeverCalled /\ lastCall[k] - clock = r[n] - elapsed
    BY <2>1 DEF IInv, Spaced
  <2>3. lastCall[k] \in Nat /\ clock >= lastCall[k] + p
    BY <1>1, <2>2 DEF CallRuns, Admitted
  <2>4. r[n] \in Nat /\ r[i] \in Nat
    BY <1>1, <2>1
  <2>5. r[n] + p <= elapsed
    <3> HIDE DEF n, r, p
    <3> QED
      BY <1>0, <2>2, <2>3, <2>4
  <2>6. r[i] <= r[n]
    BY <1>1, <2>1 DEF IInv, InOrder
  <2> HIDE DEF r, p
  <2> QED
    BY <1>1, <2>4, <2>5, <2>6
<1>5. ASSUME NEW i \in 1 .. n + 1, NEW j \in 1 .. n + 1, i < j
      PROVE  ran'[k][i] + p <= ran'[k][j]
  <2>1. i \in 1 .. n
    BY <1>1, <1>5
  <2>2. CASE j = n + 1
    BY <1>3, <1>4, <2>1, <2>2
  <2>3. CASE j # n + 1
    <3>1. j \in 1 .. n
      BY <1>1, <2>3
    <3>2. r[i] + p <= r[j]
      BY <1>5, <2>1, <3>1 DEF IInv, Spaced
    <3> QED
      BY <1>3, <2>1, <3>1, <3>2
  <2> QED
    BY <2>2, <2>3
<1>6. ran'[k] # <<>> /\ lastCall'[k] # NeverCalled
  BY <1>1, <1>2, <1>3 DEF NeverCalled
<1>7. lastCall'[k] - clock' = ran'[k][Len(ran'[k])] - elapsed'
  BY <1>1, <1>2, <1>3
<1> QED
  BY <1>3, <1>5, <1>6, <1>7 DEF Spaced

-----------------------------------------------------------------------------
(* The steps                                                               *)

(* Nothing is known but empty histories at the start.                      *)
LEMMA InitIInv == ThrottleAssumption /\ Init => IInv
<1> SUFFICES ASSUME ThrottleAssumption, Init
             PROVE  IInv
  OBVIOUS
<1>1. /\ \A k \in Keys : /\ ran[k] = <<>> /\ rateLimitedCalls[k] = <<>>
                         /\ lastCall[k] = NeverCalled
      /\ Shape /\ clock = 0 /\ elapsed = 0
  BY EmptySeq DEF Init, Shape
<1>2. <<>> \in Seq(Nat) /\ Len(<<>>) = 0
  BY EmptySeq
<1>3. \A k \in Keys : maxCalls[k[1]] \in Nat \ {0} /\ period[k[1]] \in Nat
  BY DEF ThrottleAssumption, Keys
<1>4. TypeOK
  <2>1. clock \in Nat /\ elapsed \in 0 .. MaxTime
    BY <1>1 DEF ThrottleAssumption
  <2>2. lastCall \in [Keys -> Nat \cup {NeverCalled}] /\ adjusted \in BOOLEAN
    BY DEF Init
  <2>3. refused \in Keys \cup {Nobody}
    BY DEF Init
  <2>4. \A k \in Keys : Len(rateLimitedCalls[k]) <= maxCalls[k[1]]
    BY <1>1, <1>2, <1>3
  <2> QED
    BY <1>1, <1>2, <2>1, <2>2, <2>3, <2>4 DEF TypeOK
<1>5. ASSUME NEW k \in Keys
      PROVE  InOrder(k) /\ Spaced(k) /\ Limited(k)
  <2>1. Len(ran[k]) = 0 /\ Len(rateLimitedCalls[k]) = 0
    BY <1>1, <1>2
  <2>2. Stamps(k, rateLimitedCalls[k], 0)
    BY <2>1 DEF Stamps
  <2>3. InOrder(k)
    BY <2>1 DEF InOrder
  <2>4. Spaced(k)
    BY <1>1, <2>1 DEF Spaced
  <2>5. Limited(k)
    BY <1>3, <2>1, <2>2 DEF Limited
  <2> QED
    BY <2>3, <2>4, <2>5
<1> QED
  BY <1>1, <1>4, <1>5 DEF IInv, Straight

(* A call that runs (CallRuns) keeps the invariant.                        *)
LEMMA RunStep ==
  ASSUME ThrottleAssumption, IInv, NEW k \in Keys, CallRuns(k)
  PROVE  IInv'
<1>1. /\ clock \in Nat /\ elapsed \in Nat /\ ran[k] \in Seq(Nat)
      /\ maxCalls[k[1]] \in Nat
  BY DEF IInv, TypeOK, Shape, ThrottleAssumption, Keys
<1>2. UNCHANGED <<clock, elapsed, adjusted>> /\ refused' = Nobody
  BY DEF CallRuns
<1>3. ran'[k] = Append(ran[k], elapsed) /\ Append(ran[k], elapsed) \in Seq(Nat)
  BY <1>1, AppendProperties DEF CallRuns, IInv, Shape
<1>4. IsThrottle(k[1]) \/ IsRateLimit(k[1])
  BY DEF IsThrottle, IsRateLimit, ThrottleAssumption, Throttles, Keys
<1>5. ~(IsThrottle(k[1]) /\ IsRateLimit(k[1]))
  BY DEF IsThrottle, IsRateLimit
<1>6. /\ rateLimitedCalls'[k] \in Seq(Nat)
      /\ Len(rateLimitedCalls'[k]) <= maxCalls[k[1]]
      /\ rateLimitedCalls' \in [Keys -> Seq(Nat)]
  <2>1. CASE IsRateLimit(k[1])
    <3>1. Pruned(k) \in Seq(Nat)
      BY <2>1, PrunedStamps
    <3>2. Append(Pruned(k), clock) \in Seq(Nat)
      BY <1>1, <3>1, AppendProperties
    <3>3. rateLimitedCalls' = [rateLimitedCalls EXCEPT ![k] = Append(Pruned(k), clock)]
      BY <2>1 DEF CallRuns
    <3>4. Len(rateLimitedCalls'[k]) <= maxCalls[k[1]]
      BY <2>1, RunStamps
    <3> QED
      BY <3>2, <3>3, <3>4 DEF IInv, Shape
  <2>2. CASE ~IsRateLimit(k[1])
    BY <2>2 DEF CallRuns, IInv, Shape, TypeOK
  <2> QED
    BY <2>1, <2>2
<1>7. ASSUME NEW h \in Keys, h # k
      PROVE  /\ ran'[h] = ran[h] /\ rateLimitedCalls'[h] = rateLimitedCalls[h]
             /\ lastCall'[h] = lastCall[h]
  BY <1>7 DEF CallRuns, IInv, Shape, TypeOK
<1>8. TypeOK' /\ Shape'
  <2>1. lastCall' \in [Keys -> Nat \cup {NeverCalled}]
    BY <1>1 DEF CallRuns, IInv, TypeOK
  <2>2. ran' \in [Keys -> Seq(Nat)]
    BY <1>3 DEF CallRuns, IInv, Shape
  <2>3. ASSUME NEW h \in Keys
        PROVE  Len(rateLimitedCalls'[h]) <= maxCalls[h[1]]
    BY <1>6, <1>7 DEF IInv, TypeOK
  <2> QED
    BY <1>2, <1>6, <2>1, <2>2, <2>3 DEF IInv, TypeOK, Shape
<1>9. InOrder(k)'
  <2> DEFINE n == Len(ran[k])
  <2>1. /\ Len(ran'[k]) = n + 1 /\ ran'[k][n + 1] = elapsed /\ n \in Nat
        /\ \A i \in 1 .. n : ran'[k][i] = ran[k][i]
    BY <1>1, <1>3, AppendProperties
  <2>2. \A i \in 1 .. n : ran[k][i] <= elapsed
    BY DEF IInv, InOrder
  <2>3. \A i \in 1 .. n + 1 : i \in 1 .. n \/ i = n + 1
    <3> HIDE DEF n
    <3> QED
      BY <2>1
  <2>4. ASSUME NEW i \in 1 .. n + 1
        PROVE  ran'[k][i] <= elapsed
    <3>1. CASE i \in 1 .. n
      BY <2>1, <2>2, <3>1
    <3>2. CASE i = n + 1
      <4>1. elapsed <= elapsed
        BY <1>1
      <4> QED
        BY <2>1, <3>2, <4>1
    <3> QED
      BY <2>3, <3>1, <3>2
  <2>5. ASSUME NEW i \in 1 .. n + 1, NEW j \in 1 .. n + 1, i <= j
        PROVE  ran'[k][i] <= ran'[k][j]
    <3>1. CASE j = n + 1
      BY <2>1, <2>4, <3>1
    <3>2. CASE j # n + 1
      <4>1. i \in 1 .. n /\ j \in 1 .. n
        <5> HIDE DEF n
        <5> QED
          BY <2>1, <2>5, <3>2
      <4>2. ran[k][i] <= ran[k][j]
        BY <2>5, <4>1 DEF IInv, InOrder
      <4> QED
        BY <2>1, <4>1, <4>2
    <3> QED
      BY <3>1, <3>2
  <2> QED
    BY <1>2, <2>1, <2>4, <2>5 DEF InOrder
<1>10. Spaced(k)' /\ Limited(k)'
  <2>1. CASE IsThrottle(k[1])
    BY <1>5, <2>1, RunSpaced DEF Limited
  <2>2. CASE IsRateLimit(k[1])
    BY <1>5, <2>2, RunStamps DEF Spaced
  <2> QED
    BY <1>4, <2>1, <2>2
<1>11. ASSUME NEW h \in Keys, h # k
       PROVE  InOrder(h)' /\ Spaced(h)' /\ Limited(h)'
  <2>1. InOrder(h)'
    BY <1>2, <1>7, <1>11 DEF IInv, InOrder
  <2>2. Spaced(h)'
    BY <1>2, <1>7, <1>11 DEF IInv, Spaced
  <2>3. Limited(h)'
    <3>1. \A c : Stamps(h, rateLimitedCalls[h], c) => Stamps(h, rateLimitedCalls[h], c)'
      BY <1>2, <1>7, <1>11 DEF Stamps
    <3> QED
      BY <1>2, <1>7, <1>11, <3>1 DEF IInv, Limited
  <2> QED
    BY <2>1, <2>2, <2>3
<1>12. Straight'
  BY <1>2 DEF IInv, Straight
<1> QED
  BY <1>8, <1>9, <1>10, <1>11, <1>12 DEF IInv

(* A call that is skipped or refused (CallRefused) keeps the invariant.    *)
LEMMA RefusedStep ==
  ASSUME ThrottleAssumption, IInv, NEW k \in Keys, CallRefused(k)
  PROVE  IInv'
<1>1. UNCHANGED <<clock, elapsed, lastCall, ran, adjusted>> /\ refused' \in Keys
  BY DEF CallRefused
<1>2. CASE IsRateLimit(k[1])
  <2>1. /\ Pruned(k) \in Seq(Nat) /\ Len(Pruned(k)) <= Len(rateLimitedCalls[k])
        /\ \E c \in 0 .. Len(ran[k]) : Stamps(k, Pruned(k), c)
    BY <1>2, PrunedStamps
  <2>2. /\ rateLimitedCalls' \in [Keys -> Seq(Nat)] /\ rateLimitedCalls'[k] = Pruned(k)
        /\ \A h \in Keys \ {k} : rateLimitedCalls'[h] = rateLimitedCalls[h]
    BY <1>2, <2>1 DEF CallRefused, IInv, Shape
  <2>3. Len(Pruned(k)) <= maxCalls[k[1]]
    <3>1. /\ Len(rateLimitedCalls[k]) \in Nat /\ maxCalls[k[1]] \in Nat
          /\ Len(Pruned(k)) \in Nat /\ Len(rateLimitedCalls[k]) <= maxCalls[k[1]]
      BY <2>1 DEF IInv, TypeOK, ThrottleAssumption, Keys
    <3> QED
      BY <2>1, <3>1
  <2>4. TypeOK' /\ Shape'
    BY <1>1, <2>2, <2>3 DEF IInv, TypeOK, Shape
  <2>5. ASSUME NEW h \in Keys
        PROVE  InOrder(h)' /\ Spaced(h)'
    BY <1>1 DEF IInv, InOrder, Spaced
  <2>6. ASSUME NEW h \in Keys
        PROVE  Limited(h)'
    <3>1. CASE h = k
      <4>1. \E c \in 0 .. Len(ran'[k]) : Stamps(k, rateLimitedCalls[k], c)'
        BY <1>1, <2>1, <2>2 DEF Stamps
      <4> QED
        BY <1>1, <3>1, <4>1 DEF IInv, Limited
    <3>2. CASE h # k
      BY <1>1, <2>2, <3>2 DEF IInv, Limited, Stamps
    <3> QED
      BY <3>1, <3>2
  <2> QED
    BY <1>1, <2>4, <2>5, <2>6 DEF IInv, Straight
<1>3. CASE ~IsRateLimit(k[1])
  <2>1. UNCHANGED rateLimitedCalls
    BY <1>3 DEF CallRefused
  <2>2. TypeOK' /\ Shape' /\ Straight'
    BY <1>1, <2>1 DEF IInv, TypeOK, Shape, Straight
  <2>3. ASSUME NEW h \in Keys
        PROVE  InOrder(h)' /\ Spaced(h)' /\ Limited(h)'
    BY <1>1, <2>1 DEF IInv, InOrder, Spaced, Limited, Stamps
  <2> QED
    BY <2>2, <2>3 DEF IInv
<1> QED
  BY <1>2, <1>3

(* Time that passes on both clocks keeps the invariant.                    *)
LEMMA TickStep == ThrottleAssumption /\ IInv /\ Tick => IInv'
<1> SUFFICES ASSUME ThrottleAssumption, IInv, Tick
             PROVE  IInv'
  OBVIOUS
<1>1. /\ clock \in Nat /\ elapsed \in Nat /\ MaxTime \in Nat /\ elapsed < MaxTime
      /\ elapsed' = elapsed + 1 /\ clock' = clock + 1
      /\ UNCHANGED <<lastCall, rateLimitedCalls, ran, adjusted>> /\ refused' = Nobody
  BY DEF IInv, TypeOK, Tick, ThrottleAssumption
<1>2. TypeOK' /\ Shape' /\ Straight'
  BY <1>1 DEF IInv, TypeOK, Shape, Straight
<1>3. ASSUME NEW k \in Keys
      PROVE  InOrder(k)' /\ Spaced(k)' /\ Limited(k)'
  <2>0. /\ ran[k] \in Seq(Nat) /\ rateLimitedCalls[k] \in Seq(Nat)
        /\ period[k[1]] \in Nat /\ lastCall[k] \in Int
        /\ Len(ran[k]) \in Nat /\ Len(rateLimitedCalls[k]) \in Nat
    BY DEF IInv, Shape, TypeOK, NeverCalled, ThrottleAssumption, Keys
  <2>1. \A i \in 1 .. Len(ran[k]) : ran[k][i] \in Nat
    BY <2>0
  <2>2. \A x \in Nat : x <= elapsed => x <= elapsed'
    BY <1>1
  <2>3. \A x, y \in Int : x - clock = y - elapsed => x - clock' = y - elapsed'
    BY <1>1
  <2>4. InOrder(k)'
    <3>1. \A i \in 1 .. Len(ran[k]) : ran[k][i] <= elapsed'
      BY <2>1, <2>2 DEF IInv, InOrder
    <3> QED
      BY <1>1, <3>1 DEF IInv, InOrder
  <2>5. Spaced(k)'
    <3>1. ran[k] # <<>> => ran[k][Len(ran[k])] \in Int
      BY <2>0
    <3>2. (IsThrottle(k[1]) /\ ran[k] # <<>>) =>
            lastCall[k] - clock' = ran[k][Len(ran[k])] - elapsed'
      BY <2>0, <2>3, <3>1 DEF IInv, Spaced
    <3> QED
      BY <1>1, <3>2 DEF IInv, Spaced
  <2>6. ASSUME IsRateLimit(k[1])
        PROVE  (\E c \in 0 .. Len(ran[k]) : Stamps(k, rateLimitedCalls[k], c))'
    <3> DEFINE s == rateLimitedCalls[k]
               u == Len(s)
               n == Len(ran[k])
    <3>1. PICK c \in 0 .. n : Stamps(k, s, c)
      BY <2>6 DEF IInv, Limited
    <3>2. c \in Nat /\ c <= n /\ c <= u /\ u \in Nat /\ n \in Nat
      BY <2>0, <3>1 DEF Stamps
    <3>3. ASSUME NEW i \in 1 .. c
          PROVE  s[u - c + i] - clock' = ran[k][n - c + i] - elapsed'
      <4>1. u - c + i \in 1 .. u /\ n - c + i \in 1 .. n
        <5> HIDE DEF u, n
        <5> QED
          BY <3>2
      <4>2. s[u - c + i] \in Int /\ ran[k][n - c + i] \in Int
        <5>1. \A x \in 1 .. u : s[x] \in Int
          <6>1. \A x \in 1 .. u : s[x] \in Nat
            BY <2>0
          <6> QED
            BY <6>1
        <5>2. \A x \in 1 .. n : ran[k][x] \in Int
          BY <2>1
        <5> HIDE DEF u, n, s
        <5> QED
          BY <4>1, <5>1, <5>2
      <4> QED
        BY <2>3, <3>1, <4>2 DEF Stamps
    <3>4. ASSUME NEW i \in 1 .. n - c
          PROVE  ran[k][i] + period[k[1]] <= elapsed'
      <4>1. i \in 1 .. n
        <5> HIDE DEF n
        <5> QED
          BY <3>2
      <4>2. ran[k][i] + period[k[1]] \in Nat
        <5>1. ran[k][i] \in Nat /\ period[k[1]] \in Nat
          BY <2>0, <2>1, <4>1
        <5> QED
          BY <5>1
      <4> QED
        BY <2>2, <3>1, <4>2 DEF Stamps
    <3>5. Stamps(k, rateLimitedCalls[k], c)'
      BY <1>1, <3>1, <3>3, <3>4 DEF Stamps
    <3> QED
      BY <1>1, <3>5
  <2>7. Limited(k)'
    BY <1>1, <2>6 DEF IInv, Limited
  <2> QED
    BY <2>4, <2>5, <2>7
<1> QED
  BY <1>2, <1>3 DEF IInv

(* A clock that is set (SetClock) begins a new history of runs; the stamps *)
(* it leaves in the lists are of no run of it.                             *)
LEMMA ClockStep == ThrottleAssumption /\ IInv /\ SetClock => IInv'
<1> SUFFICES ASSUME ThrottleAssumption, IInv, SetClock
             PROVE  IInv'
  OBVIOUS
<1>1. /\ clock' \in Nat /\ adjusted' = TRUE /\ refused' = Nobody
      /\ ran' = [k \in Keys |-> <<>>]
      /\ UNCHANGED <<elapsed, lastCall, rateLimitedCalls>>
  BY DEF SetClock, ThrottleAssumption
<1>2. <<>> \in Seq(Nat) /\ Len(<<>>) = 0
  BY EmptySeq
<1>3. Shape'
  BY <1>1, <1>2 DEF IInv, Shape
<1>4. TypeOK'
  <2>1. \A k \in Keys : ran'[k] \in Seq(Nat)
    BY <1>1, <1>2
  <2> QED
    BY <1>1, <2>1 DEF IInv, TypeOK
<1>5. ASSUME NEW k \in Keys
      PROVE  InOrder(k)' /\ Spaced(k)' /\ Limited(k)'
  <2>1. Len(ran'[k]) = 0 /\ ran'[k] = <<>>
    BY <1>1, <1>2
  <2>2. maxCalls[k[1]] \in Nat \ {0} /\ Len(rateLimitedCalls[k]) \in Nat
    BY DEF ThrottleAssumption, Keys, IInv, Shape
  <2>3. InOrder(k)'
    BY <2>1 DEF InOrder
  <2>4. Spaced(k)'
    BY <1>1, <2>1 DEF Spaced
  <2>5. Stamps(k, rateLimitedCalls[k], 0)'
    BY <1>1, <2>1, <2>2 DEF Stamps
  <2>6. Limited(k)'
    BY <2>1, <2>2, <2>5 DEF Limited
  <2> QED
    BY <2>3, <2>4, <2>6
<1>6. Straight'
  BY <1>1 DEF Straight
<1> QED
  BY <1>3, <1>4, <1>5, <1>6 DEF IInv

(* The state that throttling keeps agrees with the runs that really were.  *)
THEOREM Invariance == Spec => []IInv
<1>1. Init => IInv
  BY ThrottleAssumption, InitIInv
<1>2. IInv /\ [Next]_vars => IInv'
  <2> SUFFICES ASSUME IInv, [Next]_vars
               PROVE  IInv'
    OBVIOUS
  <2>1. CASE UNCHANGED vars
    BY <2>1 DEF vars, IInv, TypeOK, Shape, Straight, InOrder, Spaced, Limited, Stamps
  <2>2. CASE Next
    BY <2>2, ThrottleAssumption, RunStep, RefusedStep, TickStep, ClockStep DEF Next
  <2> QED
    BY <2>1, <2>2
<1> QED
  BY <1>1, <1>2, PTL DEF Spec

-----------------------------------------------------------------------------
(* The theorems                                                            *)

(* A set of numbers that are all less than b apart has at most b elements. *)
LEMMA Narrow ==
  ASSUME NEW n \in Nat, NEW W \in SUBSET (1 .. n), NEW b \in Nat,
         \A i, j \in W : j < i + b
  PROVE  IsFiniteSet(W) /\ Cardinality(W) \in Nat /\ Cardinality(W) <= b
<1>1. IsFiniteSet(1 .. n)
  BY FS_Interval
<1>2. IsFiniteSet(W) /\ Cardinality(W) \in Nat
  BY <1>1, FS_Subset, FS_CardinalityType
<1>3. CASE W = {}
  BY <1>2, <1>3, FS_EmptySet
<1>4. CASE W # {}
  <2> DEFINE R == {xy \in Nat \X Nat : xy[1] < xy[2]}
  <2>1. IsWellFoundedOn(R, Nat)
    BY NatLessThanWellFounded DEF R, OpToRel
  <2>2. PICK i \in W : \A j \in W : ~ (<<j, i>> \in R)
    <3>1. W \subseteq Nat
      OBVIOUS
    <3> HIDE DEF R
    <3> QED
      BY <1>4, <2>1, <3>1, WFMin
  <2>3. i \in Nat /\ \A j \in W : j \in Nat /\ i <= j
    <3>1. ASSUME NEW j \in W
          PROVE  j \in Nat /\ i <= j
      <4>1. i \in Nat /\ j \in Nat /\ ~ (<<j, i>> \in R)
        BY <2>2
      <4>2. j < i => <<j, i>> \in R
        BY <4>1
      <4> HIDE DEF R
      <4> QED
        BY <4>1, <4>2
    <3> QED
      BY <3>1
  <2>4. W \in SUBSET (i .. i + b - 1)
    BY <2>3
  <2>5. b >= 1
    BY <2>2, <2>3
  <2>6. i \in Int /\ i + b - 1 \in Int
    BY <2>3
  <2>7. IsFiniteSet(i .. i + b - 1) /\ Cardinality(i .. i + b - 1) = b
    BY <2>3, <2>5, <2>6, FS_Interval
  <2>8. Cardinality(W) <= Cardinality(i .. i + b - 1)
    BY <2>4, <2>7, FS_Subset
  <2> QED
    BY <1>2, <2>7, <2>8
<1> QED
  BY <1>3, <1>4

(* A set that holds the last b of n numbers has at least b elements.       *)
LEMMA Wide ==
  ASSUME NEW n \in Nat, NEW W \in SUBSET (1 .. n), NEW b \in Nat \ {0}, b <= n,
         \A i \in n - b + 1 .. n : i \in W
  PROVE  Cardinality(W) \in Nat /\ Cardinality(W) >= b
<1>1. IsFiniteSet(1 .. n)
  BY FS_Interval
<1>2. IsFiniteSet(W) /\ Cardinality(W) \in Nat
  BY <1>1, FS_Subset, FS_CardinalityType
<1>3. (n - b + 1 .. n) \in SUBSET W
  OBVIOUS
<1>4. n - b + 1 \in Int /\ n \in Int /\ ~(n - b + 1 > n) /\ n - (n - b + 1) + 1 = b
  OBVIOUS
<1>5. Cardinality(n - b + 1 .. n) = b
  BY <1>4, FS_Interval
<1> QED
  BY <1>2, <1>3, <1>5, FS_Subset

(* The types hold, and no list of calls outgrows throttle_max_calls.       *)
THEOREM TypeCorrect == Spec => []TypeOK
<1>1. IInv => TypeOK
  BY DEF IInv
<1> QED
  BY <1>1, Invariance, PTL

(* The runs that are recorded are sequences of times.                      *)
LEMMA RunFacts ==
  ASSUME ThrottleAssumption, IInv, NEW k \in Keys
  PROVE  /\ ran[k] \in Seq(Nat) /\ Len(ran[k]) \in Nat
         /\ DOMAIN ran[k] = 1 .. Len(ran[k])
         /\ \A i \in 1 .. Len(ran[k]) : ran[k][i] \in Nat
         /\ period[k[1]] \in Nat /\ maxCalls[k[1]] \in Nat \ {0}
         /\ clock \in Nat /\ elapsed \in Nat
<1>1. ran[k] \in Seq(Nat)
  BY DEF IInv, Shape
<1>2. Len(ran[k]) \in Nat /\ DOMAIN ran[k] = 1 .. Len(ran[k])
  BY <1>1, LenProperties
<1>3. \A i \in 1 .. Len(ran[k]) : ran[k][i] \in Nat
  BY <1>1
<1>4. period[k[1]] \in Nat /\ maxCalls[k[1]] \in Nat \ {0} /\ clock \in Nat /\ elapsed \in Nat
  BY DEF IInv, TypeOK, ThrottleAssumption, Keys
<1> QED
  BY <1>1, <1>2, <1>3, <1>4

(* "THROTTLE: Skip execution if called within throttle_period": for any    *)
(* period, two runs of a method are at least a period apart, unless the    *)
(* clock is set between them.                                              *)
THEOREM Apart == Spec => []RunsApart
<1>1. IInv => RunsApart
  <2> SUFFICES ASSUME IInv, NEW k \in Keys, IsThrottle(k[1]), NEW t \in 0 .. MaxTime
               PROVE  Cardinality(RunsWithin(k, k[1], t)) <= 1
    BY DEF RunsApart
  <2> DEFINE n == Len(ran[k])
             p == period[k[1]]
             W == RunsWithin(k, k[1], t)
  <2>1. /\ n \in Nat /\ p \in Nat /\ DOMAIN ran[k] = 1 .. n /\ t \in Nat
        /\ \A i \in 1 .. n : ran[k][i] \in Nat
    BY ThrottleAssumption, RunFacts DEF ThrottleAssumption
  <2>2. W \in SUBSET (1 .. n)
    BY <2>1 DEF RunsWithin
  <2>3. ASSUME NEW i \in W, NEW j \in W
        PROVE  j < i + 1
    <3>1. i \in 1 .. n /\ j \in 1 .. n /\ ran[k][j] <= t /\ ran[k][i] + p > t
      BY <2>1 DEF RunsWithin
    <3>2. ran[k][i] \in Nat /\ ran[k][j] \in Nat
      BY <2>1, <3>1
    <3>3. SUFFICES ASSUME i < j
                   PROVE  FALSE
      BY <3>1
    <3>4. ran[k][i] + p <= ran[k][j]
      BY <3>1, <3>3 DEF IInv, Spaced
    <3>5. \A x, y \in Nat : x + p <= y /\ y <= t => ~(x + p > t)
      BY <2>1
    <3> QED
      BY <3>1, <3>2, <3>4, <3>5
  <2> HIDE DEF W, n
  <2> QED
    BY <2>1, <2>2, <2>3, Narrow DEF W
<1> QED
  BY <1>1, Invariance, PTL

(* "RATE_LIMIT: Allow up to throttle_max_calls within throttle_period,     *)
(* then fail": for any period and limit, no period of time in which the    *)
(* clock is not set holds more runs, although the list of stamps is only   *)
(* pruned when it is full and keeps stamps from before the clock was set.  *)
THEOREM Limit == Spec => []RunsLimited
<1>1. IInv => RunsLimited
  <2> SUFFICES ASSUME IInv, NEW k \in Keys, IsRateLimit(k[1]), NEW t \in 0 .. MaxTime
               PROVE  Cardinality(RunsWithin(k, k[1], t)) <= maxCalls[k[1]]
    BY DEF RunsLimited
  <2> DEFINE n == Len(ran[k])
             p == period[k[1]]
             b == maxCalls[k[1]]
             W == RunsWithin(k, k[1], t)
  <2>1. /\ n \in Nat /\ p \in Nat /\ b \in Nat /\ DOMAIN ran[k] = 1 .. n /\ t \in Nat
        /\ \A i \in 1 .. n : ran[k][i] \in Nat
    BY ThrottleAssumption, RunFacts DEF ThrottleAssumption
  <2>2. W \in SUBSET (1 .. n)
    BY <2>1 DEF RunsWithin
  <2>3. ASSUME NEW i \in W, NEW j \in W
        PROVE  j < i + b
    <3>1. i \in 1 .. n /\ j \in 1 .. n /\ ran[k][j] <= t /\ ran[k][i] + p > t
      BY <2>1 DEF RunsWithin
    <3>2. SUFFICES ASSUME i + b <= j
                   PROVE  FALSE
      <4> HIDE DEF b, n
      <4> QED
        BY <2>1, <3>1, <3>2
    <3>3. i \in 1 .. n - b /\ i + b \in 1 .. n
      <4> HIDE DEF b, n
      <4> QED
        BY <2>1, <3>1, <3>2
    <3>4. ran[k][i] + p <= ran[k][i + b]
      BY <3>3 DEF IInv, Limited
    <3>5. ran[k][i + b] <= ran[k][j]
      BY <3>1, <3>2, <3>3 DEF IInv, InOrder
    <3>6. ran[k][i] \in Nat /\ ran[k][j] \in Nat /\ ran[k][i + b] \in Nat
      BY <2>1, <3>1, <3>3
    <3>7. \A x, y, z \in Nat : x + p <= y /\ y <= z /\ z <= t => ~(x + p > t)
      BY <2>1
    <3> QED
      BY <3>1, <3>4, <3>5, <3>6, <3>7
  <2> HIDE DEF W, n, b
  <2> QED
    BY <2>1, <2>2, <2>3, Narrow DEF W, b
<1> QED
  BY <1>1, Invariance, PTL

(* The same two sentences the other way round: as long as nobody sets the  *)
(* clock, a call is skipped only if the period before it holds a run, and  *)
(* refused only if it holds throttle_max_calls of them.                    *)
THEOREM Justified == Spec => []RefusedForCause
<1>1. Init => RefusedForCause
  BY DEF Init, RefusedForCause
<1>2. IInv /\ RefusedForCause /\ [Next]_vars => RefusedForCause'
  <2> SUFFICES ASSUME IInv, RefusedForCause, [Next]_vars
               PROVE  RefusedForCause'
    OBVIOUS
  <2>1. ASSUME NEW k \in Keys, CallRefused(k)
        PROVE  RefusedForCause'
    <3> DEFINE n == Len(ran[k])
               p == period[k[1]]
               b == maxCalls[k[1]]
               W == RunsWithin(k, k[1], elapsed)
    <3>1. /\ n \in Nat /\ p \in Nat /\ b \in Nat \ {0} /\ DOMAIN ran[k] = 1 .. n
          /\ \A i \in 1 .. n : ran[k][i] \in Nat
          /\ clock \in Nat /\ elapsed \in Nat
      BY ThrottleAssumption, RunFacts
    <3>2. refused' = k /\ UNCHANGED <<elapsed, ran, adjusted>> /\ ~Admitted(k)
      BY <2>1 DEF CallRefused
    <3>3. SUFFICES ASSUME ~adjusted
                   PROVE  Cardinality(W) >= (IF IsThrottle(k[1]) THEN 1 ELSE b)
      BY <3>2 DEF RefusedForCause, RunsWithin
    <3>4. clock = elapsed
      BY <3>3 DEF IInv, Straight
    <3>5. W \in SUBSET (1 .. n)
      BY <3>1 DEF RunsWithin
    <3>6. ASSUME NEW i \in 1 .. n, ran[k][i] + p > elapsed
          PROVE  i \in W
      BY <3>1, <3>6 DEF IInv, InOrder, RunsWithin
    <3>7. CASE IsThrottle(k[1])
      <4>1. lastCall[k] # NeverCalled /\ ~(clock >= lastCall[k] + p)
        BY <3>2, <3>7 DEF Admitted
      <4>2. ran[k] # <<>> /\ lastCall[k] - clock = ran[k][n] - elapsed
        BY <3>3, <3>7, <4>1 DEF IInv, Spaced
      <4>3. lastCall[k] \in Nat
        BY <4>1 DEF IInv, TypeOK
      <4>4. n >= 1 /\ n \in 1 .. n
        <5>1. ran[k] \in Seq(Nat)
          BY DEF IInv, Shape
        <5> QED
          BY <4>2, <5>1
      <4>5. ran[k][n] \in Nat
        BY <3>1, <4>4
      <4>6. ran[k][n] + p > elapsed
        <5>1. \A x, y \in Nat :
                ~(elapsed >= x + p) /\ x - elapsed = y - elapsed => y + p > elapsed
          BY <3>1
        <5> HIDE DEF n, p
        <5> QED
          BY <3>4, <4>1, <4>2, <4>3, <4>5, <5>1
      <4>7. n \in W
        BY <3>6, <4>4, <4>6
      <4> HIDE DEF W, n
      <4>8. ASSUME NEW d \in Nat \ {0}, d = 1
            PROVE  Cardinality(W) >= d
        <5>1. \A i \in n - d + 1 .. n : i \in W
          BY <3>1, <4>7, <4>8
        <5>2. d <= n
          BY <4>4, <4>8
        <5> QED
          BY <3>1, <3>5, <5>1, <5>2, Wide
      <4>9. Cardinality(W) >= 1
        BY <4>8
      <4> QED
        BY <3>7, <4>9
    <3>8. CASE ~IsThrottle(k[1])
      <4> DEFINE q == Pruned(k)
                 w == Len(q)
      <4>1. IsRateLimit(k[1])
        BY <3>8, ThrottleAssumption DEF IsThrottle, IsRateLimit, ThrottleAssumption,
                                        Throttles, Keys
      <4>2. q \in Seq(Nat) /\ w \in Nat
        BY <4>1, ThrottleAssumption, PrunedStamps
      <4>3. w >= b
        BY <3>1, <3>2, <3>8, <4>2 DEF Admitted
      <4>4. \A i \in 1 .. w : q[i] + p > clock
        BY <4>1, <4>3, ThrottleAssumption, PrunedStamps
      <4>5. PICK c \in 0 .. n : Stamps(k, q, c)
        BY <4>1, ThrottleAssumption, PrunedStamps
      <4>6. c = w /\ c \in Nat /\ c <= n
        BY <3>1, <3>3, <4>2, <4>5 DEF Stamps
      <4>7. ASSUME NEW i \in n - b + 1 .. n
            PROVE  i \in W
        <5> DEFINE h == i - (n - c)
        <5>1. h \in 1 .. c /\ w - c + h = h /\ n - c + h = i /\ i \in 1 .. n
          <6> HIDE DEF n, b, w
          <6> QED
            BY <3>1, <4>2, <4>3, <4>6
        <5>2. q[h] - clock = ran[k][i] - elapsed
          BY <4>5, <5>1 DEF Stamps
        <5>3. q[h] + p > clock
          BY <4>4, <4>6, <5>1
        <5>4. q[h] \in Nat
          <6>1. h \in 1 .. w
            BY <4>6, <5>1
          <6> HIDE DEF q, h
          <6> QED
            BY <4>2, <6>1
        <5>5. ran[k][i] \in Nat
          BY <3>1, <5>1
        <5>6. ran[k][i] + p > elapsed
          <6>1. \A x, y \in Nat :
                  x - elapsed = y - elapsed /\ x + p > elapsed => y + p > elapsed
            BY <3>1
          <6> HIDE DEF h, p, q
          <6> QED
            BY <3>4, <5>2, <5>3, <5>4, <5>5, <6>1
        <5> QED
          BY <3>6, <5>1, <5>6
      <4>8. b <= n
        <5> HIDE DEF n, b, w
        <5> QED
          BY <3>1, <4>2, <4>3, <4>6
      <4> HIDE DEF W, n, b
      <4>9. Cardinality(W) >= b
        BY <3>1, <3>5, <4>7, <4>8, Wide
      <4> QED
        BY <3>8, <4>9
    <3> QED
      BY <3>7, <3>8
  <2>2. CASE Tick \/ SetClock \/ \E k \in Keys : CallRuns(k)
    BY <2>2 DEF Tick, SetClock, CallRuns, RefusedForCause
  <2>3. CASE UNCHANGED vars
    BY <2>3 DEF vars, RefusedForCause, RunsWithin
  <2> QED
    BY <2>1, <2>2, <2>3 DEF Next
<1> QED
  BY <1>1, <1>2, Invariance, PTL DEF Spec

=============================================================================
