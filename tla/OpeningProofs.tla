------------------------------ MODULE OpeningProofs ------------------------------
(***************************************************************************)
(* Whatever is opened, and for every size of words and blocks, an archive  *)
(* is opened as what it is and within the limits, and what is read of it   *)
(* stays within them.                                                      *)
(***************************************************************************)
EXTENDS OpeningProperties, SequenceTheorems, Recursion

--------------------------------------------------------------------------------
(* Sums *)

LEMMA TotalsFacts ==
    ASSUME NEW sizes \in Seq(Nat)
    PROVE  /\ Totals(sizes) \in [0 .. Len(sizes) -> Nat]
           /\ Totals(sizes)[0] = 0
           /\ \A n \in 1 .. Len(sizes) : Totals(sizes)[n] = Totals(sizes)[n - 1] + sizes[n]
<1> DEFINE N == Len(sizes)
           g == [n \in 1 .. N |-> [v \in Nat |-> v + sizes[n]]]
           Is(f) == f = [n \in 0 .. N |-> IF n = 0 THEN 0 ELSE f[n - 1] + sizes[n]]
<1>1. N \in Nat /\ \A n \in 1 .. N : sizes[n] \in Nat
  OBVIOUS
<1>2. g \in [1 .. N -> [Nat -> Nat]]
  BY <1>1
<1>3. PICK f \in [0 .. N -> Nat] : Follows(f, N, 0, g)
  <2> HIDE DEF g, N
  <2>1. 0 \in Nat
    OBVIOUS
  <2> QED
    BY <1>1, <1>2, <2>1, RecursionExists
<1>4. ASSUME NEW n \in 0 .. N
      PROVE  f[n] = IF n = 0 THEN 0 ELSE f[n - 1] + sizes[n]
  <2>1. CASE n = 0
    BY <1>3, <2>1 DEF Follows
  <2>2. CASE n # 0
    <3>1. n \in 1 .. N /\ n - 1 \in 0 .. N
      BY <1>1, <2>2
    <3> QED
      BY <1>3, <3>1 DEF Follows
  <2> QED
    BY <2>1, <2>2
<1>5. Is(f)
  BY <1>3, <1>4
<1>6. Is(Totals(sizes)) /\ Totals(sizes) = CHOOSE t : Is(t)
  BY <1>5 DEF Totals
<1> HIDE DEF g
<1>7. DOMAIN Totals(sizes) = 0 .. N
  BY <1>6
<1> DEFINE S == {n \in 0 .. N : Totals(sizes)[n] \in Nat}
<1>8. Totals(sizes)[0] = 0
  <2>1. 0 \in 0 .. N
    BY <1>1
  <2> QED
    BY <1>6, <2>1
<1>9. ASSUME NEW n \in 1 .. N
      PROVE  Totals(sizes)[n] = Totals(sizes)[n - 1] + sizes[n]
  <2>1. n \in 0 .. N /\ n # 0
    BY <1>1
  <2> DEFINE t == Totals(sizes)
  <2>2. t = [m \in 0 .. N |-> IF m = 0 THEN 0 ELSE t[m - 1] + sizes[m]]
    BY <1>6
  <2> HIDE DEF t, N
  <2>3. t[n] = IF n = 0 THEN 0 ELSE t[n - 1] + sizes[n]
    BY <2>1, <2>2
  <2> QED
    BY <2>1, <2>3 DEF t
<1>10. 0 .. N \subseteq S
  <2>1. 0 \in S
    BY <1>1, <1>8
  <2>2. ASSUME NEW n \in 0 .. N - 1, n \in S
        PROVE  n + 1 \in S
    <3>1. n + 1 \in 1 .. N /\ (n + 1) - 1 = n
      BY <1>1
    <3> QED
      BY <1>1, <1>9, <2>2, <3>1
  <2> HIDE DEF S, N
  <2> QED
    BY <1>1, <2>1, <2>2, UptoInduction
<1> QED
  BY <1>6, <1>7, <1>8, <1>9, <1>10

LEMMA TotalsGrow ==
    ASSUME NEW sizes \in Seq(Nat), NEW m \in 0 .. Len(sizes)
    PROVE  Totals(sizes)[m] \in Nat /\ Totals(sizes)[m] <= Total(sizes)
<1> DEFINE N == Len(sizes)
           t == Totals(sizes)
           S == {n \in 0 .. N : m <= n => t[m] <= t[n]}
<1>1. N \in Nat /\ t \in [0 .. N -> Nat]
  BY TotalsFacts
<1>2. \A n \in 1 .. N : t[n] = t[n - 1] + sizes[n] /\ sizes[n] \in Nat
  BY TotalsFacts
<1>3. 0 \in S
  BY <1>1
<1>4. ASSUME NEW n \in 0 .. N - 1, n \in S
      PROVE  n + 1 \in S
  <2> HIDE DEF t
  <2>1. n + 1 \in 1 .. N /\ (n + 1) - 1 = n
    BY <1>1
  <2>2. t[n] \in Nat /\ t[m] \in Nat /\ t[n + 1] \in Nat /\ t[n + 1] >= t[n]
    BY <1>1, <1>2, <2>1
  <2> QED
    BY <1>1, <1>4, <2>1, <2>2
<1>5. 0 .. N \subseteq S
  <2> HIDE DEF N, S
  <2> QED
    BY <1>1, <1>3, <1>4, UptoInduction
<1>6. N \in S
  BY <1>1, <1>5
<1> QED
  BY <1>1, <1>6 DEF Total

LEMMA TotalOfNothing ==
    ASSUME NEW sizes \in Seq(Nat), \A n \in 1 .. Len(sizes) : sizes[n] = 0
    PROVE  Total(sizes) = 0
<1> DEFINE N == Len(sizes)
           t == Totals(sizes)
           S == {n \in 0 .. N : t[n] = 0}
<1>1. N \in Nat /\ t[0] = 0 /\ \A n \in 1 .. N : t[n] = t[n - 1] + sizes[n]
  BY TotalsFacts
<1>2. 0 \in S
  BY <1>1
<1>3. ASSUME NEW n \in 0 .. N - 1, n \in S
      PROVE  n + 1 \in S
  <2> HIDE DEF t
  <2>1. n + 1 \in 1 .. N /\ (n + 1) - 1 = n
    BY <1>1
  <2> QED
    BY <1>1, <1>3, <2>1
<1>4. 0 .. N \subseteq S
  <2> HIDE DEF N, S
  <2> QED
    BY <1>1, <1>2, <1>3, UptoInduction
<1> QED
  BY <1>1, <1>4 DEF Total

\* A sum is not above another one whose summands are not below its own.
LEMMA TotalsBelow ==
    ASSUME NEW a \in Seq(Nat), NEW b \in Seq(Nat), NEW n \in 0 .. Len(a), n <= Len(b),
           \A k \in 1 .. n : a[k] <= b[k]
    PROVE  Totals(a)[n] <= Totals(b)[n]
<1> DEFINE t == Totals(a)
           u == Totals(b)
           S == {k \in 0 .. n : t[k] <= u[k]}
<1>1. n \in Nat /\ Len(a) \in Nat /\ Len(b) \in Nat
  OBVIOUS
<1>2. \A k \in 1 .. n : a[k] \in Nat /\ b[k] \in Nat
  BY <1>1
<1>3. t[0] = 0 /\ \A k \in 1 .. n : t[k] = t[k - 1] + a[k]
  BY <1>1, TotalsFacts
<1>4. u[0] = 0 /\ \A k \in 1 .. n : u[k] = u[k - 1] + b[k]
  BY <1>1, TotalsFacts
<1>5. t \in [0 .. Len(a) -> Nat] /\ u \in [0 .. Len(b) -> Nat]
  BY TotalsFacts
<1> HIDE DEF t, u
<1>6. 0 \in S
  BY <1>1, <1>3, <1>4
<1>7. ASSUME NEW k \in 0 .. n - 1, k \in S
      PROVE  k + 1 \in S
  <2>1. k + 1 \in 1 .. n /\ k + 1 \in 0 .. n /\ (k + 1) - 1 = k /\ k \in 0 .. n
    BY <1>1
  <2>2. t[k + 1] = t[k] + a[k + 1] /\ u[k + 1] = u[k] + b[k + 1]
    BY <1>3, <1>4, <2>1
  <2>3. t[k] <= u[k] /\ a[k + 1] <= b[k + 1]
    BY <1>7, <2>1
  <2>4. t[k] \in Nat /\ u[k] \in Nat /\ a[k + 1] \in Nat /\ b[k + 1] \in Nat
    <3>1. k \in 0 .. Len(a) /\ k \in 0 .. Len(b)
      BY <1>1, <2>1
    <3> QED
      BY <1>2, <1>5, <2>1, <3>1
  <2>5. t[k + 1] <= u[k + 1]
    BY <2>2, <2>3, <2>4
  <2> QED
    BY <2>1, <2>5
<1>8. 0 .. n \subseteq S
  <2> HIDE DEF S
  <2> QED
    BY <1>1, <1>6, <1>7, UptoInduction
<1>9. n \in S
  BY <1>1, <1>8
<1> QED
  BY <1>9 DEF t, u

--------------------------------------------------------------------------------
(* Limits *)

EntryErrors == {"none", "unsafePath", "unsafeLink", "resourceLimit"}
SumRange == [total : Word, error : EntryErrors]

LEMMA CountedFacts ==
    ASSUME NEW l \in Limits, NEW sum \in SumRange, NEW e \in ListedEntry,
           NEW error \in EntryErrors
    PROVE  /\ Counted(l, sum, e, error) \in SumRange
           /\ Counted(l, sum, e, error).error = "none"
                 => /\ sum.error = "none" /\ error = "none"
                    /\ Counted(l, sum, e, error).total = sum.total + e.size
                    /\ Counted(l, sum, e, error).total <= l.total
<1>1. sum.total \in Word /\ sum.error \in EntryErrors /\ e.size \in Word /\ l.total \in Word
  BY DEF SumRange, ListedEntry, Entry, Limits
<1> DEFINE total == (sum.total + e.size) % (MaxWord + 1)
<1>2. total \in Word
  BY <1>1, WordAssumption DEF Word
<1>3. ~Overflows(sum.total, e.size) => total = sum.total + e.size
  <2>1. ASSUME NEW a \in 0 .. MaxWord
        PROVE  a % (MaxWord + 1) = a
    BY WordAssumption
  <2>2. ~Overflows(sum.total, e.size) => sum.total + e.size \in 0 .. MaxWord
    BY <1>1, WordAssumption DEF Overflows, Word
  <2> QED
    BY <2>1, <2>2
<1> HIDE DEF total
<1>4. Counted(l, sum, e, error) =
         IF sum.error # "none" THEN sum
         ELSE IF error # "none" THEN [sum EXCEPT !.error = error]
         ELSE IF Overflows(sum.total, e.size) \/ total > l.total
         THEN [sum EXCEPT !.error = "resourceLimit"]
         ELSE [sum EXCEPT !.total = total]
  BY DEF Counted, total
<1>5. CASE sum.error # "none"
  BY <1>4, <1>5
<1>6. CASE sum.error = "none" /\ error # "none"
  BY <1>4, <1>6 DEF SumRange
<1>7. CASE sum.error = "none" /\ error = "none" /\ (Overflows(sum.total, e.size) \/ total > l.total)
  BY <1>4, <1>7 DEF SumRange, EntryErrors
<1>8. CASE sum.error = "none" /\ error = "none" /\ ~(Overflows(sum.total, e.size) \/ total > l.total)
  <2>1. Counted(l, sum, e, error) = [sum EXCEPT !.total = total]
    BY <1>4, <1>8
  <2>2. total <= l.total
    BY <1>1, <1>2, <1>8, WordAssumption DEF Word
  <2> QED
    BY <1>2, <1>3, <1>8, <2>1, <2>2 DEF SumRange
<1> QED
  BY <1>5, <1>6, <1>7, <1>8

LEMMA SumsFacts ==
    ASSUME NEW l \in Limits, NEW es \in Seq(ListedEntry), NEW errors \in [DOMAIN es -> EntryErrors]
    PROVE  /\ Sums(l, es, errors) \in [0 .. Len(es) -> SumRange]
           /\ Sums(l, es, errors)[0] = [total |-> 0, error |-> "none"]
           /\ \A n \in 1 .. Len(es) :
                 Sums(l, es, errors)[n] = Counted(l, Sums(l, es, errors)[n - 1], es[n], errors[n])
<1> DEFINE N == Len(es)
           a == [total |-> 0, error |-> "none"]
           g == [n \in 1 .. N |-> [v \in SumRange |-> Counted(l, v, es[n], errors[n])]]
           Is(f) == f = [n \in 0 .. N |-> IF n = 0 THEN a
                                         ELSE Counted(l, f[n - 1], es[n], errors[n])]
<1>1. N \in Nat /\ \A n \in 1 .. N : es[n] \in ListedEntry /\ errors[n] \in EntryErrors
  OBVIOUS
<1>2. g \in [1 .. N -> [SumRange -> SumRange]]
  BY <1>1, CountedFacts
<1>3. a \in SumRange
  BY WordAssumption DEF SumRange, Word, EntryErrors
<1>4. PICK f \in [0 .. N -> SumRange] : Follows(f, N, a, g)
  <2> HIDE DEF g, N, a
  <2> QED
    BY <1>1, <1>2, <1>3, RecursionExists
<1>5. ASSUME NEW n \in 0 .. N
      PROVE  f[n] = IF n = 0 THEN a ELSE Counted(l, f[n - 1], es[n], errors[n])
  <2>1. CASE n = 0
    BY <1>4, <2>1 DEF Follows
  <2>2. CASE n # 0
    <3>1. n \in 1 .. N /\ n - 1 \in 0 .. N
      BY <1>1, <2>2
    <3>2. f[n] = g[n][f[n - 1]] /\ f[n - 1] \in SumRange
      BY <1>4, <3>1 DEF Follows
    <3> QED
      BY <2>2, <3>1, <3>2
  <2> QED
    BY <2>1, <2>2
<1>6. Is(f)
  BY <1>4, <1>5
<1>7. Is(Sums(l, es, errors))
  BY <1>6 DEF Sums
<1> DEFINE t == Sums(l, es, errors)
<1>8. t = [n \in 0 .. N |-> IF n = 0 THEN a ELSE Counted(l, t[n - 1], es[n], errors[n])]
  BY <1>7
<1> HIDE DEF t, g, N, a
<1>9. DOMAIN t = 0 .. N /\ t[0] = a
  BY <1>1, <1>8
<1>10. ASSUME NEW n \in 1 .. N
       PROVE  t[n] = Counted(l, t[n - 1], es[n], errors[n])
  <2>1. n \in 0 .. N /\ n # 0
    BY <1>1
  <2>2. t[n] = IF n = 0 THEN a ELSE Counted(l, t[n - 1], es[n], errors[n])
    BY <1>8, <2>1
  <2> QED
    BY <2>1, <2>2
<1> DEFINE S == {n \in 0 .. N : t[n] \in SumRange}
<1>11. 0 .. N \subseteq S
  <2>1. 0 \in S
    BY <1>1, <1>3, <1>9
  <2>2. ASSUME NEW n \in 0 .. N - 1, n \in S
        PROVE  n + 1 \in S
    <3>1. n + 1 \in 1 .. N /\ (n + 1) - 1 = n /\ n + 1 \in 0 .. N
      BY <1>1
    <3>2. es[n + 1] \in ListedEntry /\ errors[n + 1] \in EntryErrors
      BY <1>1, <3>1
    <3>3. t[n + 1] = Counted(l, t[n], es[n + 1], errors[n + 1])
      BY <1>10, <3>1
    <3>4. Counted(l, t[n], es[n + 1], errors[n + 1]) \in SumRange
      BY <2>2, <3>2, CountedFacts
    <3> QED
      BY <3>1, <3>3, <3>4
  <2> HIDE DEF S
  <2> QED
    BY <1>1, <2>1, <2>2, UptoInduction
<1>12. t \in [0 .. N -> SumRange]
  <2>1. \A n \in 0 .. N : t[n] \in SumRange
    BY <1>11
  <2>2. t = [n \in 0 .. N |-> t[n]]
    BY <1>8
  <2> QED
    BY <2>1, <2>2
<1> QED
  BY <1>9, <1>10, <1>12 DEF t, N, a

\* A sum without an error is exact and within the limit, and no entry had one.
LEMMA SumIsExact ==
    ASSUME NEW l \in Limits, NEW es \in Seq(ListedEntry), NEW errors \in [DOMAIN es -> EntryErrors]
    PROVE  /\ Sum(l, es, errors) \in SumRange
           /\ Sum(l, es, errors).error = "none"
                 => /\ Total(SizesOf(es)) <= l.total
                    /\ \A n \in 1 .. Len(es) : errors[n] = "none"
<1> DEFINE N == Len(es)
           t == Sums(l, es, errors)
           sizes == SizesOf(es)
           u == Totals(sizes)
           Precise(n) == t[n].error = "none"
                          => /\ t[n].total = u[n] /\ t[n].total <= l.total
                             /\ \A i \in 1 .. n : errors[i] = "none"
           S == {n \in 0 .. N : Precise(n)}
<1>1. N \in Nat /\ \A n \in 1 .. N : es[n] \in ListedEntry /\ errors[n] \in EntryErrors
  OBVIOUS
<1>2. /\ sizes \in Seq(Nat) /\ Len(sizes) = N
      /\ \A n \in 1 .. N : sizes[n] = es[n].size
  <2>1. \A n \in 1 .. N : es[n].size \in Nat
    BY <1>1, WordAssumption DEF ListedEntry, Entry, Word
  <2>2. sizes = [n \in 1 .. N |-> es[n].size]
    BY DEF SizesOf
  <2> QED
    BY <1>1, <2>1, <2>2
<1> HIDE DEF sizes
<1>3. u[0] = 0 /\ \A n \in 1 .. N : u[n] = u[n - 1] + sizes[n]
  BY <1>2, TotalsFacts
<1>4. /\ t \in [0 .. N -> SumRange] /\ t[0] = [total |-> 0, error |-> "none"]
      /\ \A n \in 1 .. N : t[n] = Counted(l, t[n - 1], es[n], errors[n])
  BY SumsFacts
<1> HIDE DEF t, u
<1>5. 0 \in S
  BY <1>1, <1>3, <1>4 DEF Limits, Word
<1>6. ASSUME NEW n \in 0 .. N - 1, n \in S
      PROVE  n + 1 \in S
  <2>1. n + 1 \in 1 .. N /\ (n + 1) - 1 = n /\ n + 1 \in 0 .. N /\ n \in 0 .. N
    BY <1>1
  <2>2. SUFFICES ASSUME t[n + 1].error = "none"
                 PROVE  /\ t[n + 1].total = u[n + 1] /\ t[n + 1].total <= l.total
                        /\ \A i \in 1 .. n + 1 : errors[i] = "none"
    BY <2>1
  <2>3. es[n + 1] \in ListedEntry /\ errors[n + 1] \in EntryErrors /\ t[n] \in SumRange
    BY <1>1, <1>4, <2>1
  <2>4. t[n + 1] = Counted(l, t[n], es[n + 1], errors[n + 1])
    BY <1>4, <2>1
  <2>5. /\ t[n].error = "none" /\ errors[n + 1] = "none"
        /\ t[n + 1].total = t[n].total + es[n + 1].size
        /\ t[n + 1].total <= l.total
    BY <2>2, <2>3, <2>4, CountedFacts
  <2>6. t[n].total = u[n] /\ \A i \in 1 .. n : errors[i] = "none"
    BY <1>6, <2>5
  <2>7. u[n + 1] = u[n] + sizes[n + 1] /\ sizes[n + 1] = es[n + 1].size
    BY <1>2, <1>3, <2>1
  <2>8. \A i \in 1 .. n + 1 : errors[i] = "none"
    BY <2>1, <2>5, <2>6
  <2> QED
    BY <2>5, <2>6, <2>7, <2>8
<1>7. 0 .. N \subseteq S
  <2> HIDE DEF N, S
  <2> QED
    BY <1>1, <1>5, <1>6, UptoInduction
<1>8. N \in S /\ t[N] \in SumRange
  BY <1>1, <1>4, <1>7
<1> QED
  BY <1>2, <1>8 DEF Sum, Total, t, u, sizes

LEMMA EntryErrorFacts ==
    ASSUME NEW l \in Limits, NEW e \in ListedEntry
    PROVE  /\ EntryError(l, e) \in EntryErrors
           /\ SevenZipEntryError(l, e) \in EntryErrors
           /\ EntryError(l, e) = "none" \/ SevenZipEntryError(l, e) = "none"
                 => /\ e.size <= l.entry /\ ~TooDense(l, e.size, e.packed)
                    /\ e.kind \in {"file", "directory"} /\ e.path \notin Unsafe
<1>1. e.size \in Nat /\ l.entry \in Nat
  BY WordAssumption DEF ListedEntry, Entry, Limits, Word
<1> QED
  BY <1>1 DEF EntryError, SevenZipEntryError, EntryErrors

LEMMA ArchiveErrorFacts ==
    ASSUME NEW l \in Limits, l = limits, NEW es \in Seq(ListedEntry), NEW n \in Word
    PROVE  /\ ArchiveError(l, es) \in EntryErrors
           /\ SevenZipError(l, es, n) \in EntryErrors
           /\ ArchiveError(l, es) = "none" \/ SevenZipError(l, es, n) = "none" => Allowed(es)
<1> DEFINE core == [i \in DOMAIN es |-> EntryError(l, es[i])]
           seven == [i \in DOMAIN es |-> SevenZipEntryError(l, es[i])]
<1>1. \A i \in 1 .. Len(es) : es[i] \in ListedEntry
  OBVIOUS
<1>2. core \in [DOMAIN es -> EntryErrors] /\ seven \in [DOMAIN es -> EntryErrors]
  BY <1>1, EntryErrorFacts
<1>3. Sum(l, es, core).error \in EntryErrors /\ Sum(l, es, seven).error \in EntryErrors
  <2> HIDE DEF core, seven
  <2> QED
    BY <1>2, SumIsExact DEF SumRange
<1>4. Len(es) \in Nat /\ l.count \in Nat
  BY WordAssumption DEF Limits, Word
<1>5. ASSUME \/ ArchiveError(l, es) = "none"
             \/ SevenZipError(l, es, n) = "none"
      PROVE  Allowed(es)
  <2>1. Len(es) <= l.count
    BY <1>4, <1>5 DEF ArchiveError, SevenZipError
  <2>2. Sum(l, es, core).error = "none" \/ Sum(l, es, seven).error = "none"
    BY <1>5, <2>1, <1>4 DEF ArchiveError, SevenZipError
  <2>3. /\ Total(SizesOf(es)) <= l.total
        /\ (\A i \in 1 .. Len(es) : core[i] = "none") \/ (\A i \in 1 .. Len(es) : seven[i] = "none")
    <3> HIDE DEF core, seven
    <3> QED
      BY <1>2, <2>2, SumIsExact
  <2>4. ASSUME NEW i \in 1 .. Len(es)
        PROVE  /\ es[i].size <= l.entry
               /\ es[i].kind \in {"file", "directory"} /\ es[i].path \notin Unsafe
               /\ ~TooDense(l, es[i].size, es[i].packed)
    <3>1. core[i] = EntryError(l, es[i]) /\ seven[i] = SevenZipEntryError(l, es[i])
      OBVIOUS
    <3>2. core[i] = "none" \/ seven[i] = "none"
      <4> HIDE DEF core, seven
      <4> QED
        BY <2>3
    <3> QED
      BY <1>1, <3>1, <3>2, EntryErrorFacts
  <2> QED
    BY <2>1, <2>3, <2>4 DEF Allowed, ToSet
<1> QED
  BY <1>3, <1>5 DEF ArchiveError, SevenZipError, EntryErrors

--------------------------------------------------------------------------------
(* What the listers find *)

\* parse_tar_number goes on digit by digit, and gives up for good.
NextNumber(v, field, n) ==
    IF v = Invalid \/ ~Fitting(v, field.radix) THEN Invalid
    ELSE (v * field.radix + field.digits[n]) % (MaxWord + 1)

LEMMA FieldFacts ==
    ASSUME NEW field \in Field
    PROVE  /\ field.radix \in Nat \ {0} /\ (MaxWord + 1) % field.radix = 0
           /\ field.digits \in Seq(Nat) /\ Len(field.digits) \in Nat
           /\ \A n \in 1 .. Len(field.digits) :
                 field.digits[n] \in Nat /\ field.digits[n] < field.radix
<1>1. field.radix \in Nat \ {0} /\ field.digits \in Seq(Nat)
  BY DEF Field
<1>2. \A n \in 1 .. Len(field.digits) : field.digits[n] \in ToSet(field.digits)
  BY <1>1 DEF ToSet
<1> QED
  BY <1>1, <1>2 DEF Field

LEMMA DigitByDigit ==
    ASSUME NEW field \in Field
    PROVE  \E c \in [0 .. Len(field.digits) -> Word \cup {Invalid}] :
              /\ c[0] = 0
              /\ \A n \in 1 .. Len(field.digits) : c[n] = NextNumber(c[n - 1], field, n)
              /\ ParseTarNumber(field) = c[Len(field.digits)]
<1> DEFINE N == Len(field.digits)
           V == Word \cup {Invalid}
           More(v, n) == NextNumber(v, field, n)
           g == [n \in 1 .. N |-> [v \in V |-> More(v, n)]]
           Is(f) == f = [n \in 0 .. N |-> IF n = 0 THEN 0 ELSE More(f[n - 1], n)]
<1>1. N \in Nat /\ field.radix \in Nat /\ \A n \in 1 .. N : field.digits[n] \in Nat
  BY FieldFacts
<1>2. ASSUME NEW v \in V, NEW n \in 1 .. N
      PROVE  More(v, n) \in V
  <2>1. v * field.radix + field.digits[n] \in Int
    BY <1>1, WordAssumption DEF Word, Invalid
  <2>2. (v * field.radix + field.digits[n]) % (MaxWord + 1) \in Word
    BY <2>1, WordAssumption DEF Word
  <2> QED
    BY <2>2 DEF NextNumber
<1>3. 0 \in V
  BY WordAssumption DEF Word
<1> HIDE DEF More, V
<1>4. g \in [1 .. N -> [V -> V]]
  BY <1>1, <1>2
<1>5. PICK f \in [0 .. N -> V] : Follows(f, N, 0, g)
  <2> HIDE DEF g, N
  <2> QED
    BY <1>1, <1>3, <1>4, RecursionExists
<1>6. ASSUME NEW n \in 0 .. N
      PROVE  f[n] = IF n = 0 THEN 0 ELSE More(f[n - 1], n)
  <2>1. CASE n = 0
    BY <1>5, <2>1 DEF Follows
  <2>2. CASE n # 0
    <3>1. n \in 1 .. N /\ n - 1 \in 0 .. N
      BY <1>1, <2>2
    <3>2. f[n] = g[n][f[n - 1]] /\ f[n - 1] \in V
      BY <1>5, <3>1 DEF Follows
    <3> QED
      BY <2>2, <3>1, <3>2
  <2> QED
    BY <2>1, <2>2
<1>7. Is(f)
  BY <1>5, <1>6
<1> DEFINE c == CHOOSE h : Is(h)
<1>8. Is(c)
  BY <1>7
<1>9. ParseTarNumber(field) = c[N]
  BY DEF ParseTarNumber, More, NextNumber
<1> HIDE DEF c, g
<1>10. c[0] = 0 /\ \A n \in 1 .. N : c[n] = More(c[n - 1], n)
  <2>1. c = [n \in 0 .. N |-> IF n = 0 THEN 0 ELSE More(c[n - 1], n)]
    BY <1>8
  <2>2. 0 \in 0 .. N /\ \A n \in 1 .. N : n \in 0 .. N /\ n # 0
    BY <1>1
  <2> HIDE DEF N
  <2>3. c[0] = 0
    BY <2>1, <2>2
  <2>4. ASSUME NEW n \in 1 .. N
        PROVE  c[n] = More(c[n - 1], n)
    BY <2>1, <2>2
  <2> QED
    BY <2>3, <2>4
<1>11. DOMAIN c = 0 .. N /\ c = [n \in 0 .. N |-> c[n]]
  BY <1>8
<1>12. c \in [0 .. N -> V]
  <2>1. \A n \in 1 .. N : c[n - 1] \in V => c[n] \in V
    BY <1>2, <1>10
  <2> HIDE DEF N
  <2> QED
    BY <1>1, <1>3, <1>10, <1>11, <2>1, RecursionStays
<1> QED
  BY <1>9, <1>10, <1>12 DEF V, More

LEMMA NumberFacts ==
    ASSUME NEW field \in Field
    PROVE  ParseTarNumber(field) \in Word \cup {Invalid}
BY DigitByDigit, FieldFacts

LEMMA GzipFacts ==
    ASSUME NEW size \in Word, NEW g \in Member
    PROVE  /\ GzipEntry(size, g).packed <= size
           /\ HeaderLength(size, g) # TooShort => GzipEntry(size, g) \in Entry
<1>1. size \in Nat /\ size <= MaxWord /\ MaxWord \in Nat
  BY WordAssumption DEF Word
<1>2. /\ Length(g.extra, 2) \in Nat /\ Length(g.name, 0) \in Nat
      /\ Length(g.comment, 0) \in Nat
  BY DEF Length, Member, Missing
<1>3. \/ HeaderLength(size, g) = TooShort
      \/ HeaderLength(size, g) \in Nat /\ HeaderLength(size, g) <= size - Footer
  BY <1>1, <1>2 DEF HeaderLength, Footer, TooShort
<1>4. GzipEntry(size, g).packed = size - HeaderLength(size, g) - Footer
  BY DEF GzipEntry
<1>5. GzipEntry(size, g).packed <= size
  BY <1>1, <1>3, <1>4 DEF TooShort, Footer
<1>6. ASSUME HeaderLength(size, g) # TooShort
      PROVE  GzipEntry(size, g) \in Entry
  <2>1. size - HeaderLength(size, g) - Footer \in Word
    BY <1>1, <1>3, <1>6 DEF Word, Footer
  <2>2. g.content % FooterRange \in Word
    <3>1. g.content \in Nat
      BY DEF Member
    <3>2. g.content % FooterRange \in 0 .. FooterRange - 1
      BY <3>1, FooterAssumption
    <3> QED
      BY <1>1, <3>2, FooterAssumption, RangeAssumption DEF Word
  <2> DEFINE packed == size - HeaderLength(size, g) - Footer
             whole == g.content % FooterRange
  <2>3. packed \in Word /\ whole \in Word
    BY <2>1, <2>2
  <2> HIDE DEF packed, whole
  <2>4. GzipEntry(size, g) = [path |-> "plain", kind |-> "file", size |-> whole, packed |-> packed]
    BY DEF GzipEntry, packed, whole
  <2> QED
    BY <2>3, <2>4, PathsAssumption DEF Entry, Kinds
<1> QED
  BY <1>5, <1>6

--------------------------------------------------------------------------------
(* The inductive invariant *)

Listers == {"zip", "rar", "tar", "gzip", "libarchive"}

\* libarchive comes last, and nothing but its success leaves a trace of it.
PlanOK ==
    /\ plan \in Seq(Listers) /\ plan # <<>>
    /\ \A i \in DOMAIN plan : plan[i] = "libarchive" => i = Len(plan)
    /\ Running \/ Lister # "libarchive" => backend = "core"

\* A lister begins with nothing, and list_tar finds nothing but zeros in a file
\* that is no TAR archive.
ListOK ==
    /\ Lister # "tar" => entries = <<>>
    /\ Lister = "tar" /\ file.kind # "tar" => entries = <<>> /\ (tar.end => file.zeros)
    /\ tar.zeros \in {0, 1}

OpenInv ==
    /\ pc # "done" => result = "none"
    /\ pc = "open" => entries = <<>> /\ Running /\ tar = TarAtStart /\ backend = "core"
    /\ pc = "list" => PlanOK
    /\ pc = "list" /\ Running => ListOK
    /\ pc = "list" /\ outcome = "none" => Allowed(entries) /\ AsWhatItIs
    /\ result = "ok" => Allowed(entries) /\ AsWhatItIs

\* While an entry is read, what was handed over of it is counted, the entries
\* before it are counted with the sizes they declare, and those after it have
\* handed over nothing.
ReadingOK ==
    /\ index \in DOMAIN entries
    /\ handed[index] = completed
    /\ \A j \in DOMAIN handed : j > index => handed[j] = 0
    /\ base = Totals(SizesOf(entries))[index - 1]
    /\ backend = "core" => Len(entries) = 1

\* What an entry has handed over is within the limits next to the declared sizes
\* before it; and a size that was declared bounds what the entry has handed over
\* by the time another follows.
ReadInv ==
    /\ reading # "no" => result = "ok" /\ Len(handed) = Len(entries)
    /\ reading = "no" => handed = <<>> /\ index = 1 /\ completed = 0 /\ base = 0
    /\ handed \in Seq(Nat)
    /\ \A i \in DOMAIN handed : handed[i] <= limits.entry
    /\ \A i \in DOMAIN handed : i <= index =>
          Totals(SizesOf(entries))[i - 1] + handed[i] <= limits.total
    /\ \A i \in DOMAIN handed : i < index /\ i < Len(entries) /\ entries[i].size > 0 =>
          handed[i] <= entries[i].size
    /\ reading = "yes" => ReadingOK

IInv == TypeOK /\ OpenInv /\ ReadInv

LEMMA FileFacts ==
    ASSUME TypeOK
    PROVE  /\ file.size \in Word /\ file.gzip \in Member
           /\ file.listed \in Seq(Entry) /\ file.inner \in Seq(Entry)
           /\ file.listed \in Seq(ListedEntry) /\ file.inner \in Seq(ListedEntry)
           /\ file.kind \in Formats \cup {"iso", "junk"}
           /\ limits \in Limits
<1>1. file \in Files /\ limits \in Limits
  BY DEF TypeOK
<1>2. file.listed \in Seq(Entry) /\ file.inner \in Seq(Entry)
  BY <1>1 DEF Files
<1>3. Entry \subseteq ListedEntry
  BY DEF ListedEntry
<1>4. file.listed \in Seq(ListedEntry) /\ file.inner \in Seq(ListedEntry)
  BY <1>2, <1>3
<1> QED
  BY <1>1, <1>2, <1>4 DEF Files

LEMMA ListerFacts ==
    ASSUME pc = "list", PlanOK
    PROVE  /\ Lister \in Listers /\ Lister = plan[1]
           /\ Lister = "libarchive" => Len(plan) = 1
           /\ Len(plan) \in Nat /\ Len(plan) # 0
<1>1. plan \in Seq(Listers) /\ plan # <<>>
  BY DEF PlanOK
<1>2. /\ Head(plan) = plan[1] /\ 1 \in DOMAIN plan /\ Len(plan) \in Nat /\ Len(plan) # 0
      /\ plan[1] \in Listers
  BY <1>1
<1>3. plan[1] = "libarchive" => Len(plan) = 1
  BY <1>2 DEF PlanOK
<1>4. Lister = plan[1]
  BY <1>2 DEF Lister
<1> QED
  BY <1>2, <1>3, <1>4

LEMMA ContentsFacts ==
    ASSUME TypeOK, PlanOK, pc = "list", Lister # "tar"
    PROVE  /\ Lister # "gzip" \/ Obstacle = "none" => Contents \in Seq(ListedEntry)
           /\ Obstacle \in {"none", "unsupported", "corrupt", "password"}
           /\ ListedAs \in Formats \cup {"auto", "iso"}
           /\ Lister = "gzip" /\ Recognised => Obstacle \in {"none", "corrupt"}
<1>1. Lister \in Listers
  BY ListerFacts
<1>2. CASE Lister = "gzip"
  <2>1. Obstacle \in {"none", "unsupported", "corrupt"}
    BY <1>2 DEF Obstacle
  <2>2. Recognised => Obstacle \in {"none", "corrupt"}
    BY <1>2 DEF Obstacle
  <2>3. ASSUME Obstacle = "none"
        PROVE  Contents \in Seq(ListedEntry)
    <3>1. HeaderLength(file.size, file.gzip) # TooShort
      BY <1>2, <2>3 DEF Obstacle
    <3>2. GzipEntry(file.size, file.gzip) \in ListedEntry
      BY <3>1, FileFacts, GzipFacts DEF ListedEntry
    <3>3. Contents = <<GzipEntry(file.size, file.gzip)>>
      BY <1>2 DEF Contents
    <3> HIDE DEF ListedEntry
    <3> QED
      BY <3>2, <3>3
  <2>4. ListedAs = "gzip"
    BY <1>2 DEF ListedAs
  <2> QED
    BY <1>2, <2>1, <2>2, <2>3, <2>4 DEF Formats
<1>3. CASE Lister # "gzip"
  <2>1. Contents \in Seq(ListedEntry)
    <3>1. Contents \in {file.listed, file.inner}
      BY <1>3 DEF Contents
    <3> QED
      BY <3>1, FileFacts
  <2>2. Obstacle \in {"none", "unsupported", "corrupt", "password"}
    BY <1>3 DEF Obstacle
  <2>3. ListedAs \in Formats \cup {"auto", "iso"}
    BY <1>1, FileFacts DEF ListedAs, Listers, Formats, Recognised
  <2> QED
    BY <1>3, <2>1, <2>2, <2>3
<1> QED
  BY <1>2, <1>3

LEMMA InitIInv == Init => IInv
<1> SUFFICES ASSUME Init
             PROVE  IInv
  OBVIOUS
<1>1. /\ file \in Files /\ limits \in Limits /\ request \in {"auto"} \cup Formats
      /\ reports \in BOOLEAN
  BY CallsAssumption DEF Init, OpenInit
<1>2. file.size \in Nat
  BY <1>1, WordAssumption DEF Files, Word
<1>3. tar \in Tar
  <2>1. 0 \in 0 .. file.size /\ Absent \in PathNames
    BY <1>2, PathsAssumption
  <2>2. tar = TarAtStart
    BY DEF Init, OpenInit
  <2> QED
    BY <2>1, <2>2 DEF TarAtStart, Tar
<1>4. TypeOK
  BY <1>1, <1>3, WordAssumption DEF Init, OpenInit, TypeOK, Formats, Word
<1>5. OpenInv
  BY DEF Init, OpenInit, OpenInv, Running
<1>6. Total(<<>>) = 0
  <2> DEFINE nothing == <<>>
  <2>1. nothing \in Seq(Nat) /\ Len(nothing) = 0
    OBVIOUS
  <2> HIDE DEF nothing
  <2>2. \A n \in 1 .. Len(nothing) : nothing[n] = 0
    BY <2>1
  <2>3. Total(nothing) = 0
    BY <2>1, <2>2, TotalOfNothing
  <2> QED
    BY <2>3 DEF nothing
<1>7. limits.total \in Nat
  BY <1>1, WordAssumption DEF Limits, Word
<1>8. ReadInv
  BY <1>6, <1>7 DEF Init, OpenInit, ReadInv
<1> QED
  BY <1>4, <1>5, <1>8 DEF IInv

--------------------------------------------------------------------------------
(* Opening *)

\* Nothing is read while an archive is opened.
LEMMA OpenStepReads ==
    ASSUME IInv, pc # "done", UNCHANGED <<arguments, readVars>>
    PROVE  /\ ReadInv'
           /\ index' \in Nat /\ completed' \in Word /\ base' \in Word
           /\ reading' \in {"no", "yes", "ok", "cancelled"} \cup Errors
<1>1. reading = "no" /\ handed = <<>>
  BY DEF IInv, OpenInv, ReadInv
<1>2. UNCHANGED <<limits, index, completed, base, handed, reading>>
  BY DEF arguments, readVars
<1>3. ReadInv'
  BY <1>1, <1>2 DEF IInv, ReadInv
<1> QED
  BY <1>2, <1>3 DEF IInv, TypeOK

LEMMA OutcomesFacts ==
    ASSUME IInv
    PROVE  SevenZipOutcomes(Resolve(file.urls, file.siblings)) \subseteq {"none"} \cup Errors
<1> DEFINE found == Resolve(file.urls, file.siblings)
<1>1. found.error \in {"none", "invalidArgument", "missingVolume"}
  BY DEF Resolve, Found
<1>2. SevenZipError(limits, file.listed, file.size) \in EntryErrors
  BY FileFacts, ArchiveErrorFacts DEF IInv
<1>3. Broken \subseteq Errors
  BY DEF Broken, Errors
<1> HIDE DEF found
<1>4. SevenZipOutcomes(found) \subseteq {"none"} \cup Errors
  BY <1>1, <1>2, <1>3 DEF SevenZipOutcomes, Errors, EntryErrors
<1> QED
  BY <1>4 DEF found

LEMMA OpenSevenZipStep ==
    ASSUME IInv, OpenSevenZip, UNCHANGED readVars
    PROVE  IInv'
<1> DEFINE found == Resolve(file.urls, file.siblings)
<1>1. pc = "open" /\ pc' = "done" /\ UNCHANGED arguments
  BY DEF OpenSevenZip, Done
<1>2. SevenZipOutcomes(found) \subseteq {"none"} \cup Errors
  BY OutcomesFacts
<1>3. CASE result' = "ok"
  <2>1. "none" \in SevenZipOutcomes(found)
    <3>1. "ok" \notin {"none"} \cup Errors
      BY DEF Errors
    <3> HIDE DEF found
    <3>2. \/ "none" \in SevenZipOutcomes(found)
          \/ result' \in SevenZipOutcomes(found) \ {"none"}
      BY DEF OpenSevenZip, Done, found
    <3> QED
      BY <1>2, <1>3, <3>1, <3>2
  <2>2. /\ file.kind = "sevenZip"
        /\ SevenZipError(limits, file.listed, file.size) = "none"
    <3>1. "none" \notin Broken \cup {"io"}
      BY DEF Broken
    <3> HIDE DEF found
    <3> QED
      BY <2>1, <3>1 DEF SevenZipOutcomes
  <2>3. Allowed(file.listed)
    BY <2>2, FileFacts, ArchiveErrorFacts DEF IInv
  <2>4. /\ entries' = file.listed /\ format' = "sevenZip" /\ backend' = "sevenZip"
        /\ UNCHANGED <<file, limits, request, reports, outcome, tar, plan>>
    <3>1. "ok" \notin Errors
      BY DEF Errors
    <3> HIDE DEF found
    <3> QED
      BY <1>2, <1>3, <3>1 DEF OpenSevenZip, Done, arguments, found
  <2>5. Allowed(entries)' /\ AsWhatItIs'
    BY <2>2, <2>3, <2>4 DEF Allowed, AsWhatItIs, Own
  <2>6. OpenInv'
    BY <1>1, <1>3, <2>5 DEF OpenInv
  <2>7. entries' \in Seq(ListedEntry)
    BY <2>4, FileFacts DEF IInv
  <2>8. TypeOK'
    BY <1>1, <1>3, <2>4, <2>7, OpenStepReads DEF IInv, TypeOK, Formats, Tar
  <2> QED
    BY <1>1, <2>6, <2>8, OpenStepReads DEF IInv
<1>4. CASE result' # "ok"
  <2>1. result' \in Errors
    <3> HIDE DEF found
    <3> QED
      BY <1>2, <1>4 DEF OpenSevenZip, Done, found
  <2>2. UNCHANGED <<file, limits, request, reports, outcome, tar, plan, entries, format, backend>>
    BY <1>4 DEF OpenSevenZip, Done, arguments
  <2>3. OpenInv'
    BY <1>1, <1>4 DEF OpenInv
  <2>4. TypeOK'
    BY <1>1, <1>4, <2>1, <2>2, OpenStepReads DEF IInv, TypeOK, Tar
  <2> QED
    BY <1>1, <2>3, <2>4, OpenStepReads DEF IInv
<1> QED
  BY <1>3, <1>4

LEMMA OpenStepOpens ==
    ASSUME IInv, Open, UNCHANGED readVars
    PROVE  IInv'
<1>1. /\ pc = "open" /\ UNCHANGED <<arguments, listing, format, backend, volumes>>
      /\ UNCHANGED <<file, limits, request, reports, entries, outcome, tar>>
  BY DEF Open, arguments, listing
<1>2. ReadInv' /\ index' \in Nat /\ completed' \in Word /\ base' \in Word
      /\ reading' \in {"no", "yes", "ok", "cancelled"} \cup Errors
  BY <1>1, OpenStepReads
<1>3. /\ entries = <<>> /\ Running /\ tar = TarAtStart /\ backend = "core" /\ result = "none"
      /\ TypeOK
  BY <1>1 DEF IInv, OpenInv
<1>4. CASE pc' = "done"
  <2>1. result' \in {"invalidArgument", "openFailed"}
    BY <1>4 DEF Open, Done
  <2>2. OpenInv'
    BY <1>4, <2>1 DEF OpenInv
  <2>3. TypeOK'
    BY <1>1, <1>2, <1>3, <1>4, <2>1 DEF TypeOK, Tar, Errors
  <2> QED
    BY <1>2, <2>2, <2>3 DEF IInv
<1>5. CASE pc' # "done"
  <2>1. pc' = "list" /\ plan' = Plan /\ UNCHANGED result
    BY <1>5 DEF Open, Done
  <2>2. /\ Plan \in Seq(Listers) /\ Plan # <<>>
        /\ \A i \in DOMAIN Plan : Plan[i] = "libarchive" => i = Len(Plan)
    <3>1. \/ Plan = <<"zip", "rar", "tar", "gzip", "libarchive">>
          \/ Plan = <<"zip", "libarchive">>
          \/ \E lister \in Listers : Plan = <<lister>>
      BY DEF Plan, Listers
    <3>2. CASE Plan = <<"zip", "rar", "tar", "gzip", "libarchive">>
      <4> DEFINE p == <<"zip", "rar", "tar", "gzip", "libarchive">>
      <4>1. p \in Seq(Listers) /\ Len(p) = 5 /\ p # <<>>
        BY DEF Listers
      <4>2. \A i \in 1 .. 5 : p[i] = "libarchive" => i = 5
        OBVIOUS
      <4> QED
        BY <3>2, <4>1, <4>2
    <3>3. CASE Plan = <<"zip", "libarchive">>
      BY <3>3 DEF Listers
    <3>4. CASE \E lister \in Listers : Plan = <<lister>>
      BY <3>4
    <3> QED
      BY <3>1, <3>2, <3>3, <3>4
  <2>3. PlanOK'
    BY <1>1, <1>3, <2>1, <2>2 DEF PlanOK
  <2>4. ListOK'
    BY <1>1, <1>3 DEF ListOK, TarAtStart
  <2>5. OpenInv'
    BY <1>1, <1>3, <2>1, <2>3, <2>4 DEF OpenInv, Running
  <2>6. TypeOK'
    BY <1>1, <1>2, <1>3, <2>1, <2>2 DEF TypeOK, Tar
  <2> QED
    BY <1>2, <2>5, <2>6 DEF IInv
<1> QED
  BY <1>4, <1>5

LEMMA UnreadableStep ==
    ASSUME IInv, Unreadable, UNCHANGED readVars
    PROVE  IInv'
<1>1. /\ pc = "list" /\ outcome' = "io" /\ UNCHANGED arguments
      /\ UNCHANGED <<file, limits, request, reports, entries, tar, pc, plan, format, backend, result>>
  BY DEF Unreadable, Working, arguments
<1>2. PlanOK /\ Running
  BY <1>1 DEF IInv, OpenInv, Unreadable, Working
<1>3. PlanOK'
  BY <1>1, <1>2 DEF PlanOK, Lister
<1>4. OpenInv'
  BY <1>1, <1>3 DEF IInv, OpenInv, Running
<1>5. TypeOK'
  BY <1>1, OpenStepReads DEF IInv, TypeOK, Tar, Errors
<1> QED
  BY <1>1, <1>4, <1>5, OpenStepReads DEF IInv

\* What a lister leaves of the entries it could not list as a whole.
LEMMA PartFacts ==
    ASSUME NEW all \in Seq(ListedEntry), NEW n \in 0 .. Len(all)
    PROVE  SubSeq(all, 1, n) \in Seq(ListedEntry)
<1>1. Len(all) \in Nat /\ \A i \in 1 .. Len(all) : all[i] \in ListedEntry
  OBVIOUS
<1>2. \A i \in 1 .. n : all[i] \in ListedEntry
  BY <1>1
<1>3. 1 <= n + 1 /\ n <= Len(all) /\ n \in Nat
  BY <1>1
<1> QED
  BY <1>2, <1>3, SubSeqProperties

LEMMA ListStep ==
    ASSUME IInv, List, UNCHANGED readVars
    PROVE  IInv'
<1>1. /\ pc = "list" /\ Lister # "tar" /\ format' = ListedAs
      /\ UNCHANGED <<file, limits, request, reports, tar, pc, plan, result>>
      /\ UNCHANGED arguments
  BY DEF List, Working, arguments
<1>2. TypeOK /\ PlanOK /\ Running /\ ListOK /\ entries = <<>> /\ backend = "core"
  BY <1>1 DEF IInv, OpenInv, List, Working, PlanOK, ListOK
<1>3. result' = "none" /\ Lister' = Lister
  BY <1>1 DEF IInv, OpenInv, Lister
<1>4. ListedAs \in Formats \cup {"auto", "iso"}
  BY <1>1, <1>2, ContentsFacts
<1>5. CASE Obstacle = "none"
  <2>1. Contents \in Seq(ListedEntry)
    BY <1>1, <1>2, <1>5, ContentsFacts
  <2>2. entries' = Contents
    BY <1>2, <1>5, <2>1 DEF List
  <2>3. /\ outcome' = ArchiveError(limits, entries)'
        /\ backend' = IF Lister = "libarchive" THEN "libarchive" ELSE backend
    BY <1>1, <1>5 DEF List
  <2>4. outcome' = ArchiveError(limits, Contents)
    BY <1>1, <1>5, <2>2 DEF List
  <2>5. /\ outcome' \in EntryErrors
        /\ outcome' = "none" => Allowed(Contents)
    BY <1>2, <2>1, <2>4, FileFacts, ArchiveErrorFacts
  <2>6. Recognised
    BY <1>5 DEF Obstacle
  <2>7. AsWhatItIs'
    <3>1. CASE Lister = "zip"
      <4>1. format' = "zip" /\ Contents = IF file.kind # "zip" THEN file.inner ELSE file.listed
        BY <1>1, <3>1 DEF ListedAs, Contents
      <4> QED
        BY <1>1, <2>2, <4>1 DEF AsWhatItIs, Own
    <3>2. CASE Lister = "gzip"
      <4>1. /\ format' = "gzip" /\ Contents = <<GzipEntry(file.size, file.gzip)>>
            /\ file.kind = "gzip" /\ backend' = "core"
        BY <1>1, <1>2, <2>3, <2>6, <3>2 DEF ListedAs, Contents, Recognised
      <4> QED
        BY <1>1, <2>2, <4>1 DEF AsWhatItIs, Own
    <3>3. CASE Lister = "libarchive"
      <4>1. format' = file.kind /\ Contents = file.listed /\ backend' = "libarchive"
        BY <1>1, <2>3, <2>6, <3>3 DEF ListedAs, Contents
      <4> QED
        BY <1>1, <2>2, <4>1 DEF AsWhatItIs, Own
    <3>4. CASE Lister = "rar"
      <4>1. format' = "rar" /\ Contents = file.listed /\ file.kind = "rar"
        BY <1>1, <2>6, <3>4 DEF ListedAs, Contents, Recognised
      <4> QED
        BY <1>1, <2>2, <4>1 DEF AsWhatItIs, Own
    <3> QED
      BY <1>1, <1>2, <3>1, <3>2, <3>3, <3>4, ListerFacts DEF Listers
  <2>8. Allowed(entries)' \/ outcome' # "none"
    BY <1>1, <2>2, <2>5 DEF Allowed
  <2>9. ~Running'
    BY <2>5 DEF Running, EntryErrors
  <2>10. PlanOK'
    <3>1. Running' \/ Lister' # "libarchive" => backend' = "core"
      BY <1>2, <1>3, <2>3, <2>9
    <3> QED
      BY <1>1, <1>2, <3>1 DEF PlanOK
  <2>11. OpenInv'
    BY <1>1, <1>3, <2>7, <2>8, <2>9, <2>10 DEF OpenInv
  <2>12. TypeOK'
    BY <1>1, <1>2, <1>3, <1>4, <2>1, <2>2, <2>3, <2>5, OpenStepReads
       DEF IInv, TypeOK, Tar, Errors, EntryErrors
  <2> QED
    BY <1>1, <2>11, <2>12, OpenStepReads DEF IInv
<1>6. CASE Obstacle # "none"
  <2>1. /\ outcome' = Obstacle /\ backend' = backend
        /\ outcome' \in {"unsupported", "corrupt", "password"}
    BY <1>1, <1>2, <1>6, ContentsFacts DEF List
  <2>2. entries' \in Seq(ListedEntry)
    <3>1. CASE Recognised /\ Obstacle = "unsupported"
      <4>1. Contents \in Seq(ListedEntry)
        BY <1>1, <1>2, <3>1, ContentsFacts
      <4> QED
        BY <1>2, <1>6, <3>1, <4>1 DEF List
    <3>2. CASE Recognised /\ Obstacle = "corrupt" /\ Lister # "gzip"
      <4>1. Contents \in Seq(ListedEntry)
        BY <1>1, <1>2, <3>2, ContentsFacts
      <4>2. PICK n \in 0 .. Len(Contents) : entries' = entries \o SubSeq(Contents, 1, n)
        BY <1>6, <3>2 DEF List
      <4>3. SubSeq(Contents, 1, n) \in Seq(ListedEntry)
        BY <4>1, PartFacts
      <4> QED
        BY <1>2, <4>2, <4>3
    <3>3. CASE /\ ~(Recognised /\ Obstacle = "unsupported")
               /\ ~(Recognised /\ Obstacle = "corrupt" /\ Lister # "gzip")
      BY <1>2, <1>6, <3>3 DEF List, TypeOK
    <3> QED
      BY <3>1, <3>2, <3>3
  <2>3. PlanOK'
    BY <1>1, <1>2, <1>3, <2>1 DEF PlanOK
  <2>4. OpenInv'
    BY <1>1, <1>3, <2>1, <2>3 DEF OpenInv, Running
  <2>5. TypeOK'
    BY <1>1, <1>2, <1>3, <1>4, <2>1, <2>2, OpenStepReads DEF IInv, TypeOK, Tar, Errors
  <2> QED
    BY <1>1, <2>4, <2>5, OpenStepReads DEF IInv
<1> QED
  BY <1>5, <1>6

LEMMA AcceptStep ==
    ASSUME IInv, Accept, UNCHANGED readVars
    PROVE  IInv'
<1>1. /\ pc = "list" /\ outcome = "none" /\ pc' = "done" /\ result' = "ok"
      /\ UNCHANGED <<file, limits, request, reports, entries, outcome, tar, plan, format, backend>>
      /\ UNCHANGED arguments
  BY DEF Accept, Done, arguments, listing
<1>2. TypeOK /\ Allowed(entries) /\ AsWhatItIs
  BY <1>1 DEF IInv, OpenInv
<1>3. Allowed(entries)' /\ AsWhatItIs'
  BY <1>1, <1>2 DEF Allowed, AsWhatItIs, Own
<1>4. OpenInv'
  BY <1>1, <1>3 DEF OpenInv
<1>5. ASSUME format' = "gzip", backend' = "core"
      PROVE  \A e \in ToSet(entries') : e.packed \in 0 .. file.size
  <2>1. entries = <<GzipEntry(file.size, file.gzip)>>
    BY <1>1, <1>2, <1>5 DEF AsWhatItIs, Own
  <2> DEFINE e == GzipEntry(file.size, file.gzip)
  <2>2. ToSet(entries') = {e}
    BY <1>1, <2>1 DEF ToSet
  <2>3. e \in ListedEntry
    <3> HIDE DEF e
    <3>1. entries \in Seq(ListedEntry) /\ entries[1] = e /\ 1 \in DOMAIN entries
      BY <1>2, <2>1 DEF TypeOK, e
    <3> QED
      BY <3>1
  <2>4. e.packed \in Word
    BY <2>3 DEF ListedEntry, Entry
  <2>5. e.packed <= file.size /\ file.size \in Word
    BY <1>2, FileFacts, GzipFacts
  <2> HIDE DEF e
  <2>6. e.packed \in 0 .. file.size
    BY <2>4, <2>5, WordAssumption DEF Word
  <2> QED
    BY <2>2, <2>6
<1>6. TypeOK'
  BY <1>1, <1>2, <1>5, OpenStepReads DEF IInv, TypeOK, Tar
<1> QED
  BY <1>1, <1>4, <1>6, OpenStepReads DEF IInv

LEMMA GiveUpStep ==
    ASSUME IInv, GiveUp, UNCHANGED readVars
    PROVE  IInv'
<1>1. /\ pc = "list" /\ pc' = "done" /\ result' = outcome /\ outcome \notin {"running", "none"}
      /\ UNCHANGED <<file, limits, request, reports, entries, outcome, tar, plan, format, backend>>
      /\ UNCHANGED arguments
  BY DEF GiveUp, Running, Done, arguments, listing
<1>2. TypeOK /\ outcome \in Errors
  BY <1>1 DEF IInv, TypeOK
<1>3. outcome # "ok"
  BY <1>2 DEF Errors
<1>4. OpenInv'
  BY <1>1, <1>3 DEF OpenInv
<1>5. TypeOK'
  BY <1>1, <1>2, <1>3, OpenStepReads DEF IInv, TypeOK, Tar
<1> QED
  BY <1>1, <1>4, <1>5, OpenStepReads DEF IInv

LEMMA TryNextStep ==
    ASSUME IInv, TryNext, UNCHANGED readVars
    PROVE  IInv'
<1>1. /\ pc = "list" /\ plan' = Tail(plan) /\ entries' = <<>> /\ outcome' = "running"
      /\ tar' = TarAtStart /\ Len(plan) # 1
      /\ UNCHANGED <<file, limits, request, reports, pc, format, backend, result>>
      /\ UNCHANGED arguments
  BY DEF TryNext, Cleared, Settled, arguments
<1>2. TypeOK /\ PlanOK /\ result = "none"
  BY <1>1 DEF IInv, OpenInv
<1>3. /\ Len(plan) \in Nat /\ Len(plan) > 1 /\ plan \in Seq(Listers)
      /\ Lister # "libarchive"
  <2>1. Len(plan) \in Nat /\ Len(plan) # 0 /\ (Lister = "libarchive" => Len(plan) = 1)
    BY <1>1, <1>2, ListerFacts
  <2>2. plan \in Seq(Listers)
    BY <1>2 DEF PlanOK
  <2>3. Len(plan) # 1
    BY <1>1
  <2>4. \A n \in Nat : n # 0 /\ n # 1 => n > 1
    OBVIOUS
  <2> QED
    BY <2>1, <2>2, <2>3, <2>4
<1>4. backend = "core"
  BY <1>2, <1>3 DEF PlanOK
<1>5. /\ plan' \in Seq(Listers) /\ plan' # <<>> /\ Len(plan') = Len(plan) - 1
      /\ \A i \in 1 .. Len(plan') : plan'[i] = plan[i + 1]
  <2>1. plan # <<>>
    BY <1>3
  <2>2. /\ Tail(plan) \in Seq(Listers) /\ Len(Tail(plan)) = Len(plan) - 1
        /\ \A i \in 1 .. Len(Tail(plan)) : Tail(plan)[i] = plan[i + 1]
    BY <1>3, <2>1, HeadTailProperties
  <2>3. Tail(plan) # <<>>
    <3>1. \A n \in Nat : n > 1 => n - 1 # 0
      OBVIOUS
    <3>2. Len(Tail(plan)) # 0
      BY <1>3, <2>2, <3>1
    <3> QED
      BY <2>2, <3>2, EmptySeq
  <2> QED
    BY <1>1, <2>2, <2>3
<1>6. \A i \in DOMAIN plan' : plan'[i] = "libarchive" => i = Len(plan')
  <2> SUFFICES ASSUME NEW i \in DOMAIN plan', plan'[i] = "libarchive"
               PROVE  i = Len(plan')
    OBVIOUS
  <2>1. i \in 1 .. Len(plan') /\ i + 1 \in DOMAIN plan
    BY <1>3, <1>5
  <2>2. plan[i + 1] = "libarchive"
    BY <1>5, <2>1
  <2>3. i + 1 = Len(plan)
    BY <1>2, <2>1, <2>2 DEF PlanOK
  <2> QED
    BY <1>3, <1>5, <2>1, <2>3
<1>7. PlanOK'
  BY <1>1, <1>4, <1>5, <1>6 DEF PlanOK
<1>8. ListOK'
  BY <1>1 DEF ListOK, TarAtStart
<1>9. OpenInv'
  BY <1>1, <1>2, <1>7, <1>8 DEF OpenInv
<1>10. tar' \in Tar'
  <2>1. 0 \in 0 .. file.size /\ Absent \in PathNames
    BY <1>2, FileFacts, PathsAssumption, WordAssumption DEF Word
  <2> QED
    BY <1>1, <2>1 DEF TarAtStart, Tar
<1>11. TypeOK'
  BY <1>1, <1>2, <1>5, <1>10, OpenStepReads DEF IInv, TypeOK
<1> QED
  BY <1>1, <1>9, <1>11, OpenStepReads DEF IInv

--------------------------------------------------------------------------------
(* Listing a TAR archive *)

\* list_tar keeps to the file, and to zeros when the file is no TAR archive.
TarKept ==
    /\ outcome' \in {"running", "none"} \cup Errors
    /\ tar' \in Tar
    /\ entries' \in Seq(ListedEntry)
    /\ outcome' = "running" => tar'.zeros \in {0, 1}
    /\ outcome' = "none" => Allowed(entries)'
    /\ file.kind # "tar"
          => /\ entries' = <<>> /\ (tar'.end => file.zeros)
             /\ outcome' = "none" => file.zeros

TarPlace ==
    /\ TypeOK
    /\ tar.zeros \in {0, 1}
    /\ file.kind # "tar" => entries = <<>> /\ (tar.end => file.zeros)

LEMMA TarFacts ==
    ASSUME TarPlace
    PROVE  /\ tar.at \in Nat /\ tar.at <= file.size /\ tar.end \in BOOLEAN
           /\ tar.path \in PathNames /\ tar.size \in Word \cup {NoSize}
           /\ DOMAIN tar = {"at", "zeros", "path", "size", "end"}
           /\ file.size \in Nat /\ file.size <= MaxWord
           /\ BlockSize \in Nat /\ BlockSize > 0
<1>1. tar \in Tar /\ TypeOK
  BY DEF TarPlace, TypeOK
<1>2. file.size \in Nat /\ file.size <= MaxWord
  BY <1>1, FileFacts, WordAssumption DEF Word
<1> QED
  BY <1>1, <1>2, BlockAssumption DEF Tar

LEMMA VerdictFacts ==
    ASSUME TypeOK, NEW end \in BOOLEAN
    PROVE  /\ TarVerdict(end) \in EntryErrors \cup {"corrupt"}
           /\ TarVerdict(end) = "none" => Allowed(entries) /\ (entries # <<>> \/ end)
<1>1. entries \in Seq(ListedEntry) /\ limits \in Limits /\ file.size \in Word
  BY FileFacts DEF TypeOK
<1>2. /\ ArchiveError(limits, entries) \in EntryErrors
      /\ ArchiveError(limits, entries) = "none" => Allowed(entries)
  BY <1>1, ArchiveErrorFacts
<1> QED
  BY <1>2 DEF TarVerdict

LEMMA BlockOfZeros ==
    ASSUME TarPlace, Zeros, ZeroBlock
    PROVE  TarKept
<1> DEFINE verdict == TarVerdict(TRUE)
<1>1. /\ tar.at + BlockSize <= file.size
      /\ tar' = [tar EXCEPT !.zeros = tar.zeros + 1, !.end = TRUE, !.at = tar.at + BlockSize]
      /\ outcome' = IF tar.zeros = 1 \/ tar.at + BlockSize = file.size THEN verdict ELSE "running"
      /\ UNCHANGED <<file, limits, entries>>
  BY DEF ZeroBlock, HasBlock
<1>2. TypeOK /\ tar \in Tar /\ entries \in Seq(ListedEntry)
  BY DEF TarPlace, TypeOK
<1>3. /\ verdict \in EntryErrors \cup {"corrupt"}
      /\ verdict = "none" => Allowed(entries)
  BY <1>2, VerdictFacts
<1> HIDE DEF verdict
<1>4. verdict \in {"none"} \cup Errors /\ verdict # "running"
  BY <1>3 DEF EntryErrors, Errors
<1>5. tar.zeros + 1 \in 0 .. 2 /\ tar.at + BlockSize \in 0 .. file.size
  BY <1>1, TarFacts DEF TarPlace
<1>6. tar' \in Tar
  BY <1>1, <1>2, <1>5 DEF Tar
<1>7. tar'.zeros = tar.zeros + 1 /\ tar'.end = TRUE
  BY <1>1, TarFacts
<1>8. Allowed(entries)' <=> Allowed(entries)
  BY <1>1 DEF Allowed
<1>9. file.kind # "tar" => entries = <<>> /\ file.zeros
  BY DEF TarPlace, Zeros
<1>10. outcome' = "running" => tar'.zeros \in {0, 1}
  BY <1>1, <1>4, <1>7 DEF TarPlace
<1> QED
  BY <1>1, <1>2, <1>3, <1>4, <1>6, <1>8, <1>9, <1>10 DEF TarKept

LEMMA EndOfBlocks ==
    ASSUME TarPlace, LastBlock
    PROVE  TarKept
<1>1. /\ outcome' = TarVerdict(tar.end)
      /\ UNCHANGED <<file, limits, entries, tar>>
  BY DEF LastBlock
<1>2. TypeOK /\ tar \in Tar /\ entries \in Seq(ListedEntry) /\ tar.end \in BOOLEAN
  BY TarFacts DEF TarPlace, TypeOK
<1>3. /\ outcome' \in EntryErrors \cup {"corrupt"}
      /\ outcome' = "none" => Allowed(entries) /\ (entries # <<>> \/ tar.end)
  BY <1>1, <1>2, VerdictFacts
<1>4. Allowed(entries)' <=> Allowed(entries)
  BY <1>1 DEF Allowed
<1> QED
  BY <1>1, <1>2, <1>3, <1>4 DEF TarKept, TarPlace, EntryErrors, Errors

LEMMA RefusedBlock ==
    ASSUME TarPlace, NEW b, BadHeader(b)
    PROVE  TarKept
<1>1. outcome' = "corrupt" /\ UNCHANGED <<file, limits, entries, tar>>
  BY DEF BadHeader
<1>2. tar \in Tar /\ entries \in Seq(ListedEntry)
  BY DEF TarPlace, TypeOK
<1> QED
  BY <1>1, <1>2 DEF TarKept, TarPlace, Errors

LEMMA PaddedFacts ==
    ASSUME NEW size \in Word
    PROVE  Padded(size) \in Int
<1> DEFINE blocks == ((size + BlockSize - 1) % (MaxWord + 1)) \div BlockSize
<1>1. (size + BlockSize - 1) % (MaxWord + 1) \in Int
  BY WordAssumption, BlockAssumption DEF Word
<1>2. blocks \in Int
  BY <1>1, BlockAssumption
<1> HIDE DEF blocks
<1>3. Padded(size) = blocks * BlockSize
  BY DEF Padded, blocks
<1> QED
  BY <1>2, <1>3, BlockAssumption

LEMMA FitsFacts ==
    ASSUME TarPlace, NEW size \in Word, Fits(size, tar.at)
    PROVE  tar.at + BlockSize + Padded(size) \in 0 .. file.size
<1>1. size \in Nat
  BY WordAssumption DEF Word
<1> QED
  BY <1>1, PaddedFacts, TarFacts DEF Fits

LEMMA TarMoves ==
    ASSUME NEW t \in Tar, NEW place \in 0 .. file.size,
           NEW u, u = [t EXCEPT !.zeros = 0, !.at = place]
    PROVE  u \in Tar /\ u.zeros = 0
<1>1. /\ DOMAIN t = {"at", "zeros", "path", "size", "end"}
      /\ t.path \in PathNames /\ t.size \in Word \cup {NoSize} /\ t.end \in BOOLEAN
      /\ t = [at |-> t.at, zeros |-> t.zeros, path |-> t.path, size |-> t.size, end |-> t.end]
  BY DEF Tar
<1>2. u = [at |-> place, zeros |-> 0, path |-> t.path, size |-> t.size, end |-> t.end]
  BY <1>1
<1>3. 0 \in 0 .. 2
  OBVIOUS
<1> QED
  BY <1>1, <1>2, <1>3 DEF Tar

LEMMA HeaderOfMetadata ==
    ASSUME TarPlace, file.kind = "tar", NEW b \in Block, MetadataHeader(b)
    PROVE  TarKept
<1> DEFINE size == ParseTarNumber(b.size)
<1>1. size \in Word /\ Fits(size, tar.at) /\ b.type \in Metadata
  BY NumberFacts DEF MetadataHeader, Readable, Block
<1>2. TypeOK /\ tar \in Tar /\ entries \in Seq(ListedEntry)
  BY DEF TarPlace, TypeOK
<1>3. UNCHANGED <<file, limits, entries>> /\ outcome = "running"
  BY DEF MetadataHeader, Running
<1>4. CASE size > MaxMetadata
  <2>1. outcome' = "corrupt" /\ tar' = tar
    BY <1>4 DEF MetadataHeader
  <2> QED
    BY <1>2, <1>3, <2>1 DEF TarKept, TarPlace, Errors
<1>5. CASE ~(size > MaxMetadata)
  <2> HIDE DEF size
  <2>1. /\ outcome' = "running"
        /\ tar' = [Overridden(b) EXCEPT !.zeros = 0,
                                        !.at = Overridden(b).at + BlockSize + Padded(size)]
    BY <1>3, <1>5 DEF MetadataHeader, size
  <2>2. Overridden(b) \in Tar /\ Overridden(b).at = tar.at
    <3>1. b.path \in PathNames /\ b.given \in Word \cup {NoSize}
      BY DEF Block
    <3>2. CASE b.type = "longName"
      BY <1>2, <3>1, <3>2 DEF Overridden, Tar
    <3>3. CASE b.type = "pax"
      BY <1>2, <3>1, <3>3 DEF Overridden, Tar
    <3>4. CASE b.type = "global"
      BY <1>2, <3>4 DEF Overridden
    <3> QED
      BY <1>1, <3>2, <3>3, <3>4 DEF Metadata
  <2>3. tar.at + BlockSize + Padded(size) \in 0 .. file.size
    BY <1>1, FitsFacts
  <2>4. tar' \in Tar /\ tar'.zeros = 0
    BY <2>1, <2>2, <2>3, TarMoves
  <2> QED
    BY <1>2, <1>3, <2>1, <2>4 DEF TarKept
<1> QED
  BY <1>4, <1>5

LEMMA HeaderOfEntry ==
    ASSUME TarPlace, file.kind = "tar", NEW b \in Block, EntryHeader(b)
    PROVE  TarKept
<1> DEFINE size == IF tar.size = NoSize THEN ParseTarNumber(b.size) ELSE tar.size
           listed == IF b.type = "directory" THEN 0 ELSE size
           entry == [path |-> IF tar.path = Absent THEN b.name ELSE tar.path,
                     kind |-> b.type, size |-> listed, packed |-> listed,
                     at |-> tar.at + BlockSize]
<1>1. /\ ParseTarNumber(b.size) \in Word /\ b.type \notin Metadata
      /\ tar.at + BlockSize <= file.size
  BY NumberFacts DEF EntryHeader, Readable, HasBlock, Block
<1>2. TypeOK /\ tar \in Tar /\ entries \in Seq(ListedEntry)
  BY DEF TarPlace, TypeOK
<1>3. size \in Word /\ listed \in Word
  BY <1>1, TarFacts, WordAssumption DEF Word
<1> HIDE DEF size, listed
<1>4. UNCHANGED <<file, limits>> /\ outcome = "running"
  BY DEF EntryHeader, Running
<1>5. CASE Len(entries) >= limits.count
  <2>1. outcome' = "resourceLimit" /\ tar' = tar /\ entries' = entries
    BY <1>5 DEF EntryHeader
  <2> QED
    BY <1>2, <1>4, <2>1 DEF TarKept, TarPlace, Errors
<1>6. CASE ~(Len(entries) >= limits.count)
  <2>1. /\ entries' = Append(entries, entry)
        /\ outcome' = IF Fits(size, tar.at) THEN "running" ELSE "corrupt"
        /\ tar' = [UsedUp(tar) EXCEPT !.zeros = 0,
                          !.at = IF Fits(size, tar.at)
                                 THEN tar.at + BlockSize + Padded(size) ELSE tar.at]
    <3>1. UsedUp(tar).at = tar.at
      BY DEF UsedUp
    <3> QED
      BY <1>6, <3>1 DEF EntryHeader, size, listed
  <2>2. entry \in ListedEntry
    <3>1. tar.at + BlockSize \in Word
      BY <1>1, TarFacts, WordAssumption DEF Word
    <3>2. b.type \in Kinds /\ b.name \in PathNames
      BY <1>1 DEF Block
    <3>3. (IF tar.path = Absent THEN b.name ELSE tar.path) \in PathNames
      BY <3>2, TarFacts
    <3> QED
      BY <1>3, <3>1, <3>2, <3>3 DEF ListedEntry
  <2>3. entries' \in Seq(ListedEntry)
    <3> HIDE DEF entry
    <3> QED
      BY <1>2, <2>1, <2>2
  <2>4. UsedUp(tar) \in Tar
    BY <1>2, PathsAssumption DEF UsedUp, Tar
  <2>5. (IF Fits(size, tar.at) THEN tar.at + BlockSize + Padded(size) ELSE tar.at)
           \in 0 .. file.size
    BY <1>3, FitsFacts, TarFacts
  <2>6. tar' \in Tar /\ tar'.zeros = 0
    BY <2>1, <2>4, <2>5, TarMoves
  <2> QED
    BY <1>4, <2>1, <2>3, <2>6 DEF TarKept, Errors
<1> QED
  BY <1>5, <1>6

LEMMA ListTarStep ==
    ASSUME IInv, ListTar, UNCHANGED readVars
    PROVE  IInv'
<1>1. /\ pc = "list" /\ Lister = "tar" /\ Running /\ format' = "tar"
      /\ UNCHANGED <<request, reports, pc, plan, backend, result>>
  BY DEF ListTar, Working
<1>2. TypeOK /\ PlanOK /\ ListOK /\ TarPlace /\ result = "none" /\ backend = "core"
  BY <1>1 DEF IInv, OpenInv, PlanOK, ListOK, TarPlace
<1>3. UNCHANGED <<file, limits>>
  BY DEF ListTar, ZeroBlock, LastBlock, BadHeader, MetadataHeader, EntryHeader
<1>4. TarKept
  <2>1. CASE Zeros /\ ZeroBlock
    BY <1>2, <2>1, BlockOfZeros
  <2>2. CASE LastBlock
    BY <1>2, <2>2, EndOfBlocks
  <2>3. ASSUME NEW b \in Headers, BadHeader(b) \/ MetadataHeader(b) \/ EntryHeader(b)
        PROVE  TarKept
    <3>1. CASE BadHeader(b)
      BY <1>2, <3>1, RefusedBlock
    <3>2. CASE file.kind = "tar" /\ MetadataHeader(b)
      BY <1>2, <2>3, <3>2, BlocksAssumption, HeaderOfMetadata DEF Headers
    <3>3. CASE file.kind = "tar" /\ EntryHeader(b)
      BY <1>2, <2>3, <3>3, BlocksAssumption, HeaderOfEntry DEF Headers
    <3>4. CASE file.kind # "tar" /\ (MetadataHeader(b) \/ EntryHeader(b))
      <4>1. b.sum
        BY <3>4 DEF MetadataHeader, EntryHeader, Readable
      <4>2. PICK a \in Blocks : b = [a EXCEPT !.sum = FALSE]
        BY <2>3, <3>4 DEF Headers
      <4>3. "sum" \in DOMAIN a
        BY BlocksAssumption DEF Block
      <4> QED
        BY <4>1, <4>2, <4>3
    <3> QED
      BY <2>3, <3>1, <3>2, <3>3, <3>4
  <2> QED
    BY <2>1, <2>2, <2>3 DEF ListTar
<1>5. UNCHANGED arguments
  BY <1>1, <1>3 DEF arguments
<1>6. PlanOK'
  BY <1>1, <1>2 DEF PlanOK, Lister
<1>7. Running' => ListOK'
  BY <1>1, <1>3, <1>4 DEF ListOK, TarKept, Running, Lister
<1>8. outcome' = "none" => AsWhatItIs'
  BY <1>1, <1>2, <1>3, <1>4 DEF AsWhatItIs, TarKept
<1>9. OpenInv'
  BY <1>1, <1>2, <1>4, <1>6, <1>7, <1>8 DEF OpenInv, TarKept
<1>10. tar' \in Tar'
  BY <1>3, <1>4 DEF TarKept, Tar
<1>11. TypeOK'
  BY <1>1, <1>2, <1>3, <1>4, <1>5, <1>10, OpenStepReads DEF TarKept, TypeOK, Formats
<1> QED
  BY <1>1, <1>5, <1>9, <1>11, OpenStepReads DEF IInv

LEMMA OpenStepInv ==
    ASSUME IInv, OpenStep, UNCHANGED readVars
    PROVE  IInv'
BY OpenSevenZipStep, OpenStepOpens, UnreadableStep, ListStep, ListTarStep, AcceptStep,
   GiveUpStep, TryNextStep DEF OpenStep

--------------------------------------------------------------------------------
(* Reading *)

\* While an archive is read nothing of what was opened changes.
LEMMA ReadStepOpens ==
    ASSUME IInv, result = "ok", UNCHANGED openVars,
           index' \in Nat, completed' \in Word, base' \in Word,
           reading' \in {"no", "yes", "ok", "cancelled"} \cup Errors
    PROVE  TypeOK' /\ OpenInv'
<1>1. /\ UNCHANGED <<file, limits, request, reports, entries, outcome, tar, headers>>
      /\ UNCHANGED <<pc, plan, format, backend, volumes, result>>
  BY DEF openVars, arguments, listing
<1>2. pc = "done" /\ Allowed(entries) /\ AsWhatItIs /\ TypeOK
  BY DEF IInv, OpenInv
<1>3. Allowed(entries)' /\ AsWhatItIs'
  BY <1>1, <1>2 DEF Allowed, AsWhatItIs, Own
<1>4. OpenInv'
  BY <1>1, <1>2, <1>3 DEF OpenInv
<1>5. TypeOK'
  BY <1>1, <1>2 DEF TypeOK, Tar
<1> QED
  BY <1>4, <1>5

LEMMA SizesFacts ==
    ASSUME IInv, result = "ok"
    PROVE  /\ SizesOf(entries) \in Seq(Nat) /\ Len(SizesOf(entries)) = Len(entries)
           /\ Total(SizesOf(entries)) <= limits.total
           /\ \A i \in DOMAIN entries : /\ SizesOf(entries)[i] = entries[i].size
                                        /\ entries[i].size \in Word
           /\ limits.total \in Word /\ limits.entry \in Word
           /\ entries \in Seq(ListedEntry) /\ Len(entries) \in Nat
           /\ DOMAIN entries = 1 .. Len(entries)
<1>1. entries \in Seq(ListedEntry) /\ limits \in Limits
  BY DEF IInv, TypeOK
<1>2. \A i \in DOMAIN entries : entries[i].size \in Word
  BY <1>1 DEF ListedEntry, Entry
<1>3. Word \subseteq Nat
  BY WordAssumption DEF Word
<1>4. SizesOf(entries) = [i \in 1 .. Len(entries) |-> entries[i].size]
  BY <1>1 DEF SizesOf
<1>5. SizesOf(entries) \in Seq(Nat) /\ Len(SizesOf(entries)) = Len(entries)
  <2> DEFINE N == Len(entries)
  <2>1. N \in Nat /\ \A i \in 1 .. N : entries[i].size \in Nat
    <3>1. N \in Nat /\ DOMAIN entries = 1 .. N
      BY <1>1
    <3> QED
      BY <1>2, <1>3, <3>1
  <2> HIDE DEF N
  <2>2. [i \in 1 .. N |-> entries[i].size] \in Seq(Nat)
    BY <2>1
  <2>3. Len([i \in 1 .. N |-> entries[i].size]) = N
    BY <2>1
  <2> QED
    BY <1>4, <2>2, <2>3 DEF N
<1>6. Total(SizesOf(entries)) <= limits.total
  BY DEF IInv, OpenInv, Allowed
<1> QED
  BY <1>1, <1>2, <1>4, <1>5, <1>6 DEF Limits

LEMMA StartReadingStep ==
    ASSUME IInv, StartReading
    PROVE  IInv'
<1>1. /\ result = "ok" /\ reading = "no" /\ UNCHANGED openVars
      /\ UNCHANGED <<index, completed, base>>
      /\ UNCHANGED <<limits, entries, result, backend, format>>
      /\ reading' = (IF entries = <<>> THEN "ok" ELSE "yes")
      /\ handed' = [i \in DOMAIN entries |-> 0]
      /\ Streamed
  BY DEF StartReading, openVars, arguments, listing
<1>2. index = 1 /\ completed = 0 /\ base = 0
  BY <1>1 DEF IInv, ReadInv
<1>3. TypeOK' /\ OpenInv'
  BY <1>1, ReadStepOpens DEF IInv, TypeOK
<1>4. /\ handed' \in Seq(Nat) /\ Len(handed') = Len(entries)
      /\ \A i \in 1 .. Len(handed') : handed'[i] = 0
  BY <1>1, SizesFacts
<1>5. limits.total \in Nat /\ limits.entry \in Nat
  BY <1>1, SizesFacts, WordAssumption DEF Word
<1>6. Totals(SizesOf(entries))[0] = 0
  BY <1>1, SizesFacts, TotalsFacts
<1>7. ASSUME reading' = "yes"
      PROVE  ReadingOK'
  <2>1. 1 \in DOMAIN entries
    BY <1>1, <1>7, SizesFacts
  <2>2. backend = "core" => Len(entries) = 1
    <3>1. ASSUME backend = "core"
          PROVE  Len(entries) = 1
      <4>1. AsWhatItIs /\ format = "gzip"
        BY <1>1, <3>1 DEF IInv, OpenInv, Streamed
      <4>2. entries = <<GzipEntry(file.size, file.gzip)>>
        BY <3>1, <4>1 DEF AsWhatItIs, Own
      <4> QED
        BY <4>2
    <3> QED
      BY <3>1
  <2> QED
    BY <1>1, <1>2, <1>4, <1>6, <2>1, <2>2 DEF ReadingOK
<1>8. \A i \in DOMAIN handed' : i <= 1 => i = 1 /\ Totals(SizesOf(entries))[i - 1] + handed'[i] <= limits.total
  <2>1. ASSUME NEW i \in DOMAIN handed', i <= 1
        PROVE  i = 1 /\ Totals(SizesOf(entries))[i - 1] + handed'[i] <= limits.total
    <3>1. i = 1 /\ i - 1 = 0 /\ handed'[i] = 0
      BY <1>4, <2>1
    <3> QED
      BY <1>5, <1>6, <3>1
  <2> QED
    BY <2>1
<1>9. /\ \A i \in DOMAIN handed' : handed'[i] <= limits.entry
      /\ \A i \in DOMAIN handed' : ~(i < 1)
      /\ Len(handed') = Len(entries)
  <2>1. DOMAIN handed' = 1 .. Len(handed') /\ Len(handed') \in Nat
    BY <1>4
  <2> QED
    BY <1>4, <1>5, <2>1
<1>10. handed' \in Seq(Nat)
  BY <1>4
<1>11. ReadInv'
  BY <1>1, <1>2, <1>7, <1>8, <1>9, <1>10 DEF ReadInv
<1> QED
  BY <1>3, <1>11 DEF IInv

LEMMA ReadingFailsStep ==
    ASSUME IInv, ReadingFails
    PROVE  IInv'
<1>1. /\ reading = "yes" /\ result = "ok" /\ UNCHANGED openVars
      /\ UNCHANGED <<index, completed, base, handed, limits, entries, result>>
      /\ reading' \in {"corrupt", "cancelled"}
  BY DEF ReadingFails, IInv, ReadInv, openVars, arguments, listing
<1>2. TypeOK' /\ OpenInv'
  BY <1>1, ReadStepOpens DEF IInv, TypeOK, Errors
<1>3. ReadInv'
  BY <1>1 DEF IInv, ReadInv
<1> QED
  BY <1>2, <1>3 DEF IInv

LEMMA ReadingFacts ==
    ASSUME IInv, reading = "yes"
    PROVE  /\ result = "ok" /\ ReadingOK
           /\ index \in 1 .. Len(entries) /\ index \in 1 .. Len(handed)
           /\ handed \in Seq(Nat) /\ \A i \in 1 .. Len(handed) : handed[i] \in Nat
           /\ Len(handed) = Len(entries) /\ completed \in Nat /\ base \in Nat
           /\ entries[index].size \in Nat
           /\ base + entries[index].size = Totals(SizesOf(entries))[index]
           /\ base + entries[index].size <= limits.total
           /\ limits.total \in Nat /\ limits.total <= MaxWord
           /\ limits.entry \in Nat /\ limits.entry <= MaxWord
<1>1. result = "ok" /\ ReadingOK /\ handed \in Seq(Nat) /\ Len(handed) = Len(entries)
  BY DEF IInv, ReadInv
<1>2. index \in 1 .. Len(entries)
  BY <1>1, SizesFacts DEF ReadingOK
<1>3. \A i \in 1 .. Len(handed) : handed[i] \in Nat
  BY <1>1
<1>5. completed \in Nat /\ base \in Nat
  BY WordAssumption DEF IInv, TypeOK, Word
<1>6. entries[index].size \in Nat
  <2>1. index \in DOMAIN entries
    BY <1>1 DEF ReadingOK
  <2>2. entries[index].size \in Word
    BY <1>1, <2>1, SizesFacts
  <2> QED
    BY <2>2, WordAssumption DEF Word
<1> DEFINE sizes == SizesOf(entries)
<1>7. sizes \in Seq(Nat) /\ Len(sizes) = Len(entries) /\ sizes[index] = entries[index].size
  BY <1>1, <1>2, SizesFacts
<1>8. Totals(sizes)[index] = Totals(sizes)[index - 1] + sizes[index]
  <2> HIDE DEF sizes
  <2> QED
    BY <1>2, <1>7, TotalsFacts
<1>9. Totals(sizes)[index] <= limits.total
  <2>1. index \in 0 .. Len(sizes)
    BY <1>2, <1>7
  <2>2. Total(sizes) <= limits.total /\ limits.total \in Nat
    BY <1>1, SizesFacts, WordAssumption DEF Word
  <2> HIDE DEF sizes
  <2>3. Totals(sizes)[index] \in Nat /\ Totals(sizes)[index] <= Total(sizes)
    BY <1>7, <2>1, TotalsGrow
  <2>4. Total(sizes) \in Nat
    <3>1. Len(sizes) \in 0 .. Len(sizes)
      BY <1>7
    <3> QED
      BY <1>7, <3>1, TotalsFacts DEF Total
  <2> QED
    BY <2>2, <2>3, <2>4
<1>10. base + entries[index].size = Totals(sizes)[index]
  BY <1>1, <1>7, <1>8 DEF ReadingOK
<1>11. /\ limits.total \in Nat /\ limits.total <= MaxWord
       /\ limits.entry \in Nat /\ limits.entry <= MaxWord
  BY <1>1, SizesFacts, WordAssumption DEF Word
<1> QED
  BY <1>1, <1>2, <1>3, <1>5, <1>6, <1>9, <1>10, <1>11

LEMMA GoOnStep ==
    ASSUME IInv, reading = "yes", GoOn, UNCHANGED <<openVars, handed>>,
           index # Len(entries) /\ entries[index].size > 0
               => handed[index] <= entries[index].size
    PROVE  IInv'
<1>1. /\ base' = base + entries[index].size /\ completed' = 0 /\ index' = index + 1
      /\ reading' = IF index = Len(entries) THEN "ok" ELSE "yes"
      /\ UNCHANGED <<entries, limits, result, backend, handed>>
  BY DEF GoOn, openVars, arguments, listing
<1>2. index' \in Nat /\ completed' \in Word /\ base' \in Word
  <2>1. index \in Nat
    BY DEF IInv, TypeOK
  <2> DEFINE next == base + entries[index].size
  <2>2. next \in Nat /\ next <= limits.total /\ limits.total \in Nat /\ limits.total <= MaxWord
    BY ReadingFacts
  <2> HIDE DEF next
  <2>3. next \in Word /\ 0 \in Word
    BY <2>2, WordAssumption DEF Word
  <2> QED
    BY <1>1, <2>1, <2>3 DEF next
<1>3. TypeOK' /\ OpenInv'
  <2>1. reading' \in {"yes", "ok"} /\ result = "ok"
    BY <1>1, ReadingFacts
  <2> QED
    BY <1>2, <2>1, ReadStepOpens
<1>0. Len(entries) \in Nat /\ index \in 1 .. Len(entries)
  BY ReadingFacts, SizesFacts
<1>4. /\ Len(handed) = Len(entries)
      /\ DOMAIN handed = 1 .. Len(entries) /\ DOMAIN entries = 1 .. Len(entries)
  BY ReadingFacts, SizesFacts
<1>5. \A j \in DOMAIN handed : j > index => handed[j] = 0
  BY ReadingFacts DEF ReadingOK
<1>6. ASSUME index # Len(entries)
      PROVE  ReadingOK'
  <2>1. index + 1 \in 1 .. Len(entries) /\ index + 1 > index /\ (index + 1) - 1 = index
    BY <1>0, <1>6
  <2>2. handed[index + 1] = 0 /\ \A j \in DOMAIN handed : j > index + 1 => handed[j] = 0
    <3>1. index + 1 \in DOMAIN handed
      BY <1>4, <2>1
    <3>2. \A j \in DOMAIN handed : j > index + 1 => j > index
      <4>1. \A j \in 1 .. Len(entries) : j > index + 1 => j > index
        BY <1>0
      <4> QED
        BY <1>4, <4>1
    <3> QED
      BY <1>5, <2>1, <3>1, <3>2
  <2>3. base' = Totals(SizesOf(entries))[index' - 1]
    BY <1>1, <2>1, ReadingFacts
  <2>4. backend = "core" => Len(entries) = 1
    BY ReadingFacts DEF ReadingOK
  <2> QED
    BY <1>1, <1>4, <2>1, <2>2, <2>3, <2>4 DEF ReadingOK
<1>7. \A i \in DOMAIN handed : i <= index + 1 =>
          Totals(SizesOf(entries))[i - 1] + handed[i] <= limits.total
  <2>0. \A i \in 1 .. Len(entries) : i <= index + 1 => i <= index \/ i = index + 1
    BY <1>0
  <2>1. ASSUME NEW i \in DOMAIN handed, i <= index + 1
        PROVE  Totals(SizesOf(entries))[i - 1] + handed[i] <= limits.total
    <3>1. CASE i <= index
      BY <3>1 DEF IInv, ReadInv
    <3>2. CASE i = index + 1
      <4>1. handed[i] = 0 /\ i - 1 = index
        <5>1. i > index /\ i - 1 = index
          BY <1>0, <3>2
        <5> QED
          BY <1>5, <5>1
      <4>2. /\ Totals(SizesOf(entries))[index] = base + entries[index].size
            /\ base + entries[index].size <= limits.total
            /\ base \in Nat /\ entries[index].size \in Nat
        BY ReadingFacts
      <4> QED
        BY <4>1, <4>2
    <3> QED
      BY <1>4, <2>0, <2>1, <3>1, <3>2
  <2> QED
    BY <2>1
<1>8. \A i \in DOMAIN handed : i < index + 1 /\ i < Len(entries) /\ entries[i].size > 0 =>
          handed[i] <= entries[i].size
  <2>0. \A i \in 1 .. Len(entries) : /\ i < index + 1 => i < index \/ i = index
                                     /\ i < Len(entries) => i # Len(entries)
    BY <1>0
  <2>1. ASSUME NEW i \in DOMAIN handed, i < index + 1, i < Len(entries), entries[i].size > 0
        PROVE  handed[i] <= entries[i].size
    <3>1. CASE i < index
      BY <2>1, <3>1 DEF IInv, ReadInv
    <3>2. CASE i = index
      BY <1>4, <2>0, <2>1, <3>2
    <3> QED
      BY <1>4, <2>0, <2>1, <3>1, <3>2
  <2> QED
    BY <2>1
<1>9. handed \in Seq(Nat) /\ (\A i \in DOMAIN handed : handed[i] <= limits.entry) /\ result = "ok"
  BY ReadingFacts DEF IInv, ReadInv
<1>10. ReadInv'
  BY <1>1, <1>4, <1>6, <1>7, <1>8, <1>9 DEF ReadInv
<1> QED
  BY <1>3, <1>10 DEF IInv

LEMMA SkipEntryStep ==
    ASSUME IInv, SkipEntry
    PROVE  IInv'
<1>1. reading = "yes" /\ completed = 0 /\ GoOn /\ UNCHANGED <<openVars, handed>>
  BY DEF SkipEntry
<1>2. handed[index] = 0 /\ entries[index].size \in Nat
  BY <1>1, ReadingFacts DEF ReadingOK
<1> QED
  BY <1>1, <1>2, GoOnStep

LEMMA EndOfEntryStep ==
    ASSUME IInv, EndOfEntry
    PROVE  IInv'
<1>1. reading = "yes" /\ UNCHANGED <<openVars, handed>>
  BY DEF EndOfEntry
<1>2. CASE SizeMatches /\ GoOn
  <2>1. ASSUME index # Len(entries), entries[index].size > 0
        PROVE  handed[index] <= entries[index].size
    <3>1. Len(entries) # 1
      <4>1. index \in 1 .. Len(entries) /\ Len(entries) \in Nat
        BY <1>1, ReadingFacts, SizesFacts
      <4>2. index # Len(entries)
        BY <2>1
      <4>3. ASSUME NEW n \in Nat, NEW i \in 1 .. n, i # n
            PROVE  n # 1
        BY <4>3
      <4> QED
        BY <4>1, <4>2, <4>3
    <3>2. backend # "core"
      BY <1>1, <3>1, ReadingFacts DEF ReadingOK
    <3>3. completed = entries[index].size
      BY <1>2, <2>1, <3>2 DEF SizeMatches
    <3>4. handed[index] = completed /\ completed \in Nat
      BY <1>1, ReadingFacts DEF ReadingOK
    <3> QED
      BY <3>3, <3>4
  <2> QED
    BY <1>1, <1>2, <2>1, GoOnStep
<1>3. CASE ~SizeMatches
  <2>1. /\ reading' = "corrupt" /\ UNCHANGED <<index, completed, base>>
        /\ UNCHANGED <<limits, entries, result, handed>>
    BY <1>1, <1>3 DEF EndOfEntry, openVars, arguments, listing
  <2>2. TypeOK' /\ OpenInv'
    BY <1>1, <2>1, ReadingFacts, ReadStepOpens DEF IInv, TypeOK, Errors
  <2>3. ReadInv'
    BY <1>1, <2>1 DEF IInv, ReadInv
  <2> QED
    BY <2>2, <2>3 DEF IInv
<1> QED
  BY <1>2, <1>3 DEF EndOfEntry

\* A chunk that is found to be within the limits is so as a sum of numbers.
LEMMA ChunkFacts ==
    ASSUME IInv, reading = "yes", NEW chunk \in Nat, NEW consumed,
           ChunkError(chunk, consumed) = "none"
    PROVE  completed + chunk <= limits.entry /\ base + completed + chunk <= limits.total
<1>1. CASE backend = "core"
  <2>1. index = 1 /\ base = 0
    <3>1. Len(entries) = 1 /\ index = 1
      BY <1>1, ReadingFacts DEF ReadingOK
    <3>2. SizesOf(entries) \in Seq(Nat)
      BY ReadingFacts, SizesFacts
    <3>3. Totals(SizesOf(entries))[0] = 0
      BY <3>2, TotalsFacts
    <3>4. base = Totals(SizesOf(entries))[index - 1]
      BY ReadingFacts DEF ReadingOK
    <3> QED
      BY <3>1, <3>3, <3>4
  <2>2. /\ limits.entry \in Nat /\ limits.total \in Nat /\ completed \in Nat
    BY ReadingFacts
  <2> DEFINE most == IF limits.entry < limits.total THEN limits.entry ELSE limits.total
  <2>3. ~(chunk > most) /\ ~(completed > most - chunk)
    BY <1>1 DEF ChunkError, GzipChunkError
  <2>4. most \in Nat /\ most <= limits.entry /\ most <= limits.total
    BY <2>2
  <2> HIDE DEF most
  <2>5. completed + chunk <= most
    BY <2>2, <2>3, <2>4
  <2>6. completed + chunk <= limits.entry /\ completed + chunk <= limits.total
    BY <2>2, <2>4, <2>5
  <2>7. base + completed + chunk <= limits.total
    BY <2>1, <2>2, <2>6
  <2> QED
    BY <2>6, <2>7
<1>2. CASE backend # "core"
  <2>1. ~(completed + chunk > limits.entry) /\ ~(base + completed + chunk > limits.total)
    BY <1>2 DEF ChunkError, StreamChunkError, BaseCounted
  <2>2. /\ limits.entry \in Nat /\ limits.total \in Nat
        /\ completed \in Nat /\ base \in Nat
    BY ReadingFacts
  <2> QED
    BY <2>1, <2>2
<1> QED
  BY <1>1, <1>2

LEMMA ChunkStep ==
    ASSUME IInv, Chunk
    PROVE  IInv'
<1>1. /\ reading = "yes" /\ MayDeliver
      /\ UNCHANGED openVars /\ UNCHANGED <<index, base, limits, entries, result, backend>>
  BY DEF Chunk, openVars, arguments, listing
<1>2. PICK chunk \in Chunks, consumed \in {1, file.size} :
         \/ /\ ChunkError(chunk, consumed) = "none"
            /\ completed' = completed + chunk
            /\ handed' = [handed EXCEPT ![index] = @ + chunk]
            /\ UNCHANGED reading
         \/ /\ ChunkError(chunk, consumed) # "none"
            /\ reading' = ChunkError(chunk, consumed)
            /\ UNCHANGED <<completed, handed>>
  BY DEF Chunk
<1>3. chunk \in Nat
  BY ChunksAssumption
<1>4. CASE ChunkError(chunk, consumed) = "none"
  <2>1. /\ completed' = completed + chunk /\ reading' = "yes"
        /\ handed' = [handed EXCEPT ![index] = @ + chunk]
    BY <1>1, <1>2, <1>4
  <2>2. completed' <= limits.entry /\ base + completed' <= limits.total
    <3>1. completed \in Nat /\ base \in Nat
      BY <1>1, ReadingFacts
    <3>2. completed + chunk <= limits.entry /\ base + completed + chunk <= limits.total
      BY <1>1, <1>3, <1>4, ChunkFacts
    <3>3. base + (completed + chunk) = base + completed + chunk
      BY <1>3, <3>1
    <3> QED
      BY <2>1, <3>2, <3>3
  <2>3. completed' \in Word
    <3>1. completed \in Nat /\ limits.entry \in Nat /\ limits.entry <= MaxWord
      BY <1>1, ReadingFacts
    <3>2. completed + chunk \in Nat /\ completed + chunk <= limits.entry
      BY <1>3, <2>1, <2>2, <3>1
    <3>3. completed + chunk \in Word
      BY <3>1, <3>2, WordAssumption DEF Word
    <3> QED
      BY <2>1, <3>3
  <2>4. TypeOK' /\ OpenInv'
    BY <1>1, <2>1, <2>3, ReadingFacts, ReadStepOpens DEF IInv, TypeOK
  <2>5. /\ handed' \in Seq(Nat) /\ Len(handed') = Len(handed) /\ DOMAIN handed' = DOMAIN handed
        /\ handed'[index] = completed'
        /\ \A j \in DOMAIN handed : j # index => handed'[j] = handed[j]
    BY <1>1, <1>3, <2>1, ReadingFacts DEF ReadingOK
  <2>6. ReadingOK'
    <3>1. \A j \in DOMAIN handed' : j > index => handed'[j] = 0
      <4>1. \A j \in DOMAIN handed : j > index => handed[j] = 0
        BY <1>1, ReadingFacts DEF ReadingOK
      <4>2. \A j \in DOMAIN handed : j > index => j # index
        BY <1>1, ReadingFacts
      <4> QED
        BY <2>5, <4>1, <4>2
    <3>2. /\ index \in DOMAIN entries
          /\ base = Totals(SizesOf(entries))[index - 1]
          /\ backend = "core" => Len(entries) = 1
      BY <1>1, ReadingFacts DEF ReadingOK
    <3> QED
      BY <1>1, <2>5, <3>1, <3>2 DEF ReadingOK
  <2>7. \A i \in DOMAIN handed' : handed'[i] <= limits.entry
    <3>1. \A i \in DOMAIN handed : handed[i] <= limits.entry
      BY DEF IInv, ReadInv
    <3> QED
      BY <2>2, <2>5, <3>1
  <2>8. \A i \in DOMAIN handed' : i <= index =>
            Totals(SizesOf(entries))[i - 1] + handed'[i] <= limits.total
    <3>1. \A i \in DOMAIN handed : i <= index =>
              Totals(SizesOf(entries))[i - 1] + handed[i] <= limits.total
      BY DEF IInv, ReadInv
    <3>2. base = Totals(SizesOf(entries))[index - 1]
      BY <1>1, ReadingFacts DEF ReadingOK
    <3> QED
      BY <2>2, <2>5, <3>1, <3>2
  <2>9. \A i \in DOMAIN handed' : i < index /\ i < Len(entries) /\ entries[i].size > 0 =>
            handed'[i] <= entries[i].size
    <3>1. \A i \in DOMAIN handed : i < index /\ i < Len(entries) /\ entries[i].size > 0 =>
              handed[i] <= entries[i].size
      BY DEF IInv, ReadInv
    <3>2. \A i \in DOMAIN handed : i < index => i # index
      BY <1>1, ReadingFacts
    <3> QED
      BY <2>5, <3>1, <3>2
  <2>10. ReadInv'
    BY <1>1, <2>1, <2>5, <2>6, <2>7, <2>8, <2>9, ReadingFacts DEF ReadInv
  <2> QED
    BY <2>4, <2>10 DEF IInv
<1>5. CASE ChunkError(chunk, consumed) # "none"
  <2>1. reading' = "resourceLimit" /\ UNCHANGED <<completed, handed>>
    BY <1>2, <1>5 DEF ChunkError, GzipChunkError, StreamChunkError
  <2>2. TypeOK' /\ OpenInv'
    BY <1>1, <2>1, ReadingFacts, ReadStepOpens DEF IInv, TypeOK, Errors
  <2>3. ReadInv'
    BY <1>1, <2>1, ReadingFacts DEF IInv, ReadInv
  <2> QED
    BY <2>2, <2>3 DEF IInv
<1> QED
  BY <1>4, <1>5

LEMMA StepIInv == IInv /\ [Next]_vars => IInv'
<1> SUFFICES ASSUME IInv, [Next]_vars
             PROVE  IInv'
  OBVIOUS
<1>1. CASE OpenStep /\ UNCHANGED readVars
  BY <1>1, OpenStepInv
<1>2. CASE StartReading
  BY <1>2, StartReadingStep
<1>3. CASE Chunk
  BY <1>3, ChunkStep
<1>4. CASE EndOfEntry
  BY <1>4, EndOfEntryStep
<1>5. CASE SkipEntry
  BY <1>5, SkipEntryStep
<1>6. CASE ReadingFails
  BY <1>6, ReadingFailsStep
<1>7. CASE UNCHANGED vars
  BY <1>7 DEF IInv, TypeOK, Tar, OpenInv, PlanOK, ListOK, Running, Lister, Allowed, AsWhatItIs, Own,
     ReadInv, ReadingOK, vars, openVars, readVars, arguments, listing
<1> QED
  BY <1>1, <1>2, <1>3, <1>4, <1>5, <1>6, <1>7 DEF Next

\* Every variable keeps its type, whatever the size of words and of blocks: no
\* size, place or sum that is computed wraps around.
THEOREM TypeCorrect == Spec => []TypeOK
<1>1. IInv => TypeOK
  BY DEF IInv
<1> QED
  BY InitIInv, StepIInv, <1>1, PTL DEF Spec

\* The entries before one are counted with no more than they declare.
LEMMA LimitedTotal ==
    ASSUME IInv, NEW i \in DOMAIN handed, i <= index
    PROVE  Total(Limited(i)) <= limits.total
<1>1. result = "ok" /\ Len(handed) = Len(entries) /\ handed \in Seq(Nat)
  BY DEF IInv, ReadInv
<1> DEFINE a == Limited(i)
           b == SizesOf(entries)
<1>2. /\ b \in Seq(Nat) /\ Len(b) = Len(entries) /\ limits.total \in Nat
      /\ \A j \in DOMAIN entries : b[j] = entries[j].size
      /\ Len(entries) \in Nat /\ DOMAIN entries = 1 .. Len(entries)
  BY <1>1, SizesFacts, WordAssumption DEF Word
<1>3. i \in 1 .. Len(entries) /\ index \in Nat /\ \A j \in 1 .. i : handed[j] \in Nat
  BY <1>1, <1>2 DEF IInv, TypeOK
<1>4. /\ a \in Seq(Nat) /\ Len(a) = i
      /\ \A j \in 1 .. i : a[j] = IF j < i /\ entries[j].size = 0 THEN 0 ELSE handed[j]
  BY <1>3 DEF Limited
<1>5. \A j \in 1 .. i - 1 : a[j] <= b[j]
  <2>1. ASSUME NEW j \in 1 .. i - 1
        PROVE  a[j] <= b[j]
    <3>1. /\ j \in 1 .. i /\ j < i /\ j < index /\ j < Len(entries)
          /\ j \in DOMAIN entries /\ j \in DOMAIN handed
      BY <1>1, <1>2, <1>3
    <3>2. b[j] = entries[j].size /\ b[j] \in Nat
      BY <1>2, <3>1
    <3>3. entries[j].size > 0 => handed[j] <= entries[j].size
      BY <3>1 DEF IInv, ReadInv
    <3>4. a[j] = IF entries[j].size = 0 THEN 0 ELSE handed[j]
      BY <1>4, <3>1
    <3> HIDE DEF a, b
    <3> QED
      BY <3>2, <3>3, <3>4
  <2> QED
    BY <2>1
<1>6. Totals(b)[i - 1] + handed[i] <= limits.total
  BY DEF IInv, ReadInv
<1> HIDE DEF a, b
<1>7. i - 1 \in 0 .. Len(a) /\ i - 1 <= Len(b) /\ i - 1 \in 0 .. Len(b) /\ i \in 1 .. Len(a)
  BY <1>2, <1>3, <1>4
<1>8. Totals(a)[i - 1] <= Totals(b)[i - 1]
  BY <1>2, <1>4, <1>5, <1>7, TotalsBelow
<1>9. Totals(a)[i - 1] \in Nat /\ Totals(b)[i - 1] \in Nat
  BY <1>2, <1>4, <1>7, TotalsGrow
<1>10. Totals(a)[i] = Totals(a)[i - 1] + a[i] /\ a[i] = handed[i] /\ handed[i] \in Nat
  <2>1. i \in 1 .. i /\ ~(i < i)
    BY <1>3
  <2> QED
    BY <1>3, <1>4, <1>7, <2>1, TotalsFacts
<1>11. Totals(a)[i] <= limits.total
  BY <1>2, <1>6, <1>8, <1>9, <1>10
<1> QED
  BY <1>4, <1>11 DEF Total, a

\* What is opened is within the limits as exact sums, for any number of entries,
\* and what is read of an entry stays within them next to what the entries before
\* it declared, for any chunks.
THEOREM LimitsHold == Spec => []WithinLimits
<1>1. IInv => WithinLimits
  BY LimitedTotal DEF IInv, OpenInv, ReadInv, WithinLimits
<1> QED
  BY InitIInv, StepIInv, <1>1, PTL DEF Spec

\* An archive is listed by the lister of its own format and holds nothing of
\* the attempts of others.
THEOREM RightFormat == Spec => []OpenedAsWhatItIs
<1>1. IInv => OpenedAsWhatItIs
  BY DEF IInv, OpenInv, OpenedAsWhatItIs
<1> QED
  BY InitIInv, StepIInv, <1>1, PTL DEF Spec

================================================================================
