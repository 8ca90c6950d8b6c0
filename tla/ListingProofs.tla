------------------------------- MODULE ListingProofs -------------------------------
(***************************************************************************)
(* What list_tar and SevenZipVolumeResolver find is what is there: for any *)
(* number of headers the entries are what was written, and for any set of  *)
(* volumes the archive is all of them.                                     *)
(***************************************************************************)
EXTENDS OpeningProofs, FiniteSetTheorems, FunctionTheorems

(* Numbers in fields *)

\* What fits does not wrap around.
LEMMA NoWrap ==
    ASSUME NEW v \in Word, NEW radix \in Nat \ {0}, NEW d \in Nat, d < radix,
           (MaxWord + 1) % radix = 0, Fitting(v, radix)
    PROVE  (v * radix + d) % (MaxWord + 1) = v * radix + d
<1> DEFINE q == (MaxWord + 1) \div radix
           p == MaxWord \div radix
<1>1. MaxWord \in Nat /\ v \in Nat
  BY WordAssumption DEF Word
<1>2. q \in Int /\ MaxWord + 1 = radix * q
  BY <1>1
<1>3. p \in Int /\ radix * p <= MaxWord
  BY <1>1
<1>4. v <= p
  BY DEF Fitting
<1> HIDE DEF p, q
<1>5. p < q
  <2>1. radix * p < radix * q
    BY <1>1, <1>2, <1>3
  <2>2. SUFFICES ASSUME q <= p
                 PROVE  FALSE
    BY <1>2, <1>3
  <2>3. radix * q <= radix * p
    BY <1>2, <1>3, <2>2
  <2> QED
    BY <1>2, <1>3, <2>1, <2>3
<1>6. v + 1 <= q
  BY <1>1, <1>2, <1>3, <1>4, <1>5
<1>7. radix * (v + 1) <= radix * q
  BY <1>1, <1>2, <1>6
<1>8. v * radix + d < MaxWord + 1 /\ v * radix + d \in Nat
  BY <1>1, <1>2, <1>7
<1> QED
  BY <1>1, <1>8

\* The exact value of a field, digit by digit.
LEMMA ExactDigits ==
    ASSUME NEW field \in Field
    PROVE  \E c \in [0 .. Len(field.digits) -> Nat] :
              /\ c[0] = 0
              /\ \A n \in 1 .. Len(field.digits) : c[n] = c[n - 1] * field.radix + field.digits[n]
              /\ Exact(field) = c[Len(field.digits)]
<1> DEFINE N == Len(field.digits)
           More(v, n) == v * field.radix + field.digits[n]
           g == [n \in 1 .. N |-> [v \in Nat |-> More(v, n)]]
           Is(f) == f = [n \in 0 .. N |-> IF n = 0 THEN 0 ELSE More(f[n - 1], n)]
<1>1. N \in Nat /\ field.radix \in Nat /\ \A n \in 1 .. N : field.digits[n] \in Nat
  BY FieldFacts
<1>2. ASSUME NEW v \in Nat, NEW n \in 1 .. N
      PROVE  More(v, n) \in Nat
  <2>1. field.digits[n] \in Nat /\ v * field.radix \in Nat
    BY <1>1
  <2> QED
    BY <2>1
<1> HIDE DEF More
<1>3. g \in [1 .. N -> [Nat -> Nat]]
  BY <1>1, <1>2
<1>4. PICK f \in [0 .. N -> Nat] : Follows(f, N, 0, g)
  <2> HIDE DEF g, N
  <2>1. 0 \in Nat
    OBVIOUS
  <2> QED
    BY <1>1, <1>3, <2>1, RecursionExists
<1>5. ASSUME NEW n \in 0 .. N
      PROVE  f[n] = IF n = 0 THEN 0 ELSE More(f[n - 1], n)
  <2>1. CASE n = 0
    BY <1>4, <2>1 DEF Follows
  <2>2. CASE n # 0
    <3>1. n \in 1 .. N /\ n - 1 \in 0 .. N
      BY <1>1, <2>2
    <3>2. f[n] = g[n][f[n - 1]] /\ f[n - 1] \in Nat
      BY <1>4, <3>1 DEF Follows
    <3> QED
      BY <2>2, <3>1, <3>2
  <2> QED
    BY <2>1, <2>2
<1>6. Is(f)
  BY <1>4, <1>5
<1> DEFINE c == CHOOSE h : Is(h)
<1>7. Is(c)
  BY <1>6
<1>8. Exact(field) = c[N]
  BY DEF Exact, More
<1> HIDE DEF c, g
<1>9. c[0] = 0 /\ \A n \in 1 .. N : c[n] = More(c[n - 1], n)
  <2>1. c = [n \in 0 .. N |-> IF n = 0 THEN 0 ELSE More(c[n - 1], n)]
    BY <1>7
  <2>2. 0 \in 0 .. N /\ \A n \in 1 .. N : n \in 0 .. N /\ n # 0
    BY <1>1
  <2> HIDE DEF N
  <2>3. c[0] = 0
    BY <2>1, <2>2
  <2>4. ASSUME NEW n \in 1 .. N
        PROVE  c[n] = More(c[n - 1], n)
    BY <2>1, <2>2
  <2> QED
    BY <2>3, <2>4
<1>10. DOMAIN c = 0 .. N /\ c = [n \in 0 .. N |-> c[n]]
  BY <1>7
<1>11. c \in [0 .. N -> Nat]
  <2>1. \A n \in 1 .. N : c[n - 1] \in Nat => c[n] \in Nat
    BY <1>2, <1>9
  <2>2. c[0] \in Nat
    BY <1>9
  <2> HIDE DEF N
  <2> QED
    BY <1>1, <1>10, <2>1, <2>2, RecursionStays
<1> QED
  BY <1>8, <1>9, <1>11 DEF More

\* A number that was parsed is the one that was written.
LEMMA NumberIsExact ==
    ASSUME NEW field \in Field
    PROVE  /\ Exact(field) \in Nat
           /\ ParseTarNumber(field) # Invalid => ParseTarNumber(field) = Exact(field)
<1> DEFINE N == Len(field.digits)
<1>1. PICK c \in [0 .. N -> Word \cup {Invalid}] :
         /\ c[0] = 0 /\ \A n \in 1 .. N : c[n] = NextNumber(c[n - 1], field, n)
         /\ ParseTarNumber(field) = c[N]
  BY DigitByDigit
<1>2. PICK e \in [0 .. N -> Nat] :
         /\ e[0] = 0 /\ \A n \in 1 .. N : e[n] = e[n - 1] * field.radix + field.digits[n]
         /\ Exact(field) = e[N]
  BY ExactDigits
<1>3. N \in Nat
  BY FieldFacts
<1> DEFINE S == {n \in 0 .. N : c[n] \in {Invalid, e[n]}}
<1>4. 0 \in S
  BY <1>1, <1>2, <1>3
<1>5. ASSUME NEW n \in 0 .. N - 1, n \in S
      PROVE  n + 1 \in S
  <2>1. n + 1 \in 1 .. N /\ (n + 1) - 1 = n /\ n + 1 \in 0 .. N
    BY <1>3
  <2>2. /\ c[n + 1] = NextNumber(c[n], field, n + 1)
        /\ e[n + 1] = e[n] * field.radix + field.digits[n + 1]
    BY <1>1, <1>2, <2>1
  <2>3. CASE c[n] = Invalid \/ ~Fitting(c[n], field.radix)
    <3>1. c[n + 1] = Invalid
      BY <2>2, <2>3 DEF NextNumber
    <3> QED
      BY <2>1, <3>1
  <2>4. CASE ~(c[n] = Invalid \/ ~Fitting(c[n], field.radix))
    <3>1. c[n] = e[n] /\ c[n] \in Word /\ Fitting(c[n], field.radix)
      BY <1>1, <1>5, <2>1, <2>4
    <3>2. (c[n] * field.radix + field.digits[n + 1]) % (MaxWord + 1)
             = c[n] * field.radix + field.digits[n + 1]
      BY <2>1, <3>1, FieldFacts, NoWrap
    <3>3. c[n + 1] = e[n + 1]
      BY <2>2, <2>4, <3>1, <3>2 DEF NextNumber
    <3> QED
      BY <2>1, <3>3
  <2> QED
    BY <2>3, <2>4
<1>6. N \in S
  <2>1. 0 .. N \subseteq S
    <3> HIDE DEF N, S
    <3> QED
      BY <1>3, <1>4, <1>5, UptoInduction
  <2> QED
    BY <1>3, <2>1
<1> QED
  BY <1>1, <1>2, <1>3, <1>6

--------------------------------------------------------------------------------
(* Metadata *)

Header == [at : Nat, block : Block]

LEMMA MaxFacts ==
    ASSUME NEW N \in Nat, NEW S \in SUBSET (1 .. N), S # {}
    PROVE  Max(S) \in S
<1>1. \E m \in S : \A n \in S : m >= n
  BY GreatestExists
<1> QED
  BY <1>1 DEF Max

LEMMA MaxIsLast ==
    ASSUME NEW N \in Nat, NEW S, N \in S, S \subseteq 1 .. N
    PROVE  Max(S) = N
<1>1. \A n \in S : N >= n
  OBVIOUS
<1>2. \A m \in S : (\A n \in S : m >= n) => m = N
  OBVIOUS
<1> QED
  BY <1>1, <1>2 DEF Max

\* A header was appended to those that were read.
Appended(h) == headers \in Seq(Header) /\ h \in Header /\ headers' = Append(headers, h)

LEMMA AppendedFacts ==
    ASSUME NEW h, Appended(h)
    PROVE  /\ Len(headers) \in Nat /\ Len(headers') = Len(headers) + 1
           /\ headers' \in Seq(Header)
           /\ \A j \in 1 .. Len(headers) : headers'[j] = headers[j]
           /\ headers'[Len(headers) + 1] = h
           /\ EntryBlocks \in SUBSET (1 .. Len(headers))
           /\ EntryBlocks' = EntryBlocks \cup
                 (IF h.block.type \in Metadata THEN {} ELSE {Len(headers) + 1})
<1>1. /\ Len(headers) \in Nat /\ Len(headers') = Len(headers) + 1
      /\ headers' \in Seq(Header)
      /\ \A j \in 1 .. Len(headers) : headers'[j] = headers[j]
      /\ headers'[Len(headers) + 1] = h
      /\ DOMAIN headers = 1 .. Len(headers) /\ DOMAIN headers' = 1 .. Len(headers) + 1
  BY DEF Appended
<1>2. EntryBlocks \in SUBSET (1 .. Len(headers))
  BY <1>1 DEF EntryBlocks
<1>3. EntryBlocks' = {k \in 1 .. Len(headers) + 1 : headers'[k].block.type \notin Metadata}
  BY <1>1 DEF EntryBlocks
<1>4. EntryBlocks = {k \in 1 .. Len(headers) : headers[k].block.type \notin Metadata}
  BY <1>1 DEF EntryBlocks
<1>5. \A k \in 1 .. Len(headers) + 1 : k \in 1 .. Len(headers) \/ k = Len(headers) + 1
  BY <1>1
<1>6. 1 .. Len(headers) \subseteq 1 .. Len(headers) + 1 /\ Len(headers) + 1 \in 1 .. Len(headers) + 1
  BY <1>1
<1>7. EntryBlocks' = EntryBlocks \cup
         (IF h.block.type \in Metadata THEN {} ELSE {Len(headers) + 1})
  BY <1>1, <1>3, <1>4, <1>5, <1>6
<1> QED
  BY <1>1, <1>2, <1>7

\* What was given for a header before is given for it still.
LEMMA GivenStays ==
    ASSUME NEW h, Appended(h), NEW k \in 1 .. Len(headers) + 1
    PROVE  /\ (PathGivers(k))' = PathGivers(k) /\ (SizeGivers(k))' = SizeGivers(k)
           /\ PathGivers(k) \subseteq 1 .. k - 1 /\ SizeGivers(k) \subseteq 1 .. k - 1
           /\ (GivenPath(k))' = GivenPath(k) /\ (GivenSize(k))' = GivenSize(k)
<1> DEFINE N == Len(headers)
<1>1. N \in Nat /\ \A j \in 1 .. N : headers'[j] = headers[j]
  BY AppendedFacts
<1>2. \A j \in 1 .. k - 1 : j \in 1 .. N
  BY <1>1
<1>3. (Before(k))' = Before(k) /\ Before(k) \subseteq 1 .. k - 1
  <2>1. (Before(k))' = {j \in 1 .. k - 1 : j .. k - 1 \cap EntryBlocks' = {}}
    BY DEF Before
  <2>2. ASSUME NEW j \in 1 .. k - 1
        PROVE  j .. k - 1 \cap EntryBlocks' = j .. k - 1 \cap EntryBlocks
    <3>1. N + 1 \notin j .. k - 1
      BY <1>1
    <3> QED
      BY <3>1, AppendedFacts
  <2> QED
    BY <2>1, <2>2 DEF Before
<1>4. (PathGivers(k))' = PathGivers(k) /\ PathGivers(k) \subseteq 1 .. k - 1
  BY <1>1, <1>2, <1>3 DEF PathGivers
<1>5. (SizeGivers(k))' = SizeGivers(k) /\ SizeGivers(k) \subseteq 1 .. k - 1
  BY <1>1, <1>2, <1>3 DEF SizeGivers
<1>6. (GivenPath(k))' = GivenPath(k)
  <2>1. CASE PathGivers(k) = {}
    BY <1>4, <2>1 DEF GivenPath
  <2>2. CASE PathGivers(k) # {}
    <3>1. k - 1 \in Nat /\ PathGivers(k) \in SUBSET (1 .. k - 1)
      BY <1>1, <1>4
    <3>2. Max(PathGivers(k)) \in 1 .. k - 1
      BY <2>2, <3>1, MaxFacts
    <3> QED
      BY <1>1, <1>2, <1>4, <2>2, <3>2 DEF GivenPath
  <2> QED
    BY <2>1, <2>2
<1>7. (GivenSize(k))' = GivenSize(k)
  <2>1. CASE SizeGivers(k) = {}
    BY <1>5, <2>1 DEF GivenSize
  <2>2. CASE SizeGivers(k) # {}
    <3>1. k - 1 \in Nat /\ SizeGivers(k) \in SUBSET (1 .. k - 1)
      BY <1>1, <1>5
    <3>2. Max(SizeGivers(k)) \in 1 .. k - 1
      BY <2>2, <3>1, MaxFacts
    <3> QED
      BY <1>1, <1>2, <1>5, <2>2, <3>2 DEF GivenSize
  <2> QED
    BY <2>1, <2>2
<1> QED
  BY <1>4, <1>5, <1>6, <1>7

\* After an entry nothing is given.
LEMMA NothingGiven ==
    ASSUME NEW h, Appended(h), h.block.type \notin Metadata
    PROVE  /\ (GivenPath(Len(headers) + 1))' = Absent
           /\ (GivenSize(Len(headers) + 1))' = NoSize
<1> DEFINE m == Len(headers) + 1
<1>1. m \in Nat /\ m \in EntryBlocks' /\ Len(headers') + 1 = m + 1
  BY AppendedFacts
<1>2. (Before(Len(headers) + 1))' = {}
  <2>1. (Before(Len(headers) + 1))' = {j \in 1 .. m : j .. m \cap EntryBlocks' = {}}
    BY <1>1 DEF Before
  <2>2. \A j \in 1 .. m : m \in j .. m
    BY <1>1
  <2> QED
    BY <1>1, <2>1, <2>2
<1>3. (PathGivers(Len(headers) + 1))' = {} /\ (SizeGivers(Len(headers) + 1))' = {}
  BY <1>2 DEF PathGivers, SizeGivers
<1> QED
  BY <1>3 DEF GivenPath, GivenSize

\* Metadata gives what it holds, and leaves what was given otherwise.
LEMMA MoreGiven ==
    ASSUME NEW h, Appended(h), h.block.type \in Metadata
    PROVE  /\ (GivenPath(Len(headers) + 1))'
                 = IF GivesPath(h.block) THEN h.block.path ELSE GivenPath(Len(headers) + 1)
           /\ (GivenSize(Len(headers) + 1))'
                 = IF GivesSize(h.block) THEN h.block.given ELSE GivenSize(Len(headers) + 1)
<1> DEFINE m == Len(headers) + 1
<1>1. /\ m \in Nat /\ m - 1 \in Nat /\ Len(headers') + 1 = m + 1
      /\ EntryBlocks' = EntryBlocks /\ EntryBlocks \in SUBSET (1 .. m - 1)
      /\ \A j \in 1 .. m - 1 : headers'[j] = headers[j]
      /\ headers'[m] = h
  <2>1. Len(headers) \in Nat /\ Len(headers') = m /\ m - 1 = Len(headers)
    BY AppendedFacts
  <2>2. EntryBlocks' = EntryBlocks /\ EntryBlocks \in SUBSET (1 .. Len(headers))
    BY AppendedFacts
  <2>3. /\ \A j \in 1 .. Len(headers) : headers'[j] = headers[j]
        /\ headers'[m] = h
    BY AppendedFacts
  <2> QED
    BY <2>1, <2>2, <2>3
<1>2. (Before(Len(headers) + 1))' = Before(m) \cup {m}
  <2>1. (Before(Len(headers) + 1))' = {j \in 1 .. m : j .. m \cap EntryBlocks = {}}
    BY <1>1 DEF Before
  <2>2. Before(m) = {j \in 1 .. m - 1 : j .. m - 1 \cap EntryBlocks = {}}
    BY DEF Before
  <2>3. \A j \in 1 .. m : j .. m \cap EntryBlocks = j .. m - 1 \cap EntryBlocks
    BY <1>1
  <2>4. m .. m - 1 \cap EntryBlocks = {}
    BY <1>1
  <2>5. \A j : j \in 1 .. m <=> j \in 1 .. m - 1 \/ j = m
    BY <1>1
  <2> HIDE DEF m
  <2> QED
    BY <2>1, <2>2, <2>3, <2>4, <2>5
<1>3. Before(m) \subseteq 1 .. m - 1 /\ m \notin 1 .. m - 1
  BY <1>1 DEF Before
<1>4. (PathGivers(Len(headers) + 1))' = PathGivers(m) \cup (IF GivesPath(h.block) THEN {m} ELSE {})
  <2>1. (PathGivers(Len(headers) + 1))' = {j \in Before(m) \cup {m} : GivesPath(headers'[j].block)}
    BY <1>2 DEF PathGivers
  <2>2. PathGivers(m) = {j \in Before(m) : GivesPath(headers[j].block)}
    BY DEF PathGivers
  <2> HIDE DEF m
  <2> QED
    BY <1>1, <1>3, <2>1, <2>2
<1>5. (SizeGivers(Len(headers) + 1))' = SizeGivers(m) \cup (IF GivesSize(h.block) THEN {m} ELSE {})
  <2>1. (SizeGivers(Len(headers) + 1))' = {j \in Before(m) \cup {m} : GivesSize(headers'[j].block)}
    BY <1>2 DEF SizeGivers
  <2>2. SizeGivers(m) = {j \in Before(m) : GivesSize(headers[j].block)}
    BY DEF SizeGivers
  <2> HIDE DEF m
  <2> QED
    BY <1>1, <1>3, <2>1, <2>2
<1>6. PathGivers(m) \in SUBSET (1 .. m - 1) /\ SizeGivers(m) \in SUBSET (1 .. m - 1)
  BY <1>3 DEF PathGivers, SizeGivers
<1>7. ASSUME NEW G \in SUBSET (1 .. m - 1)
      PROVE  /\ Max(G \cup {m}) = m
             /\ G # {} => Max(G) \in 1 .. m - 1
  <2>1. m \in G \cup {m} /\ G \cup {m} \subseteq 1 .. m
    <3>1. m \in 1 .. m /\ 1 .. m - 1 \subseteq 1 .. m
      <4> HIDE DEF m
      <4> QED
        BY <1>1
    <3> QED
      BY <3>1
  <2>2. Max(G \cup {m}) = m
    BY <1>1, <2>1, MaxIsLast
  <2> QED
    BY <1>1, <2>2, MaxFacts
<1>8. (GivenPath(Len(headers) + 1))'
         = IF GivesPath(h.block) THEN h.block.path ELSE GivenPath(m)
  <2>1. (GivenPath(Len(headers) + 1))'
           = IF (PathGivers(Len(headers) + 1))' = {} THEN Absent
             ELSE headers'[Max((PathGivers(Len(headers) + 1))')].block.path
    BY DEF GivenPath
  <2>2. CASE GivesPath(h.block)
    BY <1>1, <1>4, <1>6, <1>7, <2>1, <2>2
  <2>3. CASE ~GivesPath(h.block)
    <3>1. (PathGivers(Len(headers) + 1))' = PathGivers(m)
      BY <1>4, <2>3
    <3>2. PathGivers(m) # {} => headers'[Max(PathGivers(m))] = headers[Max(PathGivers(m))]
      BY <1>1, <1>6, <1>7
    <3> QED
      BY <2>1, <2>3, <3>1, <3>2 DEF GivenPath
  <2> QED
    BY <2>2, <2>3
<1>9. (GivenSize(Len(headers) + 1))'
         = IF GivesSize(h.block) THEN h.block.given ELSE GivenSize(m)
  <2>1. (GivenSize(Len(headers) + 1))'
           = IF (SizeGivers(Len(headers) + 1))' = {} THEN NoSize
             ELSE headers'[Max((SizeGivers(Len(headers) + 1))')].block.given
    BY DEF GivenSize
  <2>2. CASE GivesSize(h.block)
    BY <1>1, <1>5, <1>6, <1>7, <2>1, <2>2
  <2>3. CASE ~GivesSize(h.block)
    <3>1. (SizeGivers(Len(headers) + 1))' = SizeGivers(m)
      BY <1>5, <2>3
    <3>2. SizeGivers(m) # {} => headers'[Max(SizeGivers(m))] = headers[Max(SizeGivers(m))]
      BY <1>1, <1>6, <1>7
    <3> QED
      BY <2>1, <2>3, <3>1, <3>2 DEF GivenSize
  <2> QED
    BY <2>2, <2>3
<1> QED
  BY <1>8, <1>9

--------------------------------------------------------------------------------
(* Entries *)

LEMMA HeaderFacts ==
    ASSUME headers \in Seq(Header), NEW k \in 1 .. Len(headers)
    PROVE  /\ headers[k].at \in Nat /\ headers[k].block \in Block
           /\ headers[k].block.size \in Field
           /\ headers[k].block.given \in Word \cup {NoSize}
<1>1. headers[k] \in Header
  OBVIOUS
<1> QED
  BY <1>1 DEF Header, Block

LEMMA DataSizeFacts ==
    ASSUME headers \in Seq(Header), NEW k \in 1 .. Len(headers)
    PROVE  DataSize(k) \in Nat
<1>1. Exact(headers[k].block.size) \in Nat
  BY HeaderFacts, NumberIsExact
<1>2. GivenSize(k) \in Word \cup {NoSize}
  <2>1. CASE SizeGivers(k) = {}
    BY <2>1 DEF GivenSize
  <2>2. CASE SizeGivers(k) # {}
    <3>1. SizeGivers(k) \in SUBSET (1 .. k - 1) /\ k - 1 \in Nat
      BY DEF SizeGivers, Before
    <3>2. Max(SizeGivers(k)) \in 1 .. k - 1
      BY <2>2, <3>1, MaxFacts
    <3>3. Max(SizeGivers(k)) \in 1 .. Len(headers)
      BY <3>2
    <3> QED
      BY <2>2, <3>3, HeaderFacts DEF GivenSize
  <2> QED
    BY <2>1, <2>2
<1> QED
  BY <1>1, <1>2, WordAssumption DEF DataSize, Word

LEMMA WrittenStays ==
    ASSUME NEW h, Appended(h), NEW k \in 1 .. Len(headers)
    PROVE  (Written(k))' = Written(k) /\ (DataSize(k))' = DataSize(k)
<1>1. headers'[k] = headers[k] /\ k \in 1 .. Len(headers) + 1
  BY AppendedFacts
<1>2. (GivenPath(k))' = GivenPath(k) /\ (GivenSize(k))' = GivenSize(k)
  BY <1>1, GivenStays
<1>3. (DataSize(k))' = DataSize(k)
  BY <1>1, <1>2 DEF DataSize
<1> QED
  BY <1>1, <1>2, <1>3 DEF Written

\* How many entries there are up to a header.
Count(k) == Cardinality(EntryBlocks \cap 1 .. k)

LEMMA CountFacts ==
    ASSUME headers \in Seq(Header), NEW k \in EntryBlocks
    PROVE  /\ IsFiniteSet(EntryBlocks)
           /\ Count(k) \in 1 .. Cardinality(EntryBlocks) /\ Cardinality(EntryBlocks) \in Nat
<1>1. EntryBlocks \subseteq 1 .. Len(headers) /\ Len(headers) \in Nat
  BY DEF EntryBlocks
<1>2. IsFiniteSet(EntryBlocks) /\ Cardinality(EntryBlocks) \in Nat
  <2>1. IsFiniteSet(1 .. Len(headers))
    BY <1>1, FS_Interval
  <2> QED
    BY <1>1, <2>1, FS_Subset, FS_CardinalityType
<1>3. /\ IsFiniteSet(EntryBlocks \cap 1 .. k)
      /\ Count(k) <= Cardinality(EntryBlocks) /\ Count(k) \in Nat
  BY <1>2, FS_Subset, FS_CardinalityType DEF Count
<1>4. k \in EntryBlocks \cap 1 .. k
  BY <1>1
<1>5. Count(k) # 0
  BY <1>3, <1>4, FS_EmptySet DEF Count
<1> QED
  BY <1>2, <1>3, <1>5

\* More room at the end.
LEMMA EntriesWithin ==
    ASSUME headers \in Seq(Header), NEW p \in Nat, NEW q \in Nat, p <= q, EntriesUpTo(p)
    PROVE  EntriesUpTo(q)
<1>1. ASSUME NEW k \in EntryBlocks
      PROVE  headers[k].at + BlockSize + DataSize(k)
                <= (IF k = Len(headers) THEN q ELSE headers[k + 1].at)
  <2>1. k \in 1 .. Len(headers)
    BY DEF EntryBlocks
  <2>2. headers[k].at + BlockSize + DataSize(k) \in Nat
    BY <2>1, HeaderFacts, DataSizeFacts, BlockAssumption
  <2>3. headers[k].at + BlockSize + DataSize(k)
           <= (IF k = Len(headers) THEN p ELSE headers[k + 1].at)
    BY DEF EntriesUpTo
  <2> QED
    BY <2>2, <2>3
<1> QED
  BY <1>1 DEF EntriesUpTo

\* A header of metadata comes after all entries so far.
LEMMA EntriesStay ==
    ASSUME NEW h, Appended(h), h.block.type \in Metadata, entries' = entries,
           EntriesUpTo(h.at), NEW end
    PROVE  EntriesUpTo(end)'
<1>1. EntryBlocks' = EntryBlocks /\ Len(headers) \in Nat /\ Len(headers') = Len(headers) + 1
  BY AppendedFacts
<1>2. ASSUME NEW k \in EntryBlocks
      PROVE  /\ entries[Count(k)] = (Written(k))'
             /\ headers'[k].at + BlockSize + (DataSize(k))'
                   <= (IF k = Len(headers) + 1 THEN end ELSE headers'[k + 1].at)
  <2>1. k \in 1 .. Len(headers) /\ k # Len(headers) + 1
    BY <1>1, AppendedFacts
  <2>2. /\ headers'[k] = headers[k]
        /\ headers'[k + 1] = IF k = Len(headers) THEN h ELSE headers[k + 1]
    <3>1. CASE k = Len(headers)
      BY <2>1, <3>1, AppendedFacts
    <3>2. CASE k # Len(headers)
      <4>1. k + 1 \in 1 .. Len(headers)
        BY <1>1, <2>1, <3>2
      <4> QED
        BY <2>1, <3>2, <4>1, AppendedFacts
    <3> QED
      BY <3>1, <3>2
  <2>3. (Written(k))' = Written(k) /\ (DataSize(k))' = DataSize(k)
    BY <2>1, WrittenStays
  <2>4. /\ entries[Count(k)] = Written(k)
        /\ headers[k].at + BlockSize + DataSize(k)
              <= (IF k = Len(headers) THEN h.at ELSE headers[k + 1].at)
    BY DEF EntriesUpTo, Count
  <2> QED
    BY <2>1, <2>2, <2>3, <2>4
<1>3. Len(entries) = Cardinality(EntryBlocks)
  BY DEF EntriesUpTo
<1> QED
  BY <1>1, <1>2, <1>3 DEF EntriesUpTo, Count

\* The header of an entry comes after all entries so far, and is the next one.
LEMMA EntriesGrow ==
    ASSUME NEW h, Appended(h), h.block.type \notin Metadata, entries \in Seq(ListedEntry),
           entries' = Append(entries, (Written(Len(headers)))'), EntriesUpTo(h.at),
           NEW end, h.at + BlockSize + (DataSize(Len(headers)))' <= end
    PROVE  EntriesUpTo(end)'
<1> DEFINE m == Len(headers) + 1
<1>1. /\ EntryBlocks' = EntryBlocks \cup {m} /\ Len(headers) \in Nat /\ Len(headers') = m
      /\ EntryBlocks \in SUBSET (1 .. Len(headers)) /\ m \notin EntryBlocks
      /\ headers'[m] = h /\ headers \in Seq(Header)
  BY AppendedFacts DEF Appended
<1>2. Len(entries) = Cardinality(EntryBlocks) /\ Len(entries) \in Nat
  BY DEF EntriesUpTo
<1>3. IsFiniteSet(EntryBlocks)
  <2>1. IsFiniteSet(1 .. Len(headers))
    BY <1>1, FS_Interval
  <2> QED
    BY <1>1, <2>1, FS_Subset
<1>4. Cardinality(EntryBlocks') = Len(entries) + 1
  BY <1>1, <1>2, <1>3, FS_AddElement
<1>5. Len(entries') = Len(entries) + 1 /\ entries'[Len(entries) + 1] = (Written(Len(headers)))'
  BY <1>2
<1>6. ASSUME NEW k \in EntryBlocks
      PROVE  /\ EntryBlocks' \cap 1 .. k = EntryBlocks \cap 1 .. k
             /\ entries'[Count(k)] = (Written(k))'
             /\ headers'[k].at + BlockSize + (DataSize(k))' <= headers'[k + 1].at
             /\ k # m
  <2>1. k \in 1 .. Len(headers) /\ k # m /\ m \notin 1 .. k
    BY <1>1
  <2>2. /\ headers'[k] = headers[k]
        /\ headers'[k + 1] = IF k = Len(headers) THEN h ELSE headers[k + 1]
    <3>1. CASE k = Len(headers)
      BY <2>1, <3>1, AppendedFacts
    <3>2. CASE k # Len(headers)
      <4>1. k + 1 \in 1 .. Len(headers)
        BY <1>1, <2>1, <3>2
      <4> QED
        BY <2>1, <3>2, <4>1, AppendedFacts
    <3> QED
      BY <3>1, <3>2
  <2>3. (Written(k))' = Written(k) /\ (DataSize(k))' = DataSize(k)
    BY <2>1, WrittenStays
  <2>4. /\ entries[Count(k)] = Written(k)
        /\ headers[k].at + BlockSize + DataSize(k)
              <= (IF k = Len(headers) THEN h.at ELSE headers[k + 1].at)
    BY DEF EntriesUpTo, Count
  <2>5. Count(k) \in 1 .. Len(entries)
    BY <1>1, <1>2, CountFacts
  <2>6. entries'[Count(k)] = entries[Count(k)]
    BY <2>5
  <2> QED
    BY <1>1, <2>1, <2>2, <2>3, <2>4, <2>6
<1>7. EntryBlocks' \cap 1 .. m = EntryBlocks'
  <2>1. 1 .. Len(headers) \subseteq 1 .. m /\ m \in 1 .. m
    BY <1>1
  <2> QED
    BY <1>1, <2>1
<1>8. ASSUME NEW k \in EntryBlocks'
      PROVE  /\ entries'[Cardinality(EntryBlocks' \cap 1 .. k)] = (Written(k))'
             /\ headers'[k].at + BlockSize + (DataSize(k))'
                   <= (IF k = m THEN end ELSE headers'[k + 1].at)
  <2>1. CASE k \in EntryBlocks
    BY <1>6, <2>1 DEF Count
  <2>2. CASE k = m
    <3>1. (Written(k))' = (Written(Len(headers)))' /\ (DataSize(k))' = (DataSize(Len(headers)))'
      BY <1>1, <2>2 DEF Written, DataSize
    <3> QED
      BY <1>1, <1>4, <1>5, <1>7, <2>2, <3>1
  <2> QED
    BY <1>1, <2>1, <2>2
<1> QED
  BY <1>1, <1>4, <1>5, <1>8 DEF EntriesUpTo

--------------------------------------------------------------------------------
(* TAR archives as they were written *)

\* What waits in the variables of list_tar is what the metadata since the last
\* entry gives.
Waiting == /\ tar.path = GivenPath(Len(headers) + 1)
           /\ tar.size = GivenSize(Len(headers) + 1)

TarInv ==
    /\ headers \in Seq(Header)
    /\ pc = "open" => headers = <<>>
    /\ pc = "list" /\ Lister = "tar" /\ Running => Waiting /\ EntriesUpTo(tar.at)
    /\ (pc = "list" /\ outcome = "none") \/ result = "ok" =>
          (format = "tar" /\ backend = "core" => EntriesUpTo(file.size))

\* Before the first header.
LEMMA NothingRead ==
    ASSUME headers' = <<>>, entries' = <<>>, tar' = TarAtStart
    PROVE  headers' \in Seq(Header) /\ Waiting' /\ EntriesUpTo(tar.at)'
<1>1. /\ Len(headers') = 0 /\ headers' \in Seq(Header) /\ DOMAIN headers' = {}
      /\ Len(entries') = 0
  OBVIOUS
<1>2. EntryBlocks' = {} /\ Cardinality(EntryBlocks') = 0
  BY <1>1, FS_EmptySet DEF EntryBlocks
<1>3. (Before(Len(headers) + 1))' = {}
  BY <1>1 DEF Before
<1>4. /\ (GivenPath(Len(headers) + 1))' = Absent
      /\ (GivenSize(Len(headers) + 1))' = NoSize
  BY <1>3 DEF PathGivers, SizeGivers, GivenPath, GivenSize
<1> QED
  BY <1>1, <1>2, <1>4 DEF Waiting, EntriesUpTo, TarAtStart

\* The same headers give the same.
LEMMA SameHeaders ==
    ASSUME UNCHANGED headers
    PROVE  /\ EntryBlocks' = EntryBlocks
           /\ \A k : (Written(k))' = Written(k) /\ (DataSize(k))' = DataSize(k)
           /\ (GivenPath(Len(headers) + 1))' = GivenPath(Len(headers) + 1)
           /\ (GivenSize(Len(headers) + 1))' = GivenSize(Len(headers) + 1)
<1>1. EntryBlocks' = EntryBlocks
  BY DEF EntryBlocks
<1>2. ASSUME NEW k
      PROVE  (Written(k))' = Written(k) /\ (DataSize(k))' = DataSize(k)
  BY <1>1 DEF Written, DataSize, GivenPath, GivenSize, PathGivers, SizeGivers, Before
<1>3. /\ (GivenPath(Len(headers) + 1))' = GivenPath(Len(headers) + 1)
      /\ (GivenSize(Len(headers) + 1))' = GivenSize(Len(headers) + 1)
  BY <1>1 DEF GivenPath, GivenSize, PathGivers, SizeGivers, Before
<1> QED
  BY <1>1, <1>2, <1>3

LEMMA SameEntries ==
    ASSUME UNCHANGED <<headers, entries>>
    PROVE  /\ UNCHANGED file => (EntriesUpTo(file.size) => EntriesUpTo(file.size)')
           /\ UNCHANGED tar => /\ Waiting => Waiting'
                               /\ EntriesUpTo(tar.at) => EntriesUpTo(tar.at)'
<1>1. UNCHANGED headers
  OBVIOUS
<1>2. UNCHANGED tar => (Waiting => Waiting')
  BY <1>1, SameHeaders DEF Waiting
<1>3. UNCHANGED file => (EntriesUpTo(file.size) => EntriesUpTo(file.size)')
  BY SameHeaders DEF EntriesUpTo
<1>4. UNCHANGED tar => (EntriesUpTo(tar.at) => EntriesUpTo(tar.at)')
  BY SameHeaders DEF EntriesUpTo
<1> QED
  BY <1>2, <1>3, <1>4

\* What list_tar does at a header, when it knows its place.
TarRead ==
    /\ headers' \in Seq(Header)
    /\ outcome' = "running" => Waiting' /\ EntriesUpTo(tar.at)'
    /\ outcome' = "none" => EntriesUpTo(file.size)'

TarReady ==
    /\ TarPlace /\ outcome = "running"
    /\ headers \in Seq(Header) /\ Waiting /\ EntriesUpTo(tar.at)

LEMMA NothingMore ==
    ASSUME TarReady, UNCHANGED <<file, entries, headers>>, NEW place, tar'.at = place, place \in Nat,
           tar.at <= place, tar'.path = tar.path, tar'.size = tar.size
    PROVE  TarRead
<1>1. tar.at \in Nat /\ tar.at <= file.size /\ file.size \in Nat
  BY TarFacts DEF TarReady
<1>2. EntriesUpTo(place) /\ EntriesUpTo(file.size)
  BY <1>1, EntriesWithin DEF TarReady
<1>3. EntriesUpTo(tar.at)' /\ EntriesUpTo(file.size)'
  BY <1>2, SameHeaders DEF EntriesUpTo
<1>4. Waiting'
  BY SameHeaders DEF TarReady, Waiting
<1> QED
  BY <1>3, <1>4 DEF TarRead, TarReady

LEMMA ZerosRead ==
    ASSUME TarReady, ZeroBlock
    PROVE  TarRead
<1>1. /\ tar' = [tar EXCEPT !.zeros = tar.zeros + 1, !.end = TRUE, !.at = tar.at + BlockSize]
      /\ UNCHANGED <<file, entries, headers>>
  BY DEF ZeroBlock
<1>2. /\ tar.at \in Nat /\ BlockSize \in Nat
      /\ DOMAIN tar = {"at", "zeros", "path", "size", "end"}
  BY TarFacts DEF TarReady
<1>3. tar'.at = tar.at + BlockSize /\ tar'.path = tar.path /\ tar'.size = tar.size
  BY <1>1, <1>2
<1>4. tar.at + BlockSize \in Nat /\ tar.at <= tar.at + BlockSize
  BY <1>2
<1> QED
  BY <1>1, <1>3, <1>4, NothingMore

LEMMA EndRead ==
    ASSUME TarReady, LastBlock \/ \E b : BadHeader(b)
    PROVE  TarRead
<1>1. UNCHANGED <<file, entries, tar, headers>>
  BY DEF LastBlock, BadHeader
<1>2. tar.at \in Nat
  BY TarFacts DEF TarReady
<1> QED
  BY <1>1, <1>2, NothingMore

LEMMA MetadataRead ==
    ASSUME TarReady, NEW b \in Block, MetadataHeader(b)
    PROVE  TarRead
<1> DEFINE size == ParseTarNumber(b.size)
           h == [at |-> tar.at, block |-> b]
<1>1. b.type \in Metadata /\ UNCHANGED <<file, entries>> /\ outcome = "running"
  BY DEF MetadataHeader, Running
<1>2. CASE size > MaxMetadata
  <2>1. outcome' = "corrupt" /\ headers' = headers
    BY <1>2 DEF MetadataHeader
  <2> QED
    BY <2>1 DEF TarRead, TarReady
<1>3. CASE ~(size > MaxMetadata)
  <2> HIDE DEF size
  <2>1. /\ tar' = [Overridden(b) EXCEPT !.zeros = 0,
                                        !.at = Overridden(b).at + BlockSize + Padded(size)]
        /\ headers' = Append(headers, h) /\ outcome' = "running"
    BY <1>1, <1>3 DEF MetadataHeader, size
  <2>2. Appended(h) /\ h.at = tar.at /\ h.block = b
    BY <2>1, TarFacts DEF Appended, Header, TarReady
  <2>3. headers' \in Seq(Header)
    BY <2>2, AppendedFacts
  <2>4. EntriesUpTo(tar.at)'
    BY <1>1, <2>2, EntriesStay DEF TarReady
  <2>5. tar \in Tar
    BY DEF TarReady, TarPlace, TypeOK
  <2>6. /\ tar'.path = IF GivesPath(b) THEN b.path ELSE tar.path
        /\ tar'.size = IF GivesSize(b) THEN b.given ELSE tar.size
    <3>1. CASE b.type = "longName"
      BY <2>1, <2>5, <3>1 DEF Overridden, Tar, GivesPath, GivesSize
    <3>2. CASE b.type = "pax"
      BY <2>1, <2>5, <3>2 DEF Overridden, Tar, GivesPath, GivesSize
    <3>3. CASE b.type = "global"
      BY <2>1, <2>5, <3>3 DEF Overridden, Tar, GivesPath, GivesSize
    <3> QED
      BY <1>1, <3>1, <3>2, <3>3 DEF Metadata
  <2>7. Waiting'
    BY <1>1, <2>2, <2>6, MoreGiven DEF Waiting, TarReady
  <2> QED
    BY <2>1, <2>3, <2>4, <2>7 DEF TarRead
<1> QED
  BY <1>2, <1>3

LEMMA EntryRead ==
    ASSUME TarReady, NEW b \in Block, EntryHeader(b)
    PROVE  TarRead
<1> DEFINE size == IF tar.size = NoSize THEN ParseTarNumber(b.size) ELSE tar.size
           listed == IF b.type = "directory" THEN 0 ELSE size
           entry == [path |-> IF tar.path = Absent THEN b.name ELSE tar.path,
                     kind |-> b.type, size |-> listed, packed |-> listed,
                     at |-> tar.at + BlockSize]
           h == [at |-> tar.at, block |-> b]
<1>1. b.type \notin Metadata /\ UNCHANGED file /\ headers' = Append(headers, h)
  BY DEF EntryHeader
<1>2. Appended(h) /\ h.at = tar.at /\ h.block = b
  BY <1>1, TarFacts DEF Appended, Header, TarReady
<1>3. headers' \in Seq(Header)
  BY <1>2, AppendedFacts
<1>4. CASE Len(entries) >= limits.count
  <2>1. outcome' = "resourceLimit"
    BY <1>4 DEF EntryHeader
  <2> QED
    BY <1>3, <2>1 DEF TarRead
<1>5. CASE ~(Len(entries) >= limits.count)
  <2>1. /\ entries' = Append(entries, entry)
        /\ outcome' = IF Fits(size, tar.at) THEN "running" ELSE "corrupt"
        /\ tar' = [UsedUp(tar) EXCEPT !.zeros = 0,
                          !.at = IF Fits(size, tar.at)
                                 THEN tar.at + BlockSize + Padded(size) ELSE tar.at]
    <3>1. UsedUp(tar).at = tar.at
      BY DEF UsedUp
    <3> QED
      BY <1>5, <3>1 DEF EntryHeader
  <2>2. tar.size = NoSize => ParseTarNumber(b.size) = Exact(b.size)
    BY NumberIsExact DEF EntryHeader, Readable, Block
  <2>3. /\ Len(headers') = Len(headers) + 1 /\ Len(headers) + 1 \in 1 .. Len(headers) + 1
        /\ headers'[Len(headers) + 1] = h
    BY <1>2, AppendedFacts
  <2>4. /\ (GivenPath(Len(headers)))' = tar.path
        /\ (GivenSize(Len(headers)))' = tar.size
    <3>1. /\ (GivenPath(Len(headers)))' = GivenPath(Len(headers) + 1)
          /\ (GivenSize(Len(headers)))' = GivenSize(Len(headers) + 1)
      <4> DEFINE k == Len(headers) + 1
      <4> QED
        BY <1>2, <2>3, GivenStays
    <3> QED
      BY <3>1 DEF TarReady, Waiting
  <2>5. (DataSize(Len(headers)))' = size
    BY <2>2, <2>3, <2>4 DEF DataSize
  <2>6. (Written(Len(headers)))' = entry
    BY <2>3, <2>4, <2>5 DEF Written
  <2>7. CASE Fits(size, tar.at)
    <3> HIDE DEF size
    <3>1. outcome' = "running" /\ tar \in Tar
      BY <2>1, <2>7 DEF TarReady, TarPlace, TypeOK
    <3>2. /\ tar'.at = tar.at + BlockSize + Padded(size)
          /\ tar'.path = Absent /\ tar'.size = NoSize
      BY <2>1, <2>7, <3>1 DEF UsedUp, Tar
    <3>3. h.at + BlockSize + size <= tar'.at
      <4>1. size \in Word /\ size \in Nat
        <5>1. ParseTarNumber(b.size) \in Word
          BY NumberFacts DEF EntryHeader, Readable, Block
        <5> QED
          BY <5>1, WordAssumption, TarFacts DEF size, TarReady, Word
      <4>2. Padded(size) \in Nat /\ Padded(size) >= size
        BY <2>7, <4>1, PaddedFacts DEF Fits
      <4> QED
        BY <1>2, <3>2, <4>1, <4>2, TarFacts DEF TarReady
    <3>4. EntriesUpTo(tar.at)'
      <4>1. entries \in Seq(ListedEntry) /\ EntriesUpTo(h.at)
        BY <1>2 DEF TarReady, TarPlace, TypeOK
      <4> HIDE DEF h, entry
      <4> QED
        BY <1>1, <1>2, <2>1, <2>5, <2>6, <3>3, <4>1, EntriesGrow
    <3>5. Waiting'
      BY <1>1, <1>2, <3>2, NothingGiven DEF Waiting
    <3> QED
      BY <1>3, <3>1, <3>4, <3>5 DEF TarRead
  <2>8. CASE ~Fits(size, tar.at)
    <3>1. outcome' = "corrupt"
      BY <2>1, <2>8
    <3> QED
      BY <1>3, <3>1 DEF TarRead
  <2> QED
    BY <2>7, <2>8
<1> QED
  BY <1>4, <1>5

LEMMA TarInvStart == Init => TarInv
<1> SUFFICES ASSUME Init
             PROVE  TarInv
  OBVIOUS
<1>1. headers = <<>> /\ headers \in Seq(Header) /\ pc = "open" /\ result = "none"
  BY DEF Init, OpenInit
<1> QED
  BY <1>1 DEF TarInv

\* TarInv speaks of nothing else.
tarVars == <<headers, entries, tar, outcome, pc, plan, format, backend, result, file>>

LEMMA TarInvStays ==
    ASSUME TarInv, UNCHANGED tarVars
    PROVE  TarInv'
<1>1. UNCHANGED <<headers, entries>> /\ UNCHANGED tar /\ UNCHANGED file
  BY DEF tarVars
<1>2. UNCHANGED <<outcome, pc, plan, format, backend, result>>
  BY DEF tarVars
<1> QED
  BY <1>1, <1>2, SameEntries DEF TarInv, Running, Lister

LEMMA OpeningTarInv ==
    ASSUME IInv, TarInv, Open
    PROVE  TarInv'
<1>1. pc = "open" /\ UNCHANGED <<headers, entries, tar, outcome, format, backend, file>>
  BY DEF Open, arguments, listing
<1>2. headers = <<>> /\ entries = <<>> /\ tar = TarAtStart /\ outcome = "running"
  BY <1>1 DEF TarInv, IInv, OpenInv, Running
<1>3. pc' # "open" /\ result' # "ok"
  BY <1>1 DEF Open, Done, IInv, OpenInv
<1>4. headers' \in Seq(Header) /\ Waiting' /\ EntriesUpTo(tar.at)'
  BY <1>1, <1>2, NothingRead
<1> QED
  BY <1>1, <1>2, <1>3, <1>4 DEF TarInv

LEMMA ListTarTarInv ==
    ASSUME IInv, TarInv, ListTar
    PROVE  TarInv'
<1>1. /\ pc = "list" /\ Lister = "tar" /\ Running
      /\ UNCHANGED <<pc, plan, backend, result>>
  BY DEF ListTar, Working
<1>2. TarPlace /\ result = "none"
  BY <1>1 DEF IInv, OpenInv, ListOK, TarPlace
<1>3. TarReady
  BY <1>1, <1>2 DEF TarReady, TarInv, Running
<1>4. TarRead
  <2>1. CASE ZeroBlock
    BY <1>3, <2>1, ZerosRead
  <2>2. CASE LastBlock
    BY <1>3, <2>2, EndRead
  <2>3. ASSUME NEW b \in Headers, BadHeader(b) \/ MetadataHeader(b) \/ EntryHeader(b)
        PROVE  TarRead
    <3>1. CASE BadHeader(b)
      BY <1>3, <3>1, EndRead
    <3>2. CASE MetadataHeader(b) \/ EntryHeader(b)
      <4>1. b \in Block
        <5>1. PICK a \in Blocks : b = a \/ b = [a EXCEPT !.sum = FALSE]
          BY <2>3 DEF Headers
        <5>2. a \in Block
          BY <5>1, BlocksAssumption
        <5> QED
          BY <5>1, <5>2 DEF Block
      <4> QED
        BY <1>3, <3>2, <4>1, MetadataRead, EntryRead
    <3> QED
      BY <2>3, <3>1, <3>2
  <2> QED
    BY <2>1, <2>2, <2>3 DEF ListTar
<1> QED
  BY <1>1, <1>2, <1>4 DEF TarInv, TarRead, Running

LEMMA TarInvStep == IInv /\ TarInv /\ [Next]_vars => TarInv'
<1> SUFFICES ASSUME IInv, TarInv, [Next]_vars
             PROVE  TarInv'
  OBVIOUS
<1>1. CASE OpenSevenZip
  <2>1. /\ pc = "open" /\ pc' = "done" /\ headers' = headers
        /\ result' = "ok" => backend' = "sevenZip"
    <3> DEFINE outcomes == SevenZipOutcomes(Resolve(file.urls, file.siblings))
    <3>1. "ok" \notin outcomes
      BY OutcomesFacts DEF Errors
    <3> HIDE DEF outcomes
    <3> QED
      BY <1>1, <3>1 DEF OpenSevenZip, Done, outcomes
  <2> QED
    BY <2>1 DEF TarInv
<1>2. CASE Open
  BY <1>2, OpeningTarInv
<1>3. CASE List
  <2>1. /\ pc = "list" /\ Lister # "tar" /\ Running
        /\ UNCHANGED <<headers, tar, pc, plan, result>>
    BY <1>3 DEF List, Working
  <2>2. PlanOK /\ TypeOK /\ result = "none"
    BY <2>1 DEF IInv, OpenInv
  <2>3. Obstacle \in {"none", "unsupported", "corrupt", "password"}
    BY <2>1, <2>2, ContentsFacts
  <2>4. outcome' = "none" => format' # "tar" \/ backend' # "core"
    BY <1>3, <2>1 DEF List, ListedAs
  <2> QED
    BY <2>1, <2>2, <2>4 DEF TarInv, Lister
<1>4. CASE ListTar
  BY <1>4, ListTarTarInv
<1>5. CASE Unreadable
  <2>1. pc = "list" /\ outcome' = "io" /\ UNCHANGED <<headers, pc, result>>
    BY <1>5 DEF Unreadable, Working
  <2> QED
    BY <2>1 DEF TarInv, Running, IInv, OpenInv
<1>6. CASE Accept
  <2>1. /\ pc = "list" /\ outcome = "none" /\ pc' = "done"
        /\ UNCHANGED <<headers, entries, format, backend, file>>
    BY <1>6 DEF Accept, Done, arguments, listing
  <2>2. format = "tar" /\ backend = "core" => EntriesUpTo(file.size)
    BY <2>1 DEF TarInv
  <2>3. EntriesUpTo(file.size) => EntriesUpTo(file.size)'
    BY <2>1, SameEntries
  <2> QED
    BY <2>1, <2>2, <2>3 DEF TarInv
<1>7. CASE GiveUp
  <2>1. /\ pc = "list" /\ outcome # "none" /\ outcome # "running" /\ pc' = "done"
        /\ result' = outcome /\ headers' = headers
    BY <1>7 DEF GiveUp, Done, listing, Running
  <2>2. result' # "ok"
    BY <2>1 DEF IInv, TypeOK, Errors
  <2> QED
    BY <2>1, <2>2 DEF TarInv
<1>8. CASE TryNext
  <2>1. /\ headers' = <<>> /\ entries' = <<>> /\ tar' = TarAtStart /\ outcome' = "running"
        /\ pc = "list" /\ pc' = "list" /\ result' = result
    BY <1>8 DEF TryNext, Cleared
  <2>2. headers' \in Seq(Header) /\ Waiting' /\ EntriesUpTo(tar.at)'
    BY <2>1, NothingRead
  <2> QED
    BY <2>1, <2>2 DEF TarInv, IInv, OpenInv
<1>9. CASE UNCHANGED openVars
  BY <1>9, TarInvStays DEF openVars, tarVars, arguments, listing
<1>10. OpenStep \/ UNCHANGED openVars
  BY DEF Next, vars, StartReading, Chunk, EndOfEntry, SkipEntry, ReadingFails
<1> QED
  BY <1>1, <1>2, <1>3, <1>4, <1>5, <1>6, <1>7, <1>8, <1>9, <1>10 DEF OpenStep

\* list_tar: the entries of a TAR archive that was opened are the headers as
\* they were written, each with the metadata that was meant for it, and their
\* data lies where it is read, for any number of headers and any width of words.
THEOREM EntriesAsWritten == Spec => []TarAsWritten
<1>1. Init => IInv /\ TarInv
  BY InitIInv, TarInvStart
<1>2. IInv /\ TarInv /\ [Next]_vars => (IInv /\ TarInv)'
  BY StepIInv, TarInvStep
<1>3. TarInv => TarAsWritten
  BY DEF TarInv, TarAsWritten
<1> QED
  BY <1>1, <1>2, <1>3, PTL DEF Spec

--------------------------------------------------------------------------------
(* Volumes *)

\* The volumes among the URLs that belong to the set that was selected.
PartsOf(us, selected) == {u \in us : IsPart(u) /\ u.set = selected.set}

Maps == UNION {[S -> Url] : S \in SUBSET Nat}
Parts == [byIndex : Maps, duplicate : BOOLEAN]

\* partsByIndex after the URLs of known were added.
Holds(parts, known) ==
    /\ Indexes(parts) = {u.number : u \in known}
    /\ \A n \in Indexes(parts) : parts.byIndex[n] \in known /\ parts.byIndex[n].number = n
    /\ parts.duplicate = \E u, v \in known : u # v /\ u.number = v.number

LEMMA AddedHolds ==
    ASSUME NEW parts \in Parts, NEW known \in SUBSET Url, Holds(parts, known),
           NEW selected \in Url, NEW url \in Url
    PROVE  /\ Added(parts, url, selected) \in Parts
           /\ Holds(Added(parts, url, selected), known \cup PartsOf({url}, selected))
<1> DEFINE after == Added(parts, url, selected)
           m == url.number
<1>1. parts.byIndex \in Maps /\ parts.duplicate \in BOOLEAN
  BY DEF Parts
<1>2. PICK S \in SUBSET Nat : parts.byIndex \in [S -> Url]
  BY <1>1 DEF Maps
<1>3. Indexes(parts) = S /\ m \in Nat
  BY <1>2 DEF Indexes, Url
<1>4. CASE ~IsPart(url) \/ url.set # selected.set
  BY <1>4 DEF Added, PartsOf
<1>5. CASE ~(~IsPart(url) \/ url.set # selected.set) /\ Clashes(parts, url)
  <2>1. PartsOf({url}, selected) = {url}
    BY <1>5 DEF PartsOf
  <2>2. after = [byIndex |-> parts.byIndex, duplicate |-> TRUE]
    BY <1>5 DEF Added, Parts
  <2>3. after \in Parts /\ after.byIndex = parts.byIndex /\ Indexes(after) = S
    BY <1>1, <1>2, <2>2 DEF Parts, Indexes
  <2>4. m \in S /\ parts.byIndex[m] \in known /\ parts.byIndex[m] # url
        /\ parts.byIndex[m].number = m
    BY <1>3, <1>5 DEF Clashes, Holds
  <2>5. Indexes(after) = {u.number : u \in known \cup {url}}
    BY <1>3, <2>3, <2>4 DEF Holds
  <2>6. \A n \in Indexes(after) : /\ after.byIndex[n] \in known \cup {url}
                                  /\ after.byIndex[n].number = n
    BY <1>3, <2>3 DEF Holds
  <2>7. after.duplicate = \E u, v \in known \cup {url} : u # v /\ u.number = v.number
    BY <2>2, <2>4
  <2> QED
    BY <2>1, <2>3, <2>5, <2>6, <2>7 DEF Holds
<1>6. CASE ~(~IsPart(url) \/ url.set # selected.set) /\ ~Clashes(parts, url)
  <2> DEFINE map == [n \in S \cup {m} |-> IF n = m THEN url ELSE parts.byIndex[n]]
  <2>1. PartsOf({url}, selected) = {url}
    BY <1>6 DEF PartsOf
  <2>2. after = [byIndex |-> map, duplicate |-> parts.duplicate]
    BY <1>3, <1>6 DEF Added, Parts
  <2>3. map \in [S \cup {m} -> Url]
    BY <1>2
  <2>4. map \in Maps
    <3>1. S \cup {m} \in SUBSET Nat
      BY <1>3
    <3> HIDE DEF map
    <3> QED
      BY <2>3, <3>1 DEF Maps
  <2>5. after \in Parts /\ after.byIndex = map /\ Indexes(after) = S \cup {m}
    BY <1>1, <2>2, <2>4 DEF Parts, Indexes
  <2>6. Indexes(after) = {u.number : u \in known \cup {url}}
    BY <1>3, <2>5 DEF Holds
  <2>7. ASSUME NEW n \in Indexes(after)
        PROVE  /\ after.byIndex[n] \in known \cup {url}
               /\ after.byIndex[n].number = n
    <3>1. CASE n = m
      BY <2>5, <3>1
    <3>2. CASE n # m
      <4>1. n \in S /\ map[n] = parts.byIndex[n]
        BY <2>5, <2>7, <3>2
      <4> QED
        BY <1>3, <2>5, <4>1 DEF Holds
    <3> QED
      BY <3>1, <3>2
  <2>8. after.duplicate = \E u, v \in known \cup {url} : u # v /\ u.number = v.number
    <3>1. ASSUME NEW u \in known, u.number = m, u # url
          PROVE  parts.duplicate
      <4>1. m \in S /\ parts.byIndex[m] \in known /\ parts.byIndex[m].number = m
        BY <1>3, <3>1 DEF Holds
      <4>2. parts.byIndex[m] = url
        BY <1>3, <1>6, <4>1 DEF Clashes
      <4> QED
        BY <3>1, <4>1, <4>2 DEF Holds
    <3>2. after.duplicate = parts.duplicate
      BY <2>2
    <3>3. parts.duplicate => \E u, v \in known \cup {url} : u # v /\ u.number = v.number
      BY DEF Holds
    <3>4. ASSUME NEW u \in known \cup {url}, NEW v \in known \cup {url},
                 u # v, u.number = v.number
          PROVE  parts.duplicate
      <4>1. CASE u \in known /\ v \in known
        BY <3>4, <4>1 DEF Holds
      <4>2. CASE u = url \/ v = url
        BY <3>1, <3>4, <4>2
      <4> QED
        BY <4>1, <4>2
    <3>5. parts.duplicate \in BOOLEAN
      BY <1>1
    <3> HIDE DEF after
    <3> QED
      BY <3>2, <3>3, <3>4, <3>5
  <2> QED
    BY <2>1, <2>5, <2>6, <2>7, <2>8 DEF Holds
<1> QED
  BY <1>4, <1>5, <1>6

LEMMA NothingHeld == NoParts \in Parts /\ Holds(NoParts, {})
<1>1. <<>> \in [{} -> Url] /\ DOMAIN <<>> = {}
  OBVIOUS
<1>2. {} \in SUBSET Nat
  OBVIOUS
<1>3. <<>> \in Maps
  BY <1>1, <1>2 DEF Maps
<1> QED
  BY <1>1, <1>3 DEF NoParts, Parts, Holds, Indexes

\* partsByIndex after all were added.
LEMMA AddedAllHolds ==
    ASSUME NEW urls \in Seq(Url), NEW selected \in Url
    PROVE  /\ AddedAll(urls, selected) \in Parts
           /\ Holds(AddedAll(urls, selected), PartsOf(ToSet(urls), selected))
<1> DEFINE N == Len(urls)
           More(p, n) == Added(p, urls[n], selected)
           g == [n \in 1 .. N |-> [p \in Parts |-> More(p, n)]]
           Is(f) == f = [n \in 0 .. N |-> IF n = 0 THEN NoParts ELSE More(f[n - 1], n)]
           Upto(n) == PartsOf({urls[i] : i \in 1 .. n}, selected)
<1>1. N \in Nat /\ DOMAIN urls = 1 .. N /\ \A n \in 1 .. N : urls[n] \in Url
  OBVIOUS
<1>2. ASSUME NEW p \in Parts, NEW n \in 1 .. N, Holds(p, Upto(n - 1))
      PROVE  More(p, n) \in Parts /\ Holds(More(p, n), Upto(n))
  <2>1. Upto(n - 1) \in SUBSET Url
    BY <1>1 DEF PartsOf
  <2>2. Upto(n) = Upto(n - 1) \cup PartsOf({urls[n]}, selected)
    <3>1. \A i \in 1 .. n : i \in 1 .. n - 1 \/ i = n
      BY <1>1
    <3>2. 1 .. n - 1 \subseteq 1 .. n /\ n \in 1 .. n
      BY <1>1
    <3> QED
      BY <3>1, <3>2 DEF PartsOf
  <2>3. urls[n] \in Url
    BY <1>1
  <2> HIDE DEF Upto
  <2> QED
    BY <1>2, <2>1, <2>2, <2>3, AddedHolds
<1>3. ASSUME NEW p \in Parts, NEW n \in 1 .. N
      PROVE  More(p, n) \in Parts
  <2>1. \E S \in SUBSET Nat : p.byIndex \in [S -> Url]
    BY DEF Parts, Maps
  <2>2. urls[n] \in Url
    BY <1>1
  <2>3. CASE ~IsPart(urls[n]) \/ urls[n].set # selected.set
    BY <2>3 DEF Added
  <2>4. CASE ~(~IsPart(urls[n]) \/ urls[n].set # selected.set) /\ Clashes(p, urls[n])
    BY <2>4 DEF Added, Parts
  <2>5. CASE ~(~IsPart(urls[n]) \/ urls[n].set # selected.set) /\ ~Clashes(p, urls[n])
    <3> DEFINE m == urls[n].number
               map == [k \in Indexes(p) \cup {m} |-> IF k = m THEN urls[n] ELSE p.byIndex[k]]
    <3>1. More(p, n) = [byIndex |-> map, duplicate |-> p.duplicate] /\ p.duplicate \in BOOLEAN
      BY <2>5 DEF Added, Parts
    <3>2. map \in [Indexes(p) \cup {m} -> Url] /\ Indexes(p) \cup {m} \in SUBSET Nat
      BY <2>1, <2>2 DEF Indexes, Url
    <3> HIDE DEF map
    <3>3. map \in Maps
      BY <3>2 DEF Maps
    <3> QED
      BY <3>1, <3>3 DEF Parts
  <2> QED
    BY <2>3, <2>4, <2>5
<1> HIDE DEF More
<1>4. g \in [1 .. N -> [Parts -> Parts]]
  BY <1>3
<1>5. PICK f \in [0 .. N -> Parts] : Follows(f, N, NoParts, g)
  <2> HIDE DEF g, N
  <2> QED
    BY <1>1, <1>4, NothingHeld, RecursionExists
<1>6. ASSUME NEW n \in 0 .. N
      PROVE  f[n] = IF n = 0 THEN NoParts ELSE More(f[n - 1], n)
  <2>1. CASE n = 0
    BY <1>5, <2>1 DEF Follows
  <2>2. CASE n # 0
    <3>1. n \in 1 .. N /\ n - 1 \in 0 .. N
      BY <1>1, <2>2
    <3>2. f[n] = g[n][f[n - 1]] /\ f[n - 1] \in Parts
      BY <1>5, <3>1 DEF Follows
    <3> QED
      BY <2>2, <3>1, <3>2
  <2> QED
    BY <2>1, <2>2
<1>7. Is(f)
  BY <1>5, <1>6
<1> DEFINE c == CHOOSE h : Is(h)
<1>8. Is(c)
  BY <1>7
<1>9. AddedAll(urls, selected) = c[N]
  BY DEF AddedAll, More
<1> HIDE DEF c, g
<1>10. c[0] = NoParts /\ \A n \in 1 .. N : c[n] = More(c[n - 1], n)
  <2>1. c = [n \in 0 .. N |-> IF n = 0 THEN NoParts ELSE More(c[n - 1], n)]
    BY <1>8
  <2>2. 0 \in 0 .. N /\ \A n \in 1 .. N : n \in 0 .. N /\ n # 0
    BY <1>1
  <2> HIDE DEF N
  <2>3. c[0] = NoParts
    BY <2>1, <2>2
  <2>4. ASSUME NEW n \in 1 .. N
        PROVE  c[n] = More(c[n - 1], n)
    BY <2>1, <2>2
  <2> QED
    BY <2>3, <2>4
<1> DEFINE S == {n \in 0 .. N : c[n] \in Parts /\ Holds(c[n], Upto(n))}
<1>11. 0 \in S
  <2>1. Upto(0) = {}
    BY DEF PartsOf
  <2> HIDE DEF Upto
  <2>2. c[0] \in Parts /\ Holds(c[0], Upto(0))
    BY <1>10, <2>1, NothingHeld
  <2> QED
    BY <1>1, <2>2
<1>12. ASSUME NEW n \in 0 .. N - 1, n \in S
       PROVE  n + 1 \in S
  <2>1. n + 1 \in 1 .. N /\ (n + 1) - 1 = n /\ n + 1 \in 0 .. N
    BY <1>1
  <2> HIDE DEF Upto
  <2>2. c[n + 1] = More(c[n], n + 1)
    BY <1>10, <2>1
  <2>3. More(c[n], n + 1) \in Parts /\ Holds(More(c[n], n + 1), Upto(n + 1))
    BY <1>2, <1>12, <2>1
  <2> QED
    BY <2>1, <2>2, <2>3
<1>13. N \in S
  <2>1. 0 .. N \subseteq S
    <3> HIDE DEF N, S
    <3> QED
      BY <1>1, <1>11, <1>12, UptoInduction
  <2> QED
    BY <1>1, <2>1
<1>14. Upto(N) = PartsOf(ToSet(urls), selected)
  BY <1>1 DEF ToSet
<1> QED
  BY <1>9, <1>13, <1>14

\* What SelectInSeq finds.
PartsAt(urls) == {i \in 1 .. Len(urls) : IsPart(urls[i])}

LEMMA FirstPart ==
    ASSUME NEW urls \in Seq(Url), \E u \in ToSet(urls) : IsPart(u)
    PROVE  /\ PartsAt(urls) # {} /\ Min(PartsAt(urls)) \in 1 .. Len(urls)
           /\ urls[Min(PartsAt(urls))] \in Url
<1> DEFINE I == PartsAt(urls)
<1>1. I # {} /\ Len(urls) \in Nat /\ I \subseteq Nat /\ I \subseteq 1 .. Len(urls)
  BY DEF ToSet, PartsAt
<1> HIDE DEF I
<1>2. \E m \in I : \A k \in I : m <= k
  <2> DEFINE J == {Len(urls) + 1 - i : i \in I}
  <2>1. J \in SUBSET (1 .. Len(urls)) /\ J # {}
    <3>1. ASSUME NEW i \in I
          PROVE  Len(urls) + 1 - i \in 1 .. Len(urls)
      BY <1>1
    <3> QED
      BY <1>1, <3>1
  <2>2. PICK j \in J : \A k \in J : j >= k
    BY <1>1, <2>1, GreatestExists
  <2>3. PICK m \in I : j = Len(urls) + 1 - m
    BY <2>2
  <2>4. ASSUME NEW k \in I
        PROVE  m <= k
    <3>1. Len(urls) + 1 - k \in J
      OBVIOUS
    <3>2. j >= Len(urls) + 1 - k
      BY <2>2, <3>1
    <3>3. m \in Nat /\ k \in Nat
      BY <1>1
    <3> QED
      BY <1>1, <2>3, <3>2, <3>3
  <2> QED
    BY <2>4
<1>3. Min(I) \in I
  BY <1>2 DEF Min
<1> QED
  BY <1>1, <1>3 DEF I

\* partsByIndex is determined by the URLs that were added.
LEMMA HoldsOnce ==
    ASSUME NEW known \in SUBSET Url, NEW p \in Parts, NEW q \in Parts,
           Holds(p, known), Holds(q, known), ~p.duplicate
    PROVE  p.byIndex = q.byIndex /\ ~q.duplicate
<1>1. PICK S \in SUBSET Nat : p.byIndex \in [S -> Url]
  BY DEF Parts, Maps
<1>2. PICK T \in SUBSET Nat : q.byIndex \in [T -> Url]
  BY DEF Parts, Maps
<1>3. S = T
  BY <1>1, <1>2 DEF Holds, Indexes
<1>4. \A n \in S : p.byIndex[n] = q.byIndex[n]
  BY <1>1, <1>2, <1>3 DEF Holds, Indexes
<1>5. p.byIndex = q.byIndex
  <2>1. /\ p.byIndex = [n \in S |-> p.byIndex[n]]
        /\ q.byIndex = [n \in S |-> q.byIndex[n]]
    BY <1>1, <1>2, <1>3
  <2> QED
    BY <1>4, <2>1
<1> QED
  BY <1>5 DEF Holds

\* Parts that are all there, without two of one number, are a sequence.
LEMMA HoldsInOrder ==
    ASSUME NEW known \in SUBSET Url, IsFiniteSet(known), NEW p \in Parts, Holds(p, known),
           ~p.duplicate, FromOne(Indexes(p))
    PROVE  /\ p.byIndex \in Seq(Url) /\ ToSet(p.byIndex) = known
           /\ Len(p.byIndex) = Cardinality(known)
           /\ \A n \in DOMAIN p.byIndex : p.byIndex[n].number = n
<1> DEFINE f == p.byIndex
           numbers == [u \in known |-> u.number]
<1>1. PICK S \in SUBSET Nat : f \in [S -> Url]
  BY DEF Parts, Maps
<1>2. numbers \in Bijection(known, S)
  <2>1. S = {u.number : u \in known}
    BY <1>1 DEF Holds, Indexes
  <2>2. \A u, v \in known : u # v => u.number # v.number
    BY DEF Holds
  <2>3. numbers \in [known -> S] /\ \A n \in S : \E u \in known : numbers[u] = n
    BY <2>1
  <2>4. \A u, v \in known : numbers[u] = numbers[v] => u = v
    BY <2>2
  <2> HIDE DEF numbers
  <2> QED
    BY <2>3, <2>4, Fun_IsBij
<1>3. IsFiniteSet(S) /\ Cardinality(S) = Cardinality(known)
  <2> HIDE DEF numbers
  <2>1. ExistsBijection(known, S)
    BY <1>2 DEF ExistsBijection
  <2> QED
    BY <2>1, FS_Bijection
<1>4. Cardinality(known) \in Nat
  BY FS_CardinalityType
<1>5. S = 1 .. Cardinality(known)
  BY <1>1, <1>3 DEF FromOne, Indexes
<1>6. f \in Seq(Url) /\ Len(f) = Cardinality(known) /\ DOMAIN f = S
  BY <1>1, <1>4, <1>5
<1>7. \A n \in S : f[n] \in known /\ f[n].number = n
  BY <1>1 DEF Holds, Indexes
<1>8. \A u \in known : u.number \in S
  BY <1>1 DEF Holds, Indexes
<1>9. \A u \in known : f[u.number] = u
  BY <1>7, <1>8 DEF Holds
<1>10. ToSet(f) = known
  BY <1>6, <1>7, <1>8, <1>9 DEF ToSet
<1> QED
  BY <1>6, <1>7, <1>10

LEMMA ToSetFinite ==
    ASSUME NEW T, NEW s \in Seq(T)
    PROVE  IsFiniteSet(ToSet(s)) /\ ToSet(s) \subseteq T
<1>1. s \in Surjection(1 .. Len(s), ToSet(s)) /\ Len(s) \in Nat /\ ToSet(s) \subseteq T
  <2>1. Len(s) \in Nat /\ DOMAIN s = 1 .. Len(s) /\ s = [i \in 1 .. Len(s) |-> s[i]]
    OBVIOUS
  <2>2. s \in [1 .. Len(s) -> ToSet(s)] /\ \A x \in ToSet(s) : \E i \in 1 .. Len(s) : s[i] = x
    BY <2>1 DEF ToSet
  <2>3. ToSet(s) \subseteq T
    BY DEF ToSet
  <2> QED
    BY <2>1, <2>2, <2>3, Fun_IsSurj
<1>2. IsFiniteSet(1 .. Len(s))
  BY <1>1, FS_Interval
<1> QED
  BY <1>1, <1>2, FS_Surjection

LEMMA ToSetOfBoth ==
    ASSUME NEW T, NEW s \in Seq(T), NEW t \in Seq(T)
    PROVE  s \o t \in Seq(T) /\ ToSet(s \o t) = ToSet(s) \cup ToSet(t)
<1>1. /\ s \o t \in Seq(T) /\ Len(s \o t) = Len(s) + Len(t)
      /\ \A i \in 1 .. Len(s) : (s \o t)[i] = s[i]
      /\ \A i \in 1 .. Len(t) : (s \o t)[Len(s) + i] = t[i]
  OBVIOUS
<1>2. /\ DOMAIN s = 1 .. Len(s) /\ DOMAIN t = 1 .. Len(t) /\ DOMAIN (s \o t) = 1 .. Len(s) + Len(t)
      /\ Len(s) \in Nat /\ Len(t) \in Nat
  BY <1>1
<1>3. \A i \in 1 .. Len(s) + Len(t) : i \in 1 .. Len(s) \/ \E j \in 1 .. Len(t) : i = Len(s) + j
  <2>1. ASSUME NEW i \in 1 .. Len(s) + Len(t), i \notin 1 .. Len(s)
        PROVE  i - Len(s) \in 1 .. Len(t) /\ i = Len(s) + (i - Len(s))
    BY <1>2, <2>1
  <2> QED
    BY <2>1
<1>4. /\ \A i \in 1 .. Len(s) : i \in 1 .. Len(s) + Len(t)
      /\ \A i \in 1 .. Len(t) : Len(s) + i \in 1 .. Len(s) + Len(t)
  BY <1>2
<1>5. ToSet(s \o t) \subseteq ToSet(s) \cup ToSet(t)
  BY <1>1, <1>2, <1>3 DEF ToSet
<1>6. ToSet(s) \subseteq ToSet(s \o t)
  BY <1>1, <1>2, <1>4 DEF ToSet
<1>7. ToSet(t) \subseteq ToSet(s \o t)
  BY <1>1, <1>2, <1>4 DEF ToSet
<1> QED
  BY <1>1, <1>5, <1>6, <1>7

\* resolve() for a set of volumes.
SelectedOf(urls) == urls[Min(PartsAt(urls))]

LEMMA Resolved ==
    ASSUME NEW urls \in Seq(Url), NEW siblings \in Seq(Url), \E u \in ToSet(urls) : IsPart(u)
    PROVE  LET parts == AddedAll(urls \o siblings, SelectedOf(urls))
           IN Resolve(urls, siblings) =
                 IF parts.duplicate \/ ~FromOne(Indexes(parts))
                 THEN Found(<<>>, "missingVolume") ELSE Found(parts.byIndex, "none")
<1>1. PartsAt(urls) # {} /\ Min(PartsAt(urls)) # 0
  BY FirstPart
<1>2. urls # <<>>
  BY DEF ToSet
<1> QED
  BY <1>1, <1>2 DEF Resolve, SelectInSeq, PartsAt, SelectedOf

LEMMA PartsKnown ==
    ASSUME NEW urls \in Seq(Url), NEW siblings \in Seq(Url), \E u \in ToSet(urls) : IsPart(u)
    PROVE  LET known == PartsOf(ToSet(urls \o siblings), SelectedOf(urls))
               parts == AddedAll(urls \o siblings, SelectedOf(urls))
           IN /\ known \in SUBSET Url /\ IsFiniteSet(known)
              /\ parts \in Parts /\ Holds(parts, known)
<1> DEFINE all == urls \o siblings
           known == PartsOf(ToSet(all), SelectedOf(urls))
<1>1. all \in Seq(Url) /\ SelectedOf(urls) \in Url
  BY FirstPart, ToSetOfBoth DEF SelectedOf
<1> HIDE DEF all
<1>2. AddedAll(all, SelectedOf(urls)) \in Parts /\ Holds(AddedAll(all, SelectedOf(urls)), known)
  BY <1>1, AddedAllHolds
<1>3. known \in SUBSET ToSet(all)
  BY DEF PartsOf
<1>4. IsFiniteSet(ToSet(all)) /\ ToSet(all) \subseteq Url
  BY <1>1, ToSetFinite
<1>5. IsFiniteSet(known)
  <2> HIDE DEF known
  <2> QED
    BY <1>3, <1>4, FS_Subset
<1> QED
  BY <1>2, <1>3, <1>4, <1>5 DEF all

\* Which volumes are found depends on the known ones only.
LEMMA SameVolumes ==
    ASSUME NEW urls \in Seq(Url), NEW siblings \in Seq(Url), \E u \in ToSet(urls) : IsPart(u),
           NEW u \in PartsOf(ToSet(urls \o siblings), SelectedOf(urls)),
           PartsOf(ToSet(urls \o siblings), SelectedOf(urls)) \subseteq ToSet(siblings)
    PROVE  /\ <<u>> \in Seq(Url) /\ IsPart(u) /\ ToSet(<<u>>) = {u} /\ SelectedOf(<<u>>) = u
           /\ PartsOf(ToSet(<<u>> \o siblings), u)
                 = PartsOf(ToSet(urls \o siblings), SelectedOf(urls))
<1> DEFINE known == PartsOf(ToSet(urls \o siblings), SelectedOf(urls))
<1>1. u \in Url /\ IsPart(u) /\ u.set = SelectedOf(urls).set
  BY PartsKnown DEF PartsOf
<1>2. <<u>> \in Seq(Url) /\ Len(<<u>>) = 1 /\ DOMAIN <<u>> = {1} /\ <<u>>[1] = u
  BY <1>1
<1>3. ToSet(<<u>>) = {u}
  BY <1>2 DEF ToSet
<1>4. SelectedOf(<<u>>) = u
  <2>1. Min(PartsAt(<<u>>)) \in 1 .. 1
    BY <1>1, <1>2, <1>3, FirstPart
  <2>2. Min(PartsAt(<<u>>)) = 1
    BY <2>1
  <2> QED
    BY <1>2, <2>2 DEF SelectedOf
<1>5. /\ ToSet(<<u>> \o siblings) = {u} \cup ToSet(siblings)
      /\ ToSet(urls \o siblings) = ToSet(urls) \cup ToSet(siblings)
  <2>1. ToSet(<<u>> \o siblings) = ToSet(<<u>>) \cup ToSet(siblings)
    <3> DEFINE s == <<u>>
    <3>1. s \in Seq(Url)
      BY <1>2
    <3> HIDE DEF s
    <3>2. ToSet(s \o siblings) = ToSet(s) \cup ToSet(siblings)
      BY <3>1, ToSetOfBoth
    <3> QED
      BY <3>2 DEF s
  <2>2. ToSet(urls \o siblings) = ToSet(urls) \cup ToSet(siblings)
    BY ToSetOfBoth
  <2> QED
    BY <1>3, <2>1, <2>2
<1>6. PartsOf({u} \cup ToSet(siblings), u) \subseteq known
  BY <1>1, <1>5 DEF PartsOf
<1>7. known \subseteq PartsOf({u} \cup ToSet(siblings), u)
  <2>1. ASSUME NEW v \in known
        PROVE  IsPart(v) /\ v.set = u.set /\ v \in ToSet(siblings)
    BY <1>1, <2>1 DEF PartsOf
  <2> QED
    BY <2>1 DEF PartsOf
<1> QED
  BY <1>1, <1>2, <1>3, <1>4, <1>5, <1>6, <1>7

LEMMA ResolvedWhole ==
    ASSUME NEW urls \in Seq(Url), NEW siblings \in Seq(Url), \E u \in ToSet(urls) : IsPart(u),
           Resolve(urls, siblings).error = "none"
    PROVE  LET known == PartsOf(ToSet(urls \o siblings), SelectedOf(urls))
               found == Resolve(urls, siblings).urls
           IN /\ ToSet(found) = known /\ Len(found) = Cardinality(known)
              /\ \A n \in DOMAIN found : found[n].number = n
              /\ \A u \in known : known \subseteq ToSet(siblings)
                                     => Resolve(<<u>>, siblings).urls = found
<1> DEFINE known == PartsOf(ToSet(urls \o siblings), SelectedOf(urls))
           parts == AddedAll(urls \o siblings, SelectedOf(urls))
           found == Resolve(urls, siblings).urls
<1>1. /\ known \in SUBSET Url /\ IsFiniteSet(known)
      /\ parts \in Parts /\ Holds(parts, known)
  BY PartsKnown
<1>2. Resolve(urls, siblings) =
         IF parts.duplicate \/ ~FromOne(Indexes(parts))
         THEN Found(<<>>, "missingVolume") ELSE Found(parts.byIndex, "none")
  BY Resolved
<1> HIDE DEF known, parts
<1>3. ~parts.duplicate /\ FromOne(Indexes(parts)) /\ found = parts.byIndex
  BY <1>2 DEF Found
<1>4. /\ ToSet(found) = known /\ Len(found) = Cardinality(known)
      /\ \A n \in DOMAIN found : found[n].number = n
  BY <1>1, <1>3, HoldsInOrder
<1>5. ASSUME NEW u \in known, known \subseteq ToSet(siblings)
      PROVE  Resolve(<<u>>, siblings).urls = found
  <2> DEFINE others == AddedAll(<<u>> \o siblings, u)
  <2>1. /\ <<u>> \in Seq(Url) /\ IsPart(u) /\ ToSet(<<u>>) = {u} /\ SelectedOf(<<u>>) = u
        /\ PartsOf(ToSet(<<u>> \o siblings), u) = known
    BY <1>5, SameVolumes DEF known
  <2>2. others \in Parts /\ Holds(others, known)
    BY <2>1, PartsKnown
  <2>3. Resolve(<<u>>, siblings) =
           IF others.duplicate \/ ~FromOne(Indexes(others))
           THEN Found(<<>>, "missingVolume") ELSE Found(others.byIndex, "none")
    BY <2>1, Resolved
  <2> HIDE DEF others
  <2>4. parts.byIndex = others.byIndex /\ ~others.duplicate
    BY <1>1, <1>3, <2>2, HoldsOnce
  <2>5. Indexes(others) = Indexes(parts)
    BY <2>4 DEF Indexes
  <2> QED
    BY <1>3, <2>3, <2>4, <2>5 DEF Found
<1> QED
  BY <1>4, <1>5 DEF known

\* Once the 7z backend has the archive, its volumes are what was resolved.
VolumesInv ==
    backend = "sevenZip" =>
        LET found == Resolve(file.urls, file.siblings)
        IN found.error = "none" /\ volumes = found.urls

LEMMA VolumesInvStep ==
    ASSUME VolumesInv, [Next]_vars
    PROVE  VolumesInv'
<1> DEFINE found == Resolve(file.urls, file.siblings)
<1>1. CASE OpenSevenZip
  <2>1. UNCHANGED file /\ found' = found
    BY <1>1 DEF OpenSevenZip, arguments
  <2>2. CASE UNCHANGED <<backend, volumes>>
    BY <2>1, <2>2 DEF VolumesInv
  <2>3. CASE "none" \in SevenZipOutcomes(found) /\ volumes' = found.urls
    <3> HIDE DEF found
    <3>1. found.error = "none"
      BY <2>3 DEF SevenZipOutcomes
    <3>2. found'.error = "none" /\ volumes' = found'.urls
      BY <2>1, <2>3, <3>1
    <3> QED
      BY <3>2 DEF VolumesInv, found
  <2> QED
    BY <1>1, <2>2, <2>3 DEF OpenSevenZip
<1>2. CASE UNCHANGED <<file, volumes>> /\ backend' \in {backend, "libarchive"}
  <2>1. found' = found
    BY <1>2
  <2> QED
    BY <1>2, <2>1 DEF VolumesInv
<1>3. CASE Open \/ Unreadable \/ Accept \/ GiveUp \/ TryNext
  BY <1>2, <1>3 DEF Open, Unreadable, Accept, GiveUp, TryNext, arguments
<1>4. CASE List
  BY <1>2, <1>4 DEF List, arguments
<1>5. CASE ListTar
  <2>1. UNCHANGED <<backend, volumes>>
    BY <1>5 DEF ListTar
  <2>2. UNCHANGED file
    BY <1>5 DEF ListTar, ZeroBlock, BadHeader, MetadataHeader, EntryHeader, LastBlock
  <2> QED
    BY <1>2, <2>1, <2>2
<1>6. CASE UNCHANGED openVars
  BY <1>2, <1>6 DEF openVars, arguments
<1>7. OpenStep \/ UNCHANGED openVars
  BY DEF Next, vars, StartReading, Chunk, EndOfEntry, SkipEntry, ReadingFails
<1> QED
  BY <1>1, <1>3, <1>4, <1>5, <1>6, <1>7 DEF OpenStep

LEMMA VolumesInvWhole ==
    ASSUME TypeOK, VolumesInv
    PROVE  VolumeSetWhole
<1> SUFFICES ASSUME backend = "sevenZip", \E u \in ToSet(file.urls) : IsPart(u)
             PROVE  /\ ToSet(volumes) = Known /\ Len(volumes) = Cardinality(Known)
                    /\ \A n \in DOMAIN volumes : volumes[n].number = n
                    /\ \A u \in Known : Known \subseteq ToSet(file.siblings)
                                           => Resolve(<<u>>, file.siblings).urls = volumes
  BY DEF VolumeSetWhole
<1>1. file.urls \in Seq(Url) /\ file.siblings \in Seq(Url)
  BY DEF TypeOK, Files
<1>2. /\ Resolve(file.urls, file.siblings).error = "none"
      /\ volumes = Resolve(file.urls, file.siblings).urls
  BY DEF VolumesInv
<1>3. Known = PartsOf(ToSet(file.urls \o file.siblings), SelectedOf(file.urls))
  <2>1. PartsAt(file.urls) # {}
    BY <1>1, FirstPart
  <2>2. Selected = SelectedOf(file.urls)
    BY <2>1 DEF Selected, SelectInSeq, PartsAt, SelectedOf
  <2> QED
    BY <2>2 DEF Known, PartsOf
<1> QED
  BY <1>1, <1>2, <1>3, ResolvedWhole

\* SevenZipVolumeResolver: the volumes of a 7z archive that was opened are all
\* that are known, once each and in their order, whichever of them it was
\* opened by, for any URLs and any order in which the directory lists them.
THEOREM VolumesAreWhole == Spec => []VolumeSetWhole
<1>1. Init => IInv /\ VolumesInv
  BY InitIInv DEF Init, OpenInit, VolumesInv
<1>2. IInv /\ VolumesInv /\ [Next]_vars => (IInv /\ VolumesInv)'
  BY StepIInv, VolumesInvStep
<1>3. IInv /\ VolumesInv => VolumeSetWhole
  BY VolumesInvWhole DEF IInv
<1> QED
  BY <1>1, <1>2, <1>3, PTL DEF Spec

================================================================================
