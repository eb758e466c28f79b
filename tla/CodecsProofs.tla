----------------------------- MODULE CodecsProofs -----------------------------
(***************************************************************************)
(* Theorems about Codecs, for any size of payload, buffer, bucket and      *)
(* length field that LengthsFit allows: an envelope is as long as the      *)
(* least listed size, unframe accepts exactly what frame writes, and what  *)
(* was sealed, packed and exported comes back as it was.                   *)
(*                                                                         *)
(* The conversions loop over their input.  CountUp is the induction behind *)
(* each loop, stated of a set of numbers so that the provers can use it;   *)
(* ReadsExist and FlattensExist unfold the library's folds with it.        *)
(***************************************************************************)
EXTENDS Codecs, TLAPS, SequenceTheorems, FiniteSetTheorems, WellFoundedInduction

-----------------------------------------------------------------------------
(* Numbers.                                                                *)

\* A set of numbers that is not empty has a least one.
LEMMA LeastNumber ==
    ASSUME NEW S \in SUBSET Nat, S # {}
    PROVE  \E m \in S : \A k \in S : m <= k
<1>1. PICK m \in S : \A y \in S : ~(<<y, m>> \in OpToRel(<, Nat))
  BY NatLessThanWellFounded, WFMin
<1>2. \A k \in S : ~(k < m)
  BY <1>1 DEF OpToRel
<1> QED BY <1>2

\* A loop that begins well and keeps well is well at every count.
LEMMA CountUp ==
    ASSUME NEW n \in Nat, NEW S, 0 \in S,
           \A k \in 0 .. (n - 1) : k \in S => k + 1 \in S
    PROVE  \A k \in 0 .. n : k \in S
<1> SUFFICES ASSUME {k \in 0 .. n : k \notin S} # {}
             PROVE  FALSE
  OBVIOUS
<1> DEFINE Bad == {k \in 0 .. n : k \notin S}
<1>1. PICK m \in Bad : \A k \in Bad : m <= k
  BY LeastNumber, Bad \in SUBSET Nat
<1>2. m - 1 \in 0 .. (n - 1) /\ m - 1 \notin Bad
  BY <1>1
<1>3. m - 1 \in S
  BY <1>2
<1>4. (m - 1) + 1 \in S
  BY <1>2, <1>3
<1> QED BY <1>1, <1>4

\* A set of numbers within a bound has a greatest one.
LEMMA MaxOfCounts ==
    ASSUME NEW n \in Nat, NEW S \in SUBSET (1 .. n), S # {}
    PROVE  Max(S) \in S /\ \A k \in S : Max(S) >= k
<1> DEFINE D == {n - k : k \in S}
<1>1. D \in SUBSET Nat /\ D # {}
  <2>1. PICK k \in S : TRUE
    OBVIOUS
  <2>2. n - k \in D
    OBVIOUS
  <2> QED BY <2>2
<1>2. PICK m \in D : \A d \in D : m <= d
  BY <1>1, LeastNumber
<1>3. PICK x \in S : m = n - x
  BY <1>2
<1>4. ASSUME NEW k \in S
      PROVE  x >= k
  <2>1. n - k \in D
    OBVIOUS
  <2> HIDE DEF D
  <2> QED BY <1>2, <1>3, <2>1
<1> QED BY <1>3, <1>4 DEF Max

-----------------------------------------------------------------------------
(* The padded length.                                                      *)

LEMMA PowersPositive == Power2 \subseteq Nat \ {0}
BY DEF Power2

\* next_power_of_two is the least power that the number fits in, if one does.
LEMMA NextPower ==
    ASSUME NEW n \in Nat, NEW top \in Power2, n <= top
    PROVE  LET p == NextPowerOfTwo(n)
           IN  p \in Power2 /\ n <= p /\ \A q \in Power2 : n <= q => p <= q
<1> DEFINE S == {p \in Power2 : n <= p}
<1>1. S \in SUBSET Nat /\ S # {}
  BY PowersPositive
<1>2. PICK p \in S : \A q \in S : p <= q
  BY <1>1, LeastNumber
<1>3. p \in Power2 /\ n <= p /\ \A q \in Power2 : n <= q => p <= q
  BY <1>2
<1> HIDE DEF S
<1> QED BY <1>3 DEF NextPowerOfTwo

\* A product grows with its factor.
LEMMA ProductGrows ==
    ASSUME NEW a \in Int, NEW b \in Int, a <= b, NEW m \in Nat
    PROVE  a * m <= b * m
<1> DEFINE d == b - a
<1>1. d \in Nat /\ b = a + d
  OBVIOUS
<1> HIDE DEF d
<1>2. d * m \in Nat
  BY <1>1
<1>3. (a + d) * m = a * m + d * m
  BY <1>1
<1> QED BY <1>1, <1>2, <1>3

\* A length that fits its cell is not changed by it.
LEMMA SmallRemainder ==
    ASSUME NEW a \in Nat, NEW m \in Nat, a < m
    PROVE  a % m = a
<1> DEFINE q == a \div m
           r == a % m
<1>1. q \in Int /\ r \in 0 .. (m - 1) /\ a = m * q + r
  OBVIOUS
<1>2. m * q = q * m /\ q * m \in Int
  BY <1>1
<1> HIDE DEF q, r
<1>3. ~(1 <= q)
  <2>1. 1 <= q => 1 * m <= q * m
    BY <1>1, ProductGrows
  <2> QED BY <1>1, <1>2, <2>1
<1>4. ~(q <= -1)
  <2>1. q <= -1 => q * m <= (-1) * m
    BY <1>1, ProductGrows
  <2> QED BY <1>1, <1>2, <2>1
<1>5. q = 0
  BY <1>1, <1>3, <1>4
<1> QED BY <1>1, <1>5 DEF r

\* Rounding up gives the least multiple.
LEMMA RoundUp ==
    ASSUME NEW n \in Nat \ {0}, NEW m \in Nat \ {0}
    PROVE  LET k == (n + (m - 1)) \div m
           IN  /\ k \in 1 .. n
               /\ n <= k * m
               /\ \A j \in Nat : n <= j * m => k * m <= j * m
<1> DEFINE k == (n + (m - 1)) \div m
<1>1. k \in Int /\ k * m <= n + (m - 1) /\ n + (m - 1) < k * m + m
  <2> DEFINE a == n + (m - 1)
  <2>1. a \in Int /\ k = a \div m
    OBVIOUS
  <2> HIDE DEF a, k
  <2>2. k \in Int
    BY <2>1
  <2>3. a = m * (a \div m) + (a % m) /\ a % m \in 0 .. (m - 1)
    BY <2>1
  <2>4. m * k = k * m
    BY <2>2
  <2>5. k * m <= a /\ a < k * m + m
    BY <2>1, <2>2, <2>3, <2>4
  <2> QED BY <2>2, <2>5 DEF a
<1> HIDE DEF k
<1> DEFINE km == k * m
<1>2. km \in Int /\ n <= km /\ km < n + m
  <2>1. km \in Int
    BY <1>1
  <2> QED BY <1>1, <2>1
<1>3. ASSUME NEW j \in Nat, n <= j * m
      PROVE  k <= j
  <2> SUFFICES ASSUME j + 1 <= k
               PROVE  FALSE
    BY <1>1
  <2>1. (j + 1) * m <= km
    BY <1>1, ProductGrows
  <2>2. (j + 1) * m = j * m + m /\ j * m \in Int
    OBVIOUS
  <2> HIDE DEF km
  <2> QED BY <1>2, <1>3, <2>1, <2>2
<1>4. k <= n
  <2>1. 1 * n <= m * n
    BY ProductGrows
  <2>2. m * n = n * m /\ 1 * n = n
    OBVIOUS
  <2> QED BY <1>3, <2>1, <2>2
<1>5. k >= 1
  <2> SUFFICES ASSUME k <= 0
               PROVE  FALSE
    BY <1>1
  <2>1. km <= 0 * m /\ 0 * m = 0
    BY <1>1, ProductGrows
  <2> HIDE DEF km
  <2> QED BY <1>2, <2>1
<1>6. ASSUME NEW j \in Nat, n <= j * m
      PROVE  k * m <= j * m
  BY <1>1, <1>3, <1>6, ProductGrows
<1> QED BY <1>1, <1>2, <1>4, <1>5, <1>6 DEF k

\* The code's three cases compute the least listed size.
LEMMA BucketIsLeast ==
    ASSUME NEW len \in 0 .. MaxPayload
    PROVE  /\ Bucket(len) \in Nat /\ len + 1 <= Bucket(len)
           /\ Bucket(len) = LeastSize(len)
<1> DEFINE needed == len + 1
           M == MAX_POW2_BUCKET
           b == Bucket(len)
<1>1. /\ MIN_BUCKET \in Nat \ {0} /\ M \in Nat \ {0} /\ MIN_BUCKET <= M
      /\ MIN_BUCKET \in Power2 /\ M \in Power2
      /\ MaxPayload \in Nat /\ needed \in 1 .. (MaxPayload + 1)
      /\ LEN_PREFIX = 1
  BY CodecsAssumption, PowersPositive DEF LEN_PREFIX
<1>2. ASSUME NEW t \in Sizes
      PROVE  \/ t \in Power2 /\ MIN_BUCKET <= t /\ t <= M
             \/ \E k \in 1 .. (MaxPayload + 1) : t = k * M
  BY DEF Sizes
<1>3. \A k \in 1 .. (MaxPayload + 1) : k * M \in Sizes /\ k * M \in Nat
  BY <1>1 DEF Sizes
<1>4. ASSUME NEW k \in 1 .. (MaxPayload + 1)
      PROVE  M <= k * M
  <2>1. 1 * M <= k * M
    BY <1>1, ProductGrows
  <2> QED BY <1>1, <2>1
<1>5. ASSUME NEW t \in Sizes
      PROVE  t \in Nat /\ MIN_BUCKET <= t
  <2>1. CASE t \in Power2 /\ MIN_BUCKET <= t /\ t <= M
    BY <2>1, PowersPositive
  <2>2. CASE \E k \in 1 .. (MaxPayload + 1) : t = k * M
    BY <2>2, <1>1, <1>3, <1>4
  <2> QED BY <1>2, <2>1, <2>2
<1>6. /\ b \in Sizes /\ needed <= b
      /\ \A t \in Sizes : needed <= t => b <= t
  <2>1. CASE needed <= MIN_BUCKET
    <3>1. b = MIN_BUCKET
      BY <1>1, <2>1 DEF Bucket
    <3>2. MIN_BUCKET \in Sizes
      BY <1>1 DEF Sizes
    <3> QED BY <1>1, <1>5, <2>1, <3>1, <3>2
  <2>2. CASE ~(needed <= MIN_BUCKET) /\ needed <= M
    <3>1. b = NextPowerOfTwo(needed)
      BY <1>1, <2>2 DEF Bucket
    <3>2. b \in Power2 /\ needed <= b /\ \A q \in Power2 : needed <= q => b <= q
      BY <1>1, <2>2, <3>1, NextPower
    <3>3. b <= M /\ b \in Nat /\ MIN_BUCKET <= b
      <4> HIDE DEF b, needed
      <4>1. b \in Nat
        BY <3>2, PowersPositive
      <4>2. b <= M
        BY <1>1, <2>2, <3>2
      <4> QED BY <1>1, <2>2, <3>2, <4>1, <4>2
    <3>4. b \in Sizes
      BY <3>2, <3>3 DEF Sizes
    <3>5. ASSUME NEW t \in Sizes, needed <= t
          PROVE  b <= t
      <4> HIDE DEF b
      <4>1. CASE t \in Power2 /\ MIN_BUCKET <= t /\ t <= M
        BY <3>2, <3>5, <4>1
      <4>2. CASE \E k \in 1 .. (MaxPayload + 1) : t = k * M
        BY <1>1, <1>3, <1>4, <3>3, <4>2
      <4> QED BY <1>2, <4>1, <4>2
    <3> QED BY <3>2, <3>4, <3>5
  <2>3. CASE ~(needed <= MIN_BUCKET) /\ ~(needed <= M)
    <3> DEFINE k == (needed + (M - 1)) \div M
    <3>1. b = k * M
      BY <1>1, <2>3 DEF Bucket
    <3>2. needed \in Nat \ {0}
      BY <1>1
    <3>3. /\ k \in 1 .. needed
          /\ needed <= k * M
          /\ \A j \in Nat : needed <= j * M => k * M <= j * M
      BY <1>1, <3>2, RoundUp
    <3> HIDE DEF b, k
    <3>4. k \in 1 .. (MaxPayload + 1)
      BY <1>1, <3>3
    <3>5. ASSUME NEW t \in Sizes, needed <= t
          PROVE  b <= t
      <4>1. PICK j \in 1 .. (MaxPayload + 1) : t = j * M
        BY <1>1, <1>2, <1>5, <2>3, <3>5
      <4> QED BY <1>1, <3>1, <3>3, <3>5, <4>1
    <3> QED BY <1>3, <3>1, <3>3, <3>4, <3>5
  <2> QED BY <2>1, <2>2, <2>3
<1>7. \A s \in Sizes : /\ needed <= s
                       /\ \A t \in Sizes : needed <= t => s <= t
                       => s = b
  <2> HIDE DEF b
  <2> QED BY <1>5, <1>6
<1> HIDE DEF b
<1>8. b = LeastSize(len)
  BY <1>1, <1>6, <1>7 DEF LeastSize
<1> QED BY <1>5, <1>6, <1>8 DEF b

\* An envelope is a header and a cell for each byte of the padded inner.
LEMMA SealedLength ==
    ASSUME NEW sender, NEW recipient, NEW eph, NEW payload \in Seq(Nat),
           Len(payload) <= MaxPayload
    PROVE  Len(SealEnvelope(sender, recipient, eph, payload))
             = HEADER_LEN + INNER_PREFIX_LEN + Bucket(Len(payload))
<1> DEFINE inner == <<sender, sender, LenCell(payload)>> \o payload
           n == INNER_PREFIX_LEN + Bucket(Len(payload))
           padded == [i \in 1 .. n |-> IF i <= Len(inner) THEN inner[i] ELSE 0]
           key == SealKey(eph, recipient)
           cells == [i \in 1 .. Len(padded) |-> <<key, padded[i]>>]
<1>1. Len(payload) \in 0 .. MaxPayload /\ Bucket(Len(payload)) \in Nat
  BY CodecsAssumption, BucketIsLeast
<1>2. n \in Nat /\ n = 2 + Bucket(Len(payload))
  BY <1>1 DEF INNER_PREFIX_LEN
<1>3. SealEnvelope(sender, recipient, eph, payload) = <<VERSION, eph>> \o cells
  BY DEF SealEnvelope, AeadSeal
<1> HIDE DEF inner, n, key
<1>4. Len(padded) = n
  BY <1>2
<1> HIDE DEF padded
<1>5. Len(cells) = n /\ cells \in Seq({cells[i] : i \in 1 .. n})
  BY <1>2, <1>4
<1> HIDE DEF cells
<1>6. <<VERSION, eph>> \in Seq({VERSION, eph}) /\ Len(<<VERSION, eph>>) = 2
  OBVIOUS
<1>7. Len(<<VERSION, eph>> \o cells) = 2 + n
  <2> DEFINE U == {VERSION, eph} \cup {cells[i] : i \in 1 .. n}
  <2>1. <<VERSION, eph>> \in Seq(U) /\ cells \in Seq(U)
    BY <1>5, <1>6
  <2> HIDE DEF U
  <2> QED BY <1>5, <1>6, <2>1
<1> QED BY <1>1, <1>2, <1>3, <1>7 DEF HEADER_LEN, INNER_PREFIX_LEN

-----------------------------------------------------------------------------
(* The inputs.                                                             *)

JobsInv == job \in PollJobs \cup FrameJobs \cup StoreJobs

LEMMA JobsInvariance == Spec => []JobsInv
<1>1. Init => JobsInv
  BY DEF Init, JobsInv
<1>2. JobsInv /\ [Next]_<<job, out>> => JobsInv'
  BY DEF JobsInv, Next, Poll, ReadFields, Import, PollJobs, FrameJobs, StoreJobs
<1> QED BY <1>1, <1>2, PTL DEF Spec

LEMMA PayloadType ==
    ASSUME NEW p \in Payload
    PROVE  p \in Seq(Nat) /\ Len(p) \in 0 .. MaxPayload
BY CodecsAssumption DEF Payload

\* What a job of each kind holds.
LEMMA JobTypes ==
    ASSUME JobsInv
    PROVE  /\ job.kind = "poll" => job \in PollJobs
           /\ job.kind = "unframe" => job \in FrameJobs
           /\ job.kind = "import" =>
                 \E st \in Stores : job \in [kind : {"import"}, identity : Field,
                                             public : DOMAIN st, store : {st},
                                             order : SetToSeqs(DOMAIN st)]
<1>1. \A j \in PollJobs : j.kind = "poll"
  BY DEF PollJobs
<1>2. \A j \in FrameJobs : j.kind = "unframe"
  BY DEF FrameJobs
<1>3. \A j \in StoreJobs :
         \E st \in Stores : j \in [kind : {"import"}, identity : Field,
                                   public : DOMAIN st, store : {st},
                                   order : SetToSeqs(DOMAIN st)]
  BY DEF StoreJobs
<1>4. \A j \in StoreJobs : j.kind = "import"
  BY <1>3
<1> QED BY <1>1, <1>2, <1>3, <1>4 DEF JobsInv

\* The length of an envelope shows the bucket of its payload and no more, for
\* every payload and every choice of the bucket sizes: bucket of
\* envelope.rs rounds neither short nor over at any boundary.
THEOREM LengthShowsBucket == Spec => []LengthIsLeastSize
<1>1. JobsInv => LengthIsLeastSize
  <2> SUFFICES ASSUME JobsInv, job.kind = "poll"
               PROVE  Len(SealEnvelope(job.sender, job.to[1], 1, job.payloads[1]))
                        = HEADER_LEN + INNER_PREFIX_LEN + LeastSize(Len(job.payloads[1]))
    BY DEF LengthIsLeastSize
  <2>1. job.payloads[1] \in Payload
    BY JobTypes DEF PollJobs
  <2>2. job.payloads[1] \in Seq(Nat) /\ Len(job.payloads[1]) \in 0 .. MaxPayload
    BY <2>1, PayloadType
  <2>3. Len(job.payloads[1]) <= MaxPayload
    BY <2>2, CodecsAssumption
  <2> QED BY <2>2, <2>3, SealedLength, BucketIsLeast
<1> QED BY <1>1, JobsInvariance, PTL

-----------------------------------------------------------------------------
(* The loops, unfolded.                                                    *)

Start(bytes, from) == [bytes |-> bytes, i |-> from, ok |-> TRUE, read |-> <<>>]

\* c holds the cursor after each of n calls of read_bytes.
Reads(c, bytes, from, n) ==
    /\ c[0] = Start(bytes, from)
    /\ \A k \in 1 .. n : c[k] = ReadBytes(c[k - 1])

LEMMA CursorsExist ==
    ASSUME NEW bytes, NEW from, NEW n \in Nat
    PROVE  \E c : Reads(c, bytes, from, n)
<1> DEFINE S == {k \in 0 .. n : \E c : Reads(c, bytes, from, k)}
<1>1. 0 \in S
  <2>1. Reads([k \in {0} |-> Start(bytes, from)], bytes, from, 0)
    BY DEF Reads
  <2> QED BY <2>1
<1>2. ASSUME NEW k \in 0 .. (n - 1), k \in S
      PROVE  k + 1 \in S
  <2>1. PICK c : Reads(c, bytes, from, k)
    BY <1>2
  <2> DEFINE d == [j \in 0 .. (k + 1) |-> IF j <= k THEN c[j] ELSE ReadBytes(c[k])]
  <2>2. Reads(d, bytes, from, k + 1)
    BY <2>1 DEF Reads
  <2> HIDE DEF d
  <2> QED BY <2>2
<1> HIDE DEF S
<1>3. n \in S
  BY <1>1, <1>2, CountUp
<1> QED BY <1>3 DEF S

\* ReadMany is where the last call leaves the cursor.
LEMMA ReadsExist ==
    ASSUME NEW bytes, NEW from, NEW n \in Nat
    PROVE  \E c : Reads(c, bytes, from, n) /\ ReadMany(bytes, from, n) = c[n]
<1> DEFINE IsFold(g) ==
      g = [s \in SUBSET (1 .. n) |->
             IF s = {} THEN Start(bytes, from) ELSE ReadBytes(g[s \ {Max(s)}])]
<1>1. PICK c : Reads(c, bytes, from, n)
  BY CursorsExist
<1>2. \E g : IsFold(g)
  <2> DEFINE g == [s \in SUBSET (1 .. n) |-> c[Cardinality(s)]]
  <2>1. ASSUME NEW s \in SUBSET (1 .. n), s # {}
        PROVE  g[s] = ReadBytes(g[s \ {Max(s)}])
    <3>1. Max(s) \in s
      BY <2>1, MaxOfCounts
    <3>2. IsFiniteSet(1 .. n) /\ Cardinality(1 .. n) = n
      BY FS_Interval
    <3>3. IsFiniteSet(s) /\ Cardinality(s) <= n
      BY <3>2, FS_Subset
    <3>4. Cardinality(s) \in Nat /\ Cardinality(s) # 0
      BY <2>1, <3>3, FS_CardinalityType, FS_EmptySet
    <3>5. Cardinality(s \ {Max(s)}) = Cardinality(s) - 1
      BY <3>1, <3>3, FS_RemoveElement
    <3>6. c[Cardinality(s)] = ReadBytes(c[Cardinality(s) - 1])
      BY <1>1, <3>3, <3>4 DEF Reads
    <3> QED BY <3>5, <3>6
  <2>2. g[{}] = Start(bytes, from)
    BY <1>1, FS_EmptySet DEF Reads
  <2>3. IsFold(g)
    <3> HIDE DEF g
    <3>1. g = [s \in SUBSET (1 .. n) |-> g[s]]
      BY DEF g
    <3> QED BY <2>1, <2>2, <3>1
  <2> QED BY <2>3
<1>3. PICK g : IsFold(g) /\ ReadMany(bytes, from, n) = g[1 .. n]
  BY <1>2 DEF ReadMany, FoldLeft, MapThenFoldSet, Start
<1>4. ASSUME NEW s \in SUBSET (1 .. n)
      PROVE  g[s] = IF s = {} THEN Start(bytes, from) ELSE ReadBytes(g[s \ {Max(s)}])
  <2> DEFINE F == [t \in SUBSET (1 .. n) |->
             IF t = {} THEN Start(bytes, from) ELSE ReadBytes(g[t \ {Max(t)}])]
  <2>1. g = F
    BY <1>3
  <2>2. F[s] = IF s = {} THEN Start(bytes, from) ELSE ReadBytes(g[s \ {Max(s)}])
    OBVIOUS
  <2> HIDE DEF F
  <2> QED BY <2>1, <2>2
<1> DEFINE d == [k \in 0 .. n |-> g[1 .. k]]
<1>5. ASSUME NEW k \in 1 .. n
      PROVE  d[k] = ReadBytes(d[k - 1])
  <2> DEFINE R == 1 .. k
  <2>1. R \in SUBSET (1 .. n) /\ R # {} /\ R \ {k} = 1 .. (k - 1)
        /\ k \in R /\ \A j \in R : j \in Nat /\ j <= k
    OBVIOUS
  <2>2. d[k] = g[R] /\ d[k - 1] = g[R \ {k}]
    <3>1. d[k] = g[1 .. k] /\ d[k - 1] = g[1 .. (k - 1)]
      <4> k \in 0 .. n /\ k - 1 \in 0 .. n
        OBVIOUS
      <4> QED BY Zenon
    <3> QED BY <2>1, <3>1, Zenon
  <2> HIDE DEF R, d
  <2>3. Max(R) \in R /\ Max(R) >= k
    BY <2>1, MaxOfCounts
  <2>4. Max(R) = k
    BY <2>1, <2>3
  <2>5. g[R] = ReadBytes(g[R \ {Max(R)}])
    BY <1>4, <2>1
  <2> QED BY <2>2, <2>4, <2>5
<1>6. d[0] = Start(bytes, from)
  <2>1. 1 .. 0 = {} /\ {} \in SUBSET (1 .. n)
    OBVIOUS
  <2>2. g[{}] = Start(bytes, from)
    BY <1>4, <2>1
  <2> QED BY <2>1, <2>2
<1>7. Reads(d, bytes, from, n)
  BY <1>5, <1>6 DEF Reads
<1>8. d[n] = g[1 .. n]
  OBVIOUS
<1> HIDE DEF d
<1> QED BY <1>3, <1>7, <1>8

\* f holds what a loop that appends the elements of s has written so far.
Writes(f, s, U) ==
    /\ f \in [0 .. Len(s) -> Seq(U)]
    /\ f[0] = <<>>
    /\ \A k \in 1 .. Len(s) : f[k] = f[k - 1] \o s[k]

LEMMA WritesExist ==
    ASSUME NEW U, NEW s \in Seq(Seq(U))
    PROVE  \E f : Writes(f, s, U)
<1> DEFINE n == Len(s)
           P(f, m) == /\ f \in [0 .. m -> Seq(U)] /\ f[0] = <<>>
                      /\ \A k \in 1 .. m : f[k] = f[k - 1] \o s[k]
           S == {m \in 0 .. n : \E f : P(f, m)}
<1>1. 0 \in S
  <2>1. P([k \in 0 .. 0 |-> <<>>], 0)
    OBVIOUS
  <2> HIDE DEF P
  <2> QED BY <2>1
<1>2. ASSUME NEW m \in 0 .. (n - 1), m \in S
      PROVE  m + 1 \in S
  <2>1. PICK f : P(f, m)
    BY <1>2
  <2>2. s[m + 1] \in Seq(U)
    OBVIOUS
  <2>3. f[m] \o s[m + 1] \in Seq(U)
    BY <2>1, <2>2
  <2> DEFINE g == [k \in 0 .. (m + 1) |-> IF k <= m THEN f[k] ELSE f[m] \o s[m + 1]]
  <2>4. P(g, m + 1)
    <3>1. g \in [0 .. (m + 1) -> Seq(U)]
      BY <2>1, <2>3
    <3>2. g[0] = <<>>
      BY <2>1
    <3>3. ASSUME NEW k \in 1 .. (m + 1)
          PROVE  g[k] = g[k - 1] \o s[k]
      <4>1. CASE k <= m
        <5>1. g[k] = f[k] /\ g[k - 1] = f[k - 1]
          BY <4>1
        <5>2. k \in 1 .. m
          BY <4>1
        <5>3. f[k] = f[k - 1] \o s[k]
          BY <2>1, <5>2, Zenon
        <5> HIDE DEF g
        <5> QED BY <5>1, <5>3, Zenon
      <4>2. CASE k = m + 1
        <5>0. /\ m + 1 \in 0 .. (m + 1) /\ ~(m + 1 <= m)
              /\ m \in 0 .. (m + 1) /\ m <= m
          OBVIOUS
        <5>1. g[m + 1] = f[m] \o s[m + 1] /\ g[m] = f[m]
          BY <5>0, Zenon
        <5>2. k - 1 = m
          BY <4>2
        <5> HIDE DEF g
        <5> QED BY <4>2, <5>1, <5>2, Zenon
      <4>3. k <= m \/ k = m + 1
        OBVIOUS
      <4> QED BY <4>1, <4>2, <4>3
    <3> QED BY <3>1, <3>2, <3>3
  <2> HIDE DEF P, g
  <2> QED BY <2>4
<1> HIDE DEF S
<1>3. n \in Nat /\ n \in 0 .. n
  OBVIOUS
<1>4. n \in S
  BY <1>1, <1>2, <1>3, CountUp
<1> QED BY <1>4 DEF S, Writes

\* FlattenSeq is what the loop has written in the end.
LEMMA FlattensExist ==
    ASSUME NEW U, NEW s \in Seq(Seq(U))
    PROVE  \E f : Writes(f, s, U) /\ FlattenSeq(s) = f[Len(s)]
<1>1. PICK w : Writes(w, s, U)
  BY WritesExist
<1>2. CASE Len(s) = 0
  <2>1. s = <<>> /\ FlattenSeq(s) = s
    BY <1>2 DEF FlattenSeq
  <2> QED BY <1>1, <1>2, <2>1 DEF Writes
<1>3. CASE Len(s) # 0
  <2> DEFINE n == Len(s)
             IsFlatten(g) == g = [i \in 1 .. n |-> IF i = 1 THEN s[i] ELSE g[i - 1] \o s[i]]
  <2>1. n \in Nat /\ n >= 1 /\ \A k \in 1 .. n : s[k] \in Seq(U)
    BY <1>3
  <2>2. \E g : IsFlatten(g)
    <3> DEFINE g == [i \in 1 .. n |-> w[i]]
    <3>1. ASSUME NEW i \in 1 .. n
          PROVE  g[i] = IF i = 1 THEN s[i] ELSE g[i - 1] \o s[i]
      <4>1. g[i] = w[i - 1] \o s[i]
        BY <1>1 DEF Writes
      <4>2. CASE i = 1
        <5>1. i - 1 = 0 /\ w[0] = <<>> /\ s[i] \in Seq(U)
          BY <1>1, <2>1, <4>2 DEF Writes
        <5>2. <<>> \o s[i] = s[i]
          BY <5>1, ConcatEmptySeq
        <5> HIDE DEF g, n
        <5> QED BY <4>1, <4>2, <5>1, <5>2, Zenon
      <4>3. CASE i # 1
        <5>1. g[i - 1] = w[i - 1]
          BY <4>3
        <5> HIDE DEF g, n
        <5> QED BY <4>1, <4>3, <5>1, Zenon
      <4> QED BY <4>2, <4>3
    <3>2. g = [i \in 1 .. n |-> g[i]]
      OBVIOUS
    <3> HIDE DEF g, n
    <3>3. IsFlatten(g)
      BY <3>1, <3>2
    <3> QED BY <3>3
  <2>3. PICK g : IsFlatten(g) /\ FlattenSeq(s) = g[n]
    BY <1>3, <2>2 DEF FlattenSeq
  <2>4. ASSUME NEW i \in 1 .. n
        PROVE  g[i] = IF i = 1 THEN s[i] ELSE g[i - 1] \o s[i]
    <3> DEFINE F == [j \in 1 .. n |-> IF j = 1 THEN s[j] ELSE g[j - 1] \o s[j]]
    <3>1. g = F
      BY <2>3
    <3>2. F[i] = IF i = 1 THEN s[i] ELSE g[i - 1] \o s[i]
      OBVIOUS
    <3> HIDE DEF F
    <3> QED BY <3>1, <3>2
  <2> DEFINE S == {k \in 0 .. n : k >= 1 => g[k] = w[k]}
  <2>5. 0 \in S
    BY <2>1
  <2>6. ASSUME NEW k \in 0 .. (n - 1), k \in S
        PROVE  k + 1 \in S
    <3>0. k + 1 \in 1 .. n /\ (k + 1) - 1 = k
      BY <2>1
    <3>1. k + 1 \in 1 .. n /\ w[k + 1] = w[k] \o s[k + 1]
      <4>1. w[k + 1] = w[(k + 1) - 1] \o s[k + 1]
        BY <1>1, <3>0 DEF Writes
      <4> QED BY <3>0, <4>1, Zenon
    <3>2. CASE k = 0
      <4>1. 1 \in 1 .. n /\ s[1] \in Seq(U)
        BY <2>1
      <4>2. g[1] = s[1]
        BY <2>4, <4>1
      <4>3. w[0] = <<>>
        BY <1>1 DEF Writes
      <4>4. w[1] = w[0] \o s[1]
        <5>1. k + 1 = 1
          BY <3>2
        <5> QED BY <3>1, <3>2, <5>1, Zenon
      <4>5. w[1] = s[1]
        BY <4>1, <4>3, <4>4, ConcatEmptySeq, Zenon
      <4> QED BY <3>1, <3>2, <4>2, <4>5
    <3>3. CASE k # 0
      <4>1. g[k] = w[k]
        BY <2>6, <3>3
      <4>2. k + 1 # 1 /\ (k + 1) - 1 = k
        BY <3>3
      <4>3. g[k + 1] = g[(k + 1) - 1] \o s[k + 1]
        BY <2>4, <3>1, <4>2
      <4>4. g[k + 1] = w[k + 1]
        BY <3>1, <4>1, <4>2, <4>3, Zenon
      <4>5. k + 1 \in 0 .. n
        BY <2>1
      <4> QED BY <4>4, <4>5
    <3> QED BY <3>2, <3>3
  <2> HIDE DEF S
  <2>7. n \in S
    <3>1. n \in 0 .. n
      BY <2>1
    <3> HIDE DEF n
    <3> QED BY <2>1, <2>5, <2>6, <3>1, CountUp
  <2>8. g[n] = w[n]
    BY <2>1, <2>7 DEF S
  <2> QED BY <1>1, <2>3, <2>8
<1> QED BY <1>2, <1>3

-----------------------------------------------------------------------------
(* What frame writes.                                                      *)

\* The byte string t begins with the byte string s.
Begins(s, t) == Len(s) <= Len(t) /\ \A j \in 1 .. Len(s) : t[j] = s[j]

\* f is what frame has written after each field: a length and the bytes.
Framed(f, fields, U) ==
    /\ f \in [0 .. Len(fields) -> Seq(U)]
    /\ f[0] = <<>>
    /\ \A k \in 1 .. Len(fields) :
          /\ Begins(f[k - 1], f[k])
          /\ Len(f[k]) = Len(f[k - 1]) + 1 + Len(fields[k])
          /\ f[k][Len(f[k - 1]) + 1] = Len(fields[k])
          /\ \A j \in 1 .. Len(fields[k]) : f[k][Len(f[k - 1]) + 1 + j] = fields[k][j]

\* A concatenation, position by position.
LEMMA Joined ==
    ASSUME NEW S, NEW s \in Seq(S), NEW t \in Seq(S)
    PROVE  /\ s \o t \in Seq(S)
           /\ Len(s \o t) = Len(s) + Len(t)
           /\ \A i \in 1 .. Len(s) : (s \o t)[i] = s[i]
           /\ \A j \in 1 .. Len(t) : (s \o t)[Len(s) + j] = t[j]
<1> DEFINE u == s \o t
<1>1. u \in Seq(S) /\ Len(u) = Len(s) + Len(t) /\ Len(s) \in Nat /\ Len(t) \in Nat
  OBVIOUS
<1>2. \A i \in 1 .. Len(s) + Len(t) : u[i] = IF i <= Len(s) THEN s[i] ELSE t[i - Len(s)]
  BY ConcatProperties, Zenon
<1> HIDE DEF u
<1>3. ASSUME NEW i \in 1 .. Len(s)
      PROVE  u[i] = s[i]
  <2>1. i \in 1 .. Len(s) + Len(t) /\ i <= Len(s)
    BY <1>1
  <2> QED BY <1>2, <2>1
<1>4. ASSUME NEW j \in 1 .. Len(t)
      PROVE  u[Len(s) + j] = t[j]
  <2>1. /\ Len(s) + j \in 1 .. Len(s) + Len(t) /\ ~(Len(s) + j <= Len(s))
        /\ (Len(s) + j) - Len(s) = j
    BY <1>1
  <2>2. u[Len(s) + j] = t[(Len(s) + j) - Len(s)]
    BY <1>2, <2>1
  <2> QED BY <2>1, <2>2, Zenon
<1> QED BY <1>1, <1>3, <1>4 DEF u

LEMMA OneField ==
    ASSUME NEW U, Nat \subseteq U, NEW old \in Seq(U), NEW field \in Seq(U)
    PROVE  LET new == old \o (<<Len(field)>> \o field)
           IN  /\ new \in Seq(U)
               /\ Begins(old, new)
               /\ Len(new) = Len(old) + 1 + Len(field)
               /\ new[Len(old) + 1] = Len(field)
               /\ \A j \in 1 .. Len(field) : new[Len(old) + 1 + j] = field[j]
<1> DEFINE h == <<Len(field)>>
           e == h \o field
           new == old \o e
<1>1. Len(field) \in U /\ Len(field) \in Nat /\ Len(old) \in Nat
  OBVIOUS
<1>2. h \in Seq(U) /\ Len(h) = 1 /\ h[1] = Len(field)
  BY <1>1
<1> HIDE DEF h
<1>3. /\ e \in Seq(U) /\ Len(e) = 1 + Len(field)
      /\ e[1] = Len(field)
      /\ \A j \in 1 .. Len(field) : e[1 + j] = field[j]
  BY <1>1, <1>2, Joined
<1> HIDE DEF e
<1>4. /\ new \in Seq(U) /\ Len(new) = Len(old) + Len(e)
      /\ \A i \in 1 .. Len(old) : new[i] = old[i]
      /\ \A j \in 1 .. Len(e) : new[Len(old) + j] = e[j]
  <2>1. old \in Seq(U) /\ e \in Seq(U)
    BY <1>3
  <2> QED BY <2>1, Joined
<1> HIDE DEF new
<1>5. Len(new) = Len(old) + 1 + Len(field)
  BY <1>1, <1>3, <1>4
<1>6. Begins(old, new)
  BY <1>1, <1>4, <1>5 DEF Begins
<1>7. new[Len(old) + 1] = Len(field)
  <2>1. 1 \in 1 .. Len(e)
    BY <1>1, <1>3
  <2> QED BY <1>3, <1>4, <2>1
<1>8. ASSUME NEW j \in 1 .. Len(field)
      PROVE  new[Len(old) + 1 + j] = field[j]
  <2>1. 1 + j \in 1 .. Len(e) /\ Len(old) + 1 + j = Len(old) + (1 + j)
    <3>1. Len(e) = 1 + Len(field)
      BY <1>3
    <3> QED BY <1>1, <3>1
  <2>2. new[Len(old) + (1 + j)] = e[1 + j]
    <3> DEFINE i == 1 + j
    <3>1. i \in 1 .. Len(e)
      BY <2>1
    <3> HIDE DEF i
    <3>2. new[Len(old) + i] = e[i]
      BY <1>4, <3>1
    <3> QED BY <3>2 DEF i
  <2> QED BY <1>3, <2>1, <2>2, Zenon
<1> QED BY <1>4, <1>5, <1>6, <1>7, <1>8 DEF h, e, new

LEMMA FrameWrites ==
    ASSUME NEW U, Nat \subseteq U, NEW fields \in Seq(Seq(U)),
           \A i \in 1 .. Len(fields) : Len(fields[i]) < LenModulus
    PROVE  /\ \E f : Framed(f, fields, U) /\ Frame(fields) = f[Len(fields)]
           /\ Frame(fields) \in Seq(U)
<1> DEFINE n == Len(fields)
           s == [i \in 1 .. n |-> <<LenCell(fields[i])>> \o fields[i]]
<1>1. n \in Nat /\ \A i \in 1 .. n : fields[i] \in Seq(U) /\ Len(fields[i]) \in Nat
  OBVIOUS
<1> HIDE DEF n
<1>2. ASSUME NEW i \in 1 .. n
      PROVE  s[i] = <<Len(fields[i])>> \o fields[i] /\ s[i] \in Seq(U)
  <2>1. Len(fields[i]) % LenModulus = Len(fields[i])
    <3> DEFINE a == Len(fields[i])
    <3>1. a \in Nat /\ a < LenModulus /\ LenModulus \in Nat
      BY <1>1, CodecsAssumption DEF n
    <3> HIDE DEF a
    <3>2. a % LenModulus = a
      BY <3>1, SmallRemainder
    <3> QED BY <3>2 DEF a
  <2>2. s[i] = <<Len(fields[i])>> \o fields[i]
    BY <2>1 DEF LenCell
  <2>3. <<Len(fields[i])>> \in Seq(U)
    BY <1>1
  <2> QED BY <1>1, <2>2, <2>3, ConcatProperties
<1>3. Frame(fields) = FlattenSeq(s)
  BY DEF Frame, n
<1>4. s \in Seq(Seq(U)) /\ Len(s) = n
  <2>1. s \in [1 .. n -> Seq(U)]
    BY <1>2
  <2> QED BY <1>1, <2>1
<1> HIDE DEF s
<1>5. PICK f : Writes(f, s, U) /\ Frame(fields) = f[n]
  BY <1>3, <1>4, FlattensExist
<1>6. f \in [0 .. n -> Seq(U)] /\ f[0] = <<>>
  BY <1>4, <1>5 DEF Writes
<1>7. ASSUME NEW k \in 1 .. n
      PROVE  /\ Begins(f[k - 1], f[k])
             /\ Len(f[k]) = Len(f[k - 1]) + 1 + Len(fields[k])
             /\ f[k][Len(f[k - 1]) + 1] = Len(fields[k])
             /\ \A j \in 1 .. Len(fields[k]) : f[k][Len(f[k - 1]) + 1 + j] = fields[k][j]
  <2>1. f[k] = f[k - 1] \o (<<Len(fields[k])>> \o fields[k])
    BY <1>2, <1>4, <1>5 DEF Writes
  <2>2. f[k - 1] \in Seq(U) /\ fields[k] \in Seq(U)
    BY <1>1, <1>6
  <2> DEFINE old == f[k - 1]
             field == fields[k]
             new == f[k]
  <2>3. new = old \o (<<Len(field)>> \o field) /\ old \in Seq(U) /\ field \in Seq(U)
    BY <2>1, <2>2
  <2> HIDE DEF old, field, new
  <2>4. /\ Begins(old, new)
        /\ Len(new) = Len(old) + 1 + Len(field)
        /\ new[Len(old) + 1] = Len(field)
        /\ \A j \in 1 .. Len(field) : new[Len(old) + 1 + j] = field[j]
    BY <2>3, OneField, ZenonT(60)
  <2> QED BY <2>4 DEF old, field, new
<1>8. Framed(f, fields, U)
  BY <1>6, <1>7 DEF Framed, n
<1>9. f[n] \in Seq(U)
  BY <1>1, <1>6
<1> QED BY <1>5, <1>8, <1>9 DEF n

\* A beginning of a beginning is a beginning.
LEMMA BeginsFurther ==
    ASSUME NEW s, NEW t, NEW u, Len(s) \in Nat, Len(t) \in Nat, Len(u) \in Nat,
           Begins(s, t), Begins(t, u)
    PROVE  Begins(s, u)
<1>1. Len(s) <= Len(t) /\ Len(t) <= Len(u)
  BY DEF Begins
<1>2. ASSUME NEW j \in 1 .. Len(s)
      PROVE  u[j] = s[j]
  <2>1. j \in 1 .. Len(t)
    BY <1>1
  <2>2. t[j] = s[j] /\ u[j] = t[j]
    BY <2>1, Zenon DEF Begins
  <2> QED BY <2>2
<1>3. Len(s) <= Len(u)
  BY <1>1
<1> QED BY <1>2, <1>3, Zenon DEF Begins

\* Later fields leave earlier ones in place.
LEMMA FramedGrows ==
    ASSUME NEW U, NEW fields \in Seq(Seq(U)), NEW f, Framed(f, fields, U)
    PROVE  \A k \in 0 .. Len(fields) : Begins(f[k], f[Len(fields)])
<1> DEFINE n == Len(fields)
           S == {m \in 0 .. n : \A k \in 0 .. m : Begins(f[k], f[m])}
<1>1. n \in Nat /\ \A k \in 0 .. n : f[k] \in Seq(U) /\ Len(f[k]) \in Nat
  BY DEF Framed
<1>2. \A k \in 0 .. n : Begins(f[k], f[k])
  BY <1>1 DEF Begins
<1>3. 0 \in S
  BY <1>1, <1>2
<1>4. ASSUME NEW m \in 0 .. (n - 1), m \in S
      PROVE  m + 1 \in S
  <2>1. m + 1 \in 1 .. n /\ (m + 1) - 1 = m /\ m + 1 \in 0 .. n /\ m \in 0 .. n
    BY <1>1
  <2>2. Begins(f[m], f[m + 1])
    <3>1. Begins(f[(m + 1) - 1], f[m + 1])
      BY <2>1 DEF Framed
    <3> QED BY <2>1, <3>1, Zenon
  <2>3. ASSUME NEW k \in 0 .. m
        PROVE  Begins(f[k], f[m + 1])
    <3>1. Begins(f[k], f[m])
      BY <1>4
    <3>2. k \in 0 .. n
      BY <2>1
    <3>3. Len(f[k]) \in Nat /\ Len(f[m]) \in Nat /\ Len(f[m + 1]) \in Nat
      BY <1>1, <2>1, <3>2
    <3> QED BY <2>2, <3>1, <3>3, BeginsFurther, Zenon
  <2>4. \A k \in 0 .. (m + 1) : Begins(f[k], f[m + 1])
    <3>1. Begins(f[m + 1], f[m + 1])
      BY <1>2, <2>1
    <3>2. \A k \in 0 .. (m + 1) : k \in 0 .. m \/ k = m + 1
      OBVIOUS
    <3> QED BY <2>3, <3>1, <3>2, Zenon
  <2> QED BY <2>1, <2>4
<1>5. n \in S
  <2>1. n \in 0 .. n
    BY <1>1
  <2> HIDE DEF n, S
  <2> QED BY <1>1, <1>3, <1>4, <2>1, CountUp
<1> QED BY <1>5

-----------------------------------------------------------------------------
(* Reading it back.                                                        *)

At(bytes, i, read) == [bytes |-> bytes, i |-> i, ok |-> TRUE, read |-> read]

\* A piece of a byte string, position by position.
LEMMA Piece ==
    ASSUME NEW U, NEW bytes \in Seq(U), NEW a \in Nat, NEW len \in Nat, a + len <= Len(bytes)
    PROVE  LET p == SubSeq(bytes, a + 1, a + len)
           IN  /\ p \in Seq(U) /\ Len(p) = len
               /\ \A j \in 1 .. len : p[j] = bytes[a + j]
<1> DEFINE p == SubSeq(bytes, a + 1, a + len)
<1>1. \A i \in (a + 1) .. (a + len) : bytes[i] \in U
  OBVIOUS
<1>2. (a + len) - (a + 1) + 1 = len
  OBVIOUS
<1>3. /\ p \in Seq(U)
      /\ Len(p) = IF a + 1 <= a + len THEN (a + len) - (a + 1) + 1 ELSE 0
      /\ \A j \in 1 .. ((a + len) - (a + 1) + 1) : p[j] = bytes[(a + 1) + j - 1]
  <2> DEFINE x == a + 1
             y == a + len
  <2>1. x \in Int /\ y \in Int /\ \A i \in x .. y : bytes[i] \in U
    BY <1>1
  <2> HIDE DEF x, y
  <2>2. /\ SubSeq(bytes, x, y) \in Seq(U)
        /\ Len(SubSeq(bytes, x, y)) = IF x <= y THEN y - x + 1 ELSE 0
        /\ \A i \in 1 .. (y - x + 1) : SubSeq(bytes, x, y)[i] = bytes[x + i - 1]
    BY <2>1, SubSeqProperties
  <2> QED BY <2>2 DEF x, y
<1> HIDE DEF p
<1>4. Len(p) = len
  BY <1>3
<1>5. ASSUME NEW j \in 1 .. len
      PROVE  p[j] = bytes[a + j]
  <2>1. j \in 1 .. ((a + len) - (a + 1) + 1) /\ (a + 1) + j - 1 = a + j
    OBVIOUS
  <2> QED BY <1>3, <2>1
<1> QED BY <1>3, <1>4, <1>5 DEF p

\* read_bytes takes the field that lies at the cursor.
LEMMA ReadField ==
    ASSUME NEW U, NEW bytes \in Seq(U), NEW i \in Nat, NEW read, NEW field \in Seq(U),
           i + 1 + Len(field) <= Len(bytes),
           bytes[i + 1] = Len(field),
           \A j \in 1 .. Len(field) : bytes[i + 1 + j] = field[j]
    PROVE  ReadBytes(At(bytes, i, read)) = At(bytes, i + 1 + Len(field), Append(read, field))
<1> DEFINE cur == At(bytes, i, read)
           at == i + 1
           end == at + Len(field)
<1>1. at \in Nat /\ end \in Nat /\ Len(field) \in Nat /\ Len(bytes) \in Nat
      /\ at <= Len(bytes) /\ end <= Len(bytes) /\ end = i + 1 + Len(field)
  OBVIOUS
<1>2. cur.bytes = bytes /\ cur.i = i /\ cur.ok = TRUE /\ cur.read = read
  BY DEF At
<1>3. SubSeq(bytes, at + 1, end) = field
  <2> DEFINE p == SubSeq(bytes, at + 1, at + Len(field))
  <2>1. p \in Seq(U) /\ Len(p) = Len(field) /\ \A j \in 1 .. Len(field) : p[j] = bytes[at + j]
    <3> DEFINE len == Len(field)
    <3>1. at \in Nat /\ len \in Nat /\ at + len <= Len(bytes)
      BY <1>1
    <3> HIDE DEF at, len
    <3>2. LET q == SubSeq(bytes, at + 1, at + len)
          IN  q \in Seq(U) /\ Len(q) = len /\ \A j \in 1 .. len : q[j] = bytes[at + j]
      BY <3>1, Piece, SMTT(30)
    <3> QED BY <3>2 DEF len
  <2> HIDE DEF at
  <2>2. \A j \in 1 .. Len(field) : bytes[at + j] = field[j]
    BY DEF at
  <2> HIDE DEF p
  <2>3. p = field
    BY <2>1, <2>2, SeqEqual
  <2> QED BY <2>3 DEF p
<1>4. ReadBytes(cur) = [cur EXCEPT !.i = end, !.read = Append(read, field)]
  <2> HIDE DEF cur
  <2>1. cur.i + 1 = at /\ cur.bytes[at] = Len(field) /\ at + cur.bytes[at] = end
    BY <1>2
  <2>2. ~(at > Len(bytes)) /\ ~(end > Len(bytes))
    BY <1>1
  <2> HIDE DEF at, end
  <2> QED BY <1>2, <1>3, <2>1, <2>2 DEF ReadBytes
<1>5. [cur EXCEPT !.i = end, !.read = Append(read, field)] = At(bytes, end, Append(read, field))
  <2> DEFINE t == TRUE
             g == Append(read, field)
  <2> HIDE DEF t, g, end
  <2> DEFINE x == [bytes |-> bytes, i |-> i, ok |-> t, read |-> read]
             y == [x EXCEPT !.i = end]
  <2>1. y = [bytes |-> bytes, i |-> end, ok |-> t, read |-> read]
    OBVIOUS
  <2> HIDE DEF y
  <2>2. [y EXCEPT !.read = g] = [bytes |-> bytes, i |-> end, ok |-> t, read |-> g]
    BY <2>1
  <2>3. [x EXCEPT !.i = end, !.read = g] = [bytes |-> bytes, i |-> end, ok |-> t, read |-> g]
    BY <2>2 DEF y
  <2> QED BY <2>3, Zenon DEF At, t, g
<1> QED BY <1>1, <1>4, <1>5

\* What frame wrote behind any prefix is read back, to its end.
LEMMA Unpacked ==
    ASSUME NEW U, Nat \subseteq U, NEW fields \in Seq(Seq(U)), NEW prefix \in Seq(U),
           \A i \in 1 .. Len(fields) : Len(fields[i]) < LenModulus
    PROVE  LET bytes == prefix \o Frame(fields)
           IN  ReadMany(bytes, Len(prefix), Len(fields)) = At(bytes, Len(bytes), fields)
<1> DEFINE n == Len(fields)
           p == Len(prefix)
           fr == Frame(fields)
           bytes == prefix \o fr
<1>1. /\ n \in Nat /\ p \in Nat
      /\ \A k \in 1 .. n : fields[k] \in Seq(U) /\ Len(fields[k]) \in Nat
  OBVIOUS
<1>2. PICK f : Framed(f, fields, U) /\ fr = f[n]
  BY FrameWrites
<1>3. fr \in Seq(U)
  BY FrameWrites
<1>4. \A k \in 0 .. n : f[k] \in Seq(U) /\ Len(f[k]) \in Nat /\ Begins(f[k], fr)
  <2>1. \A k \in 0 .. n : Begins(f[k], fr)
    <3>1. \A k \in 0 .. Len(fields) : Begins(f[k], f[Len(fields)])
      BY <1>2, FramedGrows
    <3> QED BY <1>2, <3>1, Zenon
  <2>2. \A k \in 0 .. n : f[k] \in Seq(U)
    BY <1>2 DEF Framed
  <2> QED BY <2>1, <2>2
<1> HIDE DEF fr
<1>5. /\ bytes \in Seq(U) /\ Len(bytes) = p + Len(fr) /\ Len(fr) \in Nat
      /\ \A j \in 1 .. Len(fr) : bytes[p + j] = fr[j]
  BY <1>3, Joined
<1> HIDE DEF bytes
<1>6. PICK c : Reads(c, bytes, p, n) /\ ReadMany(bytes, p, n) = c[n]
  BY <1>1, ReadsExist
<1> DEFINE Good(k) == c[k] = At(bytes, p + Len(f[k]), SubSeq(fields, 1, k))
           S == {k \in 0 .. n : Good(k)}
<1>7. 0 \in S
  <2>1. f[0] = <<>>
    BY <1>2 DEF Framed
  <2>2. SubSeq(fields, 1, 0) = <<>>
    BY SubSeqEmpty
  <2>3. c[0] = At(bytes, p, <<>>)
    BY <1>6 DEF Reads, Start, At
  <2>4. p + Len(f[0]) = p
    BY <1>1, <2>1
  <2>5. Good(0)
    BY <2>2, <2>3, <2>4, Zenon
  <2> HIDE DEF Good
  <2> QED BY <1>1, <2>5
<1>8. ASSUME NEW m \in 0 .. (n - 1), m \in S
      PROVE  m + 1 \in S
  <2> DEFINE k == m + 1
             field == fields[k]
             i == p + Len(f[m])
             read == SubSeq(fields, 1, m)
  <2>1. k \in 1 .. n /\ k - 1 = m /\ m \in 0 .. n /\ k \in 0 .. n
    BY <1>1
  <2>2. c[m] = At(bytes, i, read)
    BY <1>8
  <2>3. c[k] = ReadBytes(At(bytes, i, read))
    <3> HIDE DEF k, i, read
    <3>1. c[k] = ReadBytes(c[k - 1])
      BY <1>6, <2>1 DEF Reads
    <3> QED BY <2>1, <2>2, <3>1, Zenon
  <2>4. /\ Len(f[k]) = Len(f[m]) + 1 + Len(field)
        /\ f[k][Len(f[m]) + 1] = Len(field)
        /\ \A j \in 1 .. Len(field) : f[k][Len(f[m]) + 1 + j] = field[j]
    <3> HIDE DEF k
    <3>1. /\ Len(f[k]) = Len(f[k - 1]) + 1 + Len(fields[k])
          /\ f[k][Len(f[k - 1]) + 1] = Len(fields[k])
          /\ \A j \in 1 .. Len(fields[k]) : f[k][Len(f[k - 1]) + 1 + j] = fields[k][j]
      BY <1>2, <2>1 DEF Framed
    <3> QED BY <2>1, <3>1, Zenon
  <2>5. /\ field \in Seq(U) /\ Len(field) \in Nat /\ Len(f[m]) \in Nat
        /\ i \in Nat /\ Len(f[k]) \in Nat /\ Len(f[k]) <= Len(fr)
        /\ \A j \in 1 .. Len(f[k]) : fr[j] = f[k][j]
    BY <1>1, <1>4, <2>1, SMTT(30) DEF Begins
  <2>6. /\ i + 1 + Len(field) <= Len(bytes)
        /\ i + 1 + Len(field) = p + Len(f[k])
    <3>1. Len(bytes) = p + Len(fr) /\ Len(fr) \in Nat
      BY <1>5
    <3>2. Len(f[k]) = Len(f[m]) + 1 + Len(field)
      BY <2>4
    <3> HIDE DEF field, k
    <3> QED BY <1>1, <2>5, <3>1, <3>2
  <2>7. ASSUME NEW j \in 0 .. Len(field)
        PROVE  bytes[i + 1 + j] = f[k][Len(f[m]) + 1 + j]
    <3> DEFINE q == Len(f[m]) + 1 + j
    <3>1. Len(f[k]) = Len(f[m]) + 1 + Len(field)
      BY <2>4
    <3>2. q \in 1 .. Len(f[k]) /\ q \in 1 .. Len(fr) /\ i + 1 + j = p + q
      <4>1. Len(fr) \in Nat /\ Len(f[k]) \in Nat /\ Len(f[k]) <= Len(fr)
            /\ Len(field) \in Nat /\ Len(f[m]) \in Nat
        BY <1>5, <2>5
      <4> HIDE DEF field, k
      <4> QED BY <1>1, <3>1, <4>1
    <3> HIDE DEF q, k
    <3>3. bytes[p + q] = fr[q] /\ fr[q] = f[k][q]
      BY <1>5, <2>5, <3>2
    <3>4. bytes[i + 1 + j] = f[k][q]
      BY <3>2, <3>3, Zenon
    <3> QED BY <3>4 DEF q
  <2>8. bytes[i + 1] = Len(field)
    <3>1. 0 \in 0 .. Len(field) /\ i + 1 + 0 = i + 1 /\ Len(f[m]) + 1 + 0 = Len(f[m]) + 1
      BY <2>5
    <3>2. bytes[i + 1 + 0] = f[k][Len(f[m]) + 1 + 0]
      BY <2>7, <3>1, Zenon
    <3> HIDE DEF field, k, i
    <3> QED BY <2>4, <3>1, <3>2, Zenon
  <2>9. ASSUME NEW j \in 1 .. Len(field)
        PROVE  bytes[i + 1 + j] = field[j]
    <3>1. j \in 0 .. Len(field)
      BY <2>5
    <3> HIDE DEF field, k, i
    <3> QED BY <2>4, <2>7, <3>1, Zenon
  <2>10. Append(read, field) = SubSeq(fields, 1, k)
    <3>1. field \in Seq(U) /\ fields \in Seq(Seq(U))
      BY <2>5
    <3> QED BY <1>1, <2>1, <3>1
  <2>11. c[k] = At(bytes, i + 1 + Len(field), Append(read, field))
    <3> HIDE DEF field, i, k, read
    <3>1. bytes \in Seq(U) /\ i \in Nat /\ field \in Seq(U)
          /\ i + 1 + Len(field) <= Len(bytes)
      BY <1>5, <2>5, <2>6
    <3>2. ReadBytes(At(bytes, i, read)) = At(bytes, i + 1 + Len(field), Append(read, field))
      BY <2>8, <2>9, <3>1, ReadField
    <3> QED BY <2>3, <3>2, Zenon
  <2>12. Good(k)
    <3> HIDE DEF field, i, k, read
    <3> QED BY <2>6, <2>10, <2>11, Zenon
  <2> HIDE DEF Good
  <2> QED BY <2>1, <2>12
<1>9. n \in S
  <2>1. n \in 0 .. n
    BY <1>1
  <2> HIDE DEF n, S
  <2> QED BY <1>1, <1>7, <1>8, <2>1, CountUp
<1>10. SubSeq(fields, 1, n) = fields
  BY SubSeqFull
<1>11. p + Len(f[n]) = Len(bytes)
  BY <1>2, <1>5
<1>12. c[n] = At(bytes, Len(bytes), fields)
  <2> HIDE DEF n
  <2> QED BY <1>9, <1>10, <1>11
<1> QED BY <1>6, <1>12 DEF bytes, fr

-----------------------------------------------------------------------------
(* Reading any byte string.                                                *)

Failed(cur) == cur.ok = FALSE /\ "ok" \in DOMAIN cur

\* A cursor that failed stays failed.
LEMMA StaysFailed ==
    ASSUME NEW cur, Failed(cur)
    PROVE  Failed(ReadBytes(cur))
<1>1. ReadBytes(cur) = [cur EXCEPT !.ok = FALSE]
  BY DEF ReadBytes, Failed
<1> HIDE DEF ReadBytes
<1> QED BY <1>1 DEF Failed

\* A read succeeds exactly if the length at the cursor and the bytes it counts
\* are there.
LEMMA ReadAnywhere ==
    ASSUME NEW bytes \in Seq(Nat), NEW i \in 0 .. Len(bytes), NEW read
    PROVE  LET cur == ReadBytes(At(bytes, i, read))
               end == i + 1 + bytes[i + 1]
               field == SubSeq(bytes, i + 1 + 1, end)
           IN  IF i < Len(bytes) /\ end <= Len(bytes)
                 THEN /\ cur = At(bytes, end, Append(read, field))
                      /\ field \in Seq(Nat) /\ Len(field) = bytes[i + 1]
                      /\ \A j \in 1 .. Len(field) : field[j] = bytes[i + 1 + j]
                      /\ end \in 0 .. Len(bytes) /\ bytes[i + 1] \in Nat
                 ELSE Failed(cur)
<1> DEFINE old == At(bytes, i, read)
           len == bytes[i + 1]
           at == i + 1
           end == i + 1 + len
           field == SubSeq(bytes, i + 1 + 1, end)
<1>1. i \in Nat /\ Len(bytes) \in Nat /\ at \in Nat
  OBVIOUS
<1>2. CASE i < Len(bytes) /\ end <= Len(bytes)
  <2>1. len \in Nat
    BY <1>1, <1>2
  <2> HIDE DEF len
  <2>2. end = at + len /\ at + len <= Len(bytes) /\ end \in 0 .. Len(bytes)
    BY <1>1, <1>2, <2>1
  <2>3. /\ field \in Seq(Nat) /\ Len(field) = len
        /\ \A j \in 1 .. len : field[j] = bytes[at + j]
    <3> HIDE DEF at
    <3>1. LET p == SubSeq(bytes, at + 1, at + len)
          IN  p \in Seq(Nat) /\ Len(p) = len /\ \A j \in 1 .. len : p[j] = bytes[at + j]
      BY <1>1, <2>1, <2>2, Piece
    <3> QED BY <3>1 DEF at
  <2> HIDE DEF field
  <2>4. ReadBytes(old) = At(bytes, i + 1 + Len(field), Append(read, field))
    <3>1. /\ i + 1 + Len(field) <= Len(bytes)
          /\ bytes[i + 1] = Len(field)
          /\ \A j \in 1 .. Len(field) : bytes[i + 1 + j] = field[j]
      BY <2>2, <2>3 DEF len
    <3>2. PICK U : U = Nat
      OBVIOUS
    <3>3. bytes \in Seq(U) /\ field \in Seq(U) /\ i \in Nat
      BY <1>1, <2>3, <3>2
    <3> HIDE DEF old
    <3>4. ReadBytes(At(bytes, i, read)) = At(bytes, i + 1 + Len(field), Append(read, field))
      BY <3>1, <3>3, ReadField
    <3> QED BY <3>4 DEF old
  <2> QED BY <1>2, <2>1, <2>2, <2>3, <2>4 DEF len, field
<1>3. CASE ~(i < Len(bytes) /\ end <= Len(bytes))
  <2>1. /\ old.bytes = bytes /\ old.i = i /\ old.ok = TRUE
        /\ "ok" \in DOMAIN old
    BY DEF At
  <2> HIDE DEF old
  <2>2. ReadBytes(old) = [old EXCEPT !.ok = FALSE]
    <3>1. CASE ~(i < Len(bytes))
      <4>1. at > Len(bytes)
        BY <1>1, <3>1
      <4> QED BY <2>1, <4>1 DEF ReadBytes
    <3>2. CASE i < Len(bytes)
      <4>1. len \in Nat
        BY <1>1, <3>2
      <4>2. end > Len(bytes) /\ end = at + len
        <5> HIDE DEF len
        <5> QED BY <1>1, <1>3, <3>2, <4>1
      <4> QED BY <2>1, <4>2 DEF ReadBytes
    <3> QED BY <3>1, <3>2
  <2>3. Failed(ReadBytes(old))
    <3> HIDE DEF ReadBytes
    <3> QED BY <2>1, <2>2 DEF Failed
  <2> QED BY <1>3, <2>3 DEF old
<1> QED BY <1>2, <1>3

\* The fields are the pieces between the positions, each behind its length.
Pieces(bytes, at, fields, n) ==
    /\ at \in [1 .. (n + 1) -> 0 .. Len(bytes)]
    /\ at[1] = 0
    /\ fields \in Seq(Seq(Nat)) /\ Len(fields) = n
    /\ \A k \in 1 .. n :
          /\ at[k] < Len(bytes) /\ bytes[at[k] + 1] \in Nat
          /\ at[k + 1] = at[k] + 1 + bytes[at[k] + 1]
          /\ Len(fields[k]) = bytes[at[k] + 1]
          /\ \A j \in 1 .. Len(fields[k]) : fields[k][j] = bytes[at[k] + 1 + j]

\* One more piece.
LEMMA OnePiece ==
    ASSUME NEW bytes \in Seq(Nat), NEW n \in Nat, NEW at, NEW fields, Pieces(bytes, at, fields, n),
           NEW field \in Seq(Nat), NEW end \in 0 .. Len(bytes),
           at[n + 1] < Len(bytes), bytes[at[n + 1] + 1] \in Nat,
           end = at[n + 1] + 1 + bytes[at[n + 1] + 1],
           Len(field) = bytes[at[n + 1] + 1],
           \A j \in 1 .. Len(field) : field[j] = bytes[at[n + 1] + 1 + j]
    PROVE  \E at2 : /\ Pieces(bytes, at2, Append(fields, field), n + 1)
                    /\ at2[(n + 1) + 1] = end
<1> DEFINE m == n + 1
           at2 == [k \in 1 .. (m + 1) |-> IF k <= m THEN at[k] ELSE end]
           fields2 == Append(fields, field)
<1>1. m \in Nat /\ m >= 1 /\ m + 1 \in Nat
  OBVIOUS
<1>2. at \in [1 .. m -> 0 .. Len(bytes)] /\ at[1] = 0 /\ fields \in Seq(Seq(Nat)) /\ Len(fields) = n
  BY DEF Pieces
<1>3. /\ \A k \in 1 .. m : at2[k] = at[k]
      /\ at2[m + 1] = end
      /\ at2 \in [1 .. (m + 1) -> 0 .. Len(bytes)]
  <2> HIDE DEF m
  <2>1. ASSUME NEW k \in 1 .. m
        PROVE  k \in 1 .. (m + 1) /\ k <= m
    BY <1>1
  <2>2. \A k \in 1 .. m : at2[k] = at[k]
    BY <2>1, Zenon
  <2>3. m + 1 \in 1 .. (m + 1) /\ ~(m + 1 <= m)
    BY <1>1
  <2>4. at2[m + 1] = end
    BY <2>3, Zenon
  <2>5. ASSUME NEW k \in 1 .. (m + 1)
        PROVE  at2[k] \in 0 .. Len(bytes)
    <3>1. CASE k <= m
      <4>1. k \in 1 .. m
        BY <1>1, <3>1
      <4> HIDE DEF at2
      <4> QED BY <1>2, <2>2, <4>1
    <3>2. CASE ~(k <= m)
      BY <3>2
    <3> QED BY <3>1, <3>2
  <2>6. at2 \in [1 .. (m + 1) -> 0 .. Len(bytes)]
    BY <2>5, Zenon
  <2> QED BY <2>2, <2>4, <2>6
<1>4. /\ fields2 \in Seq(Seq(Nat)) /\ Len(fields2) = m
      /\ \A k \in 1 .. n : fields2[k] = fields[k]
      /\ fields2[m] = field
  <2>1. /\ fields2 \in Seq(Seq(Nat)) /\ Len(fields2) = Len(fields) + 1
        /\ \A k \in 1 .. Len(fields) : fields2[k] = fields[k]
        /\ fields2[Len(fields) + 1] = field
    <3> DEFINE T == Seq(Nat)
    <3>1. fields \in Seq(T) /\ field \in T
      BY <1>2
    <3> HIDE DEF T
    <3>2. /\ fields2 \in Seq(T) /\ Len(fields2) = Len(fields) + 1
          /\ \A k \in 1 .. Len(fields) : fields2[k] = fields[k]
          /\ fields2[Len(fields) + 1] = field
      BY <3>1, AppendProperties
    <3> QED BY <3>2 DEF T
  <2> QED BY <1>2, <2>1, Zenon
<1> HIDE DEF at2, fields2
<1>5. ASSUME NEW k \in 1 .. m
      PROVE  /\ at2[k] < Len(bytes) /\ bytes[at2[k] + 1] \in Nat
             /\ at2[k + 1] = at2[k] + 1 + bytes[at2[k] + 1]
             /\ Len(fields2[k]) = bytes[at2[k] + 1]
             /\ \A j \in 1 .. Len(fields2[k]) : fields2[k][j] = bytes[at2[k] + 1 + j]
  <2>1. CASE k \in 1 .. n
    <3>1. k + 1 \in 1 .. m
      BY <2>1
    <3>2. at2[k] = at[k] /\ at2[k + 1] = at[k + 1] /\ fields2[k] = fields[k]
      BY <1>3, <1>4, <2>1, <3>1
    <3>3. /\ at[k] < Len(bytes) /\ bytes[at[k] + 1] \in Nat
          /\ at[k + 1] = at[k] + 1 + bytes[at[k] + 1]
          /\ Len(fields[k]) = bytes[at[k] + 1]
          /\ \A j \in 1 .. Len(fields[k]) : fields[k][j] = bytes[at[k] + 1 + j]
      BY <2>1 DEF Pieces
    <3> QED BY <3>2, <3>3, Zenon
  <2>2. CASE k = m
    <3>1. m \in 1 .. m
      BY <1>1
    <3>2. at2[m] = at[m] /\ at2[m + 1] = end /\ fields2[m] = field
      BY <1>3, <1>4, <3>1
    <3> QED BY <2>2, <3>2, Zenon
  <2>3. k \in 1 .. n \/ k = m
    OBVIOUS
  <2> QED BY <2>1, <2>2, <2>3
<1>6. at2[1] = 0
  BY <1>1, <1>2, <1>3
<1>7. Pieces(bytes, at2, fields2, m)
  <2> HIDE DEF m
  <2> QED BY <1>3, <1>4, <1>5, <1>6 DEF Pieces
<1> QED BY <1>3, <1>7 DEF fields2

\* As long as no read failed, what was read is pieces of the byte string.
LEMMA ReadsPieces ==
    ASSUME NEW bytes \in Seq(Nat), NEW n \in Nat, NEW c, Reads(c, bytes, 0, n)
    PROVE  \/ Failed(c[n])
           \/ \E at, fields : Pieces(bytes, at, fields, n) /\ c[n] = At(bytes, at[n + 1], fields)
<1> DEFINE Good(k) == \/ Failed(c[k])
                      \/ \E at, fields : /\ Pieces(bytes, at, fields, k)
                                         /\ c[k] = At(bytes, at[k + 1], fields)
           S == {k \in 0 .. n : Good(k)}
<1>1. 0 \in S
  <2> DEFINE at == [k \in 1 .. (0 + 1) |-> 0]
             none == <<>>
  <2>1. at[0 + 1] = 0 /\ at[1] = 0 /\ at \in [1 .. (0 + 1) -> 0 .. Len(bytes)]
    OBVIOUS
  <2> HIDE DEF at
  <2>2. none \in Seq(Seq(Nat)) /\ Len(none) = 0
    OBVIOUS
  <2>3. Pieces(bytes, at, none, 0)
    BY <2>1, <2>2 DEF Pieces
  <2>4. c[0] = At(bytes, at[0 + 1], none)
    BY <2>1 DEF Reads, Start, At
  <2> HIDE DEF none
  <2>5. Good(0)
    BY <2>3, <2>4
  <2> HIDE DEF Good
  <2> QED BY <2>5
<1>2. ASSUME NEW m \in 0 .. (n - 1), m \in S
      PROVE  m + 1 \in S
  <2> DEFINE k == m + 1
  <2>1. k \in 1 .. n /\ k - 1 = m /\ k \in 0 .. n /\ m \in Nat
    OBVIOUS
  <2>2. c[k] = ReadBytes(c[m])
    <3> HIDE DEF k
    <3>1. c[k] = ReadBytes(c[k - 1])
      BY <2>1 DEF Reads
    <3> QED BY <2>1, <3>1, Zenon
  <2>3. CASE Failed(c[m])
    <3>1. Failed(c[k])
      BY <2>2, <2>3, StaysFailed
    <3> QED BY <2>1, <3>1
  <2>4. ASSUME NEW at, NEW fields, Pieces(bytes, at, fields, m), c[m] = At(bytes, at[m + 1], fields)
        PROVE  m + 1 \in S
    <3> DEFINE i == at[m + 1]
               end == i + 1 + bytes[i + 1]
               field == SubSeq(bytes, i + 1 + 1, end)
    <3>1. i \in 0 .. Len(bytes)
      BY <2>1, <2>4 DEF Pieces
    <3>2. IF i < Len(bytes) /\ end <= Len(bytes)
            THEN /\ c[k] = At(bytes, end, Append(fields, field))
                 /\ field \in Seq(Nat) /\ Len(field) = bytes[i + 1]
                 /\ \A j \in 1 .. Len(field) : field[j] = bytes[i + 1 + j]
                 /\ end \in 0 .. Len(bytes) /\ bytes[i + 1] \in Nat
            ELSE Failed(c[k])
      <4>1. c[k] = ReadBytes(At(bytes, i, fields))
        BY <2>2, <2>4
      <4> HIDE DEF i, k
      <4> QED BY <3>1, <4>1, ReadAnywhere
    <3> HIDE DEF field
    <3>3. CASE i < Len(bytes) /\ end <= Len(bytes)
      <4>1. PICK at2 : Pieces(bytes, at2, Append(fields, field), m + 1) /\ at2[(m + 1) + 1] = end
        <5> HIDE DEF end
        <5>1. end = i + 1 + bytes[i + 1]
          BY DEF end
        <5> QED BY <2>1, <2>4, <3>2, <3>3, <5>1, OnePiece, SMTT(30)
      <4>2. c[k] = At(bytes, at2[k + 1], Append(fields, field))
        BY <3>2, <3>3, <4>1
      <4>3. Good(k)
        BY <4>1, <4>2
      <4> HIDE DEF Good
      <4> QED BY <2>1, <4>3
    <3>4. CASE ~(i < Len(bytes) /\ end <= Len(bytes))
      <4>1. Good(k)
        BY <3>2, <3>4
      <4> HIDE DEF Good
      <4> QED BY <2>1, <4>1
    <3> QED BY <3>3, <3>4
  <2> QED BY <1>2, <2>3, <2>4
<1>3. n \in S
  <2>1. n \in 0 .. n
    OBVIOUS
  <2> HIDE DEF S
  <2> QED BY <1>1, <1>2, <2>1, CountUp
<1> QED BY <1>3

\* Pieces that cover the byte string are what frame makes of them.
LEMMA PiecesFramed ==
    ASSUME NEW bytes \in Seq(Nat), NEW n \in Nat, NEW at, NEW fields,
           Pieces(bytes, at, fields, n), at[n + 1] = Len(bytes), Len(bytes) < LenModulus
    PROVE  Frame(fields) = bytes
<1>1. /\ at \in [1 .. (n + 1) -> 0 .. Len(bytes)] /\ at[1] = 0
      /\ fields \in Seq(Seq(Nat)) /\ Len(fields) = n /\ Len(bytes) \in Nat
  BY DEF Pieces
<1>2. ASSUME NEW k \in 1 .. n
      PROVE  /\ at[k] \in Nat /\ at[k + 1] \in Nat /\ at[k + 1] <= Len(bytes)
             /\ fields[k] \in Seq(Nat) /\ Len(fields[k]) \in Nat
             /\ at[k + 1] = at[k] + 1 + Len(fields[k])
             /\ bytes[at[k] + 1] = Len(fields[k])
             /\ \A j \in 1 .. Len(fields[k]) : fields[k][j] = bytes[at[k] + 1 + j]
  <2>1. k \in 1 .. (n + 1) /\ k + 1 \in 1 .. (n + 1) /\ k \in 1 .. Len(fields)
    BY <1>1
  <2>2. at[k] \in 0 .. Len(bytes) /\ at[k + 1] \in 0 .. Len(bytes) /\ fields[k] \in Seq(Nat)
    BY <1>1, <2>1
  <2>3. /\ at[k + 1] = at[k] + 1 + bytes[at[k] + 1]
        /\ Len(fields[k]) = bytes[at[k] + 1]
        /\ \A j \in 1 .. Len(fields[k]) : fields[k][j] = bytes[at[k] + 1 + j]
    BY DEF Pieces
  <2> QED BY <1>1, <2>2, <2>3
<1>3. ASSUME NEW k \in 1 .. Len(fields)
      PROVE  Len(fields[k]) < LenModulus
  <2>1. /\ at[k] \in Nat /\ at[k + 1] <= Len(bytes) /\ Len(fields[k]) \in Nat
        /\ at[k + 1] = at[k] + 1 + Len(fields[k])
    BY <1>1, <1>2
  <2> QED BY <1>1, <2>1, CodecsAssumption
<1>4. PICK f : Framed(f, fields, Nat) /\ Frame(fields) = f[n]
  <2>1. PICK U : U = Nat
    OBVIOUS
  <2>2. Nat \subseteq U /\ fields \in Seq(Seq(U))
    BY <1>1, <2>1
  <2>3. \E f : Framed(f, fields, U) /\ Frame(fields) = f[Len(fields)]
    BY <1>3, <2>2, FrameWrites
  <2> QED BY <1>1, <2>1, <2>3
<1>5. \A k \in 0 .. n : f[k] \in Seq(Nat) /\ Len(f[k]) \in Nat
  BY <1>1, <1>4 DEF Framed
<1> DEFINE Good(k) == Len(f[k]) = at[k + 1] /\ Begins(f[k], bytes)
           S == {k \in 0 .. n : Good(k)}
<1>6. 0 \in S
  <2>1. f[0] = <<>> /\ Len(f[0]) = 0
    BY <1>4 DEF Framed
  <2>2. at[0 + 1] = 0
    BY <1>1
  <2>3. Begins(f[0], bytes)
    BY <1>1, <2>1 DEF Begins
  <2> QED BY <2>1, <2>2, <2>3
<1>7. ASSUME NEW m \in 0 .. (n - 1), m \in S
      PROVE  m + 1 \in S
  <2> DEFINE k == m + 1
             a == at[k]
             len == Len(fields[k])
             new == f[k]
  <2>1. k \in 1 .. n /\ k - 1 = m /\ k \in 0 .. n /\ m \in 0 .. n
    OBVIOUS
  <2>2. Len(f[m]) = a /\ Begins(f[m], bytes)
    BY <1>7
  <2>3. /\ Begins(f[m], new)
        /\ Len(new) = a + 1 + len
        /\ new[a + 1] = len
        /\ \A j \in 1 .. len : new[a + 1 + j] = fields[k][j]
    <3> HIDE DEF k
    <3>1. /\ Begins(f[k - 1], f[k])
          /\ Len(f[k]) = Len(f[k - 1]) + 1 + Len(fields[k])
          /\ f[k][Len(f[k - 1]) + 1] = Len(fields[k])
          /\ \A j \in 1 .. Len(fields[k]) : f[k][Len(f[k - 1]) + 1 + j] = fields[k][j]
      BY <1>1, <1>4, <2>1 DEF Framed
    <3> QED BY <2>1, <2>2, <3>1, Zenon
  <2>4. /\ a \in Nat /\ at[k + 1] \in Nat /\ at[k + 1] <= Len(bytes) /\ len \in Nat
        /\ at[k + 1] = a + 1 + len
        /\ bytes[a + 1] = len
        /\ \A j \in 1 .. len : fields[k][j] = bytes[a + 1 + j]
    BY <1>2, <2>1
  <2>5. Len(new) = at[k + 1]
    BY <2>3, <2>4
  <2>6. ASSUME NEW j \in 1 .. Len(new)
        PROVE  bytes[j] = new[j]
    <3>1. Len(new) = a + 1 + len
      BY <2>3
    <3>2. \/ j \in 1 .. a
          \/ j = a + 1
          \/ j - (a + 1) \in 1 .. len /\ j = a + 1 + (j - (a + 1))
      <4>1. a \in Nat /\ len \in Nat
        BY <2>4
      <4> HIDE DEF a, len, new
      <4> QED BY <3>1, <4>1
    <3> HIDE DEF a, len, new
    <3>3. CASE j \in 1 .. a
      BY <2>2, <2>3, <3>3 DEF Begins
    <3>4. CASE j = a + 1
      BY <2>3, <2>4, <3>4, Zenon
    <3>5. CASE j - (a + 1) \in 1 .. len /\ j = a + 1 + (j - (a + 1))
      <4> DEFINE q == j - (a + 1)
      <4>1. q \in 1 .. len /\ j = a + 1 + q
        BY <3>5
      <4> HIDE DEF q
      <4>2. new[a + 1 + q] = fields[k][q] /\ fields[k][q] = bytes[a + 1 + q]
        BY <2>3, <2>4, <4>1, Zenon
      <4> QED BY <4>1, <4>2, Zenon
    <3> QED BY <3>2, <3>3, <3>4, <3>5
  <2>7. Begins(new, bytes)
    <3>1. Len(new) <= Len(bytes)
      BY <2>4, <2>5
    <3> QED BY <2>6, <3>1 DEF Begins
  <2>8. Good(k)
    BY <2>5, <2>7
  <2> HIDE DEF Good
  <2> QED BY <2>1, <2>8
<1>8. n \in S
  <2>1. n \in 0 .. n
    OBVIOUS
  <2> HIDE DEF S
  <2> QED BY <1>6, <1>7, <2>1, CountUp
<1>9. f[n] = bytes
  <2> DEFINE g == f[n]
  <2>1. g \in Seq(Nat) /\ Len(g) = Len(bytes) /\ \A j \in 1 .. Len(g) : g[j] = bytes[j]
    BY <1>5, <1>8 DEF Begins
  <2> HIDE DEF g
  <2>2. g = bytes
    BY <2>1, SeqEqual
  <2> QED BY <2>2 DEF g
<1> QED BY <1>4, <1>9

\* A byte string that is framed is read to its end.
LEMMA FramedIsRead ==
    ASSUME NEW bytes \in Seq(Nat), NEW n \in Nat, NEW c, Reads(c, bytes, 0, n), IsFramed(bytes, n)
    PROVE  \E read : c[n] = At(bytes, Len(bytes), read)
<1>1. PICK at \in [1 .. (n + 1) -> 0 .. Len(bytes)] :
        /\ at[1] = 0
        /\ at[n + 1] = Len(bytes)
        /\ \A i \in 1 .. n : at[i] < Len(bytes) /\ at[i + 1] = at[i] + 1 + bytes[at[i] + 1]
  BY DEF IsFramed
<1> DEFINE Good(k) == \E read : c[k] = At(bytes, at[k + 1], read)
           S == {k \in 0 .. n : Good(k)}
<1>2. 0 \in S
  <2>1. at[0 + 1] = 0
    BY <1>1
  <2>2. c[0] = At(bytes, at[0 + 1], <<>>)
    BY <2>1 DEF Reads, Start, At
  <2> QED BY <2>2
<1>3. ASSUME NEW m \in 0 .. (n - 1), m \in S
      PROVE  m + 1 \in S
  <2> DEFINE k == m + 1
             i == at[k]
             end == i + 1 + bytes[i + 1]
  <2>1. k \in 1 .. n /\ k - 1 = m /\ k \in 0 .. n /\ k \in 1 .. (n + 1) /\ k + 1 \in 1 .. (n + 1)
    OBVIOUS
  <2>2. PICK read : c[m] = At(bytes, i, read)
    BY <1>3
  <2>3. i \in 0 .. Len(bytes) /\ at[k + 1] \in 0 .. Len(bytes)
    BY <2>1
  <2>4. i < Len(bytes) /\ at[k + 1] = end
    BY <1>1, <2>1
  <2>5. end <= Len(bytes)
    <3> HIDE DEF end
    <3> QED BY <2>3, <2>4
  <2>6. c[k] = ReadBytes(At(bytes, i, read))
    <3> HIDE DEF k, i
    <3>1. c[k] = ReadBytes(c[k - 1])
      BY <2>1 DEF Reads
    <3> QED BY <2>1, <2>2, <3>1, Zenon
  <2>7. \E new : c[k] = At(bytes, at[k + 1], new)
    <3> HIDE DEF i, k
    <3>1. ReadBytes(At(bytes, i, read)) = At(bytes, end, Append(read, SubSeq(bytes, i + 1 + 1, end)))
      BY <2>3, <2>4, <2>5, ReadAnywhere
    <3> QED BY <2>4, <2>6, <3>1, Zenon
  <2> QED BY <2>1, <2>7
<1>4. n \in S
  <2>1. n \in 0 .. n
    OBVIOUS
  <2> HIDE DEF S
  <2> QED BY <1>2, <1>3, <2>1, CountUp
<1> QED BY <1>1, <1>4

\* unframe accepts what is framed and nothing else, and inverts frame.
LEMMA UnframeExact ==
    ASSUME NEW bytes \in Seq(Nat), NEW n \in Nat, Len(bytes) < LenModulus
    PROVE  /\ (Unframe(bytes, n) # None) <=> IsFramed(bytes, n)
           /\ Unframe(bytes, n) # None =>
                 Len(Unframe(bytes, n)) = n /\ Frame(Unframe(bytes, n)) = bytes
<1>1. PICK c : Reads(c, bytes, 0, n) /\ ReadMany(bytes, 0, n) = c[n]
  BY ReadsExist
<1> DEFINE cur == c[n]
<1>2. Unframe(bytes, n) = IF cur.ok /\ cur.i = Len(bytes) THEN cur.read ELSE None
  BY <1>1 DEF Unframe
<1>3. ASSUME IsFramed(bytes, n)
      PROVE  cur.ok = TRUE /\ cur.i = Len(bytes)
  <2>1. PICK read : cur = At(bytes, Len(bytes), read)
    BY <1>1, <1>3, FramedIsRead
  <2> QED BY <2>1 DEF At
<1>4. ASSUME cur.ok, cur.i = Len(bytes)
      PROVE  /\ IsFramed(bytes, n)
             /\ cur.read # None /\ Len(cur.read) = n /\ Frame(cur.read) = bytes
  <2>1. ~Failed(cur)
    BY <1>4 DEF Failed
  <2>2. PICK at, fields : Pieces(bytes, at, fields, n) /\ cur = At(bytes, at[n + 1], fields)
    BY <1>1, <2>1, ReadsPieces
  <2>3. cur.i = at[n + 1] /\ cur.read = fields
    BY <2>2 DEF At
  <2>4. at[n + 1] = Len(bytes)
    BY <1>4, <2>3
  <2>5. IsFramed(bytes, n)
    BY <2>2, <2>4 DEF IsFramed, Pieces
  <2>6. fields # None /\ Len(fields) = n
    BY <2>2, NoneAssumption DEF Pieces
  <2>7. Frame(fields) = bytes
    BY <2>2, <2>4, PiecesFramed
  <2> QED BY <2>3, <2>5, <2>6, <2>7
<1>5. CASE cur.ok /\ cur.i = Len(bytes)
  <2>1. Unframe(bytes, n) = cur.read
    BY <1>2, <1>5
  <2> QED BY <1>4, <1>5, <2>1
<1>6. CASE ~(cur.ok /\ cur.i = Len(bytes))
  <2>1. Unframe(bytes, n) = None
    BY <1>2, <1>6
  <2>2. ~IsFramed(bytes, n)
    BY <1>3, <1>6
  <2> QED BY <2>1, <2>2
<1> QED BY <1>5, <1>6

\* What frame wrote, unframe gives back.
LEMMA UnframeInverts ==
    ASSUME NEW fields \in Seq(Seq(Nat)),
           \A i \in 1 .. Len(fields) : Len(fields[i]) < LenModulus
    PROVE  Unframe(Frame(fields), Len(fields)) = fields
<1> DEFINE fr == Frame(fields)
           n == Len(fields)
<1>1. PICK U : U = Nat
  OBVIOUS
<1>2. Nat \subseteq U /\ fields \in Seq(Seq(U)) /\ <<>> \in Seq(U)
  BY <1>1
<1>3. fr \in Seq(U)
  BY <1>2, FrameWrites
<1>4. ReadMany(<<>> \o fr, Len(<<>>), n) = At(<<>> \o fr, Len(<<>> \o fr), fields)
  BY <1>2, Unpacked
<1>5. <<>> \o fr = fr /\ Len(<<>>) = 0
  BY <1>3, ConcatEmptySeq
<1> HIDE DEF fr, n
<1>6. ReadMany(fr, 0, n) = At(fr, Len(fr), fields)
  BY <1>4, <1>5, Zenon
<1>7. Unframe(fr, n) = fields
  BY <1>6 DEF Unframe, At
<1> QED BY <1>7 DEF fr, n

-----------------------------------------------------------------------------
(* Envelopes.                                                              *)

\* The cells of an envelope: bytes, and bytes sealed with a key.
Cell == Nat \cup ((Nat \X Nat) \X Nat)

\* The inner of an envelope before it is sealed.
Inner(inner, sender, payload) ==
    /\ inner \in Seq(Nat)
    /\ Len(inner) = INNER_PREFIX_LEN + Bucket(Len(payload))
    /\ Len(payload) + 3 <= Len(inner)
    /\ inner[1] = sender
    /\ inner[3] = Len(payload)
    /\ \A j \in 1 .. Len(payload) : inner[3 + j] = payload[j]

LEMMA PaddedInner ==
    ASSUME NEW sender \in Nat, NEW payload \in Seq(Nat), Len(payload) <= MaxPayload
    PROVE  LET inner == <<sender, sender, LenCell(payload)>> \o payload
               n == INNER_PREFIX_LEN + Bucket(Len(payload))
           IN  Inner([i \in 1 .. n |-> IF i <= Len(inner) THEN inner[i] ELSE 0], sender, payload)
<1> DEFINE len == Len(payload)
           h == <<sender, sender, len>>
           inner == h \o payload
           n == INNER_PREFIX_LEN + Bucket(len)
           padded == [i \in 1 .. n |-> IF i <= Len(inner) THEN inner[i] ELSE 0]
<1>1. len \in Nat /\ len \in 0 .. MaxPayload
  BY CodecsAssumption
<1>2. Bucket(len) \in Nat /\ len + 1 <= Bucket(len)
  BY <1>1, BucketIsLeast
<1>3. len < LenModulus /\ LenModulus \in Nat
  <2>1. HEADER_LEN + INNER_PREFIX_LEN + Bucket(len) < LenModulus
    BY <1>1, LengthsFit
  <2> QED BY <1>1, <1>2, <2>1, CodecsAssumption DEF HEADER_LEN, INNER_PREFIX_LEN
<1>4. LenCell(payload) = len
  <2> HIDE DEF len
  <2>1. len % LenModulus = len
    BY <1>1, <1>3, SmallRemainder
  <2> QED BY <2>1 DEF LenCell, len
<1>5. h \in Seq(Nat) /\ Len(h) = 3 /\ h[1] = sender /\ h[3] = len
  BY <1>1
<1> HIDE DEF h
<1>6. /\ inner \in Seq(Nat) /\ Len(inner) = 3 + len
      /\ \A i \in 1 .. 3 : inner[i] = h[i]
      /\ \A j \in 1 .. len : inner[3 + j] = payload[j]
  <2>1. PICK U : U = Nat
    OBVIOUS
  <2>2. h \in Seq(U) /\ payload \in Seq(U)
    BY <1>5, <2>1
  <2>3. /\ inner \in Seq(U)
        /\ Len(inner) = Len(h) + Len(payload)
        /\ \A i \in 1 .. Len(h) : inner[i] = h[i]
        /\ \A j \in 1 .. Len(payload) : inner[Len(h) + j] = payload[j]
    BY <2>2, Joined
  <2> HIDE DEF inner
  <2> QED BY <1>5, <2>1, <2>3
<1> HIDE DEF inner
<1>7. n \in Nat /\ Len(inner) <= n
  <2>1. Len(inner) = 3 + len
    BY <1>6
  <2> HIDE DEF len
  <2> QED BY <1>1, <1>2, <2>1 DEF INNER_PREFIX_LEN
<1>8. padded \in Seq(Nat) /\ Len(padded) = n
  <2> HIDE DEF n, len
  <2>1. ASSUME NEW i \in 1 .. n
        PROVE  (IF i <= Len(inner) THEN inner[i] ELSE 0) \in Nat
    <3>1. inner \in Seq(Nat)
      BY <1>6
    <3> QED BY <1>7, <3>1
  <2>2. padded \in [1 .. n -> Nat]
    BY <2>1, Zenon
  <2> HIDE DEF padded
  <2> QED BY <1>7, <2>2
<1>9. \A i \in 1 .. Len(inner) : padded[i] = inner[i]
  <2>1. ASSUME NEW i \in 1 .. Len(inner)
        PROVE  i \in 1 .. n /\ i <= Len(inner)
    <3>1. Len(inner) \in Nat
      BY <1>6
    <3> HIDE DEF n
    <3> QED BY <1>7, <3>1
  <2> HIDE DEF n
  <2> QED BY <2>1, Zenon
<1> HIDE DEF padded
<1>10. padded[1] = sender /\ padded[3] = len
  <2>1. 1 \in 1 .. Len(inner) /\ 3 \in 1 .. Len(inner) /\ 1 \in 1 .. 3 /\ 3 \in 1 .. 3
    BY <1>1, <1>6
  <2>2. inner[1] = h[1] /\ inner[3] = h[3]
    BY <1>6, <2>1
  <2>3. padded[1] = inner[1] /\ padded[3] = inner[3]
    BY <1>9, <2>1, Zenon
  <2> QED BY <1>5, <2>2, <2>3, Zenon
<1>11. ASSUME NEW j \in 1 .. len
       PROVE  padded[3 + j] = payload[j]
  <2>1. Len(inner) = 3 + len
    BY <1>6
  <2>2. 3 + j \in 1 .. Len(inner)
    <3> HIDE DEF len
    <3> QED BY <1>1, <2>1
  <2> HIDE DEF len
  <2> QED BY <1>6, <1>9, <2>2, Zenon
<1>12. len + 3 <= n
  BY <1>1, <1>2 DEF INNER_PREFIX_LEN
<1>13. Inner(padded, sender, payload)
  BY <1>8, <1>10, <1>11, <1>12 DEF Inner
<1> QED BY <1>4, <1>13 DEF padded, inner, h

\* What a sealed envelope is to whoever holds it.
Envelope(blob, inner, eph, recipient) ==
    /\ blob \in Seq(Cell)
    /\ Len(blob) = 2 + Len(inner)
    /\ Len(blob) < LenModulus
    /\ blob[1] = VERSION /\ blob[2] = eph
    /\ SubSeq(blob, HEADER_LEN + 1, Len(blob))
          = [i \in 1 .. Len(inner) |-> <<SealKey(eph, recipient), inner[i]>>]

LEMMA SealedEnvelope ==
    ASSUME NEW sender \in Nat, NEW recipient \in Nat, NEW eph \in Nat,
           NEW payload \in Seq(Nat), Len(payload) <= MaxPayload
    PROVE  \E inner : /\ Inner(inner, sender, payload)
                      /\ Envelope(SealEnvelope(sender, recipient, eph, payload), inner, eph, recipient)
<1> DEFINE bare == <<sender, sender, LenCell(payload)>> \o payload
           n == INNER_PREFIX_LEN + Bucket(Len(payload))
           inner == [i \in 1 .. n |-> IF i <= Len(bare) THEN bare[i] ELSE 0]
           key == SealKey(eph, recipient)
           cells == [i \in 1 .. Len(inner) |-> <<key, inner[i]>>]
           h == <<VERSION, eph>>
           blob == h \o cells
<1>1. Inner(inner, sender, payload)
  BY PaddedInner
<1>2. SealEnvelope(sender, recipient, eph, payload) = blob
  BY DEF SealEnvelope, AeadSeal
<1> HIDE DEF inner
<1>3. inner \in Seq(Nat) /\ Len(inner) \in Nat /\ Len(inner) = n
  BY <1>1 DEF Inner
<1>4. key \in Nat \X Nat
  BY DEF SealKey
<1> HIDE DEF key, n
<1>5. cells \in Seq(Cell) /\ Len(cells) = Len(inner)
  <2>1. ASSUME NEW i \in 1 .. Len(inner)
        PROVE  <<key, inner[i]>> \in Cell
    <3>1. inner[i] \in Nat
      BY <1>3
    <3> QED BY <1>4, <3>1 DEF Cell
  <2>2. cells \in [1 .. Len(inner) -> Cell]
    BY <2>1, Zenon
  <2> DEFINE len == Len(inner)
  <2>3. len \in Nat /\ cells \in [1 .. len -> Cell]
    BY <1>3, <2>2
  <2> HIDE DEF cells, len
  <2>4. cells \in Seq(Cell) /\ Len(cells) = len
    BY <2>3
  <2> QED BY <2>4 DEF len
<1> HIDE DEF cells
<1>6. h \in Seq(Cell) /\ Len(h) = 2 /\ h[1] = VERSION /\ h[2] = eph
  BY DEF Cell, VERSION
<1> HIDE DEF h
<1>7. /\ blob \in Seq(Cell) /\ Len(blob) = 2 + Len(inner)
      /\ blob[1] = VERSION /\ blob[2] = eph
      /\ \A j \in 1 .. Len(inner) : blob[2 + j] = cells[j]
  <2>1. /\ blob \in Seq(Cell) /\ Len(blob) = Len(h) + Len(cells)
        /\ \A i \in 1 .. Len(h) : blob[i] = h[i]
        /\ \A j \in 1 .. Len(cells) : blob[Len(h) + j] = cells[j]
    <3>1. h \in Seq(Cell) /\ cells \in Seq(Cell)
      BY <1>5, <1>6
    <3> QED BY <3>1, Joined
  <2> HIDE DEF blob
  <2>2. 1 \in 1 .. Len(h) /\ 2 \in 1 .. Len(h)
    BY <1>6
  <2> QED BY <1>5, <1>6, <2>1, <2>2
<1> HIDE DEF blob
<1>8. Len(blob) < LenModulus
  <2>1. Len(payload) \in 0 .. MaxPayload
    BY CodecsAssumption
  <2>2. Bucket(Len(payload)) \in Nat
    BY <2>1, BucketIsLeast
  <2>3. HEADER_LEN + INNER_PREFIX_LEN + Bucket(Len(payload)) < LenModulus
    BY <2>1, LengthsFit
  <2> QED BY <1>3, <1>7, <2>2, <2>3 DEF HEADER_LEN, INNER_PREFIX_LEN, n
<1>9. SubSeq(blob, HEADER_LEN + 1, Len(blob)) = cells
  <2> DEFINE len == Len(inner)
             p == SubSeq(blob, 2 + 1, 2 + len)
  <2>1. blob \in Seq(Cell) /\ len \in Nat /\ Len(blob) = 2 + len
    BY <1>3, <1>7
  <2> HIDE DEF len
  <2>2. p \in Seq(Cell) /\ Len(p) = len /\ \A j \in 1 .. len : p[j] = blob[2 + j]
    BY <2>1, Piece
  <2> HIDE DEF p
  <2>3. p = cells
    <3>1. \A j \in 1 .. len : p[j] = cells[j]
      BY <1>7, <2>2, Zenon DEF len
    <3>2. Len(cells) = len /\ cells \in Seq(Cell)
      BY <1>5 DEF len
    <3> QED BY <2>2, <3>1, <3>2, SeqEqual
  <2> QED BY <2>1, <2>3 DEF p, HEADER_LEN
<1>10. Envelope(blob, inner, eph, recipient)
  BY <1>7, <1>8, <1>9 DEF Envelope, cells, key
<1> QED BY <1>1, <1>2, <1>10

\* An envelope opens for its recipient, to what was sealed, and for nobody else.
LEMMA OpensOnlyForRecipient ==
    ASSUME NEW sender \in Nat, NEW recipient \in Nat, NEW eph \in Nat, NEW by \in Nat,
           NEW payload \in Seq(Nat), Len(payload) <= MaxPayload
    PROVE  OpenEnvelope(by, SealEnvelope(sender, recipient, eph, payload))
             = IF recipient = by THEN [sender |-> sender, payload |-> payload] ELSE None
<1> DEFINE blob == SealEnvelope(sender, recipient, eph, payload)
<1>1. PICK inner : Inner(inner, sender, payload) /\ Envelope(blob, inner, eph, recipient)
  BY SealedEnvelope
<1> DEFINE n == Len(inner)
           len == Len(payload)
           key == SealKey(eph, recipient)
           cells == SubSeq(blob, HEADER_LEN + 1, Len(blob))
           opened == AeadOpen(cells)
<1>2. /\ inner \in Seq(Nat) /\ n \in Nat /\ len \in Nat /\ len + 3 <= n
      /\ inner[1] = sender /\ inner[3] = len
      /\ \A j \in 1 .. len : inner[3 + j] = payload[j]
  BY <1>1 DEF Inner
<1>3. /\ Len(blob) = 2 + n /\ blob[1] = VERSION /\ blob[2] = eph
      /\ cells = [i \in 1 .. n |-> <<key, inner[i]>>]
  BY <1>1 DEF Envelope
<1> HIDE DEF blob, cells, key
<1>4. /\ Len(cells) = n
      /\ \A i \in 1 .. n : cells[i][1] = key /\ cells[i][2] = inner[i]
  BY <1>2, <1>3
<1>5. opened = inner
  <2>1. opened = [i \in 1 .. n |-> inner[i]]
    BY <1>4 DEF AeadOpen
  <2>2. inner = [i \in 1 .. n |-> inner[i]]
    BY <1>2
  <2> QED BY <2>1, <2>2
<1>6. \A k : AeadOpens(k, cells) <=> k = key
  <2>1. 1 \in 1 .. n
    BY <1>2
  <2> QED BY <1>4, <2>1 DEF AeadOpens
<1>7. SealKey(eph, by) = key <=> recipient = by
  BY DEF SealKey, key
<1>8. ~(Len(blob) <= HEADER_LEN)
  BY <1>2, <1>3 DEF HEADER_LEN
<1>9. SubSeq(inner, 3 + 1, 3 + len) = payload
  <2> DEFINE p == SubSeq(inner, 3 + 1, 3 + len)
  <2>1. PICK U : U = Nat
    OBVIOUS
  <2>2. inner \in Seq(U) /\ payload \in Seq(U) /\ 3 + len <= Len(inner) /\ len \in Nat
    BY <1>2, <2>1
  <2> HIDE DEF len
  <2>3. p \in Seq(U) /\ Len(p) = len /\ \A j \in 1 .. len : p[j] = inner[3 + j]
    BY <2>2, Piece
  <2> HIDE DEF p
  <2>4. \A j \in 1 .. len : p[j] = payload[j]
    BY <1>2, <2>3, Zenon
  <2>5. Len(payload) = len
    BY DEF len
  <2>6. p = payload
    BY <2>2, <2>3, <2>4, <2>5, SeqEqual
  <2> QED BY <2>6 DEF p
<1>10. /\ INNER_PREFIX_LEN + LEN_PREFIX = 3
       /\ ~(n < 3) /\ ~(len > n - 3)
  BY <1>2 DEF INNER_PREFIX_LEN, LEN_PREFIX
<1>11. OpenEnvelope(by, blob)
         = IF \/ Len(blob) <= HEADER_LEN
              \/ blob[1] # VERSION
              \/ ~AeadOpens(SealKey(blob[2], by), cells)
              \/ Len(opened) < 3
              \/ opened[3] > Len(opened) - 3
             THEN None
             ELSE [sender |-> opened[1], payload |-> SubSeq(opened, 3 + 1, 3 + opened[3])]
  BY <1>10 DEF OpenEnvelope, cells
<1>12. OpenEnvelope(by, blob)
         = IF ~AeadOpens(SealKey(eph, by), cells)
             THEN None
             ELSE [sender |-> sender, payload |-> payload]
  <2> HIDE DEF opened
  <2>1. opened[1] = sender /\ opened[3] = len /\ Len(opened) = n
    BY <1>2, <1>5, Zenon
  <2>2. SubSeq(opened, 3 + 1, 3 + opened[3]) = payload
    BY <1>5, <1>9, <2>1, Zenon
  <2>3. blob[1] = VERSION /\ blob[2] = eph
    BY <1>3
  <2>4. ~(Len(opened) < 3) /\ ~(opened[3] > Len(opened) - 3)
    BY <1>10, <2>1, Zenon
  <2> HIDE DEF n, len
  <2> QED BY <1>8, <1>11, <2>1, <2>2, <2>3, <2>4, Zenon
<1> QED BY <1>6, <1>7, <1>12 DEF blob

\* What the FFI packs, the app unpacks.
LEMMA ListUnpacked ==
    ASSUME NEW U, Nat \subseteq U, NEW items \in Seq(Seq(U)), Len(items) < LenModulus,
           \A i \in 1 .. Len(items) : Len(items[i]) < LenModulus
    PROVE  DecodeByteList(EncodeByteList(items)) = items
<1> DEFINE n == Len(items)
           h == <<n>>
           fr == Frame(items)
           bytes == h \o fr
<1>1. n \in Nat /\ n % LenModulus = n
  <2>1. n \in Nat /\ n < LenModulus /\ LenModulus \in Nat
    BY CodecsAssumption
  <2> HIDE DEF n
  <2> QED BY <2>1, SmallRemainder
<1>2. EncodeByteList(items) = bytes
  BY <1>1 DEF EncodeByteList, LenCell
<1>3. h \in Seq(U) /\ Len(h) = 1 /\ h[1] = n
  BY <1>1
<1> HIDE DEF h
<1>4. fr \in Seq(U)
  BY FrameWrites
<1>5. /\ Len(bytes) = Len(h) + Len(fr)
      /\ \A i \in 1 .. Len(h) : bytes[i] = h[i]
  <2>1. h \in Seq(U) /\ fr \in Seq(U)
    BY <1>3, <1>4
  <2> HIDE DEF fr
  <2> QED BY <2>1, Joined
<1>6. bytes[1] = n /\ ~(Len(bytes) < 1)
  <2>1. Len(fr) \in Nat /\ 1 \in 1 .. Len(h)
    BY <1>3, <1>4
  <2> HIDE DEF bytes, fr, n
  <2> QED BY <1>3, <1>5, <2>1
<1>7. ReadMany(bytes, 1, n) = At(bytes, Len(bytes), items)
  <2>1. ReadMany(bytes, Len(h), n) = At(bytes, Len(bytes), items)
    BY <1>3, Unpacked
  <2> HIDE DEF bytes, n
  <2> QED BY <1>3, <2>1, Zenon
<1> HIDE DEF bytes
<1>8. DecodeByteList(bytes) = items
  <2>1. DecodeByteList(bytes)
          = LET cur == At(bytes, Len(bytes), items) IN IF cur.ok THEN cur.read ELSE None
    BY <1>6, <1>7 DEF DecodeByteList
  <2> QED BY <2>1 DEF At
<1> QED BY <1>2, <1>8

\* Mail that was sealed, packed for the app and unpacked comes to its recipient
\* exactly as it was sent, and to nobody else, for every payload: seal_envelope
\* and open_envelope, encode_byte_list and decodeByteList.
THEOREM MailDeliveredIntact == Spec => []DeliveredIntact
<1>1. Init => DeliveredIntact
  BY DEF Init, DeliveredIntact, Finished
<1>2. ASSUME JobsInv, Poll
      PROVE  DeliveredIntact'
  <2>1. job.kind = "poll" /\ job' = job
    BY <1>2 DEF Poll
  <2>2. /\ job.sender \in Nat /\ job.by \in Nat
        /\ \A i \in 1 .. 2 : job.to[i] \in Nat /\ job.payloads[i] \in Payload
    <3>1. job \in PollJobs
      BY <1>2, <2>1, JobTypes
    <3>2. job.sender \in Account /\ job.by \in Account
          /\ job.to \in Account \X Account /\ job.payloads \in Payload \X Payload
      BY <3>1 DEF PollJobs
    <3>3. /\ job.to[1] \in Account /\ job.to[2] \in Account
          /\ job.payloads[1] \in Payload /\ job.payloads[2] \in Payload
      BY <3>2
    <3>4. \A i \in 1 .. 2 : i = 1 \/ i = 2
      OBVIOUS
    <3> QED BY <3>2, <3>3, <3>4, CodecsAssumption
  <2>3. ASSUME NEW i \in 1 .. 2
        PROVE  /\ job.payloads[i] \in Seq(Nat) /\ Len(job.payloads[i]) <= MaxPayload
               /\ i \in Nat
    <3>1. job.payloads[i] \in Seq(Nat) /\ Len(job.payloads[i]) \in 0 .. MaxPayload
      BY <2>2, PayloadType
    <3> QED BY <3>1, CodecsAssumption
  <2> DEFINE blob(i) == SealEnvelope(job.sender, job.to[i], i, job.payloads[i])
             items == <<blob(1), blob(2)>>
  <2>4. ASSUME NEW i \in 1 .. 2
        PROVE  /\ blob(i) \in Seq(Cell) /\ Len(blob(i)) < LenModulus
               /\ OpenEnvelope(job.by, blob(i))
                     = IF job.to[i] = job.by
                         THEN [sender |-> job.sender, payload |-> job.payloads[i]]
                         ELSE None
    <3>1. /\ job.sender \in Nat /\ job.by \in Nat /\ job.to[i] \in Nat /\ i \in Nat
          /\ job.payloads[i] \in Seq(Nat) /\ Len(job.payloads[i]) <= MaxPayload
      BY <2>2, <2>3
    <3>2. \E inner : Envelope(blob(i), inner, i, job.to[i])
      BY <3>1, SealedEnvelope
    <3>3. OpenEnvelope(job.by, blob(i))
            = IF job.to[i] = job.by
                THEN [sender |-> job.sender, payload |-> job.payloads[i]]
                ELSE None
      <4> DEFINE from == job.sender
                 to == job.to[i]
                 by == job.by
                 payload == job.payloads[i]
      <4>1. /\ from \in Nat /\ by \in Nat /\ to \in Nat /\ i \in Nat
            /\ payload \in Seq(Nat) /\ Len(payload) <= MaxPayload
        BY <3>1
      <4> HIDE DEF from, to, by, payload
      <4>2. OpenEnvelope(by, SealEnvelope(from, to, i, payload))
              = IF to = by THEN [sender |-> from, payload |-> payload] ELSE None
        BY <4>1, OpensOnlyForRecipient
      <4> QED BY <4>2 DEF from, to, by, payload
    <3> QED BY <3>2, <3>3 DEF Envelope
  <2>5. out' = LET received == DecodeByteList(EncodeByteList(items))
               IN  [i \in 1 .. Len(received) |-> OpenEnvelope(job.by, received[i])]
    BY <1>2 DEF Poll
  <2>6. 1 \in 1 .. 2 /\ 2 \in 1 .. 2 /\ \A i \in 1 .. 2 : i = 1 \/ i = 2
    OBVIOUS
  <2>7. blob(1) \in Seq(Cell) /\ blob(2) \in Seq(Cell)
    BY <2>4, <2>6, Zenon
  <2> HIDE DEF blob
  <2>8. /\ items \in Seq(Seq(Cell)) /\ Len(items) = 2
        /\ items[1] = blob(1) /\ items[2] = blob(2)
    BY <2>7
  <2> HIDE DEF items
  <2>9. \A i \in 1 .. 2 : items[i] = blob(i)
    BY <2>6, <2>8, Zenon
  <2>10. DecodeByteList(EncodeByteList(items)) = items
    <3>1. Len(items) < LenModulus
      BY <2>8, LengthsFit, CodecsAssumption
    <3>2. \A i \in 1 .. Len(items) : Len(items[i]) < LenModulus
      BY <2>4, <2>8, <2>9
    <3>3. Nat \subseteq Cell
      BY DEF Cell
    <3> QED BY <2>8, <3>1, <3>2, <3>3, ListUnpacked
  <2>11. out' = [i \in 1 .. 2 |-> OpenEnvelope(job.by, items[i])]
    BY <2>5, <2>8, <2>10, Zenon
  <2>12. out' = [i \in 1 .. 2 |->
                   IF job.to[i] = job.by
                     THEN [sender |-> job.sender, payload |-> job.payloads[i]]
                     ELSE None]
    BY <2>4, <2>9, <2>11, Zenon
  <2> QED BY <2>1, <2>12 DEF DeliveredIntact
<1>3. ASSUME DeliveredIntact, ReadFields \/ Import \/ UNCHANGED <<job, out>>
      PROVE  DeliveredIntact'
  BY <1>3 DEF DeliveredIntact, Finished, ReadFields, Import
<1> QED BY <1>1, <1>2, <1>3, JobsInvariance, PTL DEF Spec, Next

-----------------------------------------------------------------------------
(* Exported clients.                                                       *)

Entry(store, order) == [i \in 1 .. Len(order) |-> <<order[i], store[order[i]]>>]

\* The flat list of entries: keys at odd positions, each before its value.
LEMMA EntriesFlat ==
    ASSUME NEW keys \in SUBSET Seq(Nat), NEW store \in [keys -> Seq(Nat)], NEW order \in Seq(keys)
    PROVE  LET entries == FlattenSeq(Entry(store, order))
           IN  /\ entries \in Seq(Seq(Nat)) /\ Len(entries) = 2 * Len(order)
               /\ \A j \in 1 .. Len(order) : /\ entries[2 * j - 1] = order[j]
                                            /\ entries[2 * j] = store[order[j]]
<1> DEFINE n == Len(order)
           s == Entry(store, order)
<1>1. PICK U : U = Seq(Nat)
  OBVIOUS
<1>2. n \in Nat /\ \A i \in 1 .. n : order[i] \in U /\ store[order[i]] \in U
  BY <1>1
<1>3. \A i \in 1 .. n : s[i] = <<order[i], store[order[i]]>>
  BY DEF Entry
<1>4. s \in Seq(Seq(U)) /\ Len(s) = n
  <2>1. \A i \in 1 .. n : <<order[i], store[order[i]]>> \in Seq(U)
    BY <1>2
  <2> HIDE DEF n
  <2>2. s \in [1 .. n -> Seq(U)]
    BY <2>1, Zenon DEF Entry, n
  <2> HIDE DEF s
  <2> QED BY <1>2, <2>2
<1> HIDE DEF s
<1>5. PICK f : Writes(f, s, U) /\ FlattenSeq(s) = f[n]
  BY <1>4, FlattensExist
<1> DEFINE Good(k) == /\ f[k] \in Seq(U) /\ Len(f[k]) = 2 * k
                      /\ \A j \in 1 .. k : /\ f[k][2 * j - 1] = order[j]
                                           /\ f[k][2 * j] = store[order[j]]
           S == {k \in 0 .. n : Good(k)}
<1>6. 0 \in S
  <2>1. f[0] = <<>>
    BY <1>5 DEF Writes
  <2>2. Good(0)
    BY <2>1
  <2> HIDE DEF Good
  <2> QED BY <1>2, <2>2
<1>7. ASSUME NEW m \in 0 .. (n - 1), m \in S
      PROVE  m + 1 \in S
  <2> DEFINE k == m + 1
             old == f[m]
             new == f[k]
             e == <<order[k], store[order[k]]>>
  <2>1. k \in 1 .. n /\ k - 1 = m /\ k \in 0 .. n /\ m \in Nat
    BY <1>2
  <2>2. new = old \o e
    <3> HIDE DEF k
    <3>1. f[k] = f[k - 1] \o s[k]
      BY <1>4, <1>5, <2>1 DEF Writes
    <3>2. s[k] = <<order[k], store[order[k]]>>
      BY <1>3, <2>1
    <3> QED BY <2>1, <3>1, <3>2, Zenon
  <2>3. /\ old \in Seq(U) /\ Len(old) = 2 * m
        /\ \A j \in 1 .. m : old[2 * j - 1] = order[j] /\ old[2 * j] = store[order[j]]
    BY <1>7
  <2>4. e \in Seq(U) /\ Len(e) = 2 /\ e[1] = order[k] /\ e[2] = store[order[k]]
    <3>1. order[k] \in U /\ store[order[k]] \in U
      BY <1>2, <2>1
    <3> HIDE DEF k
    <3> QED BY <3>1
  <2> HIDE DEF e, old
  <2>5. /\ new \in Seq(U) /\ Len(new) = Len(old) + Len(e)
        /\ \A i \in 1 .. Len(old) : new[i] = old[i]
        /\ \A j \in 1 .. Len(e) : new[Len(old) + j] = e[j]
    <3>1. old \in Seq(U) /\ e \in Seq(U)
      BY <2>3, <2>4
    <3>2. /\ old \o e \in Seq(U) /\ Len(old \o e) = Len(old) + Len(e)
          /\ \A i \in 1 .. Len(old) : (old \o e)[i] = old[i]
          /\ \A j \in 1 .. Len(e) : (old \o e)[Len(old) + j] = e[j]
      BY <3>1, Joined
    <3> HIDE DEF new
    <3> QED BY <2>2, <3>2, Zenon
  <2>6. Len(new) = 2 * k
    <3>1. Len(new) = Len(old) + Len(e) /\ Len(old) = 2 * m /\ Len(e) = 2
      BY <2>3, <2>4, <2>5
    <3> HIDE DEF new
    <3> QED BY <2>1, <3>1
  <2>7. ASSUME NEW j \in 1 .. k
        PROVE  new[2 * j - 1] = order[j] /\ new[2 * j] = store[order[j]]
    <3> HIDE DEF new
    <3>1. CASE j \in 1 .. m
      <4>1. 2 * j - 1 \in 1 .. Len(old) /\ 2 * j \in 1 .. Len(old)
        <5>1. Len(old) = 2 * m
          BY <2>3
        <5> QED BY <2>1, <3>1, <5>1
      <4>2. new[2 * j - 1] = old[2 * j - 1] /\ new[2 * j] = old[2 * j]
        BY <2>5, <4>1, Zenon
      <4> QED BY <2>3, <3>1, <4>2, Zenon
    <3>2. CASE j = k
      <4>1. /\ 1 \in 1 .. Len(e) /\ 2 \in 1 .. Len(e)
            /\ 2 * k - 1 = Len(old) + 1 /\ 2 * k = Len(old) + 2
        <5>1. Len(old) = 2 * m /\ Len(e) = 2
          BY <2>3, <2>4
        <5> QED BY <2>1, <5>1
      <4>2. new[Len(old) + 1] = e[1] /\ new[Len(old) + 2] = e[2]
        BY <2>5, <4>1, Zenon
      <4> HIDE DEF k
      <4> QED BY <2>4, <3>2, <4>1, <4>2, Zenon
    <3>3. j \in 1 .. m \/ j = k
      BY <2>1
    <3> QED BY <3>1, <3>2, <3>3
  <2>8. Good(k)
    BY <2>5, <2>6, <2>7
  <2> HIDE DEF Good
  <2> QED BY <2>1, <2>8
<1>8. n \in S
  <2>1. n \in 0 .. n
    BY <1>2
  <2> HIDE DEF S, n
  <2> QED BY <1>2, <1>6, <1>7, <2>1, CountUp
<1>9. Good(n)
  <2> HIDE DEF n, Good
  <2> QED BY <1>8
<1> HIDE DEF n
<1> QED BY <1>1, <1>5, <1>9 DEF s, n

\* The list holds each key of the store once, before its value.
Lists(read, store, keys, order, n) ==
    /\ store = [k \in keys |-> store[k]]
    /\ n \in Nat /\ Len(read) = 2 * n
    /\ \A j \in 1 .. n : order[j] \in keys
    /\ \A i, j \in 1 .. n : i # j => order[i] # order[j]
    /\ \A k \in keys : \E j \in 1 .. n : order[j] = k
    /\ \A j \in 1 .. n : read[2 * j - 1] = order[j] /\ read[2 * j] = store[order[j]]

\* Inserting the entries of a store gives the store, in whatever order.
LEMMA InsertedIsStore ==
    ASSUME NEW keys, NEW store, NEW n, NEW order, NEW read, Lists(read, store, keys, order, n)
    PROVE  Inserted(read) = store
<1> SUFFICES ASSUME store = [k \in keys |-> store[k]],
                    n \in Nat, Len(read) = 2 * n,
                    \A j \in 1 .. n : order[j] \in keys,
                    \A i, j \in 1 .. n : i # j => order[i] # order[j],
                    \A k \in keys : \E j \in 1 .. n : order[j] = k,
                    \A j \in 1 .. n : read[2 * j - 1] = order[j] /\ read[2 * j] = store[order[j]]
             PROVE  Inserted(read) = store
  BY Zenon DEF Lists
<1> DEFINE Keys == {i \in 1 .. Len(read) : i % 2 = 1}
           Final(k) == CHOOSE i \in Keys : read[i] = k /\ \A j \in Keys : read[j] = k => j <= i
<1>1. ASSUME NEW j \in 1 .. n
      PROVE  2 * j - 1 \in Keys
  BY Z3
<1>2. ASSUME NEW i \in Keys
      PROVE  \E j \in 1 .. n : i = 2 * j - 1
  <2>1. i \in 1 .. 2 * n /\ i % 2 = 1
    OBVIOUS
  <2> DEFINE q == i \div 2
  <2>2. q \in Int /\ i = 2 * q + 1
    BY <2>1
  <2> HIDE DEF q
  <2>3. q + 1 \in 1 .. n /\ i = 2 * (q + 1) - 1
    BY <2>1, <2>2
  <2> QED BY <2>3
<1> HIDE DEF Keys
<1>3. \A i \in Keys : read[i] \in keys
  BY <1>2
<1>4. \A k \in keys : \E i \in Keys : read[i] = k
  BY <1>1
<1>5. {read[i] : i \in Keys} = keys
  BY <1>3, <1>4
<1>6. ASSUME NEW k \in keys
      PROVE  read[Final(k) + 1] = store[k]
  <2>1. PICK j \in 1 .. n : order[j] = k
    OBVIOUS
  <2> DEFINE i == 2 * j - 1
  <2>2. i \in Keys /\ read[i] = k
    <3>1. 2 * j - 1 \in Keys
      BY <1>1
    <3>2. read[2 * j - 1] = order[j]
      OBVIOUS
    <3> QED BY <2>1, <3>1, <3>2
  <2>3. ASSUME NEW h \in Keys, read[h] = k
        PROVE  h = i
    <3>1. PICK g \in 1 .. n : h = 2 * g - 1
      BY <1>2
    <3>2. read[2 * g - 1] = order[g]
      OBVIOUS
    <3>3. order[g] = order[j]
      BY <2>1, <2>3, <3>1, <3>2, Zenon
    <3>4. g = j
      BY <3>3, Zenon
    <3> QED BY <3>1, <3>4
  <2>4. i \in Int /\ i + 1 = 2 * j
    OBVIOUS
  <2> HIDE DEF i
  <2>5. i <= i
    BY <2>4
  <2>6. Final(k) = i
    <3>1. \A h \in Keys : (read[h] = k /\ \A g \in Keys : read[g] = k => g <= h) <=> h = i
      BY <2>2, <2>3, <2>5, Zenon
    <3> QED BY <2>2, <3>1
  <2> HIDE DEF Final
  <2>7. read[i + 1] = store[k]
    BY <2>1, <2>4, Zenon
  <2> QED BY <2>6, <2>7
<1> HIDE DEF Final
<1>7. [k \in {read[i] : i \in Keys} |-> read[Final(k) + 1]] = store
  BY <1>5, <1>6, Zenon
<1> QED BY <1>7 DEF Inserted, Final, Keys

\* Short fields make a short frame.
LEMMA FrameLength ==
    ASSUME NEW fields \in Seq(Seq(Nat)), 2 < LenModulus,
           \A i \in 1 .. Len(fields) : Len(fields[i]) <= 2
    PROVE  Len(Frame(fields)) \in 0 .. 3 * Len(fields)
<1> DEFINE n == Len(fields)
<1>1. n \in Nat /\ \A i \in 1 .. n : Len(fields[i]) \in 0 .. 2
  <2>1. ASSUME NEW i \in 1 .. n
        PROVE  Len(fields[i]) \in 0 .. 2
    <3>1. fields[i] \in Seq(Nat) /\ Len(fields[i]) <= 2
      OBVIOUS
    <3> DEFINE x == Len(fields[i])
    <3>2. x \in Nat /\ x <= 2
      BY <3>1
    <3> HIDE DEF x
    <3>3. x \in 0 .. 2
      BY <3>2
    <3> QED BY <3>3 DEF x
  <2> QED BY <2>1
<1>2. PICK U : U = Nat
  OBVIOUS
<1>3. Nat \subseteq U /\ fields \in Seq(Seq(U))
  BY <1>2
<1>4. \A i \in 1 .. n : Len(fields[i]) < LenModulus
  BY <1>1, CodecsAssumption
<1>5. PICK f : Framed(f, fields, U) /\ Frame(fields) = f[n]
  BY <1>3, <1>4, FrameWrites
<1> DEFINE S == {k \in 0 .. n : Len(f[k]) \in 0 .. 3 * k}
<1>6. 0 \in S
  <2>1. f[0] = <<>>
    BY <1>5 DEF Framed
  <2>2. Len(f[0]) = 0
    BY <2>1
  <2> QED BY <1>1, <2>2
<1>7. ASSUME NEW m \in 0 .. (n - 1), m \in S
      PROVE  m + 1 \in S
  <2> DEFINE k == m + 1
  <2>1. k \in 1 .. n /\ k - 1 = m /\ k \in 0 .. n /\ m \in Nat
    BY <1>1
  <2>2. Len(f[k]) = Len(f[m]) + 1 + Len(fields[k])
    <3> HIDE DEF k
    <3>1. Len(f[k]) = Len(f[k - 1]) + 1 + Len(fields[k])
      BY <1>5, <2>1 DEF Framed
    <3> QED BY <2>1, <3>1, Zenon
  <2>3. Len(f[m]) \in 0 .. 3 * m /\ Len(fields[k]) \in 0 .. 2
    BY <1>1, <1>7, <2>1
  <2>4. Len(f[k]) \in 0 .. 3 * k
    <3> DEFINE x == Len(f[m])
               y == Len(fields[k])
    <3>1. x \in 0 .. 3 * m /\ y \in 0 .. 2 /\ Len(f[k]) = x + 1 + y
      BY <2>2, <2>3
    <3> HIDE DEF x, y
    <3>2. x + 1 + y \in 0 .. 3 * k
      BY <2>1, <3>1
    <3> HIDE DEF k
    <3> QED BY <3>1, <3>2
  <2> QED BY <2>1, <2>4
<1>8. n \in S
  <2>1. n \in 0 .. n
    BY <1>1
  <2> HIDE DEF S, n
  <2> QED BY <1>1, <1>6, <1>7, <2>1, CountUp
<1> QED BY <1>5, <1>8

\* What a job holds of a store.
LEMMA FieldFacts ==
    /\ Field \subseteq Seq(Nat)
    /\ \A x \in Field : Len(x) \in 0 .. 2
    /\ \A keys \in SUBSET Field :
          IsFiniteSet(keys) /\ Cardinality(keys) \in 0 .. 3
<1> DEFINE a == <<0>>
           b == <<1, 2>>
           z == <<>>
<1>1. /\ z \in Seq(Nat) /\ Len(z) = 0
      /\ a \in Seq(Nat) /\ Len(a) = 1
      /\ b \in Seq(Nat) /\ Len(b) = 2
  OBVIOUS
<1>2. Field = {z, a, b}
  BY DEF Field
<1> HIDE DEF a, b, z
<1>3. IsFiniteSet(Field) /\ Cardinality(Field) <= 3
  <2>1. IsFiniteSet({z}) /\ Cardinality({z}) = 1
    BY FS_Singleton
  <2> DEFINE T == {z} \cup {a}
  <2>2. /\ IsFiniteSet(T)
        /\ Cardinality(T) = IF a \in {z} THEN Cardinality({z}) ELSE Cardinality({z}) + 1
    BY <2>1, FS_AddElement
  <2>3. Cardinality(T) \in Nat /\ Cardinality(T) <= 2
    BY <2>1, <2>2
  <2> HIDE DEF T
  <2>4. /\ IsFiniteSet(T \cup {b})
        /\ Cardinality(T \cup {b}) = IF b \in T THEN Cardinality(T) ELSE Cardinality(T) + 1
    BY <2>2, FS_AddElement
  <2>5. Field = T \cup {b}
    BY <1>2 DEF T
  <2> QED BY <2>3, <2>4, <2>5
<1>4. ASSUME NEW keys \in SUBSET Field
      PROVE  IsFiniteSet(keys) /\ Cardinality(keys) \in 0 .. 3
  <2>1. IsFiniteSet(keys) /\ Cardinality(keys) <= Cardinality(Field)
    BY <1>3, FS_Subset
  <2>2. Cardinality(keys) \in Nat /\ Cardinality(Field) \in Nat
    BY <1>3, <2>1, FS_CardinalityType
  <2> QED BY <1>3, <2>1, <2>2
<1> QED BY <1>1, <1>2, <1>4

\* A client that was exported is imported as it was.
LEMMA ImportInverts ==
    ASSUME NEW keys \in SUBSET Field, NEW store \in [keys -> Field],
           NEW order \in SetToSeqs(keys), NEW identity \in Field, NEW public \in keys
    PROVE  ImportState(ExportState(identity, public, store, order))
             = [identity |-> identity, public |-> public, store |-> store]
<1> DEFINE n == Len(order)
           entries == FlattenSeq(Entry(store, order))
           h == <<n>>
           fr == Frame(entries)
           list == h \o fr
           parts == <<identity, public, list>>
<1>1. /\ keys \in SUBSET Seq(Nat) /\ store \in [keys -> Seq(Nat)] /\ identity \in Seq(Nat)
      /\ Len(identity) \in 0 .. 2 /\ public \in Seq(Nat) /\ Len(public) \in 0 .. 2
      /\ IsFiniteSet(keys) /\ Cardinality(keys) \in 0 .. 3
      /\ 19 < LenModulus /\ LenModulus \in Nat
  BY FieldFacts, LengthsFit, CodecsAssumption
<1>2. /\ order \in [1 .. Cardinality(keys) -> keys]
      /\ \A i, j \in 1 .. Cardinality(keys) : i # j => order[i] # order[j]
  BY DEF SetToSeqs
<1>3. n = Cardinality(keys) /\ order \in Seq(keys)
  <2> DEFINE m == Cardinality(keys)
  <2>1. m \in Nat /\ order \in [1 .. m -> keys]
    BY <1>1, <1>2
  <2> HIDE DEF m
  <2>2. Len(order) = m /\ order \in Seq(keys)
    BY <2>1
  <2> QED BY <2>2 DEF m
<1>4. n \in 0 .. 3 /\ n \in Nat
  BY <1>1, <1>3
<1>5. \A k \in keys : \E j \in 1 .. n : order[j] = k
  <2> HIDE DEF n
  <2>1. order \in Injection(1 .. n, keys)
    BY <1>2, <1>3 DEF Injection, IsInjective
  <2>2. Cardinality(1 .. n) = n
    <3>1. Cardinality(1 .. n) = IF 1 > n THEN 0 ELSE n - 1 + 1
      BY <1>4, FS_Interval
    <3> QED BY <1>4, <3>1
  <2>3. order \in Surjection(1 .. n, keys)
    BY <1>1, <1>3, <2>1, <2>2, FS_Injection
  <2> QED BY <2>3 DEF Surjection
<1>6. /\ entries \in Seq(Seq(Nat)) /\ Len(entries) = 2 * n
      /\ \A j \in 1 .. n : entries[2 * j - 1] = order[j] /\ entries[2 * j] = store[order[j]]
  BY <1>1, <1>3, EntriesFlat
<1>7. \A j \in 1 .. n : order[j] \in keys
  BY <1>2, <1>3
<1>8. Inserted(entries) = store
  <2> HIDE DEF n, entries
  <2>1. store = [k \in keys |-> store[k]]
    OBVIOUS
  <2>2. \A i, j \in 1 .. n : i # j => order[i] # order[j]
    BY <1>2, <1>3
  <2>3. n \in Nat /\ Len(entries) = 2 * n
    BY <1>4, <1>6
  <2>4. \A j \in 1 .. n : entries[2 * j - 1] = order[j] /\ entries[2 * j] = store[order[j]]
    BY <1>6
  <2>5. Lists(entries, store, keys, order, n)
    BY <1>5, <1>7, <2>1, <2>2, <2>3, <2>4, Zenon DEF Lists
  <2> QED BY <2>5, InsertedIsStore
<1>9. ASSUME NEW i \in 1 .. Len(entries)
      PROVE  Len(entries[i]) \in 0 .. 2
  <2>1. PICK j \in 1 .. n : i = 2 * j - 1 \/ i = 2 * j
    <3>1. i \in 1 .. 2 * n
      BY <1>6
    <3> HIDE DEF n
    <3> DEFINE q == i \div 2
    <3>2. q \in Int /\ (i = 2 * q \/ i = 2 * q + 1)
      BY <1>4, <3>1
    <3> HIDE DEF q
    <3>3. CASE i = 2 * q
      BY <1>4, <3>1, <3>2, <3>3
    <3>4. CASE i = 2 * q + 1
      <4>1. q + 1 \in 1 .. n /\ i = 2 * (q + 1) - 1
        BY <1>4, <3>1, <3>2, <3>4
      <4> QED BY <4>1
    <3> QED BY <3>2, <3>3, <3>4
  <2>2. order[j] \in Field /\ store[order[j]] \in Field
    BY <1>7
  <2>3. entries[i] = order[j] \/ entries[i] = store[order[j]]
    <3> HIDE DEF entries, n
    <3> QED BY <1>6, <2>1, Zenon
  <2> HIDE DEF entries, n
  <2> QED BY <2>2, <2>3, FieldFacts
<1> HIDE DEF entries
<1>10. ASSUME NEW i \in 1 .. Len(entries)
       PROVE  Len(entries[i]) < LenModulus /\ Len(entries[i]) <= 2
  <2> DEFINE x == Len(entries[i])
  <2>1. x \in 0 .. 2 /\ 19 < LenModulus /\ LenModulus \in Nat
    BY <1>1, <1>9
  <2> HIDE DEF x
  <2>2. x < LenModulus /\ x <= 2
    BY <2>1
  <2> QED BY <2>2 DEF x
<1>11. PICK U : U = Nat
  OBVIOUS
<1>12. Nat \subseteq U /\ entries \in Seq(Seq(U)) /\ h \in Seq(U) /\ Len(h) = 1 /\ h[1] = n
  <2> HIDE DEF n
  <2> QED BY <1>4, <1>6, <1>11
<1>13. fr \in Seq(U)
  BY <1>10, <1>12, FrameWrites
<1>14. Len(fr) \in 0 .. 18
  <2>1. Len(fr) \in 0 .. 3 * Len(entries)
    <3>1. 19 < LenModulus /\ LenModulus \in Nat
      BY <1>1
    <3>2. 2 < LenModulus
      BY <3>1
    <3>3. entries \in Seq(Seq(Nat)) /\ \A i \in 1 .. Len(entries) : Len(entries[i]) <= 2
      BY <1>6, <1>10
    <3> QED BY <3>2, <3>3, FrameLength
  <2>2. Len(entries) = 2 * n
    BY <1>6
  <2> DEFINE x == Len(fr)
  <2>3. x \in 0 .. 3 * (2 * n) /\ n \in 0 .. 3
    BY <1>4, <2>1, <2>2
  <2> HIDE DEF n, x
  <2>4. x \in 0 .. 18
    BY <2>3
  <2> QED BY <2>4 DEF x
<1> HIDE DEF h
<1>15. ReadMany(list, 1, 2 * n) = At(list, Len(list), entries)
  <2>1. ReadMany(list, Len(h), Len(entries)) = At(list, Len(list), entries)
    BY <1>10, <1>12, Unpacked
  <2>2. Len(entries) = 2 * n /\ Len(h) = 1
    BY <1>6, <1>12
  <2> HIDE DEF list, n
  <2> QED BY <2>1, <2>2, Zenon
<1> HIDE DEF fr
<1>16. list \in Seq(U) /\ Len(list) = 1 + Len(fr) /\ list[1] = n
  <2>1. h \in Seq(U) /\ fr \in Seq(U)
    BY <1>12, <1>13
  <2>2. /\ list \in Seq(U) /\ Len(list) = Len(h) + Len(fr)
        /\ \A i \in 1 .. Len(h) : list[i] = h[i]
    BY <2>1, Joined
  <2> HIDE DEF list, n
  <2>3. 1 \in 1 .. Len(h)
    BY <1>12
  <2> QED BY <1>12, <2>2, <2>3
<1> HIDE DEF list
<1>17. list \in Seq(Nat) /\ Len(list) \in 1 .. 19 /\ list # <<>>
  <2> DEFINE x == Len(fr)
             y == Len(list)
  <2>1. x \in 0 .. 18 /\ y = 1 + x
    BY <1>14, <1>16
  <2> HIDE DEF x, y
  <2>2. y \in 1 .. 19 /\ y # 0
    BY <2>1
  <2>3. list \in Seq(Nat)
    BY <1>11, <1>16
  <2>4. list # <<>>
    BY <2>2 DEF y
  <2> QED BY <2>2, <2>3, <2>4 DEF y
<1>18. /\ parts \in Seq(Seq(Nat)) /\ Len(parts) = 3
       /\ parts[1] = identity /\ parts[2] = public /\ parts[3] = list
  BY <1>1, <1>17
<1>19. ExportState(identity, public, store, order) = Frame(parts)
  <2>1. n % LenModulus = n
    <3> HIDE DEF n
    <3>1. n < LenModulus
      BY <1>1, <1>4
    <3> QED BY <1>1, <1>4, <3>1, SmallRemainder
  <2>2. LenCell(order) = n
    BY <2>1 DEF LenCell
  <2> QED BY <2>2, Zenon DEF ExportState, Entry, entries, list, h, fr
<1> HIDE DEF parts
<1>20. Unframe(Frame(parts), 3) = parts
  <2>1. ASSUME NEW i \in 1 .. Len(parts)
        PROVE  Len(parts[i]) < LenModulus
    <3>1. i = 1 \/ i = 2 \/ i = 3
      BY <1>18
    <3>2. Len(identity) < LenModulus /\ Len(public) < LenModulus /\ Len(list) < LenModulus
      <4> DEFINE x == Len(identity)
                 w == Len(public)
                 y == Len(list)
      <4>1. x \in 0 .. 2 /\ w \in 0 .. 2 /\ y \in 1 .. 19 /\ 19 < LenModulus /\ LenModulus \in Nat
        BY <1>1, <1>17
      <4> HIDE DEF x, w, y
      <4>2. x < LenModulus /\ w < LenModulus /\ y < LenModulus
        BY <4>1
      <4> QED BY <4>2 DEF x, w, y
    <3> QED BY <1>18, <3>1, <3>2, Zenon
  <2>2. Unframe(Frame(parts), Len(parts)) = parts
    BY <1>18, <2>1, UnframeInverts
  <2> QED BY <1>18, <2>2
<1>21. parts # None
  BY <1>18, NoneAssumption
<1>22. ReadEntries(list) = At(list, Len(list), entries)
  BY <1>15, <1>16, Zenon DEF ReadEntries
<1>23. ImportState(Frame(parts))
         = LET cur == At(list, Len(list), entries)
           IN  IF parts = None \/ list = <<>> THEN None
               ELSE IF ~cur.ok \/ cur.i # Len(list) THEN None
               ELSE IF ~HasSigner(Inserted(cur.read), public) THEN None
               ELSE [identity |-> identity, public |-> public, store |-> Inserted(cur.read)]
  <2> DEFINE cur == At(list, Len(list), entries)
  <2>1. parts[1] = identity /\ parts[2] = public /\ parts[3] = list
    BY <1>18
  <2>2. ImportState(Frame(parts))
          = IF parts = None \/ parts[3] = <<>> THEN None
            ELSE IF ~ReadEntries(parts[3]).ok \/ ReadEntries(parts[3]).i # Len(parts[3]) THEN None
            ELSE IF ~HasSigner(Inserted(ReadEntries(parts[3]).read), parts[2]) THEN None
            ELSE [identity |-> parts[1], public |-> parts[2],
                  store |-> Inserted(ReadEntries(parts[3]).read)]
    BY <1>20 DEF ImportState
  <2>3. ReadEntries(parts[3]) = cur
    BY <1>22, <2>1, Zenon
  <2> HIDE DEF cur
  <2> QED BY <2>1, <2>2, <2>3 DEF cur
<1>24. LET cur == At(list, Len(list), entries)
       IN  cur.ok = TRUE /\ cur.i = Len(list) /\ cur.read = entries
  BY DEF At
<1>25. HasSigner(Inserted(entries), public)
  <2>1. public \in DOMAIN store
    OBVIOUS
  <2> QED BY <1>8, <2>1, Zenon DEF HasSigner
<1>26. ImportState(Frame(parts))
         = [identity |-> identity, public |-> public, store |-> Inserted(entries)]
  BY <1>17, <1>21, <1>23, <1>24, <1>25
<1> QED BY <1>8, <1>19, <1>26, Zenon

\* unframe accepts exactly the byte strings that frame writes and gives back
\* what was framed, and a client comes back from its export as it was, for
\* every order in which the map is written: no byte string of any length makes
\* import_state of group/src/lib.rs read fields that nobody wrote.
THEOREM FramingInverts == Spec => []FramingExact
<1>1. Init => FramingExact
  BY DEF Init, FramingExact, Finished
<1>2. ASSUME JobsInv, ReadFields
      PROVE  FramingExact'
  <2>1. job.kind = "unframe" /\ job' = job
    BY <1>2 DEF ReadFields
  <2> DEFINE bytes == job.bytes
             n == job.count
  <2>2. bytes \in Buffer /\ n \in 0 .. 3
    BY <1>2, <2>1, JobTypes DEF FrameJobs
  <2>3. bytes \in Seq(Nat) /\ Len(bytes) < LenModulus /\ n \in Nat
    <3>1. PICK m \in 0 .. MaxBuffer : bytes \in [1 .. m -> Byte]
      BY <2>2 DEF Buffer
    <3>2. Byte \subseteq Nat /\ m \in Nat /\ m < LenModulus
      BY LengthsFit, CodecsAssumption DEF Byte
    <3>3. bytes \in [1 .. m -> Nat]
      BY <3>1, <3>2
    <3> HIDE DEF bytes, n
    <3>4. bytes \in Seq(Nat) /\ Len(bytes) = m
      BY <3>2, <3>3
    <3> QED BY <2>2, <3>2, <3>4
  <2>4. out'.fields = Unframe(bytes, n)
    <3>1. out' = [fields |-> Unframe(bytes, n)]
      BY <1>2 DEF ReadFields
    <3> HIDE DEF bytes, n
    <3> QED BY <3>1
  <2> HIDE DEF bytes, n
  <2>5. /\ (Unframe(bytes, n) # None) <=> IsFramed(bytes, n)
        /\ Unframe(bytes, n) # None =>
              Len(Unframe(bytes, n)) = n /\ Frame(Unframe(bytes, n)) = bytes
    BY <2>3, UnframeExact
  <2>6. (Unframe(bytes, n) # None) = IsFramed(bytes, n)
    BY <2>5 DEF IsFramed
  <2>7. /\ (out'.fields # None) = IsFramed(job'.bytes, job'.count)
        /\ out'.fields # None => Len(out'.fields) = job'.count /\ Frame(out'.fields) = job'.bytes
    BY <2>1, <2>4, <2>5, <2>6, Zenon DEF bytes, n
  <2>8. job'.kind # "import"
    BY <2>1
  <2> QED BY <2>7, <2>8, Zenon DEF FramingExact, Finished
<1>3. ASSUME JobsInv, Import
      PROVE  FramingExact'
  <2>1. job.kind = "import" /\ job' = job
    BY <1>3 DEF Import
  <2>2. PICK st \in Stores : job \in [kind : {"import"}, identity : Field,
                                       public : DOMAIN st, store : {st},
                                       order : SetToSeqs(DOMAIN st)]
    BY <1>3, <2>1, JobTypes
  <2>3. /\ job.identity \in Field /\ job.public \in DOMAIN st /\ job.store = st
        /\ job.order \in SetToSeqs(DOMAIN st)
    BY <2>2
  <2>4. PICK keys \in SUBSET Field : st \in [keys -> Field]
    BY DEF Stores
  <2>5. DOMAIN st = keys
    BY <2>4
  <2>6. ImportState(ExportState(job.identity, job.public, job.store, job.order))
          = [identity |-> job.identity, public |-> job.public, store |-> job.store]
    <3> DEFINE id == job.identity
               pub == job.public
               order == job.order
    <3>1. id \in Field /\ pub \in keys /\ order \in SetToSeqs(keys)
      BY <2>3, <2>5
    <3> HIDE DEF id, pub, order
    <3>2. ImportState(ExportState(id, pub, st, order))
            = [identity |-> id, public |-> pub, store |-> st]
      BY <2>4, <3>1, ImportInverts
    <3> QED BY <2>3, <3>2 DEF id, pub, order
  <2>7. out'.client = [identity |-> job.identity, public |-> job.public, store |-> job.store]
    <3>1. out' = [client |->
                    ImportState(ExportState(job.identity, job.public, job.store, job.order))]
      BY <1>3 DEF Import
    <3> QED BY <2>6, <3>1
  <2>8. job'.kind # "unframe"
    BY <2>1
  <2> QED BY <2>1, <2>7, <2>8, Zenon DEF FramingExact, Finished
<1>4. ASSUME FramingExact, Poll \/ UNCHANGED <<job, out>>
      PROVE  FramingExact'
  BY <1>4 DEF FramingExact, Finished, Poll
<1> QED BY <1>1, <1>2, <1>3, <1>4, JobsInvariance, PTL DEF Spec, Next
=============================================================================
