---------------------------- MODULE MeasuresProofs ----------------------------
(* Proofs about Measures.tla, for every kind and number of requests, all       *)
(* buckets, durations and levels, and every pattern of missing snapshots: the  *)
(* quantiles are the level's own, an SLO needs traffic, a price is that of the *)
(* tokens served, utilization is a fraction.                                   *)
EXTENDS Measures, DataLemmas

-----------------------------------------------------------------------------
(* Snapshots and what is counted in them.                                    *)

Bags == [Requests -> Nat]
Snapshots == Bags \cup {None}

\* What was served between two snapshots.
Gained(b, a, t) == \A r \in Requests : a[r] = b[r] + t[r]

LEMMA Snapshot == \A b \in Bags : b # None
  BY NoneAssumption DEF Bags

LEMMA TotalIsSum == \A w : Total(w) = SumOver(w, Requests)
  BY DEF Total, SumOver

LEMMA TotalType ==
  ASSUME NEW w \in Bags
  PROVE  Total(w) \in Nat /\ \A r \in Requests : w[r] <= Total(w)
  BY RequestsAssumption, TotalIsSum, SumOfNats DEF Bags

LEMMA TotalMonotone ==
  ASSUME NEW v \in Bags, NEW w \in Bags, \A r \in Requests : v[r] <= w[r]
  PROVE  Total(v) <= Total(w)
  <1>1. v \in [Requests -> Int] /\ w \in [Requests -> Int] /\ IsFiniteSet(Requests)
    BY RequestsAssumption DEF Bags
  <1> QED
    BY <1>1, TotalIsSum, SumMonotone

LEMMA TotalAdds ==
  ASSUME NEW u \in Bags, NEW v \in Bags, NEW w \in Bags, \A r \in Requests : w[r] = u[r] + v[r]
  PROVE  Total(w) = Total(u) + Total(v)
  <1>1. /\ u \in [Requests -> Int] /\ v \in [Requests -> Int] /\ w \in [Requests -> Int]
        /\ IsFiniteSet(Requests)
    BY RequestsAssumption DEF Bags
  <1> QED
    BY <1>1, TotalIsSum, SumAdds

LEMMA TotalOfZeros ==
  ASSUME NEW w \in Bags, \A r \in Requests : w[r] = 0
  PROVE  Total(w) = 0
  <1>1. w \in [Requests -> Int] /\ IsFiniteSet(Requests)
    BY RequestsAssumption DEF Bags
  <1> QED
    BY <1>1, TotalIsSum, SumOfZeros

\* A bag weighed by a quantity is one.
Weighed(bag, quantity) == [r \in Requests |-> bag[r] * quantity[r]]

LEMMA ProductType ==
  \A x, y \in Nat : x * y \in Nat
  OBVIOUS

LEMMA WeighedType ==
  ASSUME NEW bag \in Bags, NEW quantity \in Bags
  PROVE  Weighed(bag, quantity) \in Bags
  BY ProductType DEF Weighed, Bags

LEMMA Counted ==
  ASSUME NEW bag \in Bags, NEW quantity \in Bags
  PROVE  /\ CounterTotal(bag, quantity) = Total(Weighed(bag, quantity))
         /\ CounterTotal(bag, quantity) \in Nat
  BY Snapshot, WeighedType, TotalType DEF CounterTotal, Weighed

LEMMA CountedAdds ==
  ASSUME NEW b \in Bags, NEW a \in Bags, NEW t \in Bags, Gained(b, a, t), NEW quantity \in Bags
  PROVE  CounterTotal(a, quantity) = CounterTotal(b, quantity) + CounterTotal(t, quantity)
  <1>1. ASSUME NEW r \in Requests
        PROVE  Weighed(a, quantity)[r] = Weighed(b, quantity)[r] + Weighed(t, quantity)[r]
    <2>1. {a[r], b[r], t[r], quantity[r]} \subseteq Nat /\ a[r] = b[r] + t[r]
      BY DEF Bags, Gained
    <2>2. (b[r] + t[r]) * quantity[r] = b[r] * quantity[r] + t[r] * quantity[r]
      BY <2>1
    <2> QED
      BY <2>1, <2>2 DEF Weighed
  <1>2. {Weighed(a, quantity), Weighed(b, quantity), Weighed(t, quantity)} \subseteq Bags
    BY WeighedType
  <1>3. Total(Weighed(a, quantity)) = Total(Weighed(b, quantity)) + Total(Weighed(t, quantity))
    BY <1>1, <1>2, TotalAdds
  <1> QED
    BY <1>3, Counted

LEMMA CountedMonotone ==
  ASSUME NEW bag \in Bags, NEW u \in Bags, NEW v \in Bags, \A r \in Requests : u[r] <= v[r]
  PROVE  CounterTotal(bag, u) <= CounterTotal(bag, v)
  <1>1. ASSUME NEW r \in Requests PROVE Weighed(bag, u)[r] <= Weighed(bag, v)[r]
    <2>1. {bag[r], u[r], v[r]} \subseteq Nat /\ u[r] <= v[r]
      BY DEF Bags
    <2>2. \A x, y, z \in Nat : y <= z => x * y <= x * z
      OBVIOUS
    <2> QED
      BY <2>1, <2>2 DEF Weighed
  <1> QED
    BY <1>1, WeighedType, Counted, TotalMonotone

LEMMA CountedOfNothing ==
  ASSUME NEW t \in Bags, Total(t) = 0, NEW quantity \in Bags
  PROVE  CounterTotal(t, quantity) = 0
  <1>1. \A r \in Requests : t[r] = 0
    BY TotalType DEF Bags
  <1>2. \A r \in Requests : Weighed(t, quantity)[r] = 0
    BY <1>1 DEF Weighed, Bags
  <1> QED
    BY <1>2, WeighedType, Counted, TotalOfZeros

\* The quantities of vLLM's counters, and what each bucket of its histograms counts.
TtftWeight(i) == [r \in Requests |-> IF r.ttft <= i THEN 1 ELSE 0]
TpotWeight(i) == [r \in Requests |-> IF r.tpot <= i THEN r.gen ELSE 0]

LEMMA QuantitiesType ==
  /\ {Prompt, Generation, Hits} \subseteq Bags
  /\ \A i \in Int : TtftWeight(i) \in Bags /\ TpotWeight(i) \in Bags
  <1>1. \A r \in Requests : r.prompt \in Nat /\ r.gen \in Nat /\ r.hits \in Nat
    BY RequestsAssumption
  <1>2. {Prompt, Generation, Hits} \subseteq Bags
    BY <1>1 DEF Prompt, Generation, Hits, Bags
  <1>3. ASSUME NEW i \in Int PROVE TtftWeight(i) \in Bags /\ TpotWeight(i) \in Bags
    BY <1>1 DEF TtftWeight, TpotWeight, Bags
  <1> QED
    BY <1>2, <1>3

-----------------------------------------------------------------------------
(* Buckets.                                                                  *)

Top == Len(Bounds) + 1

LEMMA TopType ==
  /\ Len(Bounds) \in Nat \ {0} /\ Top \in Nat /\ Top > 1 /\ BucketIndex = 1 .. Top
  /\ BucketIndex \subseteq Int /\ Top \in BucketIndex
  BY BoundsAssumption DEF BucketIndex, Top

\* A cumulative histogram.
Histograms ==
  {h \in [BucketIndex -> Nat] : \A i, j \in BucketIndex : i <= j => h[i] <= h[j]}

LEMMA HistogramLen ==
  ASSUME NEW h \in [BucketIndex -> Int]
  PROVE  DOMAIN h = BucketIndex /\ Len(h) = Top /\ h # <<>>
  BY TopType

LEMMA TtftBucketsType ==
  ASSUME NEW bag \in Bags
  PROVE  /\ TtftBuckets(bag) \in Histograms
         /\ \A i \in BucketIndex : TtftBuckets(bag)[i] = CounterTotal(bag, TtftWeight(i))
  <1>1. TtftBuckets(bag) = [i \in BucketIndex |-> CounterTotal(bag, TtftWeight(i))]
    BY Snapshot DEF TtftBuckets, TtftWeight
  <1>2. \A i \in BucketIndex : CounterTotal(bag, TtftWeight(i)) \in Nat
    BY TopType, QuantitiesType, Counted
  <1>3. ASSUME NEW i \in BucketIndex, NEW j \in BucketIndex, i <= j
        PROVE  CounterTotal(bag, TtftWeight(i)) <= CounterTotal(bag, TtftWeight(j))
    <2>1. i \in Int /\ j \in Int /\ TtftWeight(i) \in Bags /\ TtftWeight(j) \in Bags
      BY TopType, QuantitiesType
    <2>2. \A r \in Requests : r.ttft \in Int
      BY RequestsAssumption, TopType
    <2>3. \A r \in Requests : TtftWeight(i)[r] <= TtftWeight(j)[r]
      BY <1>3, <2>1, <2>2 DEF TtftWeight
    <2> QED
      BY <2>1, <2>3, CountedMonotone
  <1> QED
    BY <1>1, <1>2, <1>3 DEF Histograms

LEMMA TpotBucketsType ==
  ASSUME NEW bag \in Bags
  PROVE  /\ TpotBuckets(bag) \in Histograms
         /\ \A i \in BucketIndex : TpotBuckets(bag)[i] = CounterTotal(bag, TpotWeight(i))
  <1>1. TpotBuckets(bag) = [i \in BucketIndex |-> CounterTotal(bag, TpotWeight(i))]
    BY Snapshot DEF TpotBuckets, TpotWeight
  <1>2. \A i \in BucketIndex : CounterTotal(bag, TpotWeight(i)) \in Nat
    BY TopType, QuantitiesType, Counted
  <1>3. ASSUME NEW i \in BucketIndex, NEW j \in BucketIndex, i <= j
        PROVE  CounterTotal(bag, TpotWeight(i)) <= CounterTotal(bag, TpotWeight(j))
    <2>1. i \in Int /\ j \in Int /\ TpotWeight(i) \in Bags /\ TpotWeight(j) \in Bags
      BY TopType, QuantitiesType
    <2>2. \A r \in Requests : r.tpot \in Int /\ r.gen \in Nat
      BY RequestsAssumption, TopType
    <2>3. \A r \in Requests : TpotWeight(i)[r] <= TpotWeight(j)[r]
      BY <1>3, <2>1, <2>2 DEF TpotWeight
    <2> QED
      BY <2>1, <2>3, CountedMonotone
  <1> QED
    BY <1>1, <1>2, <1>3 DEF Histograms

\* The difference of two histograms is the histogram of what came in between.
LEMMA DiffIsTheWindows ==
  ASSUME NEW b \in Bags, NEW a \in Bags, NEW t \in Bags, Gained(b, a, t)
  PROVE  /\ Diff(TtftBuckets(b), TtftBuckets(a)) = TtftBuckets(t)
         /\ Diff(TpotBuckets(b), TpotBuckets(a)) = TpotBuckets(t)
  <1> USE DEF Histograms
  <1>1. ASSUME NEW i \in BucketIndex
        PROVE  TtftBuckets(a)[i] - TtftBuckets(b)[i] = TtftBuckets(t)[i]
    <2>1. TtftWeight(i) \in Bags
      BY TopType, QuantitiesType
    <2>2. CounterTotal(a, TtftWeight(i))
            = CounterTotal(b, TtftWeight(i)) + CounterTotal(t, TtftWeight(i))
      BY <2>1, CountedAdds
    <2>3. {CounterTotal(b, TtftWeight(i)), CounterTotal(t, TtftWeight(i))} \subseteq Nat
      BY <2>1, Counted
    <2> QED
      BY <2>2, <2>3, TtftBucketsType
  <1>2. ASSUME NEW i \in BucketIndex
        PROVE  TpotBuckets(a)[i] - TpotBuckets(b)[i] = TpotBuckets(t)[i]
    <2>1. TpotWeight(i) \in Bags
      BY TopType, QuantitiesType
    <2>2. CounterTotal(a, TpotWeight(i))
            = CounterTotal(b, TpotWeight(i)) + CounterTotal(t, TpotWeight(i))
      BY <2>1, CountedAdds
    <2>3. {CounterTotal(b, TpotWeight(i)), CounterTotal(t, TpotWeight(i))} \subseteq Nat
      BY <2>1, Counted
    <2> QED
      BY <2>2, <2>3, TpotBucketsType
  <1>3. /\ {TtftBuckets(b), TtftBuckets(a), TtftBuckets(t)} \subseteq [BucketIndex -> Nat]
        /\ {TpotBuckets(b), TpotBuckets(a), TpotBuckets(t)} \subseteq [BucketIndex -> Nat]
    BY TtftBucketsType, TpotBucketsType
  <1> QED
    BY <1>1, <1>2, <1>3 DEF Diff

-----------------------------------------------------------------------------
(* Quantiles.                                                                *)

IsShare(q) == q.n \in Nat /\ q.d \in Nat /\ 0 < q.n /\ q.n <= q.d

LEMMA PercentilesType == \A p \in DOMAIN Percentiles : IsShare(Percentiles[p])
  <1>1. DOMAIN Percentiles = {"p50", "p90", "p99"}
    BY DEF Percentiles
  <1>2. /\ Percentiles["p50"] = [n |-> 1, d |-> 2]
        /\ Percentiles["p90"] = [n |-> 9, d |-> 10]
        /\ Percentiles["p99"] = [n |-> 99, d |-> 100]
    BY DEF Percentiles
  <1> QED
    BY <1>1, <1>2 DEF IsShare

LEMMA ProductMonotone ==
  \A x \in Nat : \A y, z \in Int : y <= z => x * y <= x * z
  OBVIOUS

LEMMA LeType ==
  \A i \in BucketIndex :
    /\ Le(i - 1) \in Nat
    /\ i <= Len(Bounds) => Le(i) \in Nat /\ Le(i - 1) < Le(i)
  <1> SUFFICES ASSUME NEW i \in BucketIndex
               PROVE  /\ Le(i - 1) \in Nat
                      /\ i <= Len(Bounds) => Le(i) \in Nat /\ Le(i - 1) < Le(i)
    OBVIOUS
  <1>1. \A j \in 1 .. Len(Bounds) : Bounds[j] \in Nat \ {0}
    BY BoundsAssumption
  <1>2. i \in Nat /\ i >= 1 /\ i <= Len(Bounds) + 1 /\ Len(Bounds) \in Nat
    BY TopType DEF Top
  <1>3. CASE i = 1
    BY <1>1, <1>2, <1>3 DEF Le
  <1>4. CASE i > 1
    <2>1. i - 1 \in 1 .. Len(Bounds)
      BY <1>2, <1>4
    <2>2. Le(i - 1) = Bounds[i - 1] /\ Le(i) = Bounds[i]
      BY <1>2, <1>4 DEF Le
    <2>3. i <= Len(Bounds) => Bounds[i - 1] < Bounds[i]
      BY <1>2, <2>1, BoundsAssumption
    <2>4. i <= Len(Bounds) => i \in 1 .. Len(Bounds)
      BY <1>2
    <2> QED
      BY <1>1, <2>1, <2>2, <2>3, <2>4
  <1> QED
    BY <1>2, <1>3, <1>4

\* The number of observations below bucket i.
Below(h, i) == IF i = 1 THEN 0 ELSE h[i - 1]

LEMMA BelowType ==
  ASSUME NEW h \in Histograms, NEW i \in BucketIndex
  PROVE  /\ h[i] \in Nat /\ Below(h, i) \in Nat /\ Below(h, i) <= h[i]
         /\ \A j \in BucketIndex : j < i => h[j] <= Below(h, i)
  <1>1. i \in Nat /\ i >= 1 /\ i <= Top /\ Top \in Nat
    BY TopType
  <1>2. h \in [BucketIndex -> Nat]
    BY DEF Histograms
  <1>3. CASE i = 1
    BY <1>1, <1>2, <1>3, TopType DEF Below
  <1>4. CASE i > 1
    <2>1. i - 1 \in BucketIndex
      BY <1>1, <1>4, TopType
    <2>2. Below(h, i) = h[i - 1]
      BY <1>4, <1>1 DEF Below
    <2>3. h[i - 1] <= h[i]
      BY <1>1, <2>1 DEF Histograms
    <2>4. ASSUME NEW j \in BucketIndex, j < i PROVE h[j] <= h[i - 1]
      <3>1. j \in Int /\ j <= i - 1
        BY <1>1, <2>4, TopType
      <3> QED
        BY <2>1, <3>1 DEF Histograms
    <2> QED
      BY <1>2, <2>1, <2>2, <2>3, <2>4
  <1> QED
    BY <1>1, <1>3, <1>4

\* Bucket i is the first that holds rank q.
Rank(h, i, q) == q.d * Below(h, i) < q.n * h[Top] /\ q.n * h[Top] <= q.d * h[i]

LEMMA RankIsLeast ==
  ASSUME NEW h \in Histograms, NEW q, IsShare(q), NEW i \in BucketIndex, Rank(h, i, q)
  PROVE  Min({j \in BucketIndex : q.d * h[j] >= q.n * h[Top]}) = i
  <1> DEFINE S == {j \in BucketIndex : q.d * h[j] >= q.n * h[Top]}
             m == Min(S)
  <1>1. q.n \in Nat /\ q.d \in Nat /\ h[Top] \in Nat /\ \A j \in BucketIndex : h[j] \in Nat
    BY TopType DEF IsShare, Histograms
  <1>2. i \in S
    <2>1. q.n * h[Top] \in Nat /\ q.d * h[i] \in Nat
      BY <1>1, ProductType
    <2> QED
      BY <2>1 DEF Rank
  <1>3. S \in SUBSET Nat /\ S # {}
    BY <1>2, TopType
  <1>4. m \in S /\ m <= i
    <2> HIDE DEF S
    <2> QED
      BY <1>2, <1>3, MinIsLeast
  <1>5. m \in BucketIndex /\ q.d * h[m] >= q.n * h[Top]
    BY <1>4
  <1> HIDE DEF S, m
  <1>6. ~(m < i)
    <2> SUFFICES ASSUME m < i PROVE FALSE
      OBVIOUS
    <2>1. h[m] <= Below(h, i) /\ Below(h, i) \in Nat /\ h[m] \in Nat
      BY <1>5, BelowType, <1>1
    <2>2. q.d * h[m] <= q.d * Below(h, i)
      BY <1>1, <2>1, ProductMonotone
    <2>3. q.d * h[m] \in Nat /\ q.d * Below(h, i) \in Nat /\ q.n * h[Top] \in Nat
      BY <1>1, <2>1, ProductType
    <2> QED
      BY <1>5, <2>2, <2>3 DEF Rank
  <1> QED
    BY <1>4, <1>5, <1>6, TopType DEF m, S

\* Between the bounds of a bucket.
LEMMA Between ==
  ASSUME NEW lo \in Nat, NEW hi \in Nat, lo < hi,
         NEW share \in Int, NEW width \in Int, 0 < share, share <= width
  PROVE  /\ lo * width + (hi - lo) * share \in Int
         /\ lo * width <= lo * width + (hi - lo) * share
         /\ lo * width + (hi - lo) * share <= hi * width
  <1> DEFINE k == hi - lo
  <1>1. k \in Nat
    OBVIOUS
  <1>2. k * share \in Nat /\ k * width \in Int /\ lo * width \in Int
    BY <1>1
  <1>3. k * share <= k * width
    BY <1>1, ProductMonotone
  <1>4. hi * width = lo * width + k * width
    <2>1. hi = lo + k
      OBVIOUS
    <2> HIDE DEF k
    <2>2. (lo + k) * width = lo * width + k * width
      BY <1>1
    <2> QED
      BY <2>1, <2>2
  <1> HIDE DEF k
  <1>5. /\ lo * width + k * share \in Int /\ lo * width <= lo * width + k * share
        /\ lo * width + k * share <= hi * width
    BY <1>2, <1>3, <1>4
  <1> QED
    BY <1>5 DEF k

LEMMA QuantileInItsBucket ==
  ASSUME NEW h \in Histograms, NEW q, IsShare(q), NEW i \in BucketIndex, Rank(h, i, q)
  PROVE  /\ AtMost(Quantile(h, q), Le(IF i > Len(Bounds) THEN i - 1 ELSE i))
         /\ Le(i - 1) * Quantile(h, q).d <= Quantile(h, q).n
  <1> DEFINE prev == Below(h, i)
             H == h[Top]
             share == q.n * H - q.d * prev
             width == q.d * (h[i] - prev)
  <1>1. q.n \in Nat /\ q.d \in Nat /\ H \in Nat /\ h[i] \in Nat /\ prev \in Nat /\ prev <= h[i]
    BY TopType, BelowType DEF IsShare, Histograms
  <1>2. q.n * H \in Nat /\ q.d * prev \in Nat /\ q.d * h[i] \in Nat
    BY <1>1, ProductType
  <1>3. q.d * prev < q.n * H /\ q.n * H <= q.d * h[i]
    BY DEF Rank
  <1>4. Len(h) = Top /\ h # <<>>
    BY HistogramLen DEF Histograms
  <1>5. H # 0
    <2>1. H = 0 => q.n * H = 0
      BY <1>1
    <2> QED
      BY <1>2, <1>3, <2>1
  <1>6. Quantile(h, q) = Interpolate(h, q, i)
    BY <1>4, <1>5, RankIsLeast DEF Quantile
  <1>7. width = q.d * h[i] - q.d * prev
    BY <1>1
  <1>8. share \in Int /\ width \in Int /\ 0 < share /\ share <= width
    BY <1>2, <1>3, <1>7
  <1>9. Le(i - 1) \in Nat /\ (i <= Len(Bounds) => Le(i) \in Nat /\ Le(i - 1) < Le(i))
    BY LeType
  <1>10. i \in Int /\ Len(Bounds) \in Int
    BY TopType
  <1>11. CASE i > Len(Bounds)
    <2>1. Quantile(h, q) = [n |-> Le(i - 1), d |-> 1]
      BY <1>6, <1>11 DEF Interpolate
    <2> QED
      BY <1>9, <1>11, <2>1 DEF AtMost
  <1>12. CASE i <= Len(Bounds)
    <2>1. Interpolate(h, q, i)
            = [n |-> Le(i - 1) * width + (Le(i) - Le(i - 1)) * share, d |-> width]
      <3>1. ~(i > Len(Bounds)) /\ width # 0
        BY <1>8, <1>10, <1>12
      <3> QED
        BY <3>1, <1>4 DEF Interpolate, Below
    <2>2. /\ Quantile(h, q).n = Le(i - 1) * width + (Le(i) - Le(i - 1)) * share
          /\ Quantile(h, q).d = width
      BY <1>6, <2>1
    <2> HIDE DEF share, width
    <2>3. /\ Le(i - 1) * width <= Quantile(h, q).n
          /\ Quantile(h, q).n <= Le(i) * width
      BY <1>8, <1>9, <1>12, <2>2, Between
    <2> QED
      BY <1>10, <1>12, <2>2, <2>3 DEF AtMost
  <1> QED
    BY <1>10, <1>11, <1>12

\* What HoldsRank says of a bag of requests its buckets say.
LEMMA RankOfBuckets ==
  ASSUME NEW bag \in Bags, NEW i \in BucketIndex, NEW q, HoldsRank(bag, i, q)
  PROVE  Rank(TtftBuckets(bag), i, q)
  <1> DEFINE Upto(k) == [r \in Requests |-> IF r.ttft <= k THEN bag[r] ELSE 0]
             Under == [r \in Requests |-> IF r.ttft < i THEN bag[r] ELSE 0]
  <1>1. \A r \in Requests : bag[r] \in Nat /\ r.ttft \in Nat /\ r.ttft >= 1 /\ r.ttft <= Top
    BY RequestsAssumption, TopType DEF Bags
  <1>2. i \in Nat /\ i >= 1 /\ i <= Top /\ Top \in Nat
    BY TopType
  <1>3. ASSUME NEW k \in BucketIndex PROVE Total(Upto(k)) = TtftBuckets(bag)[k]
    <2>1. TtftWeight(k) \in Bags
      BY TopType, QuantitiesType
    <2>2. \A r \in Requests : Weighed(bag, TtftWeight(k))[r] = Upto(k)[r]
      <3>1. \A x \in Nat : x * 1 = x /\ x * 0 = 0
        OBVIOUS
      <3> QED
        BY <1>1, <3>1 DEF Weighed, TtftWeight
    <2>3. Weighed(bag, TtftWeight(k)) = Upto(k)
      BY <2>2 DEF Weighed
    <2> QED
      BY <2>1, <2>3, TtftBucketsType, Counted
  <1>4. Upto(Top) = bag
    BY <1>1 DEF Bags
  <1>5. Size(bag) = TtftBuckets(bag)[Top]
    BY <1>3, <1>4, TopType DEF Size
  <1>6. Total(Under) = Below(TtftBuckets(bag), i)
    <2>1. CASE i = 1
      <3>1. Under \in Bags /\ \A r \in Requests : Under[r] = 0
        BY <1>1, <2>1 DEF Bags
      <3> QED
        BY <2>1, <3>1, TotalOfZeros DEF Below
    <2>2. CASE i # 1
      <3>1. i - 1 \in BucketIndex
        BY <1>2, <2>2, TopType
      <3>2. \A r \in Requests : r.ttft < i <=> r.ttft <= i - 1
        BY <1>1, <1>2
      <3>3. Under = Upto(i - 1)
        BY <3>2
      <3> HIDE DEF Under, Upto
      <3> QED
        BY <1>3, <2>2, <3>1, <3>3 DEF Below
    <2> QED
      BY <2>1, <2>2
  <1>7. q.d * Total(Under) < q.n * Size(bag) /\ q.n * Size(bag) <= q.d * Total(Upto(i))
    BY DEF HoldsRank, Size
  <1> HIDE DEF Under, Upto
  <1> QED
    BY <1>3, <1>5, <1>6, <1>7 DEF Rank

-----------------------------------------------------------------------------
(* The metrics of a level.                                                   *)

Windows(b, a, t) == b # None /\ a # None => Gained(b, a, t)

\* What CloseLevel appends.
LevelOf(b, a, t, d) ==
  [metrics |-> LevelMetrics(b, a, d),
   client |-> [source |-> "client", prompt |-> CounterTotal(t, Prompt),
               gen |-> CounterTotal(t, Generation), duration |-> d],
   opened |-> b # None, closed |-> a # None, traffic |-> t]

IsLevel(g) ==
  \E b, a \in Snapshots, t \in Bags, d \in Nat \ {0} : Windows(b, a, t) /\ g = LevelOf(b, a, t, d)

\* With both snapshots, the metrics are those of the level's own requests.
LEMMA MetricsAreTheLevels ==
  ASSUME NEW b \in Bags, NEW a \in Bags, NEW t \in Bags, Gained(b, a, t), NEW d
  PROVE  LET m == LevelMetrics(b, a, d)
         IN  /\ \A p \in DOMAIN Percentiles :
                  /\ m.ttft[p] = Quantile(TtftBuckets(t), Percentiles[p])
                  /\ m.tpot[p] = Quantile(TpotBuckets(t), Percentiles[p])
             /\ m.prompt = CounterTotal(t, Prompt) /\ m.gen = CounterTotal(t, Generation)
             /\ m.hits = CounterTotal(t, Hits)
  <1>1. ASSUME NEW quantity \in Bags
        PROVE  CounterTotal(a, quantity) - CounterTotal(b, quantity) = CounterTotal(t, quantity)
    <2>1. CounterTotal(a, quantity) = CounterTotal(b, quantity) + CounterTotal(t, quantity)
      BY CountedAdds
    <2>2. CounterTotal(b, quantity) \in Nat /\ CounterTotal(t, quantity) \in Nat
      BY Counted
    <2> QED
      BY <2>1, <2>2
  <1> QED
    BY <1>1, QuantitiesType, DiffIsTheWindows DEF LevelMetrics

LEMMA CountedType ==
  ASSUME NEW b \in Snapshots, NEW quantity \in Bags
  PROVE  CounterTotal(b, quantity) \in Nat /\ (b = None => CounterTotal(b, quantity) = 0)
  BY Counted DEF Snapshots, CounterTotal

\* The counts of any level, whichever snapshot is missing.
LEMMA MetricsType ==
  ASSUME NEW b \in Snapshots, NEW a \in Snapshots, NEW d
  PROVE  LET m == LevelMetrics(b, a, d)
         IN  /\ {m.prompt, m.gen, m.hits} \subseteq Int /\ m.queries = m.prompt /\ m.duration = d
             /\ b = None => {m.prompt, m.gen, m.hits} \subseteq Nat
             /\ b # None /\ a = None => m.prompt + m.gen <= 0
  <1> DEFINE A(quantity) == CounterTotal(a, quantity)
             B(quantity) == CounterTotal(b, quantity)
             m == LevelMetrics(b, a, d)
  <1>1. \A quantity \in Bags : A(quantity) \in Nat /\ B(quantity) \in Nat
    BY CountedType
  <1>2. \A quantity \in Bags :
          (a = None => A(quantity) = 0) /\ (b = None => B(quantity) = 0)
    BY CountedType
  <1>3. /\ m.prompt = A(Prompt) - B(Prompt) /\ m.gen = A(Generation) - B(Generation)
        /\ m.hits = A(Hits) - B(Hits) /\ m.queries = m.prompt /\ m.duration = d
    BY DEF LevelMetrics
  <1> HIDE DEF A, B, m
  <1>4. {A(Prompt), A(Generation), A(Hits), B(Prompt), B(Generation), B(Hits)} \subseteq Nat
    BY <1>1, QuantitiesType
  <1>5. /\ a = None => A(Prompt) = 0 /\ A(Generation) = 0
        /\ b = None => B(Prompt) = 0 /\ B(Generation) = 0 /\ B(Hits) = 0
    BY <1>2, QuantitiesType
  <1>6. {m.prompt, m.gen, m.hits} \subseteq Int
    BY <1>3, <1>4
  <1>7. b = None => {m.prompt, m.gen, m.hits} \subseteq Nat
    BY <1>3, <1>4, <1>5
  <1>8. b # None /\ a = None => m.prompt + m.gen <= 0
    BY <1>3, <1>4, <1>5
  <1> QED
    BY <1>3, <1>6, <1>7, <1>8 DEF m

-----------------------------------------------------------------------------
(* What the report makes of a level.                                         *)

\* Without a closing snapshot, or without a token, there is no speed: 0, which fails the SLO.
LEMMA NoTokensNoSpeed ==
  ASSUME NEW b \in Snapshots, NEW a \in Snapshots, NEW t \in Bags, Windows(b, a, t), NEW d,
         a = None \/ (b # None /\ Size(t) = 0), NEW p \in DOMAIN Percentiles
  PROVE  LevelMetrics(b, a, d).tpot[p].n = 0
  <1>1. LevelMetrics(b, a, d).tpot[p] = Quantile(Diff(TpotBuckets(b), TpotBuckets(a)), Percentiles[p])
    BY DEF LevelMetrics
  <1>2. CASE a = None
    <2>1. Diff(TpotBuckets(b), TpotBuckets(a)) = <<>>
      BY <1>2 DEF Diff, TpotBuckets
    <2> QED
      BY <1>1, <2>1 DEF Quantile
  <1>3. CASE a # None /\ b # None /\ Size(t) = 0
    <2>1. a \in Bags /\ b \in Bags /\ Gained(b, a, t)
      BY <1>3 DEF Snapshots, Windows
    <2>2. LevelMetrics(b, a, d).tpot[p] = Quantile(TpotBuckets(t), Percentiles[p])
      BY <2>1, MetricsAreTheLevels
    <2>3. TpotBuckets(t)[Top] = 0
      <3>1. TpotWeight(Top) \in Bags /\ Top \in BucketIndex
        BY TopType, QuantitiesType
      <3> QED
        BY <1>3, <3>1, TpotBucketsType, CountedOfNothing DEF Size
    <2>4. Len(TpotBuckets(t)) = Top
      BY TpotBucketsType, HistogramLen DEF Histograms
    <2> QED
      BY <2>2, <2>3, <2>4 DEF Quantile
  <1> QED
    BY <1>2, <1>3

\* The server's counts of a level add up to the tokens it served.
LEMMA CountsAreTokens ==
  ASSUME NEW t \in Bags
  PROVE  CounterTotal(t, Prompt) + CounterTotal(t, Generation) = Tokens(t)
  <1> DEFINE W == [r \in Requests |-> t[r] * (r.prompt + r.gen)]
  <1>1. ASSUME NEW r \in Requests
        PROVE  W[r] \in Nat /\ W[r] = Weighed(t, Prompt)[r] + Weighed(t, Generation)[r]
    <2>1. {t[r], r.prompt, r.gen} \subseteq Nat
      BY RequestsAssumption DEF Bags
    <2>2. \A x, y, z \in Nat : x * (y + z) = x * y + x * z /\ x * (y + z) \in Nat
      OBVIOUS
    <2>3. /\ t[r] * (r.prompt + r.gen) = t[r] * r.prompt + t[r] * r.gen
          /\ t[r] * (r.prompt + r.gen) \in Nat
      BY <2>1, <2>2
    <2> QED
      BY <2>3 DEF Weighed, Prompt, Generation
  <1>2. W \in Bags
    BY <1>1 DEF Bags
  <1> HIDE DEF W
  <1>3. Total(W) = Total(Weighed(t, Prompt)) + Total(Weighed(t, Generation))
    BY <1>1, <1>2, QuantitiesType, WeighedType, TotalAdds
  <1> QED
    BY <1>3, QuantitiesType, Counted DEF Tokens, W

\* level_metrics always has the server's counts.
LEMMA UsageIsTheServers ==
  ASSUME NEW b \in Snapshots, NEW a \in Snapshots, NEW t, NEW d \in Nat \ {0}
  PROVE  LET g == LevelOf(b, a, t, d)
             u == Usage(g.metrics, g.client)
         IN  u.prompt = g.metrics.prompt /\ u.gen = g.metrics.gen /\ u.duration = d
  BY MetricsType DEF LevelOf, Usage

LEMMA AtLeastZero ==
  \A x \in Int : Max({0, x}) \in Nat
  <1> SUFFICES ASSUME NEW x \in Int PROVE Max({0, x}) \in Nat
    OBVIOUS
  <1>1. \E y \in {0, x} : \A z \in {0, x} : y >= z
    <2>1. CASE x >= 0
      BY <2>1
    <2>2. CASE x < 0
      BY <2>2
    <2> QED
      BY <2>1, <2>2
  <1>2. Max({0, x}) \in {0, x} /\ \A z \in {0, x} : Max({0, x}) >= z
    BY <1>1, Zenon DEF Max
  <1> QED
    BY <1>2

\* A rate is a fraction, and not negative with the closing snapshot.
LEMMA AchievedType ==
  ASSUME NEW b \in Snapshots, NEW a \in Snapshots, NEW t \in Bags, Windows(b, a, t),
         NEW d \in Nat \ {0}
  PROVE  LET x == DevRecord(LevelOf(b, a, t, d)).achieved
         IN  x.n \in Int /\ x.d = d /\ (a # None => x.n \in Nat)
  <1> DEFINE g == LevelOf(b, a, t, d)
             m == g.metrics
             u == Usage(m, g.client)
             computed == Max({0, u.prompt - m.hits}) + u.gen
             x == DevRecord(g).achieved
  <1>1. m = LevelMetrics(b, a, d)
    BY DEF LevelOf
  <1>2. u.prompt = m.prompt /\ u.gen = m.gen /\ u.duration = d
    BY UsageIsTheServers
  <1>3. {m.prompt, m.gen, m.hits} \subseteq Int
    BY <1>1, MetricsType
  <1>4. a # None => m.prompt \in Nat /\ m.gen \in Nat
    <2>1. CASE b = None
      BY <1>1, <2>1, MetricsType
    <2>2. CASE b # None /\ a # None
      <3>1. b \in Bags /\ a \in Bags /\ Gained(b, a, t)
        BY <2>2 DEF Snapshots, Windows
      <3>2. /\ LevelMetrics(b, a, d).prompt = CounterTotal(t, Prompt)
            /\ LevelMetrics(b, a, d).gen = CounterTotal(t, Generation)
        BY <3>1, MetricsAreTheLevels
      <3>3. CounterTotal(t, Prompt) \in Nat /\ CounterTotal(t, Generation) \in Nat
        BY QuantitiesType, Counted
      <3> QED
        BY <1>1, <3>2, <3>3
    <2> QED
      BY <2>1, <2>2
  <1>5. x = Achieved(m, u)
    BY DEF DevRecord
  <1> HIDE DEF g, m, u, x
  <1>6. Max({0, u.prompt - m.hits}) \in Nat
    BY <1>2, <1>3, AtLeastZero
  <1>7. computed \in Int /\ (a # None => computed \in Nat)
    BY <1>2, <1>3, <1>4, <1>6
  <1>8. x.n \in {computed, u.prompt + u.gen} /\ x.d = d
    BY <1>2, <1>5 DEF Achieved
  <1> HIDE DEF computed
  <1>9. x.n \in Int /\ x.d = d /\ (a # None => x.n \in Nat)
    BY <1>2, <1>3, <1>4, <1>7, <1>8
  <1> QED
    BY <1>9 DEF x, g

-----------------------------------------------------------------------------
(* The inductive invariant: before a level or the probe is closed, the        *)
(* counters are those of its opening snapshot and its own traffic; a level    *)
(* that was closed is made of two snapshots and the traffic between them; the *)
(* report is computed from these levels.                                      *)

Levels ==
  {g \in {LevelOf(w.b, w.a, w.t, w.d) :
            w \in [b : Snapshots, a : Snapshots, t : Bags, d : Nat \ {0}]} : IsLevel(g)}

Devs == [l \in DOMAIN generated |-> DevRecord(generated[l])]

Counters ==
  /\ served \in Bags /\ traffic \in Bags /\ before \in Snapshots
  /\ pc \in {"level", "probe"} /\ before # None => Gained(before, served, traffic)

Closed ==
  /\ generated \in Seq(Levels)
  /\ pc = "level" => Len(generated) < Len(Durations)

Ceiling == theta = None \/ (theta.n \in Int /\ theta.d \in Nat \ {0})

Reported ==
  report # None =>
    /\ pc = "done"
    /\ report = [by_devs |-> Devs, basis |-> Basis(Devs), utilization |-> Utilization(Devs)]

Inv == Counters /\ Closed /\ Ceiling /\ Reported

LEMMA NothingType == Nothing \in Bags
  BY DEF Nothing, Bags

LEMMA LevelsAreLevels ==
  ASSUME NEW b \in Snapshots, NEW a \in Snapshots, NEW t \in Bags, NEW d \in Nat \ {0},
         Windows(b, a, t)
  PROVE  LevelOf(b, a, t, d) \in Levels
  <1> DEFINE w == [b |-> b, a |-> a, t |-> t, d |-> d]
  <1>1. w \in [b : Snapshots, a : Snapshots, t : Bags, d : Nat \ {0}]
    OBVIOUS
  <1>2. LevelOf(b, a, t, d) = LevelOf(w.b, w.a, w.t, w.d)
    OBVIOUS
  <1>3. IsLevel(LevelOf(b, a, t, d))
    BY DEF IsLevel
  <1> HIDE DEF w
  <1> QED
    BY <1>1, <1>2, <1>3 DEF Levels

LEMMA InitInv == Init => Inv
  BY NothingType DEF Init, Inv, Counters, Closed, Ceiling, Reported, Snapshots

\* A request is one more in the counters and in the traffic.
LEMMA ServeInv ==
  ASSUME Inv, NEW r \in Requests, Serve(r)
  PROVE  Inv'
  <1>1. served \in Bags /\ traffic \in Bags
    BY DEF Inv, Counters
  <1>2. served' \in Bags /\ traffic' \in Bags
    BY <1>1 DEF Serve, Bags
  <1>3. ASSUME pc \in {"level", "probe"}, before # None, NEW s \in Requests
        PROVE  served'[s] = before[s] + traffic'[s]
    <2>1. /\ served[s] = before[s] + traffic[s]
          /\ served[s] \in Nat /\ traffic[s] \in Nat /\ before[s] \in Nat
      BY <1>1, <1>3 DEF Inv, Counters, Gained, Snapshots, Bags
    <2>2. CASE s = r
      <3>1. served'[s] = served[s] + 1 /\ traffic'[s] = traffic[s] + 1
        BY <1>1, <2>2 DEF Serve, Bags
      <3> QED
        BY <2>1, <3>1
    <2>3. CASE s # r
      <3>1. served'[s] = served[s] /\ traffic'[s] = traffic[s]
        BY <1>1, <2>3 DEF Serve, Bags
      <3> QED
        BY <2>1, <3>1
    <2> QED
      BY <2>2, <2>3
  <1>4. UNCHANGED <<pc, before, generated, theta, report>> /\ pc # "done"
    BY DEF Serve
  <1>5. Counters'
    BY <1>2, <1>3, <1>4 DEF Inv, Counters, Gained
  <1> QED
    BY <1>4, <1>5 DEF Inv, Closed, Ceiling, Reported

LEMMA OpenInv ==
  ASSUME Inv, OpenLevel \/ OpenProbe
  PROVE  Inv'
  <1>1. served \in Bags
    BY DEF Inv, Counters
  <1>2. before' \in Snapshots /\ traffic' = Nothing /\ served' = served
    BY <1>1 DEF OpenLevel, OpenProbe, Snapshots
  <1>3. before' # None => Gained(before', served', traffic')
    <2>1. before' # None => before' = served
      BY DEF OpenLevel, OpenProbe
    <2>2. Gained(served, served, Nothing)
      BY <1>1 DEF Gained, Nothing, Bags
    <2> QED
      BY <1>2, <2>1, <2>2
  <1>4. UNCHANGED <<generated, theta, report>> /\ pc # "done"
    BY DEF OpenLevel, OpenProbe
  <1>5. Counters'
    BY <1>1, <1>2, <1>3, NothingType DEF Counters
  <1>6. Closed'
    BY <1>4 DEF Inv, Closed, OpenLevel, OpenProbe
  <1> QED
    BY <1>4, <1>5, <1>6 DEF Inv, Ceiling, Reported

LEMMA CloseLevelInv ==
  ASSUME Inv, CloseLevel
  PROVE  Inv'
  <1> DEFINE d == Durations[Len(generated) + 1]
  <1>1. served \in Bags /\ traffic \in Bags /\ before \in Snapshots
    BY DEF Inv, Counters
  <1>2. generated \in Seq(Levels) /\ Len(generated) < Len(Durations) /\ pc = "level"
    BY DEF Inv, Closed, CloseLevel
  <1>3. d \in Nat \ {0}
    <2>1. Len(generated) \in Nat /\ Len(Durations) \in Nat
      BY <1>2, DurationsAssumption
    <2>2. Len(generated) + 1 \in 1 .. Len(Durations)
      BY <1>2, <2>1
    <2> QED
      BY <2>2, DurationsAssumption
  <1>4. PICK after \in {served, None} :
          generated' = Append(generated, LevelOf(before, after, traffic, d))
    BY DEF CloseLevel, LevelOf
  <1>5. after \in Snapshots
    BY <1>1, <1>4 DEF Snapshots
  <1>6. Windows(before, after, traffic)
    BY <1>2, <1>4 DEF Windows, Inv, Counters
  <1> HIDE DEF d
  <1>7. generated' \in Seq(Levels)
    <2>1. LevelOf(before, after, traffic, d) \in Levels
      BY <1>1, <1>3, <1>5, <1>6, LevelsAreLevels
    <2> QED
      BY <1>2, <1>4, <2>1
  <1>8. UNCHANGED <<served, before, theta, report, traffic>> /\ pc' = "between"
    BY DEF CloseLevel
  <1>9. Counters'
    BY <1>1, <1>8 DEF Counters
  <1>10. Closed'
    BY <1>7, <1>8 DEF Closed
  <1> QED
    BY <1>2, <1>8, <1>9, <1>10 DEF Inv, Ceiling, Reported

LEMMA CloseProbeInv ==
  ASSUME Inv, CloseProbe
  PROVE  Inv'
  <1>1. served \in Bags /\ traffic \in Bags /\ before \in Snapshots
    BY DEF Inv, Counters
  <1>2. PICK after \in {served, None} :
          LET m == LevelMetrics(before, after, ProbeDuration)
          IN  theta' = [n |-> m.prompt + m.gen, d |-> ProbeDuration]
    BY DEF CloseProbe
  <1>3. after \in Snapshots
    BY <1>1, <1>2 DEF Snapshots
  <1>4. theta'.n \in Int /\ theta'.d \in Nat \ {0}
    <2> DEFINE m == LevelMetrics(before, after, ProbeDuration)
    <2>1. m.prompt \in Int /\ m.gen \in Int
      BY <1>1, <1>3, MetricsType
    <2>2. theta' = [n |-> m.prompt + m.gen, d |-> ProbeDuration]
      BY <1>2
    <2> HIDE DEF m
    <2> QED
      BY <2>1, <2>2, DurationsAssumption
  <1>5. UNCHANGED <<served, before, generated, report, traffic>> /\ pc = "probe" /\ pc' = "probed"
    BY DEF CloseProbe
  <1> QED
    BY <1>1, <1>4, <1>5 DEF Inv, Counters, Closed, Ceiling, Reported

LEMMA WriteReportInv ==
  ASSUME Inv, WriteReport
  PROVE  Inv'
  <1>1. UNCHANGED <<served, before, generated, theta, traffic>> /\ pc' = "done"
    BY DEF WriteReport
  <1>2. report' = [by_devs |-> Devs, basis |-> Basis(Devs), utilization |-> Utilization(Devs)]
    BY DEF WriteReport, Devs
  <1>3. Devs' = Devs
    BY <1>1 DEF Devs
  <1>4. Basis(Devs)' = Basis(Devs) /\ Utilization(Devs)' = Utilization(Devs)
    BY <1>1, <1>3 DEF Basis, Utilization
  <1>5. Reported'
    BY <1>1, <1>2, <1>3, <1>4 DEF Reported
  <1> QED
    BY <1>1, <1>5 DEF Inv, Counters, Closed, Ceiling

\* The ledger of every run, however many snapshots are missing and wherever it is aborted.
THEOREM Invariance == Spec => []Inv
  <1>1. Inv /\ [Next]_vars => Inv'
    <2> SUFFICES ASSUME Inv, [Next]_vars PROVE Inv'
      OBVIOUS
    <2>1. CASE UNCHANGED vars
      BY <2>1 DEF vars, Inv, Counters, Closed, Ceiling, Reported, Devs, Basis, Utilization
    <2> QED
      BY <2>1, ServeInv, OpenInv, CloseLevelInv, CloseProbeInv, WriteReportInv DEF Next, Done
  <1> QED
    BY InitInv, <1>1, PTL DEF Spec

-----------------------------------------------------------------------------
(* The properties.                                                           *)

LEMMA LevelFields ==
  ASSUME NEW b, NEW a, NEW t, NEW d, NEW g, g = LevelOf(b, a, t, d)
  PROVE  /\ g.metrics = LevelMetrics(b, a, d) /\ g.traffic = t
         /\ g.opened <=> b # None
         /\ g.closed <=> a # None
  BY DEF LevelOf

LEMMA LevelUnfolds ==
  ASSUME Inv, NEW l \in DOMAIN generated
  PROVE  \E b, a \in Snapshots, t \in Bags, d \in Nat \ {0} :
           Windows(b, a, t) /\ generated[l] = LevelOf(b, a, t, d)
  <1>1. generated[l] \in Levels
    BY DEF Inv, Closed
  <1> QED
    BY <1>1 DEF Levels, IsLevel

\* level_latency, for all buckets, requests and percentiles: with both snapshots, a level's
\* quantile of ttft lies in the bucket that its own requests put it in.
THEOREM QuantilesAreOwn == Spec => []QuantilesAreTheLevels
  <1>1. Inv => QuantilesAreTheLevels
    <2> SUFFICES ASSUME Inv, NEW l \in DOMAIN generated,
                        generated[l].opened, generated[l].closed,
                        NEW p \in DOMAIN Percentiles, NEW i \in BucketIndex,
                        HoldsRank(generated[l].traffic, i, Percentiles[p])
                 PROVE  LET x == generated[l].metrics.ttft[p]
                        IN  /\ AtMost(x, Le(IF i > Len(Bounds) THEN i - 1 ELSE i))
                            /\ Le(i - 1) * x.d <= x.n
      BY DEF QuantilesAreTheLevels
    <2>1. PICK b, a \in Snapshots, t \in Bags, d \in Nat \ {0} :
             Windows(b, a, t) /\ generated[l] = LevelOf(b, a, t, d)
      BY LevelUnfolds
    <2>2. b \in Bags /\ a \in Bags /\ Gained(b, a, t) /\ generated[l].traffic = t
      BY <2>1, LevelFields DEF Snapshots, Windows
    <2>3. generated[l].metrics.ttft[p] = Quantile(TtftBuckets(t), Percentiles[p])
      <3>1. generated[l].metrics = LevelMetrics(b, a, d)
        BY <2>1 DEF LevelOf
      <3> QED
        BY <2>2, <3>1, MetricsAreTheLevels
    <2>4. Rank(TtftBuckets(t), i, Percentiles[p])
      BY <2>2, RankOfBuckets
    <2> QED
      BY <2>2, <2>3, <2>4, PercentilesType, TtftBucketsType, QuantileInItsBucket
  <1> QED
    BY Invariance, <1>1, PTL

\* holds_slo, for every limit: it never holds for want of data.
THEOREM SloIsMeasured == Spec => []SloNeedsTraffic
  <1>1. Inv => SloNeedsTraffic
    <2> SUFFICES ASSUME Inv, report # None, NEW l \in DOMAIN report.by_devs,
                        report.by_devs[l].holds_slo
                 PROVE  /\ generated[l].closed
                        /\ generated[l].opened => Size(generated[l].traffic) > 0
      BY DEF SloNeedsTraffic
    <2>1. l \in DOMAIN generated /\ HoldsSlo(generated[l].metrics)
      BY DEF Inv, Reported, Devs, DevRecord
    <2>2. PICK b, a \in Snapshots, t \in Bags, d \in Nat \ {0} :
             Windows(b, a, t) /\ generated[l] = LevelOf(b, a, t, d)
      BY <2>1, LevelUnfolds
    <2>3. /\ generated[l].metrics = LevelMetrics(b, a, d) /\ generated[l].traffic = t
          /\ generated[l].opened <=> b # None
          /\ generated[l].closed <=> a # None
      BY <2>2, LevelFields
    <2>4. ~(LevelMetrics(b, a, d).tpot[Slo.percentile].n = 0)
      <3>1. LevelMetrics(b, a, d).tpot[Slo.percentile].n > 0
        BY <2>1, <2>3 DEF HoldsSlo
      <3>2. ~(0 > 0)
        OBVIOUS
      <3> QED
        BY <3>1, <3>2
    <2>5. a # None /\ ~(b # None /\ Size(t) = 0)
      BY <2>2, <2>4, NoTokensNoSpeed, SloAssumption
    <2>6. Size(t) \in Nat
      BY TotalType DEF Size
    <2> QED
      BY <2>3, <2>5, <2>6
  <1> QED
    BY Invariance, <1>1, PTL

\* cost_per_mtok, for every level: the tokens it divides by are those the level served.
THEOREM PricesAreServed == Spec => []PriceIsForServedTokens
  <1>1. Inv => PriceIsForServedTokens
    <2> SUFFICES ASSUME Inv, report # None, NEW l \in DOMAIN report.by_devs,
                        report.by_devs[l].price # None, generated[l].opened
                 PROVE  /\ generated[l].closed
                        /\ report.by_devs[l].price.d = Tokens(generated[l].traffic)
      BY DEF PriceIsForServedTokens
    <2>1. l \in DOMAIN generated /\ report.by_devs[l] = DevRecord(generated[l])
      BY DEF Inv, Reported, Devs
    <2>2. PICK b, a \in Snapshots, t \in Bags, d \in Nat \ {0} :
             Windows(b, a, t) /\ generated[l] = LevelOf(b, a, t, d)
      BY <2>1, LevelUnfolds
    <2> DEFINE m == LevelMetrics(b, a, d)
               u == Usage(generated[l].metrics, generated[l].client)
    <2>3. /\ generated[l].traffic = t
          /\ b # None
          /\ generated[l].closed <=> a # None
      BY <2>2, LevelFields
    <2>4. u.prompt = m.prompt /\ u.gen = m.gen
      <3>1. generated[l].metrics = m
        BY <2>2 DEF LevelOf
      <3> QED
        BY <2>2, <3>1, UsageIsTheServers
    <2>5. report.by_devs[l].price = Price(u)
      BY <2>1 DEF DevRecord
    <2> HIDE DEF u
    <2>6. u.prompt + u.gen > 0 /\ report.by_devs[l].price.d = m.prompt + m.gen
      BY <2>4, <2>5 DEF Price
    <2>7. a # None
      <3>1. m.prompt \in Int /\ m.gen \in Int /\ (b # None /\ a = None => m.prompt + m.gen <= 0)
        BY <2>2, MetricsType
      <3> HIDE DEF m
      <3> QED
        BY <2>3, <2>4, <2>6, <3>1
    <2>8. b \in Bags /\ a \in Bags /\ Gained(b, a, t)
      BY <2>2, <2>3, <2>7 DEF Snapshots, Windows
    <2>9. m.prompt + m.gen = Tokens(t)
      BY <2>8, MetricsAreTheLevels, CountsAreTokens
    <2> QED
      BY <2>3, <2>6, <2>7, <2>9
  <1> QED
    BY Invariance, <1>1, PTL

-----------------------------------------------------------------------------
(* Utilization.                                                              *)

LEMMA DevsType ==
  ASSUME Inv
  PROVE  /\ DOMAIN Devs = DOMAIN generated /\ IsFiniteSet(DOMAIN Devs)
         /\ \A l \in DOMAIN Devs :
              LET x == Devs[l].achieved
              IN  /\ x.n \in Int /\ x.d \in Nat \ {0}
                  /\ generated[l].closed => x.n \in Nat
  <1>1. DOMAIN Devs = DOMAIN generated
    BY DEF Devs
  <1>2. IsFiniteSet(DOMAIN generated)
    <2>1. DOMAIN generated = 1 .. Len(generated) /\ Len(generated) \in Nat
      BY DEF Inv, Closed
    <2> QED
      BY <2>1, FS_Interval
  <1>3. ASSUME NEW l \in DOMAIN generated
        PROVE  LET x == Devs[l].achieved
               IN  /\ x.n \in Int /\ x.d \in Nat \ {0}
                   /\ generated[l].closed => x.n \in Nat
    <2>1. PICK b, a \in Snapshots, t \in Bags, d \in Nat \ {0} :
             Windows(b, a, t) /\ generated[l] = LevelOf(b, a, t, d)
      BY LevelUnfolds
    <2>2. Devs[l].achieved = DevRecord(LevelOf(b, a, t, d)).achieved
      BY <2>1 DEF Devs
    <2>3. generated[l].closed <=> a # None
      BY <2>1, LevelFields
    <2> QED
      BY <2>1, <2>2, <2>3, AchievedType
  <1> QED
    BY <1>1, <1>2, <1>3

\* The best of the levels that have tokens, if there is one.
LEMMA BestIsBest ==
  ASSUME Inv, WithTph(Devs) # {}
  PROVE  \E c \in WithTph(Devs) :
           /\ BestLevel(Devs) = Devs[c].achieved
           /\ \A k \in WithTph(Devs) : ~Less(Devs[c].achieved, Devs[k].achieved)
  <1> DEFINE S == WithTph(Devs)
             x(l) == Devs[l].achieved
             R == {p \in S \X S : ~Less(x(p[1]), x(p[2]))}
             Best(l) == \A k \in S : ~Less(x(l), x(k))
  <1>1. \A l \in S : l \in DOMAIN Devs
    BY DEF WithTph
  <1>2. \A l \in S : x(l).n \in Int /\ x(l).d \in Nat \ {0}
    BY <1>1, DevsType
  <1>3. IsFiniteSet(S)
    BY <1>1, DevsType, FS_Subset
  <1> HIDE DEF S, x
  <1>4. \A l, k \in S : Less(x(l), x(k)) <=> x(l).n * x(k).d < x(k).n * x(l).d
    BY DEF Less
  <1>5. \A l, k \in S : x(l).n * x(k).d \in Int /\ x(k).n * x(l).d \in Int
    <2>1. \A y \in Int, z \in Nat : y * z \in Int
      OBVIOUS
    <2> QED
      BY <1>2, <2>1
  <1>6. IsTotal(R, S)
    <2>1. \A l, k \in S : ~Less(x(l), x(k)) \/ ~Less(x(k), x(l))
      BY <1>4, <1>5
    <2> QED
      BY <2>1 DEF IsTotal
  <1>7. IsTransitive(R, S)
    <2> SUFFICES ASSUME NEW l \in S, NEW k \in S, NEW j \in S,
                        ~Less(x(l), x(k)), ~Less(x(k), x(j))
                 PROVE  ~Less(x(l), x(j))
      BY DEF IsTransitive
    <2>1. x(k).n * x(l).d <= x(l).n * x(k).d /\ x(j).n * x(k).d <= x(k).n * x(j).d
      BY <1>4, <1>5
    <2>2. x(j).n * x(l).d <= x(l).n * x(j).d
      BY <1>2, <2>1, FractionsTransitive
    <2> QED
      BY <1>4, <1>5, <2>2
  <1>8. \E l \in S : Best(l)
    <2>1. \E l \in S : \A k \in S : <<l, k>> \in R
      <3> HIDE DEF R
      <3> QED
        BY <1>3, <1>6, <1>7, FiniteHasFirst DEF S
    <2> QED
      BY <2>1
  <1> DEFINE c == CHOOSE l \in S : Best(l)
  <1>9. c \in S /\ Best(c)
    <2> HIDE DEF Best
    <2> QED
      BY <1>8
  <1>10. BestLevel(Devs) = Devs[c].achieved
    BY DEF BestLevel, S, x
  <1> HIDE DEF c
  <1> QED
    BY <1>9, <1>10 DEF S, x

LEMMA NonZero ==
  /\ \A y, z \in Int : y # 0 /\ z # 0 => y * z # 0
  /\ \A y, z \in Nat : y # 0 /\ z # 0 => y * z > 0
  OBVIOUS

\* apply_utilization, for all levels, rates and ceilings: no level is divided by 0, none without
\* a rate is shown, and by the best level no level is above 1.
THEOREM Utilizations == Spec => []UtilizationIsAFraction
  <1>1. Inv => UtilizationIsAFraction
    <2> SUFFICES ASSUME Inv, report # None
                 PROVE  /\ \A l \in DOMAIN report.utilization :
                             report.utilization[l].n # 0 /\ report.utilization[l].d # 0
                        /\ report.basis = "best_level" /\ (\A l \in DOMAIN generated : generated[l].closed) =>
                             /\ Cardinality(DOMAIN report.utilization) >= 2
                             /\ \A l \in DOMAIN report.utilization :
                                  LET u == report.utilization[l] IN 0 < u.n /\ u.n <= u.d
      BY DEF UtilizationIsAFraction
    <2> DEFINE S == WithTph(Devs)
               x(l) == Devs[l].achieved
    <2>1. report.basis = Basis(Devs) /\ report.utilization = Utilization(Devs)
      BY DEF Inv, Reported
    <2>2. \A l \in S : /\ l \in DOMAIN generated /\ x(l).n \in Int /\ x(l).d \in Nat \ {0} /\ x(l).n # 0
                       /\ generated[l].closed => x(l).n \in Nat
      BY DevsType DEF WithTph
    <2>3. CASE Basis(Devs) = None
      <3>1. report.utilization = <<>> /\ report.basis # "best_level"
        BY <2>1, <2>3, NoneAssumption DEF Utilization
      <3> QED
        BY <3>1
    <2>4. CASE Basis(Devs) = "theta_max" /\ Basis(Devs) # None
      <3>1. theta.n # 0 /\ theta.n \in Int /\ theta.d \in Nat \ {0}
        BY <2>4 DEF Basis, Inv, Ceiling
      <3>2. report.utilization = [l \in S |-> [n |-> x(l).n * theta.d, d |-> x(l).d * theta.n]]
        BY <2>1, <2>4 DEF Utilization
      <3>3. report.basis # "best_level"
        BY <2>1, <2>4
      <3> HIDE DEF S, x
      <3>4. ASSUME NEW l \in S PROVE x(l).n * theta.d # 0 /\ x(l).d * theta.n # 0
        <4>1. {x(l).n, x(l).d, theta.n, theta.d} \subseteq Int
          BY <2>2, <3>1
        <4>2. x(l).n # 0 /\ x(l).d # 0 /\ theta.n # 0 /\ theta.d # 0
          BY <2>2, <3>1
        <4> QED
          BY <4>1, <4>2, NonZero
      <3> QED
        BY <3>2, <3>3, <3>4
    <2>5. CASE Basis(Devs) = "best_level" /\ Basis(Devs) # None
      <3>1. S # {} /\ Cardinality(S) >= 2
        BY <2>5 DEF Basis
      <3>2. PICK c \in S : /\ BestLevel(Devs) = x(c)
                           /\ \A k \in S : ~Less(x(c), x(k))
        BY <3>1, BestIsBest
      <3>3. report.utilization = [l \in S |-> [n |-> x(l).n * x(c).d, d |-> x(l).d * x(c).n]]
        BY <2>1, <2>5, <3>2 DEF Utilization
      <3> HIDE DEF S, x
      <3>4. \A l \in S : x(l).n * x(c).d # 0 /\ x(l).d * x(c).n # 0
        BY <2>2, NonZero
      <3>5. ASSUME \A l \in DOMAIN generated : generated[l].closed, NEW l \in S
            PROVE  0 < x(l).n * x(c).d /\ x(l).n * x(c).d <= x(l).d * x(c).n
        <4>1. {x(l).n, x(l).d, x(c).n, x(c).d} \subseteq Nat \ {0}
          BY <2>2, <3>5
        <4>2. x(l).n * x(c).d > 0 /\ x(l).n * x(c).d \in Nat /\ x(c).n * x(l).d \in Nat
          BY <4>1, NonZero, ProductType
        <4>3. ~(x(c).n * x(l).d < x(l).n * x(c).d)
          BY <3>2 DEF Less
        <4>4. x(c).n * x(l).d = x(l).d * x(c).n
          BY <4>1
        <4> QED
          BY <4>2, <4>3, <4>4
      <3> QED
        BY <3>1, <3>3, <3>4, <3>5
    <2>6. Basis(Devs) \in {None, "theta_max", "best_level"}
      BY DEF Basis
    <2> QED
      BY <2>3, <2>4, <2>5, <2>6
  <1> QED
    BY Invariance, <1>1, PTL
=============================================================================
