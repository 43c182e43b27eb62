----------------------------- MODULE TextProofs -----------------------------
(***************************************************************************)
(* Proofs about the three modules in which one thread goes through a text  *)
(* from left to right: ApiRoutes, a request coming in, for any names and   *)
(* whatever segments they make; ArgvBuilder, a command line going out, for *)
(* any configurations and any capacity; Telemetry, for any files that look *)
(* as the kernel writes them.                                              *)
(* They share the induction along a sequence.                              *)
(***************************************************************************)
EXTENDS ApiRoutes, ArgvBuilder, Telemetry, SequenceTheorems, FiniteSetTheorems,
        TLAPS

(* Induction up to m, as a fact about a set: an element that T lacks would *)
(* make the predecessor an injection of the lacking ones into fewer.       *)
LEMMA SetInduction ==
  ASSUME NEW m \in Nat, NEW T, 0 \in T,
         \A x \in 0..m : x \in T /\ x + 1 <= m => x + 1 \in T
  PROVE  \A x \in 0..m : x \in T
<1> SUFFICES ASSUME NEW k \in 0..m, k \notin T PROVE FALSE
  OBVIOUS
<1> DEFINE D == {x \in 0..k : x \notin T}
           down == [x \in D |-> x - 1]
<1>1. D \subseteq 0..k /\ k \in D /\ IsFiniteSet(0..k)
  BY FS_Interval
<1>2. IsFiniteSet(D)
  BY <1>1, FS_Subset
<1>3. IsFiniteSet(D \ {k}) /\ Cardinality(D \ {k}) = Cardinality(D) - 1
  BY <1>1, <1>2, FS_RemoveElement
<1>4. ASSUME NEW x \in D PROVE x - 1 \in D \ {k}
  <2>1. x \in 1..k /\ x \notin T
    <3>1. x \in 0..k /\ x \notin T
      OBVIOUS
    <3>2. x # 0
      BY <3>1
    <3> QED
      BY <3>1, <3>2
  <2>2. x - 1 \in 0..m /\ (x - 1) + 1 <= m /\ (x - 1) + 1 = x
    BY <2>1
  <2>3. x - 1 \notin T
    BY <2>1, <2>2
  <2> QED
    BY <2>1, <2>3
<1>5. down \in Injection(D, D \ {k})
  <2>1. down \in [D -> D \ {k}]
    BY <1>4
  <2>2. \A x, y \in D : down[x] = down[y] => x = y
    BY <1>1
  <2> QED
    BY <2>1, <2>2 DEF Injection, IsInjective
<1>6. Cardinality(D) <= Cardinality(D \ {k})
  BY <1>3, <1>5, FS_Injection
<1>7. Cardinality(D) \in Nat
  BY <1>2, FS_CardinalityType
<1> QED
  BY <1>3, <1>6, <1>7

(* The sequences of a sequence, one after the other: how FlattenSeq gets   *)
(* there.                                                                  *)
LEMMA FlattenSteps ==
  ASSUME NEW S, NEW ss \in Seq(Seq(S))
  PROVE  \E F \in [0..Len(ss) -> Seq(S)] :
           /\ F[0] = <<>> /\ FlattenSeq(ss) = F[Len(ss)]
           /\ \A i \in 1..Len(ss) : F[i] = F[i - 1] \o ss[i]
<1> DEFINE m == Len(ss)
           Flat(f, k) == \A i \in 1..k : f[i] = IF i = 1 THEN ss[i] ELSE f[i - 1] \o ss[i]
           T == {k \in 0..m : \E f \in [1..k -> Seq(S)] : Flat(f, k)}
<1>1. m \in Nat /\ \A i \in 1..m : ss[i] \in Seq(S)
  OBVIOUS
<1>2. 0 \in T
  <2> DEFINE none == [i \in 1..0 |-> <<>>]
  <2>1. none \in [1..0 -> Seq(S)] /\ 0 \in 0..m
    BY <1>1
  <2>2. Flat(none, 0)
    OBVIOUS
  <2> HIDE DEF none, Flat
  <2> QED
    BY <2>1, <2>2
<1>3. ASSUME NEW k \in 0..m, k \in T, k + 1 <= m PROVE k + 1 \in T
  <2>1. PICK f \in [1..k -> Seq(S)] : Flat(f, k)
    BY <1>3
  <2> DEFINE last == IF k = 0 THEN ss[1] ELSE f[k] \o ss[k + 1]
             g == [i \in 1..(k + 1) |-> IF i = k + 1 THEN last ELSE f[i]]
  <2>2. last \in Seq(S)
    <3>1. CASE k = 0
      BY <1>1, <1>3, <3>1
    <3>2. CASE k # 0
      <4>1. f[k] \in Seq(S) /\ ss[k + 1] \in Seq(S)
        BY <1>1, <1>3, <3>2
      <4> QED
        BY <3>2, <4>1
    <3> QED
      BY <3>1, <3>2
  <2>3. g \in [1..(k + 1) -> Seq(S)]
    BY <2>2
  <2>4. ASSUME NEW i \in 1..(k + 1)
        PROVE  g[i] = IF i = 1 THEN ss[i] ELSE g[i - 1] \o ss[i]
    <3>1. CASE i = k + 1
      <4>1. g[i] = last
        BY <3>1
      <4>2. k # 0 => i # 1 /\ i - 1 = k /\ g[i - 1] = f[k]
        BY <3>1
      <4> QED
        BY <3>1, <4>1, <4>2
    <3>2. CASE i # k + 1
      <4>1. i \in 1..k /\ g[i] = f[i]
        BY <3>2
      <4>2. i # 1 => i - 1 \in 1..k /\ g[i - 1] = f[i - 1]
        BY <4>1
      <4>3. f[i] = IF i = 1 THEN ss[i] ELSE f[i - 1] \o ss[i]
        BY <2>1, <4>1
      <4> QED
        BY <4>1, <4>2, <4>3
    <3> QED
      BY <3>1, <3>2
  <2> HIDE DEF g
  <2>5. k + 1 \in 0..m
    BY <1>1, <1>3
  <2> QED
    BY <2>3, <2>4, <2>5
<1>4. m \in T
  <2>1. \A x \in 0..m : x \in T /\ x + 1 <= m => x + 1 \in T
    BY <1>3
  <2> HIDE DEF T, m
  <2>2. \A x \in 0..m : x \in T
    BY <1>1, <1>2, <2>1, SetInduction
  <2> QED
    BY <1>1, <2>2
<1>5. PICK f \in [1..m -> Seq(S)] : Flat(f, m)
  BY <1>4
<1>6. CASE m = 0
  <2> DEFINE F == [i \in 0..m |-> <<>>]
  <2>1. ss = <<>> /\ <<>> \in Seq(S)
    BY <1>6
  <2>2. FlattenSeq(ss) = <<>>
    BY <2>1 DEF FlattenSeq
  <2>3. F \in [0..m -> Seq(S)] /\ F[0] = <<>> /\ F[m] = <<>>
    BY <1>6
  <2>4. 1..m = {}
    BY <1>6
  <2> HIDE DEF F
  <2> QED
    BY <2>2, <2>3, <2>4
<1>7. CASE m # 0
  <2> DEFINE step(g) == [i \in 1..m |-> IF i = 1 THEN ss[i] ELSE g[i - 1] \o ss[i]]
             flatten == CHOOSE g : g = step(g)
  <2>1. f = step(f)
    BY <1>5
  <2>2. flatten = step(flatten)
    <3> HIDE DEF step
    <3> QED
      BY <2>1
  <2>3. FlattenSeq(ss) = flatten[m]
    BY <1>7 DEF FlattenSeq
  <2>4. ASSUME NEW i \in 1..m
        PROVE  flatten[i] = IF i = 1 THEN ss[i] ELSE flatten[i - 1] \o ss[i]
    <3> HIDE DEF flatten
    <3>1. flatten[i] = step(flatten)[i]
      BY <2>2
    <3> QED
      BY <3>1
  <2> HIDE DEF flatten, step
  <2> DEFINE U == {k \in 0..m : k # 0 => flatten[k] \in Seq(S)}
  <2>5. ASSUME NEW k \in 0..m, k \in U, k + 1 <= m PROVE k + 1 \in U
    <3>1. k + 1 \in 1..m /\ ss[k + 1] \in Seq(S)
      BY <1>1, <2>5
    <3>2. CASE k = 0
      <4>1. flatten[k + 1] = ss[k + 1]
        BY <2>4, <3>1, <3>2
      <4> QED
        BY <3>1, <4>1
    <3>3. CASE k # 0
      <4>1. flatten[k] \in Seq(S)
        BY <2>5, <3>3
      <4>2. k + 1 # 1 /\ (k + 1) - 1 = k
        BY <3>3
      <4>3. flatten[k + 1] = flatten[k] \o ss[k + 1]
        BY <2>4, <3>1, <4>2
      <4>4. flatten[k + 1] \in Seq(S)
        BY <3>1, <4>1, <4>3
      <4> QED
        BY <3>1, <4>4
    <3> QED
      BY <3>2, <3>3
  <2>6. \A k \in 0..m : k \in U
    <3>1. 0 \in U /\ \A x \in 0..m : x \in U /\ x + 1 <= m => x + 1 \in U
      BY <1>1, <2>5
    <3> HIDE DEF U, m
    <3> QED
      BY <1>1, <3>1, SetInduction
  <2> DEFINE F == [k \in 0..m |-> IF k = 0 THEN <<>> ELSE flatten[k]]
  <2>7. F \in [0..m -> Seq(S)]
    <3>1. <<>> \in Seq(S)
      OBVIOUS
    <3> QED
      BY <2>6, <3>1
  <2>8. F[0] = <<>> /\ FlattenSeq(ss) = F[m]
    BY <1>1, <1>7, <2>3
  <2>9. ASSUME NEW i \in 1..m PROVE F[i] = F[i - 1] \o ss[i]
    <3>1. CASE i = 1
      <4>1. F[i] = ss[i] /\ F[i - 1] = <<>> /\ ss[i] \in Seq(S)
        BY <1>1, <2>4, <3>1
      <4>2. <<>> \o ss[i] = ss[i]
        BY <4>1, ConcatEmptySeq
      <4> QED
        BY <4>1, <4>2
    <3>2. CASE i # 1
      <4>1. i - 1 \in 1..m
        BY <3>2
      <4>2. F[i] = flatten[i] /\ F[i - 1] = flatten[i - 1]
        BY <4>1
      <4> QED
        BY <2>4, <3>2, <4>2
    <3> QED
      BY <3>1, <3>2
  <2> HIDE DEF F
  <2> QED
    BY <2>7, <2>8, <2>9
<1> QED
  BY <1>6, <1>7

(* Its type, in particular.                                               *)
LEMMA FlattenSeqType ==
  ASSUME NEW S, NEW ss \in Seq(Seq(S))
  PROVE  FlattenSeq(ss) \in Seq(S)
<1>1. Len(ss) \in 0..Len(ss)
  OBVIOUS
<1>2. PICK F \in [0..Len(ss) -> Seq(S)] : FlattenSeq(ss) = F[Len(ss)]
  BY FlattenSteps
<1> QED
  BY <1>1, <1>2

(* A set that has some of the first m numbers has a least one of them. *)
LEMMA Least ==
  ASSUME NEW m \in Nat, NEW T, \E i \in 1..m : i \in T
  PROVE  \E i \in 1..m : i \in T /\ \A j \in 1..(i - 1) : j \notin T
<1> SUFFICES ASSUME \A i \in 1..m : i \in T => \E j \in 1..(i - 1) : j \in T
             PROVE  FALSE
  OBVIOUS
<1> DEFINE U == {x \in 0..m : \A j \in 1..x : j \notin T}
<1>1. 0 \in U
  OBVIOUS
<1>2. ASSUME NEW x \in 0..m, x \in U, x + 1 <= m PROVE x + 1 \in U
  <2>1. x + 1 \in 1..m /\ (x + 1) - 1 = x /\ \A j \in 1..x : j \notin T
    BY <1>2
  <2>2. x + 1 \notin T
    BY <2>1
  <2>3. \A j \in 1..(x + 1) : j = x + 1 \/ j \in 1..x
    OBVIOUS
  <2> QED
    BY <2>1, <2>2, <2>3
<1>3. \A x \in 0..m : x \in U
  <2> HIDE DEF U
  <2> QED
    BY <1>1, <1>2, SetInduction
<1>4. m \in U
  BY <1>3
<1> QED
  BY <1>4

(* The route is the first that matches. *)
LEMMA RouteIs ==
  ASSUME NEW p
  PROVE  \/ /\ Route(p) = "none"
            /\ \A i \in 1..Len(Routes) : ~Matches(p, Routes[i])
         \/ \E i \in 1..Len(Routes) :
              /\ Route(p) = Routes[i] /\ Matches(p, Routes[i])
              /\ \A j \in 1..(i - 1) : ~Matches(p, Routes[j])
<1> DEFINE T == {i \in 1..Len(Routes) : Matches(p, Routes[i])}
<1>1. CASE ~\E i \in 1..Len(Routes) : Matches(p, Routes[i])
  BY <1>1 DEF Route
<1>2. CASE \E i \in 1..Len(Routes) : Matches(p, Routes[i])
  <2>1. Len(Routes) \in Nat
    BY DEF Routes
  <2>2. \E i \in 1..Len(Routes) : i \in T
    BY <1>2
  <2>3. \E i \in 1..Len(Routes) : i \in T /\ \A j \in 1..(i - 1) : j \notin T
    <3> HIDE DEF T
    <3> QED
      BY <2>1, <2>2, Least
  <2>4. \E i \in 1..Len(Routes) :
          Matches(p, Routes[i]) /\ \A j \in 1..(i - 1) : ~Matches(p, Routes[j])
    <3>1. PICK i \in 1..Len(Routes) : i \in T /\ \A j \in 1..(i - 1) : j \notin T
      BY <2>3
    <3>2. \A j \in 1..(i - 1) : j \in 1..Len(Routes)
      BY <2>1
    <3> QED
      BY <3>1, <3>2
  <2> QED
    BY <1>2, <2>4 DEF Route
<1> QED
  BY <1>1, <1>2

LEMMA RouteType ==
  ASSUME NEW p
  PROVE  /\ Route(p) \in Operations \cup {"none"}
         /\ Route(p) # "none" => Matches(p, Route(p))
         /\ \A r \in Operations : Matches(p, r) => Route(p) # "none"
         /\ Matches(p, "health") \/ Matches(p, "telemetry")
              => Route(p) \in {"health", "telemetry"}
         /\ Matches(p, "stop") \/ Matches(p, "start") \/ Matches(p, "qmp")
              => Route(p) \notin {"snapshot", "balloon", "usb"}
         /\ Matches(p, "snapshot") => Route(p) \notin {"balloon", "usb"}
         /\ Matches(p, "balloon") => Route(p) # "usb"
<1>1. /\ Len(Routes) = 8 /\ \A i \in 1..8 : Routes[i] \in Operations
      /\ \A r \in Operations : \E i \in 1..8 : Routes[i] = r
      /\ Routes[1] = "health" /\ Routes[2] = "telemetry"
      /\ Routes[3] = "stop" /\ Routes[4] = "start" /\ Routes[5] = "qmp"
      /\ Routes[6] = "snapshot" /\ Routes[7] = "balloon"
      /\ \A i \in 1..8 : Routes[i] \in {"snapshot", "balloon", "usb"} => 5 < i
      /\ \A i \in 1..8 : Routes[i] \notin {"health", "telemetry"} => 2 < i
      /\ \A i \in 1..8 : Routes[i] \in {"balloon", "usb"} => 6 < i
      /\ \A i \in 1..8 : Routes[i] = "usb" => 7 < i
  BY DEF Routes, Operations
<1>2. "none" \notin Operations /\ {"health", "telemetry"} \subseteq Operations
  BY DEF Operations
<1>3. CASE Route(p) = "none" /\ \A i \in 1..8 : ~Matches(p, Routes[i])
  <2>1. \A r \in Operations : ~Matches(p, r)
    BY <1>1, <1>3
  <2> QED
    BY <1>3, <2>1 DEF Operations
<1>4. ASSUME NEW i \in 1..8, Route(p) = Routes[i], Matches(p, Routes[i]),
             \A j \in 1..(i - 1) : ~Matches(p, Routes[j])
      PROVE  /\ Route(p) \in Operations /\ Matches(p, Route(p))
             /\ \A j \in 1..8 : j < i => ~Matches(p, Routes[j])
  BY <1>1, <1>4
<1>5. CASE \E i \in 1..8 : /\ Route(p) = Routes[i] /\ Matches(p, Routes[i])
                           /\ \A j \in 1..(i - 1) : ~Matches(p, Routes[j])
  <2>1. PICK i \in 1..8 : /\ Route(p) = Routes[i] /\ Route(p) \in Operations
                          /\ Matches(p, Route(p))
                          /\ \A j \in 1..8 : j < i => ~Matches(p, Routes[j])
    BY <1>4, <1>5
  <2>2. /\ Route(p) \notin {"health", "telemetry"} => 1 < i /\ 2 < i
        /\ Route(p) \in {"snapshot", "balloon", "usb"} => 3 < i /\ 4 < i /\ 5 < i
        /\ Route(p) \in {"balloon", "usb"} => 6 < i
        /\ Route(p) = "usb" => 7 < i
    BY <1>1, <2>1
  <2> QED
    BY <1>1, <1>2, <2>1, <2>2
<1> QED
  BY <1>1, <1>3, <1>5, RouteIs
-----------------------------------------------------------------------------
(* A name of its own for the empty text: the provers never look into it.   *)
Empty == ""

Segments == Words \cup Texts \cup {Empty}

(* Where the first of some segments is. *)
LEMMA FirstIs ==
  ASSUME NEW S, NEW p \in Seq(S), NEW T, Has(p, T)
  PROVE  /\ First(p, T) \in 1..Len(p) /\ p[First(p, T)] \in T
         /\ \A j \in 1..(First(p, T) - 1) : p[j] \notin T
<1> DEFINE D == {i \in 1..Len(p) : p[i] \in T}
<1>1. \E i \in 1..Len(p) : i \in D /\ \A j \in 1..(i - 1) : j \notin D
  <2>1. Len(p) \in Nat /\ \E i \in 1..Len(p) : i \in D
    BY DEF Has
  <2> HIDE DEF D
  <2> QED
    BY <2>1, Least
<1>2. \E i \in 1..Len(p) : p[i] \in T /\ \A j \in 1..(i - 1) : p[j] \notin T
  <2>1. PICK i \in 1..Len(p) : i \in D /\ \A j \in 1..(i - 1) : j \notin D
    BY <1>1
  <2>2. \A j \in 1..(i - 1) : j \in 1..Len(p)
    OBVIOUS
  <2> QED
    BY <2>1, <2>2
<1> QED
  BY <1>2 DEF First

(* A path that is cut keeps its segments, but for the one it ends in. *)
LEMMA CutIs ==
  ASSUME NEW S, NEW p \in Seq(S), NamesOK
  PROVE  /\ Cut(p) \in Seq(S \cup Texts)
         /\ \A i \in 1..Len(Cut(p)) :
              \E j \in 1..Len(p) :
                \/ Cut(p)[i] = p[j]
                \/ p[j] \in Huge /\ Cut(p)[i] = Kept[p[j]]
         /\ ~Has(p, Huge) => Cut(p) = p
<1>1. CASE ~Has(p, Huge)
  <2>1. Cut(p) = p
    BY <1>1 DEF Cut
  <2>2. p \in Seq(S \cup Texts)
    OBVIOUS
  <2> QED
    BY <2>1, <2>2
<1>2. CASE Has(p, Huge)
  <2> DEFINE k == First(p, Huge)
             s == SubSeq(p, 1, k - 1)
  <2>1. k \in 1..Len(p) /\ p[k] \in Huge
    BY <1>2, FirstIs
  <2>2. Kept[p[k]] \in Texts
    BY <2>1 DEF NamesOK
  <2>3. Cut(p) = Append(s, Kept[p[k]])
    BY <1>2 DEF Cut
  <2> HIDE DEF k
  <2>4. s \in Seq(S) /\ Len(s) = k - 1 /\ \A i \in 1..(k - 1) : s[i] = p[i]
    BY <2>1
  <2> HIDE DEF s
  <2>5. /\ Cut(p) \in Seq(S \cup Texts) /\ Len(Cut(p)) = k
        /\ Cut(p)[k] = Kept[p[k]] /\ \A i \in 1..(k - 1) : Cut(p)[i] = p[i]
    BY <2>1, <2>2, <2>3, <2>4
  <2>6. \A i \in 1..k : i = k \/ (i \in 1..(k - 1) /\ i \in 1..Len(p))
    BY <2>1
  <2> QED
    BY <1>2, <2>1, <2>5, <2>6
<1> QED
  BY <1>1, <1>2
-----------------------------------------------------------------------------
LEMMA WalkType ==
  ASSUME NEW S, NEW p \in Seq(S), NEW s \in Seq(S), NEW i \in 1..Len(p)
  PROVE  Walk(p, s, i) \in Seq(S)
<1>1. p[i] \in S
  OBVIOUS
<1>2. s # <<>> => Front(s) \in Seq(S)
  BY DEF Front
<1> QED
  BY <1>1, <1>2 DEF Walk

(* How the dots of a path are resolved, segment by segment. *)
LEMMA ResolvedIs ==
  ASSUME NEW S, NEW p \in Seq(S)
  PROVE  \E f \in [0..Len(p) -> Seq(S)] :
           /\ f[0] = <<>>
           /\ \A i \in 1..Len(p) : f[i] = Walk(p, f[i - 1], i)
           /\ Resolved(p) = IF Last(p) \in Dots /\ ~Has(p, Queries)
                            THEN Append(f[Len(p)], Empty) ELSE f[Len(p)]
<1> DEFINE m == Len(p)
           Steps(f, k) == f[0] = <<>> /\ \A i \in 1..k : f[i] = Walk(p, f[i - 1], i)
           T == {k \in 0..m : \E f \in [0..k -> Seq(S)] : Steps(f, k)}
           step(g) == [i \in 0..m |-> IF i = 0 THEN <<>> ELSE Walk(p, g[i - 1], i)]
           resolved == CHOOSE g : g = step(g)
<1>1. m \in Nat /\ <<>> \in Seq(S)
  OBVIOUS
<1>2. 0 \in T
  <2> DEFINE none == [i \in 0..0 |-> <<>>]
  <2>1. none \in [0..0 -> Seq(S)] /\ 0 \in 0..m /\ none[0] = <<>> /\ 1..0 = {}
    BY <1>1
  <2>2. Steps(none, 0)
    BY <2>1
  <2> HIDE DEF none, Steps
  <2> QED
    BY <2>1, <2>2
<1>3. ASSUME NEW k \in 0..m, k \in T, k + 1 <= m PROVE k + 1 \in T
  <2>1. PICK f \in [0..k -> Seq(S)] : Steps(f, k)
    BY <1>3
  <2> DEFINE last == Walk(p, f[k], k + 1)
             g == [i \in 0..(k + 1) |-> IF i = k + 1 THEN last ELSE f[i]]
  <2>2. last \in Seq(S)
    <3>1. f[k] \in Seq(S) /\ k + 1 \in 1..Len(p)
      BY <1>1, <1>3
    <3> QED
      BY <3>1, WalkType
  <2>3. g \in [0..(k + 1) -> Seq(S)]
    <3> HIDE DEF last
    <3> QED
      BY <2>2
  <2>4. g[0] = <<>>
    BY <2>1
  <2>5. ASSUME NEW i \in 1..(k + 1) PROVE g[i] = Walk(p, g[i - 1], i)
    <3> HIDE DEF last
    <3>1. CASE i = k + 1
      <4>1. g[i] = last /\ g[i - 1] = f[k]
        BY <3>1
      <4> QED
        BY <3>1, <4>1 DEF last
    <3>2. CASE i # k + 1
      <4>1. i \in 1..k /\ g[i] = f[i] /\ g[i - 1] = f[i - 1]
        BY <3>2
      <4> QED
        BY <2>1, <4>1
    <3> QED
      BY <3>1, <3>2
  <2> HIDE DEF g
  <2>6. k + 1 \in 0..m
    BY <1>1, <1>3
  <2> QED
    BY <2>3, <2>4, <2>5, <2>6
<1>4. m \in T
  <2>1. \A x \in 0..m : x \in T /\ x + 1 <= m => x + 1 \in T
    BY <1>3
  <2> HIDE DEF T, m
  <2>2. \A x \in 0..m : x \in T
    BY <1>1, <1>2, <2>1, SetInduction
  <2> QED
    BY <1>1, <2>2
<1>5. PICK f \in [0..m -> Seq(S)] : Steps(f, m)
  BY <1>4
<1>6. f = step(f)
  <2>1. \A i \in 0..m : f[i] = IF i = 0 THEN <<>> ELSE Walk(p, f[i - 1], i)
    BY <1>5
  <2> QED
    BY <2>1
<1>7. resolved = step(resolved)
  <2> HIDE DEF step
  <2> QED
    BY <1>6
<1> HIDE DEF resolved
<1>8. /\ resolved[0] = <<>>
      /\ \A i \in 1..m : resolved[i] = Walk(p, resolved[i - 1], i)
  <2>1. \A i \in 0..m : resolved[i] = step(resolved)[i]
    BY <1>7
  <2> QED
    BY <1>1, <2>1
<1>9. \A k \in 0..m : resolved[k] \in Seq(S)
  <2> DEFINE U == {k \in 0..m : resolved[k] \in Seq(S)}
  <2>1. ASSUME NEW k \in 0..m, k \in U, k + 1 <= m PROVE k + 1 \in U
    <3>1. k + 1 \in 1..m /\ (k + 1) - 1 = k /\ k + 1 \in 0..m
      BY <1>1, <2>1
    <3>2. resolved[k + 1] = Walk(p, resolved[k], k + 1)
      BY <1>8, <3>1
    <3> QED
      BY <2>1, <3>1, <3>2, WalkType
  <2>2. 0 \in U
    <3>1. 0 \in 0..m
      BY <1>1
    <3>2. resolved[0] \in Seq(S)
      BY <1>1, <1>8, Zenon
    <3> QED
      BY <3>1, <3>2
  <2>3. \A k \in 0..m : k \in U
    <3> HIDE DEF U, m
    <3> QED
      BY <1>1, <2>1, <2>2, SetInduction
  <2> QED
    BY <2>3
<1>10. resolved \in [0..m -> Seq(S)]
  <2>1. resolved = [i \in 0..m |-> resolved[i]]
    BY <1>7
  <2> QED
    BY <1>9, <2>1
<1>11. Resolved(p) = IF Last(p) \in Dots /\ ~Has(p, Queries)
                     THEN Append(resolved[m], Empty) ELSE resolved[m]
  BY Zenon DEF Resolved, resolved, Empty
<1> QED
  BY <1>8, <1>10, <1>11

(* What fetch sends has no segments but those it was given.                *)
LEMMA FetchedType ==
  ASSUME NEW S, NEW u \in Seq(S)
  PROVE  Fetched(u) \in Seq(S \cup {Empty})
<1>1. ASSUME NEW p \in Seq(S) PROVE Resolved(p) \in Seq(S \cup {Empty})
  <2>1. PICK f \in [0..Len(p) -> Seq(S)] :
          Resolved(p) \in {Append(f[Len(p)], Empty), f[Len(p)]}
    BY ResolvedIs
  <2>2. f[Len(p)] \in Seq(S)
    <3>1. Len(p) \in 0..Len(p)
      OBVIOUS
    <3> QED
      BY <3>1
  <2>3. \A s \in Seq(S) : /\ s \in Seq(S \cup {Empty})
                         /\ Append(s, Empty) \in Seq(S \cup {Empty})
    OBVIOUS
  <2> QED
    BY <2>1, <2>2, <2>3, Zenon
<1>2. CASE Has(u, {"#"})
  <2>1. First(u, {"#"}) \in 1..Len(u)
    BY <1>2, FirstIs
  <2>2. SubSeq(u, 1, First(u, {"#"}) - 1) \in Seq(S)
    BY <2>1
  <2> QED
    BY <1>1, <1>2, <2>2 DEF Fetched
<1>3. CASE ~Has(u, {"#"})
  BY <1>1, <1>3 DEF Fetched
<1> QED
  BY <1>2, <1>3

LEMMA FetchedElements ==
  ASSUME NEW S, NEW u \in Seq(S), NEW i \in 1..Len(Fetched(u))
  PROVE  \/ Fetched(u)[i] = Empty
         \/ \E j \in 1..Len(u) : Fetched(u)[i] = u[j]
<1> DEFINE E == {u[j] : j \in 1..Len(u)}
<1>1. u \in Seq(E)
  OBVIOUS
<1>2. Fetched(u) \in Seq(E \cup {Empty})
  <2> HIDE DEF E
  <2> QED
    BY <1>1, FetchedType
<1>3. Fetched(u)[i] \in E \cup {Empty}
  <2> HIDE DEF E
  <2> QED
    BY <1>2
<1> QED
  BY <1>3

(* A path with nothing to resolve is sent as it is.                        *)
LEMMA FetchedPlain ==
  ASSUME NEW S, NEW u \in Seq(S), Len(u) > 0, ~Has(u, Dots \cup {"#"})
  PROVE  Fetched(u) = u
<1>1. /\ ~Has(u, {"#"}) /\ \A i \in 1..Len(u) : u[i] \notin Dots
      /\ Last(u) \notin Dots
  BY DEF Has, Last
<1>2. PICK f \in [0..Len(u) -> Seq(S)] :
        /\ f[0] = <<>>
        /\ \A i \in 1..Len(u) : f[i] = Walk(u, f[i - 1], i)
        /\ Resolved(u) = f[Len(u)]
  BY <1>1, ResolvedIs
<1> DEFINE m == Len(u)
           T == {k \in 0..m : Len(f[k]) = k /\ \A j \in 1..k : f[k][j] = u[j]}
<1>3. ASSUME NEW k \in 0..m, k \in T, k + 1 <= m PROVE k + 1 \in T
  <2>1. k + 1 \in 1..m /\ (k + 1) - 1 = k /\ k + 1 \in 0..m
    BY <1>3
  <2>2. f[k + 1] = Walk(u, f[k], k + 1)
    BY <1>2, <2>1
  <2>3. f[k + 1] = Append(f[k], u[k + 1])
    BY <1>1, <2>1, <2>2 DEF Walk
  <2>4. f[k] \in Seq(S) /\ u[k + 1] \in S
    BY <2>1
  <2>5. /\ Len(f[k + 1]) = k + 1 /\ f[k + 1][k + 1] = u[k + 1]
        /\ \A j \in 1..k : f[k + 1][j] = u[j]
    BY <1>3, <2>3, <2>4
  <2>6. \A j \in 1..(k + 1) : j = k + 1 \/ j \in 1..k
    OBVIOUS
  <2> QED
    BY <2>1, <2>5, <2>6
<1>4. 0 \in T
  BY <1>2
<1>5. m \in Nat
  OBVIOUS
<1>6. m \in T
  <2> HIDE DEF T, m
  <2>1. \A x \in 0..m : x \in T
    BY <1>3, <1>4, <1>5, SetInduction
  <2> QED
    BY <1>5, <2>1
<1>7. f[m] \in Seq(S) /\ Len(f[m]) = m /\ \A j \in 1..m : f[m][j] = u[j]
  BY <1>5, <1>6
<1>8. f[m] = u
  BY <1>7, SeqEqual
<1> QED
  BY <1>1, <1>2, <1>8 DEF Fetched
-----------------------------------------------------------------------------
(* Where the elements of joined sequences are.                             *)
LEMMA JoinIs ==
  ASSUME NEW S, NEW x \in Seq(S), NEW y \in Seq(S)
  PROVE  /\ x \o y \in Seq(S) /\ Len(x \o y) = Len(x) + Len(y)
         /\ \A i \in 1..Len(x) : (x \o y)[i] = x[i]
         /\ \A i \in 1..Len(y) : (x \o y)[Len(x) + i] = y[i]
  OBVIOUS

LEMMA ThreeLengths ==
  ASSUME NEW a \in Nat \ {0}, NEW b \in Nat \ {0}, NEW d \in Nat \ {0},
         NEW e, NEW f, e = a + b, f = e + d
  PROVE  /\ a >= 1 /\ e >= 2 /\ f >= 3
         /\ a = 1 => a + 1 = 2
         /\ a = 1 /\ b = 1 => e + 1 = 3
  OBVIOUS

LEMMA HeadsAre ==
  ASSUME NEW S, NEW x \in Seq(S), NEW y \in Seq(S), x # <<>>, y # <<>>
  PROVE  /\ Len(x) >= 1 /\ x[1] = Head(x)
         /\ x \o y \in Seq(S) /\ Len(x \o y) >= 2 /\ (x \o y)[1] = Head(x)
         /\ Len(x) = 1 => (x \o y)[2] = Head(y)
  OBVIOUS

LEMMA ThreeHeads ==
  ASSUME NEW S, NEW x \in Seq(S), NEW y \in Seq(S), NEW z \in Seq(S), NEW s,
         x # <<>>, y # <<>>, z # <<>>, s = (x \o y) \o z
  PROVE  /\ s \in Seq(S) /\ Len(s) >= 3 /\ s[1] = Head(x)
         /\ Len(x) = 1 => s[2] = Head(y)
         /\ Len(x) = 1 /\ Len(y) = 1 => s[3] = Head(z)
<1> DEFINE j == x \o y
<1>1. Len(x) \in Nat \ {0} /\ Len(y) \in Nat \ {0} /\ Len(z) \in Nat \ {0}
  OBVIOUS
<1>2. Head(z) = z[1]
  OBVIOUS
<1>3. /\ j \in Seq(S) /\ Len(j) = Len(x) + Len(y)
      /\ Len(j) >= 2 /\ j[1] = Head(x)
      /\ Len(x) = 1 => j[2] = Head(y)
  BY JoinIs, HeadsAre
<1>4. s = j \o z
  OBVIOUS
<1> HIDE DEF j
<1>5. /\ s \in Seq(S) /\ Len(s) = Len(j) + Len(z)
      /\ \A i \in 1..Len(j) : s[i] = j[i]
      /\ \A i \in 1..Len(z) : s[Len(j) + i] = z[i]
  <2>1. ASSUME NEW g \in Seq(S), s = g \o z
        PROVE  /\ s \in Seq(S) /\ Len(s) = Len(g) + Len(z)
               /\ \A i \in 1..Len(g) : s[i] = g[i]
               /\ \A i \in 1..Len(z) : s[Len(g) + i] = z[i]
    BY <2>1, JoinIs
  <2>2. j \in Seq(S)
    BY <1>3
  <2> QED
    BY <1>4, <2>1, <2>2
<1>6. 1 \in 1..Len(j) /\ 2 \in 1..Len(j) /\ 1 \in 1..Len(z)
  BY <1>1, <1>3
<1>7. s[1] = j[1] /\ s[2] = j[2] /\ s[Len(j) + 1] = z[1]
  BY <1>5, <1>6, Zenon
<1>8. Len(s) >= 3 /\ (Len(x) = 1 /\ Len(y) = 1 => Len(j) + 1 = 3)
  <2>1. Len(j) = Len(x) + Len(y) /\ Len(s) = Len(j) + Len(z)
    BY <1>3, <1>5
  <2> QED
    BY <1>1, <2>1, ThreeLengths, Zenon
<1>9. Len(x) = 1 /\ Len(y) = 1 => s[3] = Head(z)
  BY <1>2, <1>7, <1>8, Zenon
<1> QED
  BY <1>3, <1>5, <1>7, <1>8, <1>9

(* The names that a call puts into its path.                               *)
LEMMA InPathIs ==
  ASSUME NamesOK, NEW c \in Calls
  PROVE  /\ InPath(c) \in Seq(Texts)
         /\ c.op \in {"health", "telemetry"} => Len(InPath(c)) = 0 /\ Len(c.args) = 0
         /\ c.op \in {"start", "stop"} => Len(InPath(c)) = 1 /\ Len(c.args) = 1
         /\ c.op = "qmp" => Len(InPath(c)) = 1 /\ Len(c.args) = 2
         /\ c.op = "balloon" => Len(InPath(c)) = 2 /\ Len(c.args) = 2
         /\ c.op \in {"snapshot", "usb"} => Len(InPath(c)) = 3 /\ Len(c.args) = 3
         /\ c.op \in Operations
<1>0. Names \subseteq Texts /\ \A x \in Names : Encoded[x] \in Texts
  BY DEF NamesOK
<1>1. CASE c \in [op : {"health", "telemetry"}, args : {<<>>}]
  <2>1. c.op \in {"health", "telemetry"} /\ c.args = <<>>
    BY <1>1
  <2>2. InPath(c) = <<>>
    BY <2>1 DEF InPath
  <2> QED
    BY <2>1, <2>2 DEF Operations
<1>2. CASE c \in [op : {"start", "stop"}, args : {<<m>> : m \in Names}]
  <2>1. PICK x \in Names : c.args = <<x>>
    BY <1>2
  <2>2. c.op \in {"start", "stop"} /\ InPath(c) = <<x>>
    BY <1>2, <2>1 DEF InPath
  <2> QED
    BY <1>0, <2>1, <2>2 DEF Operations
<1>3. CASE c \in [op : {"qmp", "balloon"}, args : Names \X Names]
  <2>1. PICK x, y \in Names : c.args = <<x, y>>
    BY <1>3
  <2>2. CASE c.op = "qmp"
    <3>1. InPath(c) = <<x>>
      BY <2>1, <2>2 DEF InPath
    <3> QED
      BY <1>0, <2>1, <2>2, <3>1 DEF Operations
  <2>3. CASE c.op = "balloon"
    <3>1. InPath(c) = <<x, y>>
      BY <2>1, <2>3 DEF InPath
    <3> QED
      BY <1>0, <2>1, <2>3, <3>1 DEF Operations
  <2> QED
    BY <1>3, <2>2, <2>3
<1>4. CASE c \in [op : {"snapshot", "usb"}, args : Names \X Names \X Names]
  <2>1. PICK x, y, z \in Names : c.args = <<x, y, z>>
    BY <1>4
  <2>2. CASE c.op = "snapshot"
    <3>1. InPath(c) = <<x, Encoded[y], Encoded[z]>>
      BY <2>1, <2>2 DEF InPath
    <3>2. x \in Texts /\ Encoded[y] \in Texts /\ Encoded[z] \in Texts
      BY <1>0
    <3> QED
      BY <2>1, <2>2, <3>1, <3>2 DEF Operations
  <2>3. CASE c.op = "usb"
    <3>1. InPath(c) = <<x, y, z>>
      BY <2>1, <2>3 DEF InPath
    <3> QED
      BY <1>0, <2>1, <2>3, <3>1 DEF Operations
  <2> QED
    BY <1>4, <2>2, <2>3
<1> QED
  BY <1>1, <1>2, <1>3, <1>4 DEF Calls

(* What those names spell: at least one segment each, and the first of a   *)
(* name comes where it should while those before it have just one.         *)
LEMMA SpeltIs ==
  ASSUME NamesOK, NEW c \in Calls
  PROVE  /\ Spelt(c) \in Seq(Texts) /\ Len(Spelt(c)) >= Len(InPath(c))
         /\ \A i \in 1..Len(InPath(c)) :
              (\A j \in 1..(i - 1) : Len(Sent[InPath(c)[j]]) = 1)
                => Spelt(c)[i] = Head(Sent[InPath(c)[i]])
<1> DEFINE a == InPath(c)
           ss == [i \in 1..Len(a) |-> Sent[a[i]]]
<1>1. a \in Seq(Texts) /\ Len(a) \in 0..3
  BY InPathIs DEF Operations
<1>2. Spelt(c) = FlattenSeq(ss)
  BY DEF Spelt
<1> HIDE DEF a
<1>3. \A i \in 1..Len(a) : Sent[a[i]] \in Seq(Texts) /\ Sent[a[i]] # <<>>
  <2>1. \A x \in Texts : Sent[x] \in Seq(Texts) /\ Sent[x] # <<>>
    BY DEF NamesOK
  <2>2. \A i \in 1..Len(a) : a[i] \in Texts
    BY <1>1
  <2> QED
    BY <2>1, <2>2
<1>4. ss \in Seq(Seq(Texts)) /\ Len(ss) = Len(a) /\ \A i \in 1..Len(a) : ss[i] = Sent[a[i]]
  BY <1>1, <1>3
<1> HIDE DEF ss
<1>5. PICK F \in [0..Len(ss) -> Seq(Texts)] :
        /\ F[0] = <<>> /\ FlattenSeq(ss) = F[Len(ss)]
        /\ \A i \in 1..Len(ss) : F[i] = F[i - 1] \o ss[i]
  <2>1. ss \in Seq(Seq(Texts))
    BY <1>4
  <2> QED
    BY Zenon, <2>1, FlattenSteps
<1> DEFINE x == Sent[a[1]]
           y == Sent[a[2]]
           z == Sent[a[3]]
<1>6. CASE Len(a) = 0
  <2>1. Spelt(c) = <<>>
    BY <1>2, <1>4, <1>5, <1>6
  <2> QED
    BY <1>6, <2>1 DEF a
<1>7. ASSUME Len(a) >= 1
      PROVE  x \in Seq(Texts) /\ x # <<>> /\ F[1] = x
  <2>1. x \in Seq(Texts) /\ x # <<>> /\ ss[1] = x
    BY <1>1, <1>3, <1>4, <1>7
  <2>2. F[1] = <<>> \o x
    <3>1. 1 \in 1..Len(ss) /\ 1 - 1 = 0
      BY <1>1, <1>4, <1>7
    <3> QED
      BY <1>5, <2>1, <3>1
  <2> QED
    BY <2>1, <2>2, ConcatEmptySeq
<1>8. ASSUME Len(a) >= 2
      PROVE  y \in Seq(Texts) /\ y # <<>> /\ F[2] = x \o y
  <2>1. y \in Seq(Texts) /\ y # <<>> /\ ss[2] = y
    BY <1>1, <1>3, <1>4, <1>8
  <2>2. 2 \in 1..Len(ss) /\ 2 - 1 = 1 /\ Len(a) >= 1
    BY <1>1, <1>4, <1>8
  <2> HIDE DEF x, y
  <2> QED
    BY <1>5, <1>7, <2>1, <2>2
<1>9. ASSUME Len(a) >= 3
      PROVE  z \in Seq(Texts) /\ z # <<>> /\ F[3] = (x \o y) \o z
  <2>1. z \in Seq(Texts) /\ z # <<>> /\ ss[3] = z
    BY <1>1, <1>3, <1>4, <1>9
  <2>2. 3 \in 1..Len(ss) /\ 3 - 1 = 2 /\ Len(a) >= 2
    BY <1>1, <1>4, <1>9
  <2> HIDE DEF x, y, z
  <2> QED
    BY <1>5, <1>8, <2>1, <2>2
<1>10. Spelt(c) = F[Len(a)]
  BY <1>2, <1>4, <1>5
<1> DEFINE Single(i) == \A j \in 1..(i - 1) : Len(Sent[a[j]]) = 1
<1>11. /\ Single(2) => Len(x) = 1
       /\ Single(3) => Len(x) = 1 /\ Len(y) = 1
  <2>1. 1 \in 1..(2 - 1) /\ 1 \in 1..(3 - 1) /\ 2 \in 1..(3 - 1)
    OBVIOUS
  <2> QED
    BY <2>1
<1> DEFINE Goal == /\ Spelt(c) \in Seq(Texts) /\ Len(Spelt(c)) >= Len(a)
                   /\ \A i \in 1..Len(a) : Single(i) => Spelt(c)[i] = Head(Sent[a[i]])
<1>12. CASE Len(a) = 1
  <2>1. Spelt(c) = x /\ x \in Seq(Texts) /\ x # <<>>
    BY <1>7, <1>10, <1>12
  <2>2. Len(x) >= 1 /\ x[1] = Head(x)
    BY <2>1, HeadsAre
  <2> QED
    BY <1>12, <2>1, <2>2
<1>13. CASE Len(a) = 2
  <2>1. /\ Spelt(c) = x \o y /\ x \in Seq(Texts) /\ x # <<>>
        /\ y \in Seq(Texts) /\ y # <<>>
    <3> HIDE DEF x, y, z
    <3> QED
      BY <1>7, <1>8, <1>10, <1>13
  <2>2. /\ Spelt(c) \in Seq(Texts) /\ Len(Spelt(c)) >= 2 /\ Spelt(c)[1] = Head(x)
        /\ Len(x) = 1 => Spelt(c)[2] = Head(y)
    <3> HIDE DEF x, y
    <3> QED
      BY <2>1, HeadsAre
  <2>3. ASSUME NEW i \in 1..2, Single(i) PROVE Spelt(c)[i] = Head(Sent[a[i]])
    <3>1. i = 1 \/ i = 2
      OBVIOUS
    <3> QED
      BY <1>11, <2>2, <2>3, <3>1
  <2> HIDE DEF Single
  <2>4. Goal
    BY <1>13, <2>2, <2>3
  <2> QED
    BY <2>4 DEF a, Single
<1>14. CASE Len(a) = 3
  <2>1. /\ Spelt(c) = (x \o y) \o z /\ x \in Seq(Texts) /\ x # <<>>
        /\ y \in Seq(Texts) /\ y # <<>> /\ z \in Seq(Texts) /\ z # <<>>
    <3> HIDE DEF x, y, z
    <3> QED
      BY <1>7, <1>8, <1>9, <1>10, <1>14
  <2>2. /\ Spelt(c) \in Seq(Texts) /\ Len(Spelt(c)) >= 3 /\ Spelt(c)[1] = Head(x)
        /\ Len(x) = 1 => Spelt(c)[2] = Head(y)
        /\ Len(x) = 1 /\ Len(y) = 1 => Spelt(c)[3] = Head(z)
    <3> HIDE DEF x, y, z
    <3> QED
      BY <2>1, ThreeHeads
  <2>3. ASSUME NEW i \in 1..3, Single(i) PROVE Spelt(c)[i] = Head(Sent[a[i]])
    <3>1. i = 1 \/ i = 2 \/ i = 3
      OBVIOUS
    <3> QED
      BY <1>11, <2>2, <2>3, <3>1
  <2> HIDE DEF Single
  <2>4. Goal
    BY <1>14, <2>2, <2>3
  <2> QED
    BY <2>4 DEF a, Single
<1> QED
  BY <1>1, <1>6, <1>12, <1>13, <1>14
-----------------------------------------------------------------------------
(* The words a call's path begins with. *)
Lead(c) == IF c.op \in {"start", "stop", "qmp"} THEN Prefix("machines") ELSE Prefix(c.op)

LEMMA LeadIs ==
  ASSUME NEW c \in Calls
  PROVE  /\ Lead(c) \in Seq(Segments)
         /\ Lead(c)[1] = "api" /\ Lead(c)[2] = "v1"
         /\ c.op # "usb" => Len(Lead(c)) = 3
         /\ c.op = "usb" => Len(Lead(c)) = 4 /\ Lead(c)[3] = "usb" /\ Lead(c)[4] = "hotplug"
         /\ c.op \in {"start", "stop", "qmp"} => Lead(c)[3] = "machines"
         /\ c.op \notin {"start", "stop", "qmp"} => Lead(c)[3] = c.op
         /\ c.op \in Operations
<1>1. c.op \in Operations
  BY DEF Calls, Operations
<1>2. /\ "api" \in Segments /\ "v1" \in Segments /\ "machines" \in Segments
      /\ "hotplug" \in Segments /\ c.op \in Segments
  BY <1>1 DEF Segments, Words
<1> HIDE DEF Segments
<1>3. CASE c.op \in {"start", "stop", "qmp"}
  <2>1. Lead(c) = <<"api", "v1", "machines">>
    BY <1>3 DEF Lead, Prefix, Api
  <2> QED
    BY <1>1, <1>2, <1>3, <2>1
<1>4. CASE c.op = "usb"
  <2>1. Lead(c) = <<"api", "v1", "usb">> \o <<"hotplug">>
    BY <1>4 DEF Lead, Prefix, Api
  <2> DEFINE g == <<"api", "v1", "usb">>
             h == <<"hotplug">>
  <2>2. /\ g \in Seq(Segments) /\ h \in Seq(Segments) /\ Len(g) = 3 /\ Len(h) = 1
        /\ g[1] = "api" /\ g[2] = "v1" /\ g[3] = "usb" /\ h[1] = "hotplug"
    BY <1>2, <1>4
  <2> HIDE DEF g, h
  <2>3. /\ Lead(c) \in Seq(Segments) /\ Len(Lead(c)) = 4
        /\ \A i \in 1..3 : Lead(c)[i] = g[i] /\ Lead(c)[3 + 1] = h[1]
    BY <2>1, <2>2 DEF g, h
  <2> QED
    BY <1>1, <1>4, <2>2, <2>3
<1>5. CASE c.op \notin {"start", "stop", "qmp", "usb"}
  <2>1. Lead(c) = <<"api", "v1", c.op>>
    BY <1>5 DEF Lead, Prefix, Api
  <2> QED
    BY <1>1, <1>2, <1>5, <2>1
<1> QED
  BY <1>3, <1>4, <1>5

(* The path of a call: its words, and what its names spell. *)
LEMMA UrlIs ==
  ASSUME NamesOK, NEW c \in Calls
  PROVE  /\ Url(c) \in Seq(Segments) /\ Spelt(c) \in Seq(Segments)
         /\ \A i \in 1..Len(Lead(c)) : Url(c)[i] = Lead(c)[i]
         /\ \A i \in 1..Len(Spelt(c)) : Url(c)[Len(Lead(c)) + i] = Spelt(c)[i]
         /\ c.op \in {"start", "stop", "qmp"} =>
              /\ Len(Url(c)) = Len(Lead(c)) + Len(Spelt(c)) + 1
              /\ Url(c)[Len(Url(c))] = c.op
         /\ c.op \notin {"start", "stop", "qmp"} =>
              Len(Url(c)) = Len(Lead(c)) + Len(Spelt(c))
<1> DEFINE l == Lead(c)
           s == Spelt(c)
<1>1. l \in Seq(Segments) /\ c.op \in Segments
  BY LeadIs DEF Segments, Words
<1>2. s \in Seq(Segments)
  <2>1. s \in Seq(Texts) /\ Texts \subseteq Segments
    BY SpeltIs DEF Segments
  <2> QED
    BY <2>1
<1>3. /\ c.op \in {"start", "stop", "qmp"} => Url(c) = (l \o s) \o <<c.op>>
      /\ c.op \notin {"start", "stop", "qmp"} => Url(c) = l \o s
  <2>1. CASE c.op \in {"start", "stop", "qmp"}
    <3>1. Url(c) = l \o s \o <<c.op>>
      BY <2>1, Zenon DEF Url, Lead
    <3> QED
      BY <2>1, <3>1
  <2>2. CASE c.op \notin {"start", "stop", "qmp"}
    BY <2>2, Zenon DEF Url, Lead
  <2> QED
    BY <2>1, <2>2
<1> HIDE DEF l, s, Segments
<1>4. /\ l \o s \in Seq(Segments) /\ Len(l \o s) = Len(l) + Len(s)
      /\ \A i \in 1..Len(l) : (l \o s)[i] = l[i]
      /\ \A i \in 1..Len(s) : (l \o s)[Len(l) + i] = s[i]
  BY <1>1, <1>2
<1>5. CASE c.op \notin {"start", "stop", "qmp"}
  BY <1>2, <1>3, <1>4, <1>5 DEF l, s
<1>6. CASE c.op \in {"start", "stop", "qmp"}
  <2> DEFINE j == l \o s
  <2>1. j \in Seq(Segments) /\ Len(j) = Len(l) + Len(s) /\ Url(c) = j \o <<c.op>>
    BY <1>3, <1>4, <1>6
  <2> HIDE DEF j
  <2>2. /\ Url(c) \in Seq(Segments) /\ Len(Url(c)) = Len(j) + 1
        /\ Url(c)[Len(j) + 1] = c.op /\ \A i \in 1..Len(j) : Url(c)[i] = j[i]
    <3>1. ASSUME NEW g \in Seq(Segments), NEW w \in Segments
          PROVE  /\ g \o <<w>> \in Seq(Segments) /\ Len(g \o <<w>>) = Len(g) + 1
                 /\ (g \o <<w>>)[Len(g) + 1] = w
                 /\ \A i \in 1..Len(g) : (g \o <<w>>)[i] = g[i]
      OBVIOUS
    <3>2. c.op \in Segments /\ j \in Seq(Segments)
      BY <1>1, <2>1
    <3>3. /\ j \o <<c.op>> \in Seq(Segments) /\ Len(j \o <<c.op>>) = Len(j) + 1
          /\ (j \o <<c.op>>)[Len(j) + 1] = c.op
          /\ \A i \in 1..Len(j) : (j \o <<c.op>>)[i] = j[i]
      BY <3>1, <3>2, Zenon
    <3> QED
      BY <2>1, <3>3, Zenon
  <2>3. /\ \A i \in 1..Len(l) : i \in 1..Len(j)
        /\ \A i \in 1..Len(s) : Len(l) + i \in 1..Len(j)
    BY <1>1, <1>2, <2>1
  <2>4. /\ \A i \in 1..Len(l) : j[i] = l[i]
        /\ \A i \in 1..Len(s) : j[Len(l) + i] = s[i]
    BY <1>4 DEF j
  <2>5. /\ \A i \in 1..Len(l) : Url(c)[i] = l[i]
        /\ \A i \in 1..Len(s) : Url(c)[Len(l) + i] = s[i]
    BY <2>2, <2>3, <2>4
  <2>6. Len(Url(c)) = Len(l) + Len(s) + 1 /\ Url(c)[Len(Url(c))] = c.op
    BY <2>1, <2>2
  <2> QED
    BY <1>2, <1>6, <2>2, <2>5, <2>6 DEF l, s
<1> QED
  BY <1>5, <1>6

LEMMA UrlWords ==
  ASSUME NamesOK, NEW c \in Calls, NEW i \in 1..Len(Url(c))
  PROVE  \/ Url(c)[i] \in {"api", "v1", "machines", "hotplug", c.op}
         \/ \E k \in 1..Len(Spelt(c)) : Url(c)[i] = Spelt(c)[k]
<1> DEFINE l == Lead(c)
           s == Spelt(c)
           q == Url(c)
<1>1. /\ q \in Seq(Segments) /\ s \in Seq(Segments) /\ l \in Seq(Segments)
      /\ \A h \in 1..Len(l) : q[h] = l[h]
      /\ \A h \in 1..Len(s) : q[Len(l) + h] = s[h]
      /\ Len(q) \in {Len(l) + Len(s), Len(l) + Len(s) + 1}
      /\ Len(q) = Len(l) + Len(s) + 1 => q[Len(q)] = c.op
  <2>1. /\ \A h \in 1..Len(l) : q[h] = l[h]
        /\ \A h \in 1..Len(s) : q[Len(l) + h] = s[h]
        /\ q \in Seq(Segments) /\ s \in Seq(Segments)
    BY UrlIs, Zenon
  <2>2. \/ Len(q) = Len(l) + Len(s) + 1 /\ q[Len(q)] = c.op
        \/ Len(q) = Len(l) + Len(s)
    BY UrlIs, Zenon
  <2>3. l \in Seq(Segments)
    BY LeadIs
  <2> HIDE DEF l, s, q
  <2> QED
    BY <2>1, <2>2, <2>3
<1>2. /\ l[1] \in {"api", "v1", "machines", "hotplug", c.op}
      /\ l[2] \in {"api", "v1", "machines", "hotplug", c.op}
      /\ l[3] \in {"api", "v1", "machines", "hotplug", c.op}
      /\ \/ Len(l) = 3
         \/ Len(l) = 4 /\ l[4] \in {"api", "v1", "machines", "hotplug", c.op}
  BY LeadIs
<1>3. i \in 1..Len(q)
  OBVIOUS
<1> HIDE DEF l, s, q
<1>4. CASE i \in 1..Len(l)
  <2>1. q[i] = l[i] /\ (i = 1 \/ i = 2 \/ i = 3 \/ (i = 4 /\ Len(l) = 4))
    <3>1. Len(l) = 3 \/ Len(l) = 4
      BY <1>2
    <3>2. i = 1 \/ i = 2 \/ i = 3 \/ (i = 4 /\ Len(l) = 4)
      <4>1. i \in 1..3 \/ (i \in 1..4 /\ Len(l) = 4)
        BY <1>4, <3>1, Zenon
      <4>2. ASSUME NEW k \in 1..4 PROVE k = 1 \/ k = 2 \/ k = 3 \/ k = 4
        OBVIOUS
      <4>3. ASSUME NEW k \in 1..3 PROVE k = 1 \/ k = 2 \/ k = 3
        OBVIOUS
      <4> QED
        BY <4>1, <4>2, <4>3, Zenon
    <3>3. q[i] = l[i]
      BY <1>1, <1>4, Zenon
    <3> QED
      BY <3>2, <3>3
  <2>2. q[i] \in {"api", "v1", "machines", "hotplug", c.op}
    BY <1>2, <2>1
  <2> QED
    BY <2>2 DEF q
<1>5. CASE i = Len(l) + Len(s) + 1 /\ i = Len(q)
  BY <1>1, <1>5 DEF q
<1>6. CASE i \in (Len(l) + 1)..(Len(l) + Len(s))
  <2>1. i - Len(l) \in 1..Len(s) /\ Len(l) + (i - Len(l)) = i
    BY <1>1, <1>6
  <2>2. q[i] = s[i - Len(l)]
    BY <1>1, <2>1
  <2> QED
    BY <2>1, <2>2 DEF q, s
<1>7. i \in 1..Len(l) \/ (i = Len(l) + Len(s) + 1 /\ i = Len(q))
        \/ i \in (Len(l) + 1)..(Len(l) + Len(s))
  BY <1>1, <1>3
<1> QED
  BY <1>4, <1>5, <1>6, <1>7

(* No word of a route is what fetch or the request line looks for.         *)
LEMMA UrlHas ==
  ASSUME NamesOK, NEW c \in Calls, NEW T, Words \cap T = {}, ~Has(Spelt(c), T)
  PROVE  ~Has(Url(c), T)
<1> SUFFICES ASSUME NEW i \in 1..Len(Url(c)), Url(c)[i] \in T
             PROVE  FALSE
  BY DEF Has
<1>1. Url(c)[i] \notin Words
  OBVIOUS
<1>2. {"api", "v1", "machines", "hotplug", c.op} \subseteq Words
  BY LeadIs DEF Words
<1>3. \E k \in 1..Len(Spelt(c)) : Url(c)[i] = Spelt(c)[k]
  BY <1>1, <1>2, UrlWords
<1> QED
  BY <1>3 DEF Has

(* A path of names that travel is sent and received as it is.              *)
LEMMA TravelsIs ==
  ASSUME NamesOK, NEW c \in Calls, Travels(c)
  PROVE  /\ Fetched(Url(c)) = Url(c) /\ Cut(Url(c)) = Url(c)
         /\ ~Has(Url(c), {"#"}) /\ ~Has(Url(c), Huge)
         /\ ~Has(Spelt(c), DOMAIN Commands) => ~Has(Url(c), DOMAIN Commands)
<1>1. /\ ~Has(Spelt(c), Dots \cup {"#"}) /\ ~Has(Spelt(c), Huge)
      /\ ~Has(Spelt(c), {"#"})
  BY DEF Travels, Has
<1>2. Words \cap (Dots \cup {"#"}) = {} /\ Words \cap {"#"} = {}
  BY DEF Words, Operations, Dots
<1>3. Words \cap Huge = {} /\ Words \cap DOMAIN Commands = {}
  BY DEF NamesOK
<1>4. /\ ~Has(Url(c), Dots \cup {"#"}) /\ ~Has(Url(c), {"#"}) /\ ~Has(Url(c), Huge)
      /\ ~Has(Spelt(c), DOMAIN Commands) => ~Has(Url(c), DOMAIN Commands)
  BY <1>1, <1>2, <1>3, UrlHas
<1>5. Url(c) \in Seq(Segments) /\ Len(Url(c)) > 0
  <2>1. /\ Url(c) \in Seq(Segments) /\ Spelt(c) \in Seq(Segments)
        /\ Len(Url(c)) \in {Len(Lead(c)) + Len(Spelt(c)), Len(Lead(c)) + Len(Spelt(c)) + 1}
    BY UrlIs
  <2>2. Len(Lead(c)) \in {3, 4}
    BY LeadIs
  <2> QED
    BY <2>1, <2>2
<1> QED
  BY <1>4, <1>5, FetchedPlain, CutIs
-----------------------------------------------------------------------------
(* What a request keeps of the call it was made for, and where it stands.  *)
RequestInv ==
  /\ named \in Calls =>
       /\ path = Cut(Fetched(Url(named)))
       /\ Travels(named) =>
            /\ path = Url(named)
            /\ ~Has(Spelt(named), DOMAIN Commands) => execute = Execute(named)
  /\ named \in Calls \cup {Other}
  /\ stage = "request" => call = Other
  /\ stage = "call" =>
       /\ call = [op |-> Route(path), args |-> Arguments(path, Route(path))]
       /\ WellFormed(path, Route(path))
  /\ stage = "done" /\ call = Other =>
       method # "GET" \/ ~IsApi \/ ~WellFormed(path, Route(path))
  /\ SendsOnlyText

LEMMA InitRequest == Init => RequestInv
<1> SUFFICES ASSUME Init PROVE RequestInv
  OBVIOUS
<1> USE NamesAssumption
<1>1. Other \notin Calls
  BY DEF Other, Calls
<1>2. /\ stage = "request" /\ call = Other /\ reply = Nothing
      /\ named \in Calls \cup {Other}
  BY DEF Init, Receives
<1>3. ASSUME named \in Calls PROVE path = Cut(Fetched(Url(named)))
  BY <1>1, <1>3 DEF Init, Receives
<1>4. ASSUME named \in Calls, Travels(named)
      PROVE  /\ path = Url(named)
             /\ ~Has(Spelt(named), DOMAIN Commands) => execute = Execute(named)
  <2>1. /\ Fetched(Url(named)) = Url(named) /\ Cut(Url(named)) = Url(named)
        /\ ~Has(Url(named), {"#"}) /\ ~Has(Url(named), Huge)
        /\ ~Has(Spelt(named), DOMAIN Commands) => ~Has(Url(named), DOMAIN Commands)
    BY <1>4, TravelsIs
  <2>2. path = Url(named)
    BY <1>3, <1>4, <2>1
  <2>3. execute = IF Has(path, DOMAIN Commands)
                  THEN <<Commands[path[First(path, DOMAIN Commands)]]>>
                  ELSE IF Has(Fetched(Url(named)), Huge) THEN <<>>
                  ELSE IF Has(Url(named), {"#"}) THEN <<>> ELSE Execute(named)
    BY <1>1, <1>4 DEF Init, Receives
  <2> QED
    BY <2>1, <2>2, <2>3
<1> QED
  BY <1>2, <1>3, <1>4 DEF RequestInv, SendsOnlyText, Nothing, Written

LEMMA NextRequest == RequestInv /\ [Next]_vars => RequestInv'
<1> SUFFICES ASSUME RequestInv, [Next]_vars PROVE RequestInv'
  OBVIOUS
<1>1. CASE RefusesMethod
  BY <1>1 DEF RefusesMethod, Answers, Written, RequestInv, SendsOnlyText
<1>2. CASE ServesFile
  BY <1>2 DEF ServesFile, Answers, Written, IsApi, RequestInv, SendsOnlyText
<1>3. CASE Dispatches
  <2>1. Route(path) \in Operations
    BY <1>3, RouteType DEF Dispatches, WellFormed
  <2> QED
    BY <1>3, <2>1 DEF Dispatches, RequestInv, SendsOnlyText, Arguments, MachineId,
      WellFormed, Scans
<1>4. CASE Rejects
  <2>1. Route(path) \in {"none", "stop", "start", "qmp", "snapshot", "balloon", "usb"}
    BY <1>4, RouteType DEF Rejects, WellFormed, Operations
  <2>2. /\ NotFound.told <= NotFound.size /\ BadRequest.told <= BadRequest.size
        /\ PathInvalid["snapshot"].told <= PathInvalid["snapshot"].size
        /\ PathInvalid["balloon"].told <= PathInvalid["balloon"].size
        /\ PathInvalid["usb"].told <= PathInvalid["usb"].size
    <3>1. NotFound.told <= NotFound.size
      BY DEF NotFound, Written
    <3>2. BadRequest.told <= BadRequest.size
      BY DEF BadRequest, Written
    <3>3. PathInvalid["snapshot"].told <= PathInvalid["snapshot"].size
      <4>1. PathInvalid["snapshot"] = Written("snapshot path invalid", 33, 31)
        BY DEF PathInvalid
      <4>2. LET w == Written("snapshot path invalid", 33, 31) IN w.told <= w.size
        BY DEF Written
      <4> QED
        BY <4>1, <4>2
    <3>4. PathInvalid["balloon"].told <= PathInvalid["balloon"].size
      <4>1. PathInvalid["balloon"] = Written("balloon path invalid", 32, 29)
        BY DEF PathInvalid
      <4>2. LET w == Written("balloon path invalid", 32, 29) IN w.told <= w.size
        BY DEF Written
      <4> QED
        BY <4>1, <4>2
    <3>5. PathInvalid["usb"].told <= PathInvalid["usb"].size
      <4>1. PathInvalid["usb"] = Written("usb path invalid", 28, 25)
        BY DEF PathInvalid
      <4>2. LET w == Written("usb path invalid", 28, 25) IN w.told <= w.size
        BY DEF Written
      <4> QED
        BY <4>1, <4>2
    <3> QED
      BY <3>1, <3>2, <3>3, <3>4, <3>5
  <2>3. \E b \in {NotFound, BadRequest, PathInvalid["snapshot"], PathInvalid["balloon"],
                  PathInvalid["usb"]} : \E status \in {400, 404} : Answers(status, b)
    BY <1>4, <2>1 DEF Rejects
  <2>4. SendsOnlyText'
    BY <2>2, <2>3 DEF Answers, SendsOnlyText
  <2> QED
    BY <1>4, <2>4 DEF Rejects, Answers, RequestInv, IsApi
<1>5. CASE Returns
  <2>1. WellFormed(path, Route(path)) /\ call.op = Route(path)
    BY <1>5 DEF Returns, RequestInv
  <2>2. call # Other
    <3>1. Route(path) \in Operations
      BY <2>1, RouteType DEF WellFormed
    <3>2. call.op # "other"
      BY <2>1, <3>1 DEF Operations
    <3> QED
      BY <3>2 DEF Other
  <2>3. \A op \in MayFail : Failed[op].told <= Failed[op].size
    <3>1. Failed["start"].told <= Failed["start"].size
      <4>1. Failed["start"] = Written("start failed", 24, 21)
        BY DEF Failed
      <4>2. LET w == Written("start failed", 24, 21) IN w.told <= w.size
        BY DEF Written
      <4> QED
        BY <4>1, <4>2
    <3>2. Failed["snapshot"].told <= Failed["snapshot"].size
      <4>1. Failed["snapshot"] = Written("snapshot failed", 27, 26)
        BY DEF Failed
      <4>2. LET w == Written("snapshot failed", 27, 26) IN w.told <= w.size
        BY DEF Written
      <4> QED
        BY <4>1, <4>2
    <3>3. Failed["balloon"].told <= Failed["balloon"].size
      <4>1. Failed["balloon"] = Written("balloon failed", 26, 25)
        BY DEF Failed
      <4>2. LET w == Written("balloon failed", 26, 25) IN w.told <= w.size
        BY DEF Written
      <4> QED
        BY <4>1, <4>2
    <3>4. Failed["usb"].told <= Failed["usb"].size
      <4>1. Failed["usb"] = Written("usb hotplug failed", 30, 27)
        BY DEF Failed
      <4>2. LET w == Written("usb hotplug failed", 30, 27) IN w.told <= w.size
        BY DEF Written
      <4> QED
        BY <4>1, <4>2
    <3> QED
      BY <3>1, <3>2, <3>3, <3>4 DEF MayFail
  <2>4. SendsOnlyText'
    <3>1. CASE Answers(200, Written("result", 1, 1))
      BY <3>1 DEF Answers, Written, SendsOnlyText
    <3>2. CASE call.op \in MayFail /\ Answers(500, Failed[call.op])
      BY <2>3, <3>2 DEF Answers, SendsOnlyText
    <3> QED
      BY <1>5, <3>1, <3>2 DEF Returns
  <2> QED
    BY <1>5, <2>2, <2>4 DEF Returns, Answers, RequestInv
<1>6. CASE UNCHANGED vars
  BY <1>6 DEF vars, RequestInv, SendsOnlyText, IsApi, Arguments
<1> QED
  BY <1>1, <1>2, <1>3, <1>4, <1>5, <1>6 DEF Next

(* RequestInv holds of every request, whatever the names. *)
THEOREM Requests == Spec => []RequestInv
<1> QED
  BY InitRequest, NextRequest, PTL DEF Spec

(* The lengths that the error answers state never pass the end of the text. *)
THEOREM TextSafety == Spec => []SendsOnlyText
<1>1. RequestInv => SendsOnlyText
  BY DEF RequestInv
<1> QED
  BY <1>1, Requests, PTL
-----------------------------------------------------------------------------
(* What is found somewhere in a path is what some segment begins with. *)
LEMMA MatchedWord ==
  ASSUME NEW S, NEW p \in Seq(S), NEW r \in Operations, Matches(p, r)
  PROVE  \E i \in 1..Len(p) : Starts(p[i], r)
<1>1. CASE HasWords(p, <<r>>)
  <2>1. PICK i \in 0..(Len(p) - 1) : Starts(p[i + 1], r)
    BY <1>1 DEF HasWords
  <2> QED
    BY <2>1
<1>2. CASE HasWords(p, <<"api", "v1", r>>)
  <2>1. PICK i \in 0..(Len(p) - 3) : Starts(p[i + 3], r)
    BY <1>2 DEF HasWords
  <2> QED
    BY <2>1
<1> QED
  BY <1>1, <1>2 DEF Matches, Api

LEMMA WordIsItself ==
  ASSUME NamesOK, NEW w \in Words, NEW u \in Words
  PROVE  Starts(w, u) <=> w = u
  BY DEF NamesOK, Starts

LEMMA EmptyIsNoWord ==
  ASSUME NamesOK, NEW w \in Words
  PROVE  ~Starts(Empty, w) /\ Empty # w
<1>1. <<Empty, w>> \notin Begins
  BY Zenon DEF NamesOK, Empty
<1>2. /\ Empty # "api" /\ Empty # "v1" /\ Empty # "machines" /\ Empty # "hotplug"
      /\ Empty # "health" /\ Empty # "telemetry" /\ Empty # "stop" /\ Empty # "start"
      /\ Empty # "qmp" /\ Empty # "snapshot" /\ Empty # "balloon" /\ Empty # "usb"
  BY Zenon DEF Empty
<1> QED
  BY <1>1, <1>2 DEF Starts, Words, Operations

(* Another call than the client's is carried out only if a segment of its  *)
(* names begins with the name of that call.                                *)
THEOREM OtherCallSafety == Spec => []OtherCallOnlyIfNamed
<1> USE NamesAssumption
<1>1. ASSUME RequestInv PROVE OtherCallOnlyIfNamed
  <2> SUFFICES ASSUME stage = "call", named # Other, call.op # named.op
               PROVE  \E k \in 1..Len(Spelt(named)) : Starts(Spelt(named)[k], call.op)
    BY DEF OtherCallOnlyIfNamed
  <2> DEFINE f == Fetched(Url(named))
  <2>1. /\ named \in Calls /\ path = Cut(f) /\ WellFormed(path, Route(path))
        /\ call.op = Route(path)
    BY <1>1 DEF RequestInv
  <2>2. call.op \in Operations /\ Matches(path, call.op) /\ call.op \in Words
    BY <2>1, RouteType DEF WellFormed, Words
  <2>3. Url(named) \in Seq(Segments) /\ named.op \in Operations
    BY <2>1, UrlIs, LeadIs
  <2>4. f \in Seq(Segments \cup {Empty})
    BY <2>3, FetchedType
  <2>5. /\ path \in Seq(Segments \cup {Empty} \cup Texts)
        /\ \A i \in 1..Len(path) :
             \E j \in 1..Len(f) :
               path[i] = f[j] \/ (f[j] \in Huge /\ path[i] = Kept[f[j]])
    <3> HIDE DEF f
    <3> QED
      BY <2>1, <2>4, CutIs
  <2>6. PICK i \in 1..Len(path) : Starts(path[i], call.op)
    BY <2>2, <2>5, MatchedWord
  <2>7. PICK j \in 1..Len(f) :
          path[i] = f[j] \/ (f[j] \in Huge /\ path[i] = Kept[f[j]])
    BY <2>5
  <2>8. Starts(f[j], call.op)
    <3>1. CASE path[i] = f[j]
      BY <2>6, <3>1
    <3>2. CASE f[j] \in Huge /\ path[i] = Kept[f[j]]
      BY <2>2, <2>6, <3>2 DEF NamesOK
    <3> QED
      BY <2>7, <3>1, <3>2
  <2>9. f[j] = Empty \/ \E k \in 1..Len(Url(named)) : f[j] = Url(named)[k]
    BY <2>3, FetchedElements
  <2>10. PICK k \in 1..Len(Url(named)) : Starts(Url(named)[k], call.op)
    BY <2>2, <2>8, <2>9, EmptyIsNoWord
  <2>11. CASE Url(named)[k] \in {"api", "v1", "machines", "hotplug", named.op}
    <3>1. Url(named)[k] \in Words
      BY <2>3, <2>11 DEF Words
    <3>2. Url(named)[k] = call.op
      BY <2>2, <2>10, <3>1, WordIsItself
    <3> QED
      BY <2>2, <2>11, <3>2 DEF Operations
  <2>12. CASE \E h \in 1..Len(Spelt(named)) : Url(named)[k] = Spelt(named)[h]
    BY <2>10, <2>12
  <2> QED
    BY <2>1, <2>11, <2>12, UrlWords
<1> QED
  BY <1>1, Requests, PTL
-----------------------------------------------------------------------------
(* A part of a sequence is compared element by element. *)
LEMMA PartIs ==
  ASSUME NEW S, NEW p \in Seq(S), NEW q \in Seq(S), NEW m \in Nat, NEW k \in Nat,
         1 <= m, m <= k, k <= Len(p), Len(q) = k - m + 1
  PROVE  SubSeq(p, m, k) = q <=> \A i \in 1..Len(q) : p[m + i - 1] = q[i]
<1> DEFINE s == SubSeq(p, m, k)
<1>1. /\ s \in Seq(S) /\ Len(s) = k - m + 1
      /\ \A i \in 1..(k - m + 1) : s[i] = p[m + i - 1]
  <2>1. \A i \in m..k : p[i] \in S
    BY ElementOfSeq
  <2> QED
    BY <2>1, SubSeqProperties
<1> HIDE DEF s
<1>2. s = q <=> \A i \in 1..Len(q) : s[i] = q[i]
  BY <1>1, SeqEqual
<1>3. s = q <=> \A i \in 1..Len(q) : p[m + i - 1] = q[i]
  BY <1>1, <1>2
<1> QED
  BY <1>3 DEF s

(* How a path begins. *)
LEMMA UrlBegins ==
  ASSUME NamesOK, NEW c \in Calls
  PROVE  /\ Url(c)[1] = "api" /\ Url(c)[2] = "v1" /\ Len(Url(c)) >= 3
         /\ c.op \in {"start", "stop", "qmp"} => Url(c)[3] = "machines"
         /\ c.op \notin {"start", "stop", "qmp"} => Url(c)[3] = c.op
         /\ c.op = "usb" => Url(c)[4] = "hotplug"
<1> DEFINE l == Lead(c)
           q == Url(c)
<1>1. /\ \A i \in 1..Len(l) : q[i] = l[i]
      /\ q \in Seq(Segments) /\ Spelt(c) \in Seq(Segments)
      /\ \/ Len(q) = Len(l) + Len(Spelt(c)) + 1
         \/ Len(q) = Len(l) + Len(Spelt(c))
  BY UrlIs
<1>2. /\ l[1] = "api" /\ l[2] = "v1"
      /\ c.op # "usb" => Len(l) = 3
      /\ c.op = "usb" => Len(l) = 4 /\ l[4] = "hotplug"
      /\ c.op \in {"start", "stop", "qmp"} => l[3] = "machines"
      /\ c.op \notin {"start", "stop", "qmp"} => l[3] = c.op
  BY LeadIs
<1> HIDE DEF l, q
<1>3. 1 \in 1..Len(l) /\ 2 \in 1..Len(l) /\ 3 \in 1..Len(l) /\ Len(l) \in Nat
  BY <1>2
<1>4. q[1] = l[1] /\ q[2] = l[2] /\ q[3] = l[3]
  BY <1>1, <1>3, Zenon
<1>5. c.op = "usb" => q[4] = l[4]
  <2>1. ASSUME c.op = "usb" PROVE 4 \in 1..Len(l)
    BY <1>2, <2>1
  <2> QED
    BY <1>1, <2>1, Zenon
<1>6. Len(q) >= 3
  <2>1. Len(Spelt(c)) \in Nat /\ Len(l) >= 3
    BY <1>1, <1>2
  <2> QED
    BY <1>1, <1>3, <2>1
<1> QED
  BY <1>2, <1>4, <1>5, <1>6 DEF l, q

(* The name between "machines" and the word after it. *)
LEMMA MachineIdIs ==
  ASSUME NEW p \in Seq(Segments), Len(p) >= 4,
         p[1] = "api", p[2] = "v1", p[3] = "machines"
  PROVE  MachineId(p) = p[4]
<1> DEFINE q == <<"api", "v1", "machines">>
           places == {i \in 1..(Len(p) - 3) : SubSeq(p, i, i + 2) = Api("machines")}
           first == CHOOSE i \in places : \A j \in places : i <= j
<1>1. q \in Seq(Segments) /\ Api("machines") = q
  <2>1. "api" \in Segments /\ "v1" \in Segments /\ "machines" \in Segments
    BY DEF Segments, Words
  <2> QED
    BY <2>1 DEF Api
<1>2. Len(q) = 3 /\ q[1] = "api" /\ q[2] = "v1" /\ q[3] = "machines"
  OBVIOUS
<1> HIDE DEF q
<1>3. SubSeq(p, 1, 3) = q
  <2>1. SubSeq(p, 1, 3) = q <=> \A i \in 1..Len(q) : p[1 + i - 1] = q[i]
    BY <1>1, <1>2, PartIs
  <2>2. \A i \in 1..Len(q) : p[1 + i - 1] = q[i]
    BY <1>2
  <2> QED
    BY <2>1, <2>2
<1>4. 1 \in places
  <2>1. 1 \in 1..(Len(p) - 3) /\ 1 + 2 = 3
    OBVIOUS
  <2> QED
    BY <1>1, <1>3, <2>1
<1>5. \A j \in places : j \in Nat /\ 1 <= j
  OBVIOUS
<1>6. MachineId(p) = p[3 + first]
  BY <1>4, Zenon DEF MachineId
<1> HIDE DEF places
<1>7. first = 1
  <2>1. first \in places /\ \A j \in places : first <= j
    BY <1>4, <1>5
  <2> HIDE DEF first
  <2> QED
    BY <1>4, <1>5, <2>1
<1> HIDE DEF first
<1> QED
  BY <1>6, <1>7

(* In the path of a call, that is the first segment its names spell.       *)
LEMMA MachineOf ==
  ASSUME NamesOK, NEW c \in Calls, c.op \in {"start", "stop", "qmp"}
  PROVE  /\ MachineId(Url(c)) = Spelt(c)[1] /\ Len(Spelt(c)) >= 1
         /\ Spelt(c)[1] = Head(Sent[InPath(c)[1]]) /\ Len(InPath(c)) = 1
<1>1. Len(InPath(c)) = 1
  BY InPathIs
<1>2. Len(Spelt(c)) >= 1 /\ Spelt(c) \in Seq(Texts)
  BY <1>1, SpeltIs
<1>3. Spelt(c)[1] = Head(Sent[InPath(c)[1]])
  <2>1. 1 \in 1..Len(InPath(c)) /\ \A j \in 1..(1 - 1) : Len(Sent[InPath(c)[j]]) = 1
    BY <1>1
  <2> QED
    BY <2>1, SpeltIs
<1>4. Len(Lead(c)) = 3
  BY LeadIs
<1>5. /\ Url(c) \in Seq(Segments) /\ Len(Url(c)) = Len(Lead(c)) + Len(Spelt(c)) + 1
      /\ \A i \in 1..Len(Spelt(c)) : Url(c)[Len(Lead(c)) + i] = Spelt(c)[i]
  BY UrlIs
<1>6. Len(Url(c)) >= 4 /\ Url(c)[3 + 1] = Spelt(c)[1]
  BY <1>2, <1>4, <1>5
<1>7. Url(c)[1] = "api" /\ Url(c)[2] = "v1" /\ Url(c)[3] = "machines"
  BY UrlBegins
<1> QED
  BY <1>1, <1>2, <1>3, <1>5, <1>6, <1>7, MachineIdIs

(* The fields of the other paths are what the names spell.                 *)
LEMMA FieldsOf ==
  ASSUME NamesOK, NEW c \in Calls, c.op \in {"snapshot", "balloon", "usb"}
  PROVE  /\ Prefix(c.op) = Lead(c) /\ Fields(c.op) \in {2, 3}
         /\ Len(InPath(c)) = Fields(c.op) /\ Len(c.args) = Fields(c.op)
         /\ Len(Spelt(c)) >= Fields(c.op)
         /\ Len(Url(c)) >= Len(Lead(c)) + Fields(c.op)
         /\ \A i \in 1..Fields(c.op) : Url(c)[Len(Prefix(c.op)) + i] = Spelt(c)[i]
<1>1. Prefix(c.op) = Lead(c)
  BY DEF Lead
<1>2. Fields(c.op) \in {2, 3} /\ Len(InPath(c)) = Fields(c.op) /\ Len(c.args) = Fields(c.op)
  BY InPathIs DEF Fields
<1>3. Spelt(c) \in Seq(Texts) /\ Len(Spelt(c)) >= Fields(c.op)
  BY <1>2, SpeltIs
<1>4. /\ Len(Url(c)) = Len(Lead(c)) + Len(Spelt(c))
      /\ \A i \in 1..Len(Spelt(c)) : Url(c)[Len(Lead(c)) + i] = Spelt(c)[i]
  BY UrlIs
<1>5. Len(Lead(c)) \in Nat
  BY LeadIs
<1>6. Len(Url(c)) >= Len(Lead(c)) + Fields(c.op)
  BY <1>2, <1>3, <1>4, <1>5
<1>7. \A i \in 1..Fields(c.op) : i \in 1..Len(Spelt(c))
  BY <1>2, <1>3
<1> QED
  BY <1>1, <1>2, <1>3, <1>4, <1>6, <1>7

(* The names of a call that is the client's own, and that travel, arrive   *)
(* in order, each up to its first slash as long as none before it has one. *)
THEOREM ArgumentSafety == Spec => []ArgumentsArrive
<1> USE NamesAssumption
<1>1. ASSUME RequestInv PROVE ArgumentsArrive
  <2> DEFINE t(i) == Head(Sent[InPath(named)[i]])
             Single(i) == \A j \in 1..(i - 1) : Len(Sent[InPath(named)[j]]) = 1
             Arrives ==
               /\ Len(call.args) = Len(named.args)
               /\ \A i \in 1..Len(InPath(named)) :
                    Single(i) =>
                      /\ call.args[i] = Clip(t(i))
                      /\ named.op \in {"snapshot", "balloon", "usb"} /\ i < Len(call.args)
                           => t(i) \notin Long
               /\ named.op = "qmp" /\ ~Has(Spelt(named), DOMAIN Commands) =>
                    call.args[2] = Clip(Encoded[named.args[2]])
  <2> SUFFICES ASSUME stage = "call", call.op = named.op, Travels(named)
               PROVE  Arrives
    BY DEF ArgumentsArrive
  <2>1. /\ call.op = Route(path) /\ call.args = Arguments(path, named.op)
        /\ WellFormed(path, named.op)
    BY <1>1 DEF RequestInv
  <2>2. named \in Calls /\ named.op \in Operations
    <3>1. Route(path) \in Operations
      BY <2>1, RouteType DEF WellFormed
    <3>2. named.op \in Operations /\ Other.op \notin Operations
      BY <2>1, <3>1 DEF Other, Operations
    <3>3. named # Other
      BY <3>2
    <3>4. named \in Calls \cup {Other}
      BY <1>1 DEF RequestInv
    <3> QED
      BY <3>2, <3>3, <3>4
  <2>3. /\ path = Url(named)
        /\ ~Has(Spelt(named), DOMAIN Commands) => execute = Execute(named)
    BY <1>1, <2>2 DEF RequestInv
  <2>4. CASE named.op \in {"health", "telemetry"}
    <3>1. Len(named.args) = 0 /\ Len(InPath(named)) = 0
      BY <2>2, <2>4, InPathIs
    <3>2. call.args = <<>>
      BY <2>1, <2>4 DEF Arguments
    <3> QED
      BY <2>4, <3>1, <3>2
  <2>5. CASE named.op \in {"start", "stop", "qmp"}
    <3>1. MachineId(path) = t(1) /\ Len(InPath(named)) = 1
      BY <2>2, <2>3, <2>5, MachineOf
    <3>2. CASE named.op \in {"start", "stop"}
      <4>1. call.args = <<Clip(t(1))>>
        BY <2>1, <3>1, <3>2 DEF Arguments
      <4>2. Len(named.args) = 1
        BY <2>2, <3>2, InPathIs
      <4>3. Len(call.args) = 1 /\ call.args[1] = Clip(t(1))
        BY <4>1
      <4> QED
        BY <3>1, <3>2, <4>2, <4>3
    <3>3. CASE named.op = "qmp"
      <4> DEFINE com == IF execute = <<>> THEN "query-status" ELSE Clip(execute[1])
      <4>1. call.args = <<Clip(t(1)), com>>
        BY <2>1, <3>1, <3>3 DEF Arguments
      <4>2. Len(named.args) = 2
        BY <2>2, <3>3, InPathIs
      <4>3. Len(call.args) = 2 /\ call.args[1] = Clip(t(1)) /\ call.args[2] = com
        BY <4>1
      <4>4. ~Has(Spelt(named), DOMAIN Commands) => com = Clip(Encoded[named.args[2]])
        <5>1. Execute(named) = <<Encoded[named.args[2]]>>
          BY <3>3 DEF Execute
        <5>2. ASSUME execute = <<Encoded[named.args[2]]>>
              PROVE  com = Clip(Encoded[named.args[2]])
          <6>1. execute # <<>> /\ execute[1] = Encoded[named.args[2]]
            BY <5>2
          <6> QED
            BY <6>1, Zenon
        <5> HIDE DEF com
        <5> QED
          BY <2>3, <5>1, <5>2, Zenon
      <4> HIDE DEF com
      <4> QED
        BY <3>1, <3>3, <4>2, <4>3, <4>4
    <3> QED
      BY <2>5, <3>2, <3>3
  <2>6. CASE named.op \in {"snapshot", "balloon", "usb"}
    <3> DEFINE r == named.op
               k == Len(Prefix(r))
    <3>1. /\ Fields(r) \in {2, 3} /\ Len(InPath(named)) = Fields(r)
          /\ Len(named.args) = Fields(r)
          /\ \A i \in 1..Fields(r) : path[k + i] = Spelt(named)[i]
      BY <2>2, <2>3, <2>6, FieldsOf
    <3>2. call.args = [i \in 1..Fields(r) |-> Clip(path[k + i])]
      BY <2>1, <2>6 DEF Arguments
    <3>3. \A i \in 1..(Fields(r) - 1) : path[k + i] \notin Long
      BY <2>1, <2>6 DEF WellFormed, Scans
    <3> HIDE DEF k
    <3>4. /\ Len(call.args) = Fields(r)
          /\ \A i \in 1..Fields(r) : call.args[i] = Clip(Spelt(named)[i])
      BY <3>1, <3>2
    <3>5. \A i \in 1..Fields(r) : i < Fields(r) => Spelt(named)[i] \notin Long
      BY <3>1, <3>3
    <3>6. \A i \in 1..Len(InPath(named)) : Single(i) => Spelt(named)[i] = t(i)
      BY <2>2, SpeltIs
    <3> HIDE DEF t, Single
    <3> QED
      BY <2>6, <3>1, <3>4, <3>5, <3>6
  <2> QED
    BY <2>2, <2>4, <2>5, <2>6 DEF Operations
<1> QED
  BY <1>1, Requests, PTL
-----------------------------------------------------------------------------
LEMMA TripleIs ==
  ASSUME NEW p, NEW w
  PROVE  HasWords(p, Api(w)) <=>
           \E i \in 0..(Len(p) - 3) :
             p[i + 1] = "api" /\ p[i + 2] = "v1" /\ Starts(p[i + 3], w)
<1>1. /\ Len(Api(w)) = 3 /\ Api(w)[1] = "api" /\ Api(w)[2] = "v1" /\ Api(w)[3] = w
      /\ 1..(3 - 1) = {1, 2}
  BY DEF Api
<1> QED
  BY <1>1 DEF HasWords

LEMMA WordIs ==
  ASSUME NEW p, NEW w
  PROVE  HasWords(p, <<w>>) <=> \E i \in 0..(Len(p) - 1) : Starts(p[i + 1], w)
<1>1. Len(<<w>>) = 1 /\ <<w>>[1] = w /\ 1..(1 - 1) = {}
  OBVIOUS
<1> QED
  BY <1>1 DEF HasWords

(* The path of a call begins with its own route. *)
LEMMA UrlMatches ==
  ASSUME NamesOK, NEW c \in Calls
  PROVE  /\ Matches(Url(c), c.op)
         /\ Len(Url(c)) >= 2 /\ Url(c)[1] = "api"
<1> DEFINE p == Url(c)
<1>1. /\ p[1] = "api" /\ p[2] = "v1" /\ Len(p) >= 3 /\ p \in Seq(Segments)
      /\ c.op \in {"start", "stop", "qmp"} => p[3] = "machines" /\ p[Len(p)] = c.op
      /\ c.op \notin {"start", "stop", "qmp"} => p[3] = c.op
  BY UrlBegins, UrlIs
<1> HIDE DEF p
<1>2. ASSUME NEW w, p[3] = w PROVE HasWords(p, Api(w))
  <2>1. /\ 0 \in 0..(Len(p) - 3) /\ p[0 + 1] = "api" /\ p[0 + 2] = "v1"
        /\ Starts(p[0 + 3], w)
    BY <1>1, <1>2 DEF Starts
  <2>2. \E i \in 0..(Len(p) - 3) :
          p[i + 1] = "api" /\ p[i + 2] = "v1" /\ Starts(p[i + 3], w)
    BY <2>1
  <2> QED
    BY <2>2, TripleIs
<1>3. CASE c.op \in {"start", "stop", "qmp"}
  <2>1. HasWords(p, <<c.op>>)
    <3>1. Len(p) - 1 \in 0..(Len(p) - 1) /\ (Len(p) - 1) + 1 = Len(p)
      BY <1>1
    <3>2. Starts(p[(Len(p) - 1) + 1], c.op)
      BY <1>1, <1>3, <3>1 DEF Starts
    <3> QED
      BY <3>1, <3>2, WordIs
  <2> QED
    BY <1>1, <1>2, <1>3, <2>1 DEF Matches, p
<1>4. CASE c.op \notin {"start", "stop", "qmp"}
  BY <1>1, <1>2, <1>4 DEF Matches, p
<1> QED
  BY <1>1, <1>3, <1>4 DEF p

(* A route other than the call's own is spelt by its names.                *)
LEMMA SpelledIs ==
  ASSUME NamesOK, NEW c \in Calls, c.op \in {"snapshot", "balloon", "usb"},
         NEW w \in {"machines", "snapshot", "balloon", "usb"}, w # c.op,
         HasWords(Url(c), Api(w))
  PROVE  HasWords(Spelt(c), Api(w))
<1> DEFINE p == Url(c)
           s == Spelt(c)
           k == Len(Lead(c))
<1>1. /\ p[1] = "api" /\ p[2] = "v1" /\ p[3] = c.op
      /\ c.op = "usb" => p[4] = "hotplug"
  BY UrlBegins
<1>2. /\ s \in Seq(Segments) /\ Len(p) = k + Len(s)
      /\ \A i \in 1..Len(s) : p[k + i] = s[i]
  BY UrlIs
<1>3. k = 3 \/ (k = 4 /\ c.op = "usb")
  BY LeadIs
<1>4. w \in Words /\ c.op \in Words
  BY DEF Words, Operations
<1> HIDE DEF p, s, k
<1>5. PICK i \in 0..(Len(p) - 3) :
        p[i + 1] = "api" /\ p[i + 2] = "v1" /\ Starts(p[i + 3], w)
  BY TripleIs DEF p
<1>6. i # 0
  <2>1. ~Starts(c.op, w)
    BY <1>4, WordIsItself
  <2>2. ASSUME i = 0 PROVE Starts(c.op, w)
    <3>1. p[i + 3] = p[3]
      BY <2>2
    <3>2. Starts(p[i + 3], w) /\ p[3] = c.op
      BY <1>1, <1>5
    <3> QED
      BY <3>1, <3>2, Zenon
  <2> QED
    BY <2>1, <2>2
<1>7. i # 1 /\ i # 2 /\ (c.op = "usb" => i # 3)
  <2>1. p[i + 1] = "api"
    BY <1>5
  <2>2. /\ i = 1 => p[i + 1] = p[2]
        /\ i = 2 => p[i + 1] = p[3]
        /\ i = 3 => p[i + 1] = p[4]
    OBVIOUS
  <2>3. p[2] # "api" /\ p[3] # "api" /\ (c.op = "usb" => p[4] # "api")
    BY <1>1
  <2> QED
    BY <2>1, <2>2, <2>3, Zenon
<1>8. Len(s) \in Nat
  BY <1>2
<1>9. i \in Nat /\ i <= Len(p) - 3
  BY <1>2, <1>3, <1>8
<1>10. i >= k
  BY <1>3, <1>6, <1>7, <1>9
<1> DEFINE h == i - k
           m == Len(s)
<1>11. /\ h \in 0..(Len(s) - 3) /\ k + (h + 1) = i + 1 /\ k + (h + 2) = i + 2
       /\ k + (h + 3) = i + 3 /\ h + 1 \in 1..Len(s) /\ h + 2 \in 1..Len(s)
       /\ h + 3 \in 1..Len(s)
  <2>1. k \in Nat /\ m \in Nat /\ Len(p) = k + m
    BY <1>2, <1>3, <1>8
  <2> HIDE DEF m
  <2>2. i <= (k + m) - 3
    BY <1>9, <2>1
  <2> QED
    BY <1>9, <1>10, <2>1, <2>2 DEF m
<1> HIDE DEF h, m
<1>12. s[h + 1] = p[i + 1] /\ s[h + 2] = p[i + 2] /\ s[h + 3] = p[i + 3]
  BY <1>2, <1>11, Zenon
<1>13. \E x \in 0..(Len(s) - 3) : s[x + 1] = "api" /\ s[x + 2] = "v1" /\ Starts(s[x + 3], w)
  BY <1>5, <1>11, <1>12
<1> QED
  BY <1>13, TripleIs DEF s

(* A path whose fields are neither empty nor too long is scanned.          *)
LEMMA ScansIs ==
  ASSUME NamesOK, NEW c \in Calls, c.op \in {"snapshot", "balloon", "usb"},
         ~Has(Spelt(c), Long \cup {Empty})
  PROVE  WellFormed(Url(c), c.op)
<1> DEFINE p == Url(c)
           q == Prefix(c.op)
           f == Fields(c.op)
<1>1. /\ q = Lead(c) /\ f \in {2, 3} /\ Len(Spelt(c)) >= f
      /\ Len(p) >= Len(q) + f /\ \A i \in 1..f : p[Len(q) + i] = Spelt(c)[i]
  BY FieldsOf
<1>2. /\ p \in Seq(Segments) /\ Spelt(c) \in Seq(Segments) /\ q \in Seq(Segments)
      /\ \A i \in 1..Len(q) : p[i] = q[i]
  BY <1>1, UrlIs, LeadIs
<1>3. Len(q) >= 3 /\ Len(q) \in Nat
  BY <1>1, LeadIs
<1> HIDE DEF p, q, f
<1>4. SubSeq(p, 1, Len(q)) = q
  <2>1. Len(q) <= Len(p) /\ 1 <= Len(q) /\ Len(q) = Len(q) - 1 + 1
    BY <1>1, <1>2, <1>3
  <2>2. SubSeq(p, 1, Len(q)) = q <=> \A i \in 1..Len(q) : p[1 + i - 1] = q[i]
    BY <1>2, <1>3, <2>1, PartIs
  <2>3. \A i \in 1..Len(q) : 1 + i - 1 = i
    BY <1>3
  <2> QED
    BY <1>2, <2>2, <2>3
<1>5. /\ \A i \in 1..f : i \in 1..Len(Spelt(c)) /\ Spelt(c)[i] \notin Long \cup {Empty}
      /\ \A i \in 1..(f - 1) : i \in 1..f
  BY <1>1, <1>2 DEF Has
<1>6. /\ \A i \in 1..f : p[Len(q) + i] # Empty
      /\ \A i \in 1..(f - 1) : p[Len(q) + i] \notin Long
  BY <1>1, <1>5
<1>7. Scans(p, q, f)
  BY <1>1, <1>4, <1>6, Zenon DEF Scans, Empty
<1> QED
  BY <1>7 DEF WellFormed, p, q, f

(* A route that is taken for such a path has what it needs. *)
LEMMA ProperIsWellFormed ==
  ASSUME NamesOK, NEW c \in Calls, ~Has(Spelt(c), Long \cup {Empty}), ~SpellsRoute(c)
  PROVE  WellFormed(Url(c), Route(Url(c)))
<1> DEFINE p == Url(c)
           r == Route(p)
<1>1. c.op \in Operations /\ Matches(p, c.op)
  BY UrlMatches, LeadIs
<1>2. /\ r \in Operations /\ Matches(p, r)
      /\ c.op \in {"health", "telemetry"} => r \in {"health", "telemetry"}
      /\ c.op \in {"start", "stop", "qmp"} => r \notin {"snapshot", "balloon", "usb"}
      /\ c.op = "snapshot" => r \notin {"balloon", "usb"}
      /\ c.op = "balloon" => r # "usb"
  BY <1>1, RouteType
<1> HIDE DEF r
<1>3. CASE r \in {"health", "telemetry"}
  BY <1>3 DEF WellFormed, r
<1>4. CASE r \in {"stop", "start", "qmp"}
  <2>1. HasWords(p, Api("machines"))
    BY <1>2, <1>4 DEF Matches
  <2>2. c.op \in {"start", "stop", "qmp"}
    <3> SUFFICES ASSUME c.op \in {"snapshot", "balloon", "usb"} PROVE FALSE
      BY <1>1, <1>2, <1>4 DEF Operations
    <3>1. HasWords(Spelt(c), Api("machines"))
      BY <2>1, SpelledIs
    <3> QED
      BY <3>1 DEF SpellsRoute
  <2>3. MachineId(p) = Spelt(c)[1] /\ Len(Spelt(c)) >= 1 /\ Spelt(c) \in Seq(Texts)
    BY <2>2, MachineOf, SpeltIs
  <2>4. MachineId(p) # Empty
    <3>1. 1 \in 1..Len(Spelt(c))
      BY <2>3
    <3> QED
      BY <2>3, <3>1 DEF Has
  <2>5. MachineId(p) # ""
    BY <2>4, Zenon DEF Empty
  <2> QED
    BY <1>4, <2>5 DEF WellFormed, r
<1>5. CASE r \in {"snapshot", "balloon", "usb"}
  <2>1. HasWords(p, Api(r))
    BY <1>2, <1>5 DEF Matches
  <2>2. CASE r = c.op
    BY <1>5, <2>2, ScansIs DEF r
  <2>3. CASE r # c.op
    <3>1. c.op \in {"balloon", "usb"} /\ r \in {"snapshot", "balloon"}
      BY <1>1, <1>2, <1>5, <2>3 DEF Operations
    <3>2. HasWords(Spelt(c), Api(r))
      BY <2>1, <2>3, <3>1, SpelledIs
    <3>3. CASE r = "snapshot"
      BY <3>1, <3>2, <3>3 DEF SpellsRoute
    <3>4. CASE r = "balloon"
      <4>1. c.op = "usb"
        BY <2>3, <3>1, <3>4
      <4> QED
        BY <3>2, <3>4, <4>1 DEF SpellsRoute
    <3> QED
      BY <3>1, <3>3, <3>4
  <2> QED
    BY <2>2, <2>3
<1> QED
  BY <1>2, <1>3, <1>4, <1>5 DEF Operations

(* A call whose names travel as they are, without a segment that is empty  *)
(* or too long, and spell no route, is not refused.                        *)
THEOREM RejectsSafety == Spec => []RejectsOnlyMalformed
<1> USE NamesAssumption
<1>1. ASSUME RequestInv PROVE RejectsOnlyMalformed
  <2> SUFFICES ASSUME stage = "done", method = "GET", named # Other, call = Other,
                      Travels(named), ~Has(Spelt(named), Long \cup {Empty}),
                      ~SpellsRoute(named)
               PROVE  FALSE
    BY Zenon DEF RejectsOnlyMalformed, Empty
  <2>1. named \in Calls /\ path = Url(named)
    BY <1>1 DEF RequestInv
  <2>2. WellFormed(path, Route(path))
    BY <2>1, ProperIsWellFormed
  <2>3. IsApi
    BY <2>1, UrlMatches DEF IsApi
  <2> QED
    BY <1>1, <2>2, <2>3 DEF RequestInv
<1> QED
  BY <1>1, Requests, PTL
-----------------------------------------------------------------------------
(* The texts of a configuration and those of the source: the provers do    *)
(* not know the latter for strings.                                        *)
ArgTexts ==
  STRING \cup
  {"", "NULL", "cut", "std", "virtio", "ac97", "virtio-net-pci", "ide", "floppy",
   "scsi", "ide,media=cdrom", "sd", "none,id=raw0", "file=", "unix:", "tcp:",
   "netdev=qwmnet", "usb-host", "usb-hub", "vfio-pci,host=",
   "virtio-blk-pci,drive=raw0", "qemu-system-", "vcpus", "memory", "-drive",
   "-vga", "-soundhw", "-serial", "-device", "-name", "-accel", "-smp", "-m",
   "-M", "-cpu", "-qmp", "-S", "-gdb"}

(* What an addition is. *)
Addition == [arg : Seq(ArgTexts), fits : BOOLEAN]

LEMMA AdditionType ==
  /\ \A t \in ArgTexts : Flag(t) \in Addition /\ Add(<<t>>) \in Addition
  /\ \A t \in ArgTexts : \A f : Addf(<<t>>, f) \in Addition
  /\ \A t, u \in ArgTexts : \A f : Addf(<<t, u>>, f) \in Addition
  /\ \A t, u, w \in ArgTexts : \A f : Addf(<<t, u, w>>, f) \in Addition
<1>1. \A t \in ArgTexts : <<t>> \in Seq(ArgTexts)
  OBVIOUS
<1>2. \A t, u \in ArgTexts : <<t, u>> \in Seq(ArgTexts)
  OBVIOUS
<1>3. \A t, u, w \in ArgTexts : <<t, u, w>> \in Seq(ArgTexts)
  OBVIOUS
<1> HIDE DEF ArgTexts
<1> QED
  BY <1>1, <1>2, <1>3 DEF Addition, Flag, Add, Addf

(* One or two additions, as most of the code makes them. *)
LEMMA ListType ==
  /\ <<>> \in Seq(Addition)
  /\ \A a \in Addition : <<a>> \in Seq(Addition)
  /\ \A a, b \in Addition : <<a, b>> \in Seq(Addition)
  /\ \A s, t \in Seq(Addition) : s \o t \in Seq(Addition)
  OBVIOUS

LEMMA DeviceArgsType ==
  ASSUME NEW d \in DeviceType
  PROVE  DeviceArgs(d) \in Seq(Addition)
<1>1. /\ d.path \in ArgTexts /\ d.bus \in ArgTexts /\ d.model \in ArgTexts /\ d.address \in ArgTexts
  BY DEF DeviceType, ArgTexts
<1>2. \A t \in ArgTexts : Text(t) \in ArgTexts
  BY DEF Text, ArgTexts
<1>3. \A t, u \in ArgTexts : Or(t, u) \in ArgTexts
  BY DEF Or
<1>4. \A b \in ArgTexts : Drive(d, b) \in Seq(Addition)
  <2>1. \A b \in ArgTexts : Addf(<<"file=", Text(d.path), b>>, d.path) \in Addition
    <3>1. "file=" \in ArgTexts
      BY DEF ArgTexts
    <3> QED
      BY <1>1, <1>2, <3>1, AdditionType
  <2>2. Flag("-drive") \in Addition
    BY AdditionType DEF ArgTexts
  <2> QED
    BY <2>1, <2>2, ListType DEF Drive
<1>5. bus_raw(d.bus) \in ArgTexts
  BY DEF bus_raw, ArgTexts
<1>6. /\ {"-vga", "-soundhw", "-serial", "-device", "usb-hub", "usb-host",
          "netdev=qwmnet", "unix:", "vfio-pci,host=", "virtio-blk-pci,drive=raw0",
          "std", "virtio", "ac97", "virtio-net-pci"} \subseteq ArgTexts
      /\ {"ide,media=cdrom", "floppy", "sd", "none,id=raw0"} \subseteq ArgTexts
  BY DEF ArgTexts
<1>7. /\ Flag("-vga") \in Addition /\ Flag("-soundhw") \in Addition
      /\ Flag("-serial") \in Addition /\ Flag("-device") \in Addition
      /\ Add(<<"usb-hub">>) \in Addition
      /\ Addf(<<"usb-host">>, "ids") \in Addition
      /\ Add(<<"virtio-blk-pci,drive=raw0">>) \in Addition
  BY <1>6, AdditionType
<1>8. /\ Add(<<Or(d.model, "std")>>) \in Addition
      /\ Add(<<Or(d.model, "virtio")>>) \in Addition
      /\ Add(<<Or(d.model, "ac97")>>) \in Addition
      /\ Addf(<<Or(d.model, "virtio-net-pci"), "netdev=qwmnet">>, d.model)
           \in Addition
      /\ Addf(<<"unix:", Text(d.path)>>, d.path) \in Addition
      /\ Addf(<<"vfio-pci,host=", Text(d.address)>>, d.address) \in Addition
  BY <1>1, <1>2, <1>3, <1>6, AdditionType
<1>9. /\ Drive(d, bus_raw(d.bus)) \in Seq(Addition)
      /\ Drive(d, "ide,media=cdrom") \in Seq(Addition)
      /\ Drive(d, "floppy") \in Seq(Addition) /\ Drive(d, "sd") \in Seq(Addition)
      /\ Drive(d, "none,id=raw0") \in Seq(Addition)
  BY <1>4, <1>5, <1>6
<1> QED
  BY <1>7, <1>8, <1>9, ListType DEF DeviceArgs

LEMMA AdditionsType ==
  ASSUME NEW c \in ConfigType
  PROVE  Additions(c) \in Seq(Addition)
<1>1. /\ c.name \in ArgTexts /\ c.architecture \in ArgTexts /\ c.acceleration \in ArgTexts
      /\ c.machine \in ArgTexts /\ c.cpu \in ArgTexts /\ c.qmp_socket \in ArgTexts
      /\ CutText(c.cpu) \in ArgTexts /\ c.devices \in Seq(DeviceType)
  BY DEF ConfigType, ArgTexts, CutText
<1>2. {"qemu-system-", "vcpus", "memory", "tcp:", "unix:", "-name", "-accel", "-smp", "-m",
       "-M", "-cpu", "-qmp", "-S", "-gdb"} \subseteq ArgTexts
  BY DEF ArgTexts
<1>3. \A g : \A s \in Seq(Addition) : Option(g, s) \in Seq(Addition)
  BY ListType DEF Option
<1>4. FlattenSeq([i \in 1..Len(c.devices) |-> DeviceArgs(c.devices[i])])
        \in Seq(Addition)
  <2>1. \A i \in 1..Len(c.devices) : DeviceArgs(c.devices[i]) \in Seq(Addition)
    BY <1>1, DeviceArgsType
  <2>2. [i \in 1..Len(c.devices) |-> DeviceArgs(c.devices[i])] \in Seq(Seq(Addition))
    BY <1>1, <2>1
  <2> QED
    BY <2>2, FlattenSeqType
<1>5. <<Addf(<<"qemu-system-", c.architecture>>, c.architecture),
        Flag("-name"), Add(<<c.name>>),
        Flag("-accel"), Add(<<c.acceleration>>),
        Flag("-smp"), Addf(<<"vcpus">>, "number"),
        Flag("-m"), Addf(<<"memory">>, "number")>> \in Seq(Addition)
  <2>1. /\ Addf(<<"qemu-system-", c.architecture>>, c.architecture) \in Addition
        /\ Flag("-name") \in Addition /\ Add(<<c.name>>) \in Addition
        /\ Flag("-accel") \in Addition /\ Add(<<c.acceleration>>) \in Addition
        /\ Flag("-smp") \in Addition /\ Addf(<<"vcpus">>, "number") \in Addition
        /\ Flag("-m") \in Addition /\ Addf(<<"memory">>, "number") \in Addition
    BY <1>1, <1>2, AdditionType
  <2> QED
    BY <2>1
<1>6. /\ <<Flag("-M"), Add(<<c.machine>>)>> \in Seq(Addition)
      /\ <<Flag("-cpu"), Add(<<CutText(c.cpu)>>)>> \in Seq(Addition)
      /\ <<Flag("-qmp"), Addf(<<"unix:", c.qmp_socket>>, c.qmp_socket)>>
           \in Seq(Addition)
      /\ <<Flag("-S")>> \in Seq(Addition)
      /\ <<Flag("-gdb"), Addf(<<"tcp:">>, "number")>> \in Seq(Addition)
  <2>1. /\ Flag("-M") \in Addition /\ Add(<<c.machine>>) \in Addition
        /\ Flag("-cpu") \in Addition /\ Add(<<CutText(c.cpu)>>) \in Addition
        /\ Flag("-qmp") \in Addition
        /\ Addf(<<"unix:", c.qmp_socket>>, c.qmp_socket) \in Addition
        /\ Flag("-S") \in Addition
        /\ Flag("-gdb") \in Addition /\ Addf(<<"tcp:">>, "number") \in Addition
    BY <1>1, <1>2, AdditionType
  <2> QED
    BY <2>1, ListType
<1>7. /\ Option(c.machine # "NULL", <<Flag("-M"), Add(<<c.machine>>)>>)
           \in Seq(Addition)
      /\ Option(c.cpu # "NULL", <<Flag("-cpu"), Add(<<CutText(c.cpu)>>)>>)
           \in Seq(Addition)
      /\ Option(c.qmp_socket # "NULL",
           <<Flag("-qmp"), Addf(<<"unix:", c.qmp_socket>>, c.qmp_socket)>>)
           \in Seq(Addition)
      /\ Option(c.gdb_port > 0 /\ c.gdb_stop, <<Flag("-S")>>) \in Seq(Addition)
      /\ Option(c.gdb_port > 0, <<Flag("-gdb"), Addf(<<"tcp:">>, "number")>>)
           \in Seq(Addition)
  BY <1>3, <1>6
<1> QED
  BY <1>4, <1>5, <1>7, ListType DEF Additions
-----------------------------------------------------------------------------
(* Where the call is in its additions, and what n says. *)
CountInv ==
  /\ config \in Configs /\ pc \in {"build", "done"}
  /\ next \in Nat /\ 1 <= next /\ next <= Len(Additions(config)) + 1
  /\ n \in Nat \cup {-1}
  /\ n >= 0 => n = next - 1 /\ Len(v) = n
  /\ pc = "done" /\ n >= 0 => next > Len(Additions(config))

(* What is stored are the first additions, after a failure too. *)
StoredInv ==
  /\ v \in Seq(Seq(ArgTexts))
  /\ Len(v) < next
  /\ \A i \in 1..Len(v) : v[i] = Additions(config)[i].arg

BuildInv == CountInv /\ StoredInv /\ RoomForNull

LEMMA AllType ==
  ASSUME config \in Configs
  PROVE  /\ Additions(config) \in Seq(Addition) /\ Len(Additions(config)) \in Nat
         /\ \A i \in 1..Len(Additions(config)) :
              Additions(config)[i].arg \in Seq(ArgTexts)
<1>1. Additions(config) \in Seq(Addition)
  BY ConfigsAssumption, AdditionsType
<1> DEFINE all == Additions(config)
<1> HIDE DEF all
<1>2. ASSUME all \in Seq(Addition)
      PROVE  Len(all) \in Nat /\ \A i \in 1..Len(all) : all[i].arg \in Seq(ArgTexts)
  <2>1. \A a \in Addition : a.arg \in Seq(ArgTexts)
    BY DEF Addition
  <2>2. \A i \in 1..Len(all) : all[i] \in Addition
    BY <1>2
  <2> QED
    BY <1>2, <2>1, <2>2
<1> QED
  BY <1>1, <1>2 DEF all

LEMMA InitBuild == BuildInit => BuildInv
<1> SUFFICES ASSUME BuildInit PROVE BuildInv
  OBVIOUS
<1>1. Len(Additions(config)) \in Nat
  BY AllType DEF BuildInit
<1> QED
  BY <1>1 DEF BuildInit, BuildInv, CountInv, StoredInv, RoomForNull

LEMMA AddStep == BuildInv /\ AddOne => BuildInv'
<1> SUFFICES ASSUME BuildInv, AddOne PROVE BuildInv'
  OBVIOUS
<1> DEFINE all == Additions(config)
<1>1. /\ config \in Configs /\ UNCHANGED <<config, pc>> /\ pc = "build"
      /\ next \in Nat /\ 1 <= next /\ next <= Len(all) /\ next' = next + 1
      /\ n \in Nat \cup {-1} /\ (n >= 0 => n = next - 1 /\ Len(v) = n)
      /\ v \in Seq(Seq(ArgTexts)) /\ Len(v) < next
      /\ \A i \in 1..Len(v) : v[i] = all[i].arg
      /\ Len(v) < Cap \/ v = <<>>
  BY DEF BuildInv, CountInv, StoredInv, RoomForNull, AddOne
<1>2. Len(all) \in Nat /\ all[next].arg \in Seq(ArgTexts)
  BY <1>1, AllType
<1>3. \/ n >= 0 /\ n + 1 < Cap /\ n' = n + 1 /\ v' = Append(v, all[next].arg)
      \/ n' = -1 /\ v' = v
  BY DEF AddOne, Room
<1>4. Additions(config)' = all
  BY <1>1
<1> HIDE DEF all
<1>5. CASE n >= 0 /\ n + 1 < Cap /\ n' = n + 1 /\ v' = Append(v, all[next].arg)
  <2>1. n = next - 1 /\ Len(v) = n /\ n \in Nat /\ n' \in Nat
    BY <1>1, <1>5
  <2>2. /\ v' \in Seq(Seq(ArgTexts)) /\ Len(v') = n + 1
        /\ \A i \in 1..n : v'[i] = v[i]
        /\ v'[n + 1] = all[next].arg
    BY <1>1, <1>2, <1>5, <2>1
  <2>3. ASSUME NEW i \in 1..Len(v') PROVE v'[i] = all[i].arg
    <3>1. i = n + 1 \/ i \in 1..n
      BY <2>1, <2>2
    <3>2. next = n + 1 /\ \A k \in 1..n : v[k] = all[k].arg
      BY <1>1, <2>1
    <3> QED
      BY <2>2, <3>1, <3>2
  <2>4. CountInv'
    BY <1>1, <1>2, <1>4, <1>5, <2>1, <2>2 DEF CountInv
  <2>5. StoredInv'
    <3>1. Len(v') < next' /\ v' \in Seq(Seq(ArgTexts))
      BY <1>1, <2>1, <2>2
    <3>2. \A i \in 1..Len(v') : v'[i] = Additions(config)'[i].arg
      BY <1>4, <2>3
    <3> QED
      BY <3>1, <3>2 DEF StoredInv
  <2>6. RoomForNull'
    BY <1>5, <2>2 DEF RoomForNull
  <2> QED
    BY <2>4, <2>5, <2>6 DEF BuildInv
<1>6. CASE n' = -1 /\ v' = v
  BY <1>1, <1>2, <1>4, <1>6 DEF BuildInv, CountInv, StoredInv, RoomForNull
<1> QED
  BY <1>3, <1>5, <1>6

LEMMA ReturnStep == BuildInv /\ Return => BuildInv'
<1> SUFFICES ASSUME BuildInv, Return PROVE BuildInv'
  OBVIOUS
<1>1. UNCHANGED <<config, next, v>> /\ Additions(config)' = Additions(config)
  BY DEF Return
<1>2. StoredInv' /\ RoomForNull'
  BY <1>1 DEF BuildInv, StoredInv, RoomForNull
<1>3. CountInv'
  BY <1>1 DEF Return, BuildInv, CountInv
<1> QED
  BY <1>2, <1>3 DEF BuildInv

(* BuildInv holds at every addition, for any configurations and capacity. *)
THEOREM Builds == BuildSpec => []BuildInv
<1>1. BuildInit => BuildInv
  BY InitBuild
<1>2. BuildInv /\ [BuildNext]_buildVars => BuildInv'
  <2>1. CASE UNCHANGED buildVars
    BY <2>1 DEF buildVars, BuildInv, CountInv, StoredInv, RoomForNull
  <2>2. BuildInv /\ AddOne => BuildInv'
    BY AddStep
  <2>3. BuildInv /\ Return => BuildInv'
    BY ReturnStep
  <2> QED
    BY <2>1, <2>2, <2>3 DEF BuildNext
<1> QED
  BY <1>1, <1>2, PTL DEF BuildSpec

(* For any configurations and any capacity, a call of qwm_build_argv that  *)
(* succeeds has stored every argument of the configuration, in order.      *)
THEOREM CompleteSafety == BuildSpec => []AllOrNothing
<1>1. BuildInv => AllOrNothing
  <2> SUFFICES ASSUME BuildInv, pc = "done", n >= 0
               PROVE  /\ n = Len(Additions(config))
                      /\ v = [i \in 1..n |-> Additions(config)[i].arg]
    BY DEF AllOrNothing
  <2> DEFINE all == Additions(config)
  <2>1. Len(all) \in Nat
    BY AllType DEF BuildInv, CountInv
  <2>2. n = Len(all) /\ Len(v) = n /\ v \in Seq(Seq(ArgTexts))
    BY <2>1 DEF BuildInv, CountInv, StoredInv
  <2>3. \A i \in 1..Len(v) : v[i] = all[i].arg
    BY DEF BuildInv, StoredInv
  <2> HIDE DEF all
  <2>4. v = [i \in 1..n |-> all[i].arg]
    BY <2>2, <2>3
  <2> QED
    BY <2>2, <2>4 DEF all
<1> QED
  BY <1>1, Builds, PTL

(* The vector is never filled to its end: the closing NULL has a place.    *)
THEOREM RoomSafety == BuildSpec => []RoomForNull
<1>1. BuildInv => RoomForNull
  BY DEF BuildInv
<1> QED
  BY <1>1, Builds, PTL
-----------------------------------------------------------------------------
(* An element of the second of two sequences.                             *)
LEMMA SecondHalf ==
  ASSUME NEW S, NEW s \in Seq(S), NEW t \in Seq(S), NEW k \in 1..Len(t)
  PROVE  (s \o t)[Len(s) + k] = t[k]
<1>1. Len(s) \in Nat /\ Len(t) \in Nat
  OBVIOUS
<1>2. Len(s) + k \in 1..(Len(s) + Len(t)) /\ ~(Len(s) + k <= Len(s))
  BY <1>1
<1>3. (Len(s) + k) - Len(s) = k
  BY <1>1
<1>4. (s \o t)[Len(s) + k] = t[(Len(s) + k) - Len(s)]
  BY <1>2, ConcatProperties
<1> QED
  BY <1>3, <1>4

(* Where the lines of a text begin among its words. *)
Offsets(off, lines) ==
  /\ off \in [0..Len(lines) -> Nat] /\ off[0] = 0
  /\ \A i \in 1..Len(lines) : off[i] = off[i - 1] + Len(lines[i])
  /\ \A i \in 0..Len(lines) : off[i] <= off[Len(lines)]
  /\ Len(WordsOf(lines)) = off[Len(lines)]
  /\ \A i \in 1..Len(lines) : \A k \in 1..Len(lines[i]) :
       WordsOf(lines)[off[i - 1] + k] = lines[i][k]

LEMMA OffsetsExist ==
  ASSUME NEW S, NEW lines \in Seq(Seq(S))
  PROVE  \E off : Offsets(off, lines)
<1> DEFINE m == Len(lines)
<1>1. m \in Nat /\ \A i \in 1..m : lines[i] \in Seq(S)
  OBVIOUS
<1>2. PICK F \in [0..m -> Seq(S)] :
        /\ F[0] = <<>> /\ FlattenSeq(lines) = F[m]
        /\ \A i \in 1..m : F[i] = F[i - 1] \o lines[i]
  BY FlattenSteps
<1> DEFINE off == [i \in 0..m |-> Len(F[i])]
<1>3. off \in [0..m -> Nat] /\ off[0] = 0 /\ Len(F[m]) = off[m]
  <2>1. \A i \in 0..m : F[i] \in Seq(S) /\ Len(F[i]) \in Nat
    <3>1. \A i \in 0..m : F[i] \in Seq(S)
      BY <1>2
    <3> QED
      BY <3>1
  <2>2. Len(F[0]) = 0
    BY <1>2
  <2> QED
    BY <1>1, <2>1, <2>2
<1>4. \A i \in 1..m : off[i] = off[i - 1] + Len(lines[i])
  <2> SUFFICES ASSUME NEW i \in 1..m PROVE off[i] = off[i - 1] + Len(lines[i])
    OBVIOUS
  <2>1. i - 1 \in 0..m /\ i \in 0..m
    BY <1>1
  <2>2. F[i] = F[i - 1] \o lines[i] /\ F[i - 1] \in Seq(S) /\ lines[i] \in Seq(S)
    BY <1>1, <1>2, <2>1
  <2>3. Len(F[i]) = Len(F[i - 1]) + Len(lines[i])
    BY <2>2
  <2> QED
    BY <2>1, <2>3
<1> DEFINE U == {x \in 0..m : /\ \A i \in 0..x : off[i] <= off[x]
                              /\ \A i \in 1..x : \A k \in 1..Len(lines[i]) :
                                   F[x][off[i - 1] + k] = lines[i][k]}
<1> HIDE DEF off
<1>5. Len(F[m]) = off[m] /\ \A x \in 0..m : Len(F[x]) = off[x]
  BY <1>3 DEF off
<1>6. 0 \in U
  BY <1>1, <1>3
<1>7. ASSUME NEW x \in 0..m, x \in U, x + 1 <= m PROVE x + 1 \in U
  <2>1. x + 1 \in 1..m /\ x + 1 \in 0..m /\ (x + 1) - 1 = x
    BY <1>1, <1>7
  <2>2. /\ F[x + 1] = F[x] \o lines[x + 1] /\ F[x] \in Seq(S) /\ lines[x + 1] \in Seq(S)
        /\ off[x + 1] = off[x] + Len(lines[x + 1]) /\ Len(F[x]) = off[x]
    BY <1>1, <1>2, <1>4, <1>5, <2>1
  <2>3. \A i \in 0..x : i \in 0..m /\ off[i] \in Nat
    <3>1. \A i \in 0..x : i \in 0..m
      BY <1>1, <1>7
    <3> QED
      BY <1>3, <3>1
  <2>4. off[x] <= off[x + 1] /\ off[x] \in Nat /\ off[x + 1] \in Nat
    BY <1>3, <2>1, <2>2
  <2>5. ASSUME NEW i \in 0..(x + 1) PROVE off[i] <= off[x + 1]
    <3>1. CASE i = x + 1
      BY <2>4, <3>1
    <3>2. CASE i # x + 1
      <4>1. i \in 0..x
        BY <3>2
      <4>2. off[i] <= off[x] /\ off[i] \in Nat
        BY <1>7, <2>3, <4>1
      <4> QED
        BY <2>4, <4>2
    <3> QED
      BY <3>1, <3>2
  <2>6. ASSUME NEW i \in 1..(x + 1), NEW k \in 1..Len(lines[i])
        PROVE  F[x + 1][off[i - 1] + k] = lines[i][k]
    <3>1. CASE i = x + 1
      <4>1. off[i - 1] = Len(F[x]) /\ i - 1 = x
        BY <2>2, <3>1
      <4>2. k \in 1..Len(lines[x + 1])
        BY <3>1
      <4>3. (F[x] \o lines[x + 1])[Len(F[x]) + k] = lines[x + 1][k]
        <5>1. \A u \in Seq(S), t \in Seq(S) : \A q \in 1..Len(t) :
                (u \o t)[Len(u) + q] = t[q]
          BY SecondHalf
        <5>2. F[x] \in Seq(S) /\ lines[x + 1] \in Seq(S)
          BY <2>2
        <5> QED
          BY <4>2, <5>1, <5>2
      <4> QED
        BY <2>2, <3>1, <4>1, <4>3
    <3>2. CASE i # x + 1
      <4>1. i \in 1..x /\ i \in 1..m /\ i \in 0..x /\ i - 1 \in 0..x
        BY <1>7, <3>2
      <4>2. /\ off[i] = off[i - 1] + Len(lines[i]) /\ off[i] <= off[x]
            /\ off[i - 1] \in Nat /\ off[i] \in Nat /\ Len(lines[i]) \in Nat
        BY <1>1, <1>4, <1>7, <2>3, <4>1
      <4>3. off[i - 1] + k \in 1..Len(F[x])
        <5>1. Len(F[x]) = off[x] /\ off[x] \in Nat
          BY <2>2, <2>4
        <5>2. k \in Nat /\ 1 <= k /\ k <= Len(lines[i])
          BY <4>2
        <5> DEFINE b == off[i - 1]
                   l == Len(lines[i])
                   h == off[x]
        <5>3. b \in Nat /\ l \in Nat /\ h \in Nat /\ b + l <= h
          BY <4>2, <5>1
        <5>4. k <= l
          BY <5>2
        <5> HIDE DEF b, l, h
        <5>5. b + k \in 1..h
          BY <5>2, <5>3, <5>4
        <5> QED
          BY <5>1, <5>5 DEF b, h
      <4>4. (F[x] \o lines[x + 1])[off[i - 1] + k] = F[x][off[i - 1] + k]
        BY <2>2, <4>3
      <4>5. F[x][off[i - 1] + k] = lines[i][k]
        BY <1>7, <4>1
      <4> QED
        BY <2>2, <4>4, <4>5
    <3> QED
      BY <3>1, <3>2
  <2> QED
    BY <2>1, <2>5, <2>6
<1>8. m \in U
  <2>1. \A x \in 0..m : x \in U /\ x + 1 <= m => x + 1 \in U
    BY <1>7
  <2> HIDE DEF U, m
  <2>2. \A x \in 0..m : x \in U
    BY <1>1, <1>6, <2>1, SetInduction
  <2> QED
    BY <1>1, <2>2
<1>9. Offsets(off, lines)
  <2>1. /\ \A i \in 0..m : off[i] <= off[m]
        /\ \A i \in 1..m : \A k \in 1..Len(lines[i]) : F[m][off[i - 1] + k] = lines[i][k]
    BY <1>8
  <2>2. WordsOf(lines) = F[m]
    BY <1>2 DEF WordsOf
  <2> HIDE DEF U
  <2> QED
    BY <1>3, <1>4, <1>5, <2>1, <2>2 DEF Offsets
<1> QED
  BY <1>9
-----------------------------------------------------------------------------
(* The line ByLines finds is the first readable one with the label.        *)
LEMMA ByLinesIs ==
  ASSUME NEW lines, NEW label, NEW i \in 1..Len(lines), Len(lines) \in Nat,
         lines[i][1].word = label, Readable(lines, i),
         \A j \in 1..(i - 1) : lines[j][1].word # label
  PROVE  ByLines(lines, label) = lines[i][2].number
<1> DEFINE is == {j \in 1..Len(lines) : lines[j][1].word = label /\ Readable(lines, j)}
           first == CHOOSE j \in is : \A k \in is : j <= k
<1>1. i \in is /\ \A k \in is : i <= k
  OBVIOUS
<1>2. ByLines(lines, label) = lines[first][2].number
  BY <1>1 DEF ByLines
<1>3. is \subseteq Nat
  OBVIOUS
<1> HIDE DEF is
<1>4. first \in is /\ \A k \in is : first <= k
  BY <1>1
<1>5. first <= i /\ i <= first /\ first \in Nat
  BY <1>1, <1>3, <1>4
<1>6. first = i
  BY <1>5
<1> QED
  BY <1>2, <1>6

LEMMA ByLinesNone ==
  ASSUME NEW lines, NEW label,
         \A i \in 1..Len(lines) : lines[i][1].word = label => ~Readable(lines, i)
  PROVE  ByLines(lines, label) = 0
  BY DEF ByLines

(* The n-th line begins after 3 * q words when all before have three.      *)
LEMMA Thirds ==
  ASSUME NEW S, NEW lines \in Seq(Seq(S)), NEW off, Offsets(off, lines),
         NEW m \in 0..Len(lines), \A j \in 1..m : Len(lines[j]) = 3
  PROVE  off[m] = 3 * m
<1> DEFINE T == {x \in 0..m : off[x] = 3 * x}
<1>1. m \in Nat /\ Len(lines) \in Nat /\ m <= Len(lines)
  OBVIOUS
<1>2. 0 \in T
  BY <1>1 DEF Offsets
<1>3. ASSUME NEW x \in 0..m, x \in T, x + 1 <= m PROVE x + 1 \in T
  <2>1. x + 1 \in 1..m /\ x + 1 \in 1..Len(lines) /\ (x + 1) - 1 = x
    BY <1>1, <1>3
  <2>2. off[x + 1] = off[x] + Len(lines[x + 1]) /\ Len(lines[x + 1]) = 3
    BY <2>1 DEF Offsets
  <2>3. off[x] = 3 * x
    BY <1>3
  <2>4. off[x + 1] = 3 * (x + 1)
    BY <2>2, <2>3
  <2> QED
    BY <2>1, <2>4
<1>4. \A x \in 0..m : x \in T
  <2> HIDE DEF T
  <2> QED
    BY <1>1, <1>2, <1>3, SetInduction
<1> QED
  BY <1>1, <1>4

(* The line that begins after off[j] words.                                *)
LEMMA LineAt ==
  ASSUME NEW S, NEW lines \in Seq(Seq(S)), NEW off, Offsets(off, lines),
         NEW j \in Nat, j < Len(lines)
  PROVE  /\ j + 1 \in 1..Len(lines) /\ off[j] \in Nat
         /\ Len(lines[j + 1]) \in Nat /\ off[j + 1] = off[j] + Len(lines[j + 1])
         /\ Len(WordsOf(lines)) \in Nat /\ off[j + 1] <= Len(WordsOf(lines))
         /\ \A k \in 1..Len(lines[j + 1]) : WordsOf(lines)[off[j] + k] = lines[j + 1][k]
<1> DEFINE m == Len(lines)
<1>1. m \in Nat /\ j + 1 \in 1..m /\ (j + 1) - 1 = j /\ j \in 0..m /\ j + 1 \in 0..m
  OBVIOUS
<1>2. lines[j + 1] \in Seq(S)
  BY <1>1
<1>3. off \in [0..m -> Nat] /\ Len(WordsOf(lines)) = off[m]
  BY DEF Offsets
<1>4. off[j + 1] = off[(j + 1) - 1] + Len(lines[j + 1])
  BY <1>1 DEF Offsets
<1>5. off[j + 1] <= off[m]
  BY <1>1 DEF Offsets
<1>6. \A k \in 1..Len(lines[j + 1]) : WordsOf(lines)[off[(j + 1) - 1] + k] = lines[j + 1][k]
  BY <1>1 DEF Offsets
<1>7. off[j] \in Nat /\ off[m] \in Nat /\ Len(lines[j + 1]) \in Nat
  BY <1>1, <1>2, <1>3
<1> QED
  BY <1>1, <1>3, <1>4, <1>5, <1>6, <1>7

(* One turn of parse_ull, seen from the lines: after i lines of the file   *)
(* without the label the next one is looked at, found, or never reached.   *)
Passed(lines, label, i) ==
  /\ i \in 0..Len(lines)
  /\ i > 0 => Readable(lines, i)
  /\ \A j \in 1..i : lines[j][1].word # label

LEMMA MemTurn ==
  ASSUME NEW lines \in Seq(Seq(Token)), \A i \in 1..Len(lines) : Measures(lines[i]),
         NEW label \in Labels, NEW i, Passed(lines, label, i)
  PROVE  LET text == WordsOf(lines)
             a    == 3 * i + 1
         IN  \/ /\ Matches3(text, a) /\ text[a].word # label
                /\ Passed(lines, label, i + 1)
             \/ /\ Matches3(text, a) /\ text[a].word = label
                /\ text[a + 1].number = ByLines(lines, label)
             \/ ~Matches3(text, a) /\ ByLines(lines, label) = 0
<1> DEFINE text == WordsOf(lines)
           a == 3 * i + 1
           m == Len(lines)
<1>1. m \in Nat /\ i \in 0..m /\ i \in Nat
  BY DEF Passed
<1>2. PICK off : Offsets(off, lines)
  BY OffsetsExist
<1>3. ASSUME NEW j \in Nat, j < m
      PROVE  /\ j + 1 \in 1..m /\ off[j] \in Nat
             /\ Len(lines[j + 1]) \in Nat /\ off[j + 1] = off[j] + Len(lines[j + 1])
             /\ off[j + 1] <= Len(text)
             /\ \A k \in 1..Len(lines[j + 1]) : text[off[j] + k] = lines[j + 1][k]
  BY <1>2, <1>3, LineAt
<1>4. ASSUME NEW j \in Nat, j < m
      PROVE  /\ Len(lines[j + 1]) = 2 \/ Len(lines[j + 1]) = 3
             /\ ~IsNumber(lines[j + 1][1]) /\ IsNumber(lines[j + 1][2])
             /\ Len(lines[j + 1]) = 3 => ~IsNumber(lines[j + 1][3])
             /\ text[off[j] + 1] = lines[j + 1][1] /\ text[off[j] + 2] = lines[j + 1][2]
             /\ Len(lines[j + 1]) = 3 => text[off[j] + 3] = lines[j + 1][3]
  <2>1. /\ j + 1 \in 1..m
        /\ \A k \in 1..Len(lines[j + 1]) : text[off[j] + k] = lines[j + 1][k]
    BY <1>3, <1>4
  <2>2. Measures(lines[j + 1])
    BY <2>1
  <2>3. /\ Len(lines[j + 1]) = 2 \/ Len(lines[j + 1]) = 3
        /\ ~IsNumber(lines[j + 1][1]) /\ IsNumber(lines[j + 1][2])
        /\ Len(lines[j + 1]) = 3 => ~IsNumber(lines[j + 1][3])
    BY <2>2 DEF Measures, Labelled
  <2>4. /\ 1 \in 1..Len(lines[j + 1]) /\ 2 \in 1..Len(lines[j + 1])
        /\ Len(lines[j + 1]) = 3 => 3 \in 1..Len(lines[j + 1])
    BY <2>3
  <2> QED
    BY <2>1, <2>3, <2>4
<1>5. /\ \A j \in 1..i : lines[j][1].word # label
      /\ \A j \in 1..(i - 1) : Len(lines[j]) = 3
      /\ i > 0 => Len(lines[i]) = 3 \/ i < m
  BY DEF Passed, Readable
<1>e. Len(text) = off[m] /\ off[m] \in Nat
  BY <1>1, <1>2 DEF Offsets
<1> HIDE DEF text, m
<1>6. CASE i = 0 \/ Len(lines[i]) = 3
  <2>1. \A j \in 1..i : Len(lines[j]) = 3
    BY <1>1, <1>5, <1>6
  <2>2. off[i] = 3 * i
    BY <1>1, <1>2, <2>1, Thirds DEF m
  <2>3. CASE i = m
    <3>1. Len(text) = 3 * i
      BY <1>e, <2>2, <2>3
    <3>2. ~Matches3(text, a)
      BY <1>1, <3>1 DEF Matches3
    <3>3. ByLines(lines, label) = 0
      BY <1>5, <2>3, ByLinesNone DEF m
    <3> QED
      BY <3>2, <3>3 DEF text
  <2>4. CASE i < m
    <3>1. /\ i + 1 \in 1..m /\ off[i + 1] = 3 * i + Len(lines[i + 1])
          /\ off[i + 1] <= Len(text)
          /\ Len(lines[i + 1]) = 2 \/ Len(lines[i + 1]) = 3
      <4>1. /\ i + 1 \in 1..m /\ off[i + 1] = off[i] + Len(lines[i + 1])
            /\ off[i + 1] <= Len(text)
        BY <1>1, <1>3, <2>4
      <4>2. Len(lines[i + 1]) = 2 \/ Len(lines[i + 1]) = 3
        BY <1>1, <1>4, <2>4
      <4> QED
        BY <2>2, <4>1, <4>2
    <3>2. text[a] = lines[i + 1][1] /\ text[a + 1] = lines[i + 1][2]
      <4>1. text[off[i] + 1] = lines[i + 1][1] /\ text[off[i] + 2] = lines[i + 1][2]
        BY <1>1, <1>4, <2>4
      <4>2. off[i] + 1 = a /\ off[i] + 2 = a + 1
        BY <1>1, <2>2
      <4> QED
        BY <4>1, <4>2
    <3>i. (i + 1) - 1 = i
      BY <1>1
    <3>3. \A j \in 1..((i + 1) - 1) : Len(lines[j]) = 3
      BY <2>1, <3>i
    <3>4. CASE Len(lines[i + 1]) = 3 \/ i + 1 < m
      <4>1. a + 2 <= Len(text)
        <5>1. CASE Len(lines[i + 1]) = 3
          BY <1>1, <1>e, <3>1, <5>1
        <5>2. CASE i + 1 < m
          <6>1. /\ i + 1 \in Nat /\ off[(i + 1) + 1] = off[i + 1] + Len(lines[(i + 1) + 1])
                /\ Len(lines[(i + 1) + 1]) = 2 \/ Len(lines[(i + 1) + 1]) = 3
                /\ off[(i + 1) + 1] <= Len(text)
            BY <1>1, <1>3, <1>4, <5>2
          <6>2. off[i + 1] = 3 * i + 2 \/ off[i + 1] = 3 * i + 3
            BY <1>1, <3>1
          <6>3. off[i + 1] + 2 <= Len(text)
            <7> DEFINE o == off[i + 1]
                       q == off[(i + 1) + 1]
                       l == Len(lines[(i + 1) + 1])
            <7>1. o \in Int /\ q = o + l /\ (l = 2 \/ l = 3) /\ q <= Len(text)
              BY <1>1, <6>1, <6>2
            <7>2. Len(text) \in Int
              BY <1>e
            <7> HIDE DEF o, q, l
            <7>3. o + 2 <= Len(text)
              BY <7>1, <7>2
            <7> QED
              BY <7>3 DEF o
          <6> QED
            BY <1>1, <1>e, <6>2, <6>3
        <5> QED
          BY <3>4, <5>1, <5>2
      <4>2. Matches3(text, a)
        <5>1. IsNumber(text[a + 1])
          BY <1>1, <1>4, <2>4, <3>2
        <5> QED
          BY <4>1, <5>1 DEF Matches3
      <4>3. Readable(lines, i + 1)
        BY <3>3, <3>4 DEF Readable, m
      <4>4. CASE lines[i + 1][1].word = label
        <5>1. \A j \in 1..((i + 1) - 1) : lines[j][1].word # label
          BY <1>5, <3>i
        <5>2. ByLines(lines, label) = lines[i + 1][2].number
          BY <1>1, <3>1, <4>3, <4>4, <5>1, ByLinesIs DEF m
        <5> QED
          BY <3>2, <4>2, <4>4, <5>2 DEF text
      <4>5. CASE lines[i + 1][1].word # label
        <5>1. \A j \in 1..(i + 1) : j \in 1..i \/ j = i + 1
          BY <1>1
        <5>2. i + 1 \in 0..m
          BY <1>1, <2>4
        <5>3. Passed(lines, label, i + 1)
          BY <1>5, <4>3, <4>5, <5>1, <5>2 DEF Passed, m
        <5> QED
          BY <3>2, <4>2, <4>5, <5>3 DEF text
      <4> QED
        BY <4>4, <4>5
    <3>5. CASE ~(Len(lines[i + 1]) = 3 \/ i + 1 < m)
      <4>1. i + 1 = m /\ Len(text) = 3 * i + 2
        <5>1. i + 1 = m
          BY <1>1, <2>4, <3>5
        <5>2. Len(text) = off[i + 1]
          BY <1>e, <5>1
        <5> QED
          BY <3>1, <3>5, <5>1, <5>2
      <4>2. ~Matches3(text, a)
        BY <1>1, <4>1 DEF Matches3
      <4>3. ~Readable(lines, i + 1)
        BY <3>5 DEF Readable, m
      <4>4. \A j \in 1..Len(lines) : lines[j][1].word = label => ~Readable(lines, j)
        <5>1. \A j \in 1..m : j \in 1..i \/ j = i + 1
          BY <1>1, <4>1
        <5> QED
          BY <1>5, <4>3, <5>1 DEF m
      <4>5. ByLines(lines, label) = 0
        BY <4>4, ByLinesNone
      <4> QED
        BY <4>2, <4>5 DEF text
    <3> QED
      BY <3>4, <3>5
  <2> QED
    BY <1>1, <2>3, <2>4
<1>7. CASE i # 0 /\ Len(lines[i]) # 3
  <2>0. PICK h \in Nat : i = h + 1
    <3>1. i - 1 \in Nat /\ i = (i - 1) + 1
      BY <1>1, <1>7
    <3> QED
      BY <3>1
  <2>1. /\ h < m /\ i < m /\ i - 1 = h /\ h \in 0..m
        /\ Len(lines[i]) = 2
    <3>1. i > 0 /\ h < m /\ i - 1 = h /\ h \in 0..m
      BY <1>1, <1>7, <2>0
    <3>2. Len(lines[i]) = 2
      BY <1>4, <1>7, <2>0, <3>1
    <3> QED
      BY <1>5, <1>7, <3>1, <3>2
  <2>2. off[h] = 3 * h
    BY <1>2, <1>5, <2>1, Thirds DEF m
  <2>3. off[i] = 3 * h + 2 /\ a + 1 = 3 * h + 5
    <3>1. off[h + 1] = off[h] + Len(lines[h + 1])
      BY <1>3, <2>1
    <3>2. a + 1 = 3 * h + 5
      BY <2>0
    <3> QED
      BY <2>0, <2>1, <2>2, <3>1, <3>2
  <2>4. /\ i + 1 \in Nat /\ off[i + 1] = off[i] + Len(lines[i + 1])
        /\ Len(lines[i + 1]) = 2 \/ Len(lines[i + 1]) = 3
        /\ off[i + 1] <= Len(text)
    BY <1>1, <1>3, <1>4, <2>1
  <2>5. ~Matches3(text, a)
    <3>1. CASE Len(lines[i + 1]) = 3
      <4>1. text[off[i] + 3] = lines[i + 1][3] /\ ~IsNumber(lines[i + 1][3])
        BY <1>1, <1>4, <2>1, <3>1
      <4>2. off[i] + 3 = a + 1
        BY <2>3
      <4>3. ~IsNumber(text[a + 1])
        BY <4>1, <4>2
      <4> QED
        BY <4>3 DEF Matches3
    <3>2. CASE Len(lines[i + 1]) = 2 /\ i + 1 < m
      <4>1. text[off[i + 1] + 1] = lines[(i + 1) + 1][1] /\ ~IsNumber(lines[(i + 1) + 1][1])
        BY <1>4, <2>4, <3>2
      <4>2. off[i + 1] + 1 = a + 1
        BY <2>3, <2>4, <3>2
      <4>3. ~IsNumber(text[a + 1])
        BY <4>1, <4>2
      <4> QED
        BY <4>3 DEF Matches3
    <3>3. CASE Len(lines[i + 1]) = 2 /\ i + 1 = m
      <4>1. Len(text) = off[i + 1]
        BY <1>e, <3>3
      <4>2. Len(text) = 3 * h + 4
        <5>1. Len(text) = off[i] + 2
          BY <2>4, <3>3, <4>1
        <5> QED
          BY <2>3, <5>1
      <4>3. ~(a + 2 <= Len(text))
        BY <2>0, <2>3, <4>2
      <4> QED
        BY <4>3 DEF Matches3
    <3>4. i + 1 < m \/ i + 1 = m
      BY <1>1, <2>1
    <3> QED
      BY <2>4, <3>1, <3>2, <3>3, <3>4
  <2>6. \A j \in 1..Len(lines) : lines[j][1].word = label => ~Readable(lines, j)
    <3>1. \A j \in 1..m : j \in 1..i \/ i \in 1..(j - 1)
      BY <1>1, <1>7
    <3>2. \A j \in 1..Len(lines) : i \in 1..(j - 1) => ~Readable(lines, j)
      BY <1>7 DEF Readable
    <3> QED
      BY <1>5, <3>1, <3>2 DEF m
  <2>7. ByLines(lines, label) = 0
    BY <2>6, ByLinesNone
  <2> QED
    BY <2>5, <2>7 DEF text
<1> QED
  BY <1>6, <1>7
-----------------------------------------------------------------------------
(* The line RssByLines finds is the first with the label and a number that *)
(* stands behind nothing but pairs.                                        *)
LEMMA RssByLinesIs ==
  ASSUME NEW s, Len(s) \in Nat, NEW i \in 1..Len(s), s[i][1].word = "VmRSS:",
         Len(s[i]) >= 2, IsNumber(s[i][2]), \A j \in 1..(i - 1) : Paired(s[j]),
         \A j \in 1..(i - 1) : s[j][1].word # "VmRSS:"
  PROVE  RssByLines(s) = s[i][2].number
<1> DEFINE is == {j \in 1..Len(s) : /\ s[j][1].word = "VmRSS:"
                                    /\ Len(s[j]) >= 2 /\ IsNumber(s[j][2])
                                    /\ \A k \in 1..(j - 1) : Paired(s[k])}
           first == CHOOSE j \in is : \A k \in is : j <= k
<1>1. i \in is /\ \A k \in is : i <= k
  OBVIOUS
<1>2. RssByLines(s) = s[first][2].number
  BY <1>1 DEF RssByLines
<1>3. is \subseteq Nat
  OBVIOUS
<1> HIDE DEF is
<1>4. first \in is /\ \A k \in is : first <= k
  BY <1>1
<1>5. first <= i /\ i <= first /\ first \in Nat
  BY <1>1, <1>3, <1>4
<1>6. first = i
  BY <1>5
<1> QED
  BY <1>2, <1>6

LEMMA RssByLinesNone ==
  ASSUME NEW s,
         \A i \in 1..Len(s) : s[i][1].word = "VmRSS:" =>
           \/ ~(Len(s[i]) >= 2) \/ ~IsNumber(s[i][2])
           \/ \E j \in 1..(i - 1) : ~Paired(s[j])
  PROVE  RssByLines(s) = 0
  BY DEF RssByLines

(* The loop over status has read i lines, all of pairs, and k pairs of the *)
(* next one, and none of them was the one it looks for.                    *)
PairsRead(off, lines, i, k) ==
  /\ i \in 0..Len(lines) /\ k \in Nat
  /\ \A j \in 1..i : Paired(lines[j]) /\ lines[j][1].word # "VmRSS:"
  /\ i = Len(lines) => k = 0
  /\ i < Len(lines) => /\ 2 * k < Len(lines[i + 1])
                       /\ \A q \in 1..k : IsNumber(lines[i + 1][2 * q])
                       /\ k > 0 => lines[i + 1][1].word # "VmRSS:"

LEMMA RssTurn ==
  ASSUME NEW lines \in Seq(Seq(Token)), \A i \in 1..Len(lines) : Labelled(lines[i]),
         NEW off, Offsets(off, lines), NEW i, NEW k, PairsRead(off, lines, i, k)
  PROVE  LET text == WordsOf(lines)
             a    == off[i] + 2 * k + 1
         IN  \/ /\ Matches2(text, a) /\ text[a].word # "VmRSS:"
                /\ \E i2, k2 : /\ PairsRead(off, lines, i2, k2)
                               /\ off[i2] + 2 * k2 + 1 = a + 2
             \/ /\ Matches2(text, a) /\ text[a].word = "VmRSS:"
                /\ text[a + 1].number = RssByLines(lines)
             \/ ~Matches2(text, a) /\ RssByLines(lines) = 0
<1> DEFINE text == WordsOf(lines)
           a == off[i] + 2 * k + 1
           m == Len(lines)
           line == lines[i + 1]
<1>1. m \in Nat /\ i \in 0..m /\ i \in Nat /\ k \in Nat
  BY DEF PairsRead
<1>2. ASSUME NEW j \in Nat, j < m
      PROVE  /\ j + 1 \in 1..m /\ off[j] \in Nat
             /\ Len(lines[j + 1]) \in Nat /\ off[j + 1] = off[j] + Len(lines[j + 1])
             /\ Len(text) \in Nat /\ off[j + 1] <= Len(text)
             /\ \A q \in 1..Len(lines[j + 1]) : text[off[j] + q] = lines[j + 1][q]
  BY <1>2, LineAt
<1>3. ASSUME NEW j \in Nat, j < m
      PROVE  /\ Len(lines[j + 1]) \in Nat \ {0}
             /\ ~IsNumber(lines[j + 1][1]) /\ text[off[j] + 1] = lines[j + 1][1]
             /\ \A q \in 2..Len(lines[j + 1]) : lines[j + 1][q].word # "VmRSS:"
  <2>1. /\ j + 1 \in 1..m
        /\ \A q \in 1..Len(lines[j + 1]) : text[off[j] + q] = lines[j + 1][q]
    BY <1>2, <1>3
  <2>2. Labelled(lines[j + 1]) /\ lines[j + 1] \in Seq(Token)
    BY <2>1
  <2>3. Len(lines[j + 1]) \in Nat \ {0} /\ 1 \in 1..Len(lines[j + 1])
    BY <2>2 DEF Labelled
  <2>4. /\ ~IsNumber(lines[j + 1][1])
        /\ \A q \in 2..Len(lines[j + 1]) : lines[j + 1][q].word # "VmRSS:"
    BY <2>2 DEF Labelled, Labels
  <2> QED
    BY <2>1, <2>3, <2>4
<1>4. Len(text) = off[m] /\ off[m] \in Nat
  BY <1>1 DEF Offsets
<1>5. \A j \in 1..i : Paired(lines[j]) /\ lines[j][1].word # "VmRSS:"
  BY DEF PairsRead
<1>6. i = m => k = 0
  BY DEF PairsRead
<1>7. i < m => /\ 2 * k < Len(line)
               /\ \A q \in 1..k : IsNumber(line[2 * q])
               /\ k > 0 => line[1].word # "VmRSS:"
  BY DEF PairsRead
<1>8. CASE i = m
  <2>1. ~(a + 1 <= Len(text))
    BY <1>1, <1>4, <1>6, <1>8
  <2>2. ~Matches2(text, a)
    BY <2>1 DEF Matches2
  <2>3. RssByLines(lines) = 0
    BY <1>5, <1>8, RssByLinesNone
  <2> QED
    BY <2>2, <2>3
<1>9. CASE i < m
  <2> DEFINE l == Len(line)
  <2>1. /\ i + 1 \in 1..m /\ off[i] \in Nat /\ l \in Nat /\ off[i + 1] = off[i] + l
        /\ Len(text) \in Nat /\ off[i + 1] <= Len(text) /\ 2 * k < l
        /\ \A q \in 1..l : text[off[i] + q] = line[q]
    BY <1>1, <1>2, <1>7, <1>9
  <2>2. (i + 1) - 1 = i /\ \A j \in 1..m : j \in 1..i \/ j = i + 1 \/ i + 1 \in 1..(j - 1)
    BY <1>1
  (* The line is no pairs: all behind it is hidden. *)
  <2>3. ASSUME ~Paired(line),
               line[1].word = "VmRSS:" => ~(l >= 2) \/ ~IsNumber(line[2])
        PROVE  RssByLines(lines) = 0
    <3> SUFFICES ASSUME NEW j \in 1..m, lines[j][1].word = "VmRSS:"
                 PROVE  \/ ~(Len(lines[j]) >= 2) \/ ~IsNumber(lines[j][2])
                        \/ \E q \in 1..(j - 1) : ~Paired(lines[q])
      BY RssByLinesNone
    <3> QED
      BY <1>5, <2>2, <2>3
  <2> HIDE DEF text, m, line, l
  <2>4. CASE l = 2 * k + 1
    <3>1. ~Paired(line)
      BY <1>1, <2>4 DEF Paired, l
    <3>2. line[1].word = "VmRSS:" => ~(l >= 2)
      BY <1>1, <1>7, <1>9, <2>4
    <3>3. RssByLines(lines) = 0
      BY <2>3, <3>1, <3>2
    <3>4. ~Matches2(text, a)
      <4>1. off[i + 1] = a
        BY <1>1, <2>1, <2>4
      <4>2. CASE i + 1 = m
        BY <1>4, <2>1, <4>1, <4>2 DEF Matches2
      <4>3. CASE i + 1 < m
        <5>1. i + 1 \in Nat
          BY <1>1
        <5>2. text[off[i + 1] + 1] = lines[(i + 1) + 1][1] /\ ~IsNumber(lines[(i + 1) + 1][1])
          BY <1>3, <4>3, <5>1
        <5> QED
          BY <4>1, <5>2 DEF Matches2
      <4> QED
        BY <1>1, <1>9, <4>2, <4>3
    <3> QED
      BY <3>3, <3>4 DEF text
  <2>5. CASE 2 * k + 2 <= l
    <3>1. 2 * k + 1 \in 1..l /\ 2 * k + 2 \in 1..l
      BY <1>1, <2>1, <2>5
    <3>2. text[off[i] + (2 * k + 1)] = line[2 * k + 1] /\ text[off[i] + (2 * k + 2)] = line[2 * k + 2]
      BY <2>1, <3>1
    <3>3. off[i] + (2 * k + 1) = a /\ off[i] + (2 * k + 2) = a + 1
      BY <1>1, <2>1
    <3>4. text[a] = line[2 * k + 1] /\ text[a + 1] = line[2 * k + 2]
      BY <3>2, <3>3
    <3>5. a + 1 <= Len(text)
      BY <1>1, <2>1, <2>5
    <3>6. CASE ~IsNumber(line[2 * k + 2])
      <4>1. ~Matches2(text, a)
        BY <3>4, <3>6 DEF Matches2
      <4>2. ~Paired(line)
        <5>1. SUFFICES ASSUME l % 2 = 0, \A q \in 1..(l \div 2) : IsNumber(line[2 * q])
                       PROVE  FALSE
          BY DEF Paired, l
        <5>2. k + 1 \in 1..(l \div 2) /\ 2 * (k + 1) = 2 * k + 2
          BY <1>1, <2>1, <2>5, <5>1
        <5>3. IsNumber(line[2 * (k + 1)])
          BY <5>1, <5>2
        <5> QED
          BY <3>6, <5>2, <5>3
      <4>3. line[1].word = "VmRSS:" => ~IsNumber(line[2])
        <5>1. CASE k = 0
          <6>1. 2 * k + 2 = 2
            BY <5>1
          <6> QED
            BY <3>6, <6>1
        <5>2. CASE k > 0
          BY <1>7, <1>9, <5>2
        <5> QED
          BY <1>1, <5>1, <5>2
      <4> QED
        BY <2>3, <4>1, <4>2, <4>3 DEF text
    <3>7. CASE IsNumber(line[2 * k + 2])
      <4>1. Matches2(text, a)
        BY <3>4, <3>5, <3>7 DEF Matches2
      <4>2. CASE line[2 * k + 1].word = "VmRSS:"
        <5>1. k = 0
          <6>1. CASE k > 0
            <7>1. 2 * k + 1 \in 2..l
              BY <1>1, <3>1, <6>1
            <7>2. \A q \in 2..l : line[q].word # "VmRSS:"
              BY <1>1, <1>3, <1>9 DEF line, l
            <7> QED
              BY <4>2, <7>1, <7>2
          <6> QED
            BY <1>1, <6>1
        <5>2. 2 * k + 1 = 1 /\ 2 * k + 2 = 2 /\ l >= 2
          BY <1>1, <2>1, <2>5, <5>1
        <5>3. line[1].word = "VmRSS:" /\ IsNumber(line[2])
          BY <3>7, <4>2, <5>2
        <5>4. \A j \in 1..((i + 1) - 1) : Paired(lines[j]) /\ lines[j][1].word # "VmRSS:"
          BY <1>5, <2>2
        <5>5. RssByLines(lines) = line[2].number
          BY <1>1, <2>1, <5>2, <5>3, <5>4, RssByLinesIs DEF line, l, m
        <5> QED
          BY <3>4, <4>1, <4>2, <5>2, <5>5 DEF text
      <4>3. CASE line[2 * k + 1].word # "VmRSS:"
        <5>1. line[1].word # "VmRSS:"
          <6>1. CASE k = 0
            <7>1. 2 * k + 1 = 1
              BY <6>1
            <7> QED
              BY <4>3, <7>1
          <6>2. CASE k > 0
            BY <1>7, <1>9, <6>2
          <6> QED
            BY <1>1, <6>1, <6>2
        <5>2. \A q \in 1..(k + 1) : IsNumber(line[2 * q])
          <6>1. \A q \in 1..(k + 1) : q \in 1..k \/ q = k + 1
            BY <1>1
          <6>2. 2 * (k + 1) = 2 * k + 2
            BY <1>1
          <6> QED
            BY <1>7, <1>9, <3>7, <6>1, <6>2
        <5>3. CASE 2 * k + 2 < l
          <6>1. PairsRead(off, lines, i, k + 1)
            <7>1. i \in 0..Len(lines) /\ ~(i = Len(lines)) /\ k + 1 \in Nat
              BY <1>1, <1>9 DEF m
            <7>2. 2 * (k + 1) < Len(lines[i + 1])
              BY <1>1, <2>1, <5>3 DEF line, l
            <7>3. /\ \A q \in 1..(k + 1) : IsNumber(lines[i + 1][2 * q])
                  /\ lines[i + 1][1].word # "VmRSS:"
              BY <5>1, <5>2 DEF line
            <7>4. /\ i = Len(lines) => k + 1 = 0
                  /\ i < Len(lines) =>
                       /\ 2 * (k + 1) < Len(lines[i + 1])
                       /\ \A q \in 1..(k + 1) : IsNumber(lines[i + 1][2 * q])
                       /\ k + 1 > 0 => lines[i + 1][1].word # "VmRSS:"
              BY Zenon, <7>1, <7>2, <7>3
            <7> QED
              BY Zenon, <1>5, <7>1, <7>4 DEF PairsRead
          <6>2. off[i] + 2 * (k + 1) + 1 = a + 2
            BY <1>1, <2>1
          <6> QED
            BY <3>4, <4>1, <4>3, <6>1, <6>2 DEF text
        <5>4. CASE 2 * k + 2 = l
          <6>1. Paired(line)
            <7>1. l % 2 = 0 /\ l \div 2 = k + 1
              BY <1>1, <5>4
            <7> QED
              BY <5>2, <7>1 DEF Paired, l
          <6>2. \A j \in 1..(i + 1) : Paired(lines[j]) /\ lines[j][1].word # "VmRSS:"
            <7>1. \A j \in 1..(i + 1) : j \in 1..i \/ j = i + 1
              BY <1>1
            <7> QED
              BY <1>5, <5>1, <6>1, <7>1 DEF line
          <6>3. i + 1 \in 0..m /\ (i + 1 < m => Len(lines[(i + 1) + 1]) > 0)
            <7>1. i + 1 \in Nat /\ i + 1 <= m
              BY <1>1, <1>9
            <7> QED
              BY <1>1, <1>3, <7>1
          <6>4. PairsRead(off, lines, i + 1, 0)
            BY <6>2, <6>3 DEF PairsRead, m
          <6>5. off[i + 1] + 2 * 0 + 1 = a + 2
            BY <1>1, <2>1, <5>4
          <6> QED
            BY <3>4, <4>1, <4>3, <6>4, <6>5 DEF text
        <5>5. 2 * k + 2 < l \/ 2 * k + 2 = l
          BY <1>1, <2>1, <2>5
        <5> QED
          BY <5>3, <5>4, <5>5
      <4> QED
        BY <4>2, <4>3
    <3> QED
      BY <3>6, <3>7
  <2> QED
    <3>1. l \in Nat /\ k \in Nat /\ 2 * k < l
      BY <1>1, <2>1
    <3>2. l = 2 * k + 1 \/ 2 * k + 2 <= l
      BY <3>1
    <3> QED
      BY <2>4, <2>5, <3>2
<1> QED
  BY <1>1, <1>8, <1>9
-----------------------------------------------------------------------------
LEMMA CoreLinesFinite ==
  ASSUME NEW stat, Len(stat) \in Nat
  PROVE  /\ CoreLines(stat) \subseteq 1..Len(stat)
         /\ IsFiniteSet(CoreLines(stat)) /\ Cardinality(CoreLines(stat)) \in Nat
<1>1. CoreLines(stat) \subseteq 1..Len(stat)
  BY DEF CoreLines
<1>2. IsFiniteSet(1..Len(stat))
  BY FS_Interval
<1>3. IsFiniteSet(CoreLines(stat))
  BY <1>1, <1>2, FS_Subset
<1> QED
  BY <1>1, <1>3, FS_CardinalityType

LEMMA BeforeIs ==
  ASSUME NEW stat, Len(stat) \in Nat, NEW q \in Nat
  PROVE  /\ Before(stat, q) \in Nat /\ Before(stat, q) <= Cardinality(CoreLines(stat))
         /\ q = 1 => Before(stat, q) = 0
         /\ q > Len(stat) => Before(stat, q) = Cardinality(CoreLines(stat))
         /\ Before(stat, q + 1) = Before(stat, q) + IF q \in CoreLines(stat) THEN 1 ELSE 0
<1> DEFINE C == CoreLines(stat)
           B == {j \in C : j < q}
           A == {j \in C : j < q + 1}
<1>1. C \subseteq 1..Len(stat) /\ IsFiniteSet(C) /\ Cardinality(C) \in Nat
  BY CoreLinesFinite
<1>2. Before(stat, q) = Cardinality(B) /\ Before(stat, q + 1) = Cardinality(A)
  BY DEF Before
<1> HIDE DEF C
<1>3. /\ B \subseteq C /\ A \subseteq C
      /\ \A j \in C : j \in Nat /\ 1 <= j /\ j <= Len(stat)
  BY <1>1
<1>4. IsFiniteSet(B) /\ Cardinality(B) \in Nat /\ Cardinality(B) <= Cardinality(C)
  BY <1>1, <1>3, FS_Subset, FS_CardinalityType
<1>5. ASSUME q = 1 PROVE Cardinality(B) = 0
  <2>1. B = {}
    BY <1>3, <1>5
  <2> QED
    BY <2>1, FS_EmptySet
<1>6. ASSUME q > Len(stat) PROVE Cardinality(B) = Cardinality(C)
  <2>1. B = C
    BY <1>3, <1>6
  <2> QED
    BY <2>1
<1>7. Cardinality(A) = Cardinality(B) + IF q \in C THEN 1 ELSE 0
  <2>1. CASE q \in C
    <3>1. A = B \cup {q} /\ q \notin B
      <4>1. \A j \in C : j < q + 1 <=> j < q \/ j = q
        BY <1>3
      <4>2. ~(q < q) /\ q < q + 1
        OBVIOUS
      <4> QED
        BY <2>1, <4>1, <4>2
    <3>2. Cardinality(B \cup {q}) = Cardinality(B) + 1
      BY <1>4, <3>1, FS_AddElement
    <3> QED
      BY <2>1, <3>1, <3>2
  <2>2. CASE q \notin C
    <3>1. A = B
      BY <1>3, <2>2
    <3> HIDE DEF A, B
    <3> QED
      BY <1>4, <2>2, <3>1
  <2> QED
    BY <2>1, <2>2
<1> QED
  BY <1>2, <1>4, <1>5, <1>6, <1>7 DEF C
-----------------------------------------------------------------------------
MemLabels == {"MemTotal:", "MemAvailable:"}

SampleTypes ==
  /\ files \in Files
  /\ loop \in {"MemTotal:", "MemAvailable:", "VmRSS:", "stat", "zone", "done"}
  /\ at \in Nat \ {0}
  /\ found \in [MemLabels -> Int]
  /\ used \in 0..(Width - 1)
  /\ cores \in Seq([line : Nat, shift : {0, 1}]) /\ Len(cores) <= MaxCores
  /\ temp \in {-1} \cup 1..(Width - 1)

(* Where the two loops over meminfo stand, and what they have found.       *)
MemInv ==
  LET lines == files.meminfo IN
  /\ loop \in MemLabels => \E i : Passed(lines, loop, i) /\ at = 3 * i + 1
  /\ loop # "MemTotal:" => found["MemTotal:"] = ByLines(lines, "MemTotal:")
  /\ loop \notin MemLabels =>
       /\ found["MemAvailable:"] = ByLines(lines, "MemAvailable:")
       /\ used = (found["MemTotal:"] - found["MemAvailable:"]) % Width

RssInv ==
  LET lines == files.status IN
  /\ loop \in MemLabels \cup {"VmRSS:"} => rss = 0
  /\ loop = "VmRSS:" =>
       \E off, i, k : /\ Offsets(off, lines) /\ PairsRead(off, lines, i, k)
                      /\ at = off[i] + 2 * k + 1
  /\ loop \in {"stat", "zone", "done"} => rss = RssByLines(lines)

EntriesRight ==
  \A k \in 1..Len(cores) :
    LET i == cores[k].line IN
    /\ i \in CoreLines(files.stat) /\ Before(files.stat, i) = k - 1
    /\ cores[k].shift = IF files.stat[i].head = "total" THEN 1 ELSE 0

CoreInv ==
  LET all == Cardinality(CoreLines(files.stat)) IN
  /\ EntriesRight
  /\ loop \in MemLabels \cup {"VmRSS:"} => cores = <<>>
  /\ loop = "stat" => Len(cores) = Before(files.stat, at)
  /\ loop \in {"zone", "done"} => Len(cores) = IF all < MaxCores THEN all ELSE MaxCores

SampleInv == SampleTypes /\ MemInv /\ RssInv /\ CoreInv

LEMMA FilesTypes ==
  ASSUME files \in Files
  PROVE  FilesOK(files)
  BY FilesAssumption

LEMMA InitSample == SampleInit => SampleInv
<1> SUFFICES ASSUME SampleInit PROVE SampleInv
  OBVIOUS
<1>1. FilesOK(files)
  BY FilesTypes DEF SampleInit
<1>2. SampleTypes
  BY WidthAssumption DEF SampleInit, SampleTypes, MemLabels
<1>3. MemInv
  <2>1. Len(files.meminfo) \in Nat
    BY <1>1 DEF FilesOK
  <2>2. 1..0 = {} /\ ~(0 > 0) /\ 1 = 3 * 0 + 1 /\ 0 \in 0..Len(files.meminfo)
    BY <2>1
  <2>3. Passed(files.meminfo, loop, 0)
    BY <2>2 DEF Passed
  <2> QED
    BY <2>2, <2>3 DEF SampleInit, MemInv, MemLabels
<1>4. RssInv
  BY DEF SampleInit, RssInv, MemLabels
<1>5. CoreInv
  BY DEF SampleInit, CoreInv, EntriesRight, MemLabels
<1> QED
  BY <1>2, <1>3, <1>4, <1>5 DEF SampleInv

LEMMA ModRange ==
  ASSUME NEW x \in Int, NEW y \in Int
  PROVE  (x - y) % Width \in 0..(Width - 1)
  BY WidthAssumption

LEMMA ParseUllSample == SampleInv /\ ParseUll => SampleInv'
<1> SUFFICES ASSUME SampleInv, ParseUll PROVE SampleInv'
  OBVIOUS
<1> DEFINE lines == files.meminfo
           text == WordsOf(lines)
<1>1. files' = files /\ rss' = rss /\ cores' = cores /\ temp' = temp /\ loop \in MemLabels
  BY DEF ParseUll, MemLabels
<1>2. FilesOK(files)
  BY FilesTypes DEF SampleInv, SampleTypes
<1>3. lines \in Seq(Seq(Token)) /\ \A i \in 1..Len(lines) : Measures(lines[i])
  BY <1>2 DEF FilesOK
<1>4. PICK i : Passed(lines, loop, i) /\ at = 3 * i + 1
  BY <1>1 DEF SampleInv, MemInv
<1>5. \/ /\ Matches3(text, at) /\ text[at].word # loop
         /\ Passed(lines, loop, i + 1)
      \/ /\ Matches3(text, at) /\ text[at].word = loop
         /\ text[at + 1].number = ByLines(lines, loop)
      \/ ~Matches3(text, at) /\ ByLines(lines, loop) = 0
  BY <1>1, <1>3, <1>4, MemTurn DEF Labels, MemLabels
<1>6. i \in Nat /\ Len(lines) \in Nat
  BY <1>3, <1>4 DEF Passed
<1> HIDE DEF text
<1>7. CASE Matches3(text, at) /\ text[at].word # loop /\ Passed(lines, loop, i + 1)
  <2>1. at' = at + 3 /\ UNCHANGED <<loop, found, used>>
    BY <1>7 DEF ParseUll, text
  <2>2. at' = 3 * (i + 1) + 1
    BY <1>4, <1>6, <2>1
  <2>3. SampleTypes'
    BY <1>1, <1>6, <2>1, <2>2 DEF SampleInv, SampleTypes
  <2>4. MemInv'
    BY <1>1, <1>7, <2>1, <2>2 DEF SampleInv, MemInv
  <2>5. RssInv' /\ CoreInv'
    BY <1>1, <2>1 DEF SampleInv, RssInv, CoreInv, EntriesRight, MemLabels
  <2> QED
    BY <2>3, <2>4, <2>5 DEF SampleInv
<1>8. CASE ~Matches3(text, at) \/ text[at].word = loop
  <2> DEFINE val == IF Matches3(text, at) THEN text[at + 1].number ELSE 0
  <2>1. /\ Turn(NextLoop(loop)) /\ found' = [found EXCEPT ![loop] = val]
        /\ used' = IF loop = "MemTotal:" THEN used ELSE (found["MemTotal:"] - val) % Width
    BY <1>8 DEF ParseUll, text
  <2>2. val = ByLines(lines, loop)
    BY <1>5, <1>8
  <2>3. val \in Int
    <3>1. CASE Matches3(text, at)
      <4>1. text \in Seq(Token)
        BY <1>3, FlattenSeqType DEF WordsOf, text
      <4>2. at + 1 \in 1..Len(text)
        BY <1>4, <1>6, <3>1, <4>1 DEF Matches3
      <4>3. text[at + 1] \in Token
        BY <4>1, <4>2
      <4> QED
        BY <3>1, <4>3 DEF Token
    <3>2. CASE ~Matches3(text, at)
      BY <3>2
    <3> QED
      BY <3>1, <3>2
  <2> HIDE DEF val
  <2>4. found \in [MemLabels -> Int] /\ used \in 0..(Width - 1)
    BY DEF SampleInv, SampleTypes
  <2>5. found["MemTotal:"] \in Int
    BY <2>4 DEF MemLabels
  <2>6. found' \in [MemLabels -> Int] /\ found'[loop] = val
        /\ \A l \in MemLabels : l # loop => found'[l] = found[l]
    BY <1>1, <2>1, <2>3, <2>4
  <2>7. used' \in 0..(Width - 1)
    <3>1. (found["MemTotal:"] - val) % Width \in 0..(Width - 1)
      BY <2>3, <2>5, ModRange
    <3> QED
      BY <2>1, <2>4, <3>1
  <2>8. /\ at' = 1
        /\ loop = "MemTotal:" => loop' = "MemAvailable:"
        /\ loop = "MemAvailable:" => loop' = "VmRSS:"
    BY <2>1 DEF Turn, NextLoop
  <2>9. SampleTypes'
    BY <1>1, <2>6, <2>7, <2>8 DEF SampleInv, SampleTypes, MemLabels
  <2>10. CASE loop = "MemTotal:"
    <3>1. Passed(lines, "MemAvailable:", 0)
      <4>1. 1..0 = {} /\ ~(0 > 0) /\ 0 \in 0..Len(lines)
        BY <1>6
      <4> QED
        BY <4>1 DEF Passed
    <3>2. MemInv'
      <4>1. at' = 3 * 0 + 1
        BY <2>8
      <4>2. \E q : Passed(files'.meminfo, loop', q) /\ at' = 3 * q + 1
        BY <1>1, <2>8, <2>10, <3>1, <4>1
      <4>3. found'["MemTotal:"] = ByLines(files'.meminfo, "MemTotal:")
        BY <1>1, <2>2, <2>6, <2>10
      <4> QED
        BY <2>8, <2>10, <4>2, <4>3 DEF MemInv, MemLabels
    <3>3. RssInv' /\ CoreInv'
      BY <1>1, <2>8, <2>10 DEF SampleInv, RssInv, CoreInv, EntriesRight, MemLabels
    <3> QED
      BY <2>9, <3>2, <3>3 DEF SampleInv
  <2>11. CASE loop = "MemAvailable:"
    <3>1. found["MemTotal:"] = ByLines(lines, "MemTotal:")
      BY <2>11 DEF SampleInv, MemInv
    <3>2. MemInv'
      <4>1. /\ found'["MemTotal:"] = ByLines(files'.meminfo, "MemTotal:")
            /\ found'["MemTotal:"] = found["MemTotal:"]
        BY <1>1, <2>6, <2>11, <3>1 DEF MemLabels
      <4>2. found'["MemAvailable:"] = ByLines(files'.meminfo, "MemAvailable:")
        BY <1>1, <2>2, <2>6, <2>11
      <4>3. used' = (found'["MemTotal:"] - found'["MemAvailable:"]) % Width
        BY <2>1, <2>6, <2>11, <4>1
      <4> QED
        BY <2>8, <2>11, <4>1, <4>2, <4>3 DEF MemInv, MemLabels
    <3>3. RssInv'
      <4>1. files.status \in Seq(Seq(Token)) /\ \A q \in 1..Len(files.status) : Labelled(files.status[q])
        BY <1>2 DEF FilesOK
      <4>2. PICK off : Offsets(off, files.status)
        BY <4>1, OffsetsExist
      <4>3. PairsRead(off, files.status, 0, 0)
        <5>1. Len(files.status) \in Nat
          BY <4>1
        <5>2. 0 < Len(files.status) => files.status[0 + 1] \in Seq(Token) /\ files.status[0 + 1] # <<>>
          <6>1. 0 < Len(files.status) => 0 + 1 \in 1..Len(files.status)
            BY <5>1
          <6> QED
            BY <4>1, <6>1 DEF Labelled
        <5>3. 0 < Len(files.status) => 0 < Len(files.status[0 + 1])
          BY <5>2
        <5> QED
          BY <5>1, <5>3 DEF PairsRead
      <4>4. at' = off[0] + 2 * 0 + 1
        BY <2>8, <4>2 DEF Offsets
      <4> QED
        BY <1>1, <2>8, <2>11, <4>2, <4>3, <4>4 DEF SampleInv, RssInv, MemLabels
    <3>4. CoreInv'
      BY <1>1, <2>8, <2>11 DEF SampleInv, CoreInv, EntriesRight, MemLabels
    <3> QED
      BY <2>9, <3>2, <3>3, <3>4 DEF SampleInv
  <2> QED
    BY <1>1, <2>10, <2>11 DEF MemLabels
<1> QED
  BY <1>5, <1>7, <1>8

LEMMA RssSample == SampleInv /\ Rss => SampleInv'
<1> SUFFICES ASSUME SampleInv, Rss PROVE SampleInv'
  OBVIOUS
<1> DEFINE lines == files.status
           text == WordsOf(lines)
<1>1. /\ files' = files /\ found' = found /\ used' = used /\ cores' = cores /\ temp' = temp
      /\ loop = "VmRSS:"
  BY DEF Rss
<1>2. FilesOK(files)
  BY FilesTypes DEF SampleInv, SampleTypes
<1>3. lines \in Seq(Seq(Token)) /\ \A i \in 1..Len(lines) : Labelled(lines[i])
  BY <1>2 DEF FilesOK
<1>4. PICK off, i, k : /\ Offsets(off, lines) /\ PairsRead(off, lines, i, k)
                       /\ at = off[i] + 2 * k + 1
  BY <1>1 DEF SampleInv, RssInv
<1>5. \/ /\ Matches2(text, at) /\ text[at].word # "VmRSS:"
         /\ \E i2, k2 : /\ PairsRead(off, lines, i2, k2)
                        /\ off[i2] + 2 * k2 + 1 = at + 2
      \/ /\ Matches2(text, at) /\ text[at].word = "VmRSS:"
         /\ text[at + 1].number = RssByLines(lines)
      \/ ~Matches2(text, at) /\ RssByLines(lines) = 0
  BY <1>3, <1>4, RssTurn
<1>6. at \in Nat /\ rss = 0 /\ cores = <<>>
  BY <1>1 DEF SampleInv, SampleTypes, RssInv, CoreInv
<1> HIDE DEF text
<1>7. CASE /\ Matches2(text, at) /\ text[at].word # "VmRSS:"
           /\ \E i2, k2 : /\ PairsRead(off, lines, i2, k2)
                          /\ off[i2] + 2 * k2 + 1 = at + 2
  <2>1. at' = at + 2 /\ UNCHANGED <<loop, rss>>
    BY <1>7 DEF Rss, text
  <2>2. SampleTypes'
    BY <1>1, <1>6, <2>1 DEF SampleInv, SampleTypes
  <2>3. MemInv'
    BY <1>1, <2>1 DEF SampleInv, MemInv, MemLabels
  <2>4. RssInv'
    BY <1>1, <1>4, <1>7, <2>1 DEF SampleInv, RssInv, MemLabels
  <2>5. CoreInv'
    BY <1>1, <2>1 DEF SampleInv, CoreInv, EntriesRight, MemLabels
  <2> QED
    BY <2>2, <2>3, <2>4, <2>5 DEF SampleInv
<1>8. CASE ~Matches2(text, at) \/ text[at].word = "VmRSS:"
  <2>1. Turn("stat") /\ rss' = RssByLines(lines)
    BY <1>5, <1>6, <1>8 DEF Rss, text
  <2>2. loop' = "stat" /\ at' = 1
    BY <2>1 DEF Turn
  <2>3. SampleTypes'
    BY <1>1, <2>2 DEF SampleInv, SampleTypes
  <2>4. MemInv'
    BY <1>1, <2>2 DEF SampleInv, MemInv, MemLabels
  <2>5. RssInv'
    BY <1>1, <2>1, <2>2 DEF RssInv, MemLabels
  <2>6. CoreInv'
    <3>1. Len(files.stat) \in Nat
      BY <1>2 DEF FilesOK
    <3>2. Before(files.stat, 1) = 0
      BY <3>1, BeforeIs
    <3>3. EntriesRight' /\ Len(cores') = 0
      BY <1>1, <1>6 DEF EntriesRight
    <3> QED
      BY <1>1, <2>2, <3>2, <3>3 DEF CoreInv, MemLabels
  <2> QED
    BY <2>3, <2>4, <2>5, <2>6 DEF SampleInv
<1> QED
  BY <1>5, <1>7, <1>8

LEMMA CountsIs ==
  ASSUME FilesOK(files), NEW i \in 1..Len(files.stat)
  PROVE  /\ Counts(files.stat[i]) <=> i \in CoreLines(files.stat)
         /\ Shift(files.stat[i]) = IF files.stat[i].head = "total" THEN 1 ELSE 0
<1>1. /\ files.stat[i].head \in {"total", "core", "other"}
      /\ files.stat[i].columns \in Nat
  <2> DEFINE R == [head : {"total", "core", "other"}, columns : Nat]
  <2>1. files.stat \in Seq(R)
    BY DEF FilesOK
  <2>2. files.stat[i] \in R
    <3> HIDE DEF R
    <3> QED
      BY <2>1
  <2> QED
    BY <2>2
<1>2. Counts(files.stat[i]) <=>
        /\ files.stat[i].head # "other" /\ files.stat[i].columns >= 7
        /\ files.stat[i].head = "total" => files.stat[i].columns # 7
  BY <1>1 DEF Counts, Shift
<1> QED
  BY <1>2 DEF CoreLines, Shift

LEMMA CoresSample == SampleInv /\ Cores => SampleInv'
<1> SUFFICES ASSUME SampleInv, Cores PROVE SampleInv'
  OBVIOUS
<1> DEFINE stat == files.stat
           all == Cardinality(CoreLines(stat))
           C == [line : Nat, shift : {0, 1}]
<1>1. /\ files' = files /\ found' = found /\ used' = used /\ rss' = rss /\ temp' = temp
      /\ loop = "stat"
  BY DEF Cores
<1>2. FilesOK(files)
  BY FilesTypes DEF SampleInv, SampleTypes
<1>3. Len(stat) \in Nat /\ at \in Nat \ {0} /\ MaxCores \in Nat
  BY <1>2, WidthAssumption DEF FilesOK, SampleInv, SampleTypes
<1>4. cores \in Seq(C) /\ Len(cores) \in Nat /\ Len(cores) <= MaxCores
  BY DEF SampleInv, SampleTypes
<1>5. Len(cores) = Before(stat, at) /\ EntriesRight
  BY <1>1 DEF SampleInv, CoreInv
<1>6. all \in Nat
  BY <1>3, CoreLinesFinite
<1>7. /\ Before(stat, at) <= all
      /\ at > Len(stat) => Before(stat, at) = all
      /\ Before(stat, at + 1) = Before(stat, at) + IF at \in CoreLines(stat) THEN 1 ELSE 0
  BY <1>3, BeforeIs
<1>8. CASE at > Len(stat) \/ ~HasRoom
  <2>1. loop' = "zone" /\ at' = 1 /\ cores' = cores
    BY <1>8 DEF Cores, Turn
  <2>2. SampleTypes'
    BY <1>1, <2>1 DEF SampleInv, SampleTypes
  <2>3. MemInv' /\ RssInv'
    BY <1>1, <2>1 DEF SampleInv, MemInv, RssInv, MemLabels
  <2>4. Len(cores) = IF all < MaxCores THEN all ELSE MaxCores
    <3>1. at > Len(stat) \/ ~(Len(cores) < MaxCores)
      BY <1>8 DEF HasRoom
    <3> HIDE DEF all
    <3> QED
      BY <1>3, <1>4, <1>5, <1>6, <1>7, <3>1
  <2>5. EntriesRight'
    BY <1>1, <1>5, <2>1 DEF EntriesRight
  <2>6. CoreInv'
    BY <1>1, <2>1, <2>4, <2>5 DEF CoreInv, MemLabels
  <2> QED
    BY <2>2, <2>3, <2>6 DEF SampleInv
<1>9. CASE ~(at > Len(stat) \/ ~HasRoom)
  <2> DEFINE entry == [line |-> at, shift |-> Shift(stat[at])]
  <2>1. /\ at \in 1..Len(stat) /\ Len(cores) < MaxCores
        /\ loop' = loop /\ at' = at + 1
        /\ cores' = IF Counts(stat[at]) THEN Append(cores, entry) ELSE cores
    BY <1>3, <1>9 DEF Cores, HasRoom
  <2>2. /\ Counts(stat[at]) <=> at \in CoreLines(stat)
        /\ Shift(stat[at]) = IF stat[at].head = "total" THEN 1 ELSE 0
    BY <1>2, <2>1, CountsIs
  <2>3. entry \in C /\ entry.line = at /\ entry.shift = Shift(stat[at])
    BY <1>3, <2>2
  <2> HIDE DEF entry, C
  <2>4. CASE at \notin CoreLines(stat)
    <3>1. cores' = cores /\ Before(stat, at + 1) = Before(stat, at)
      BY <1>4, <1>5, <1>7, <2>1, <2>2, <2>4
    <3>2. SampleTypes'
      BY <1>1, <1>3, <2>1, <3>1 DEF SampleInv, SampleTypes
    <3>3. MemInv' /\ RssInv'
      BY <1>1, <2>1 DEF SampleInv, MemInv, RssInv, MemLabels
    <3>4. EntriesRight'
      BY <1>1, <1>5, <3>1 DEF EntriesRight
    <3>5. CoreInv'
      BY <1>1, <1>5, <2>1, <3>1, <3>4 DEF CoreInv, MemLabels
    <3> QED
      BY <3>2, <3>3, <3>5 DEF SampleInv
  <2>5. CASE at \in CoreLines(stat)
    <3>1. cores' = Append(cores, entry) /\ Before(stat, at + 1) = Before(stat, at) + 1
      BY <1>7, <2>1, <2>2, <2>5
    <3>2. /\ cores' \in Seq(C) /\ Len(cores') = Len(cores) + 1
          /\ \A k \in 1..Len(cores) : cores'[k] = cores[k]
          /\ cores'[Len(cores) + 1] = entry
      BY <1>4, <2>3, <3>1
    <3>3. SampleTypes'
      <4>1. Len(cores') <= MaxCores /\ at' \in Nat \ {0}
        BY <1>3, <1>4, <2>1, <3>2
      <4> QED
        BY <1>1, <2>1, <3>2, <4>1 DEF SampleInv, SampleTypes, C
    <3>4. MemInv' /\ RssInv'
      BY <1>1, <2>1 DEF SampleInv, MemInv, RssInv, MemLabels
    <3>5. EntriesRight'
      <4> SUFFICES ASSUME NEW k \in 1..Len(cores')
                   PROVE  /\ cores'[k].line \in CoreLines(stat)
                          /\ Before(stat, cores'[k].line) = k - 1
                          /\ cores'[k].shift =
                               IF stat[cores'[k].line].head = "total" THEN 1 ELSE 0
        BY <1>1 DEF EntriesRight
      <4>1. CASE k = Len(cores) + 1
        <5>1. cores'[k] = entry /\ k - 1 = Len(cores)
          BY <1>4, <3>2, <4>1
        <5> QED
          BY <1>5, <2>2, <2>3, <2>5, <5>1
      <4>2. CASE k # Len(cores) + 1
        <5>1. k \in 1..Len(cores) /\ cores'[k] = cores[k]
          BY <1>4, <3>2, <4>2
        <5> QED
          BY <1>5, <5>1 DEF EntriesRight
      <4> QED
        BY <4>1, <4>2
    <3>6. CoreInv'
      BY <1>1, <1>5, <2>1, <3>1, <3>2, <3>5 DEF CoreInv, MemLabels
    <3> QED
      BY <3>3, <3>4, <3>6 DEF SampleInv
  <2> QED
    BY <2>4, <2>5
<1> QED
  BY <1>8, <1>9

LEMMA ZoneSample == SampleInv /\ Zone => SampleInv'
<1> SUFFICES ASSUME SampleInv, Zone PROVE SampleInv'
  OBVIOUS
<1>1. /\ files' = files /\ found' = found /\ used' = used /\ rss' = rss /\ cores' = cores
      /\ loop = "zone" /\ loop' = "done" /\ at' = 1 /\ temp' \in {temp} \cup 1..(Width - 1)
  <2>1. FilesOK(files)
    BY FilesTypes DEF SampleInv, SampleTypes
  <2>2. files.zone % Width \in 0..(Width - 1)
    BY <2>1, WidthAssumption DEF FilesOK
  <2> QED
    BY <2>2 DEF Zone, Turn
<1>2. SampleTypes'
  BY <1>1 DEF SampleInv, SampleTypes
<1>3. MemInv' /\ RssInv'
  BY <1>1 DEF SampleInv, MemInv, RssInv, MemLabels
<1>4. CoreInv'
  BY <1>1 DEF SampleInv, CoreInv, EntriesRight, MemLabels
<1> QED
  BY <1>2, <1>3, <1>4 DEF SampleInv

(* SampleInv holds at every turn of every loop, whatever the files say.    *)
THEOREM Samples == SampleSpec => []SampleInv
<1>1. SampleInv /\ [SampleNext]_sampleVars => SampleInv'
  <2> SUFFICES ASSUME SampleInv, [SampleNext]_sampleVars PROVE SampleInv'
    OBVIOUS
  <2>1. CASE UNCHANGED sampleVars
    BY <2>1 DEF sampleVars, SampleInv, SampleTypes, MemInv, RssInv, CoreInv, EntriesRight
  <2> QED
    BY <2>1, ParseUllSample, RssSample, CoresSample, ZoneSample DEF SampleNext
<1> QED
  BY <1>1, InitSample, PTL DEF SampleSpec

(* All results have their types, and cpu_per_core is never overrun.        *)
THEOREM SampleTypeCorrect == SampleSpec => []TypeOK
<1>1. SampleInv => TypeOK
  BY DEF SampleInv, SampleTypes, TypeOK, MemLabels
<1> QED
  BY <1>1, Samples, PTL

(* For any files that look as the kernel writes them the two loops over    *)
(* meminfo find what reading it line by line finds, and mem_used wraps.    *)
THEOREM MemorySafety == SampleSpec => []MemoryByLines
<1>1. SampleInv => MemoryByLines
  <2> SUFFICES ASSUME SampleInv, loop = "done"
               PROVE  /\ \A l \in DOMAIN found : found[l] = ByLines(files.meminfo, l)
                      /\ used = (found["MemTotal:"] - found["MemAvailable:"]) % Width
    BY DEF MemoryByLines
  <2>1. DOMAIN found = MemLabels
    BY DEF SampleInv, SampleTypes
  <2> QED
    BY <2>1 DEF SampleInv, MemInv, MemLabels
<1> QED
  BY <1>1, Samples, PTL

(* rss_megabytes is what stands behind nothing but pairs, or 0.            *)
THEOREM RssSafety == SampleSpec => []RssBehindPairs
<1>1. SampleInv => RssBehindPairs
  BY DEF SampleInv, RssInv, RssBehindPairs
<1> QED
  BY <1>1, Samples, PTL

(* For any number of lines and of places, the entries are those of the     *)
(* first lines that count, in their order, the total's shifted.            *)
THEOREM CoresSafety == SampleSpec => []CoresBehindTotal
<1>1. SampleInv => CoresBehindTotal
  BY DEF SampleInv, CoreInv, EntriesRight, CoresBehindTotal
<1> QED
  BY <1>1, Samples, PTL
==============================================================================
