------------------------ MODULE ManifestReviewProofs ------------------------
(* Proofs about ManifestReview, for any documents, snapshots and aliases,  *)
(* and any number of calls that write while a review reads.                *)
EXTENDS ManifestReview, ManifestStoreProofs, FiniteSetTheorems, FunctionTheorems

(***************************************************************************)
(* Counting executions.  A sum over a bag is the number of its executions, *)
(* so sums are compared by matching executions one to one.                 *)
(***************************************************************************)
LEMMA CopyOf ==
  ASSUME NEW times, NEW S, NEW z
  PROVE  z \in Copies(times, S) <=> \E x \in S : \E k \in 1 .. times[x] : z = <<x, k>>
BY DEF Copies

LEMMA CopiesFinite ==
  ASSUME NEW times, NEW S, IsFiniteSet(S), \A x \in S : times[x] \in Int
  PROVE  IsFiniteSet(Copies(times, S)) /\ Cardinality(Copies(times, S)) \in Nat
<1> DEFINE part == [x \in S |-> {x} \X (1 .. times[x])]
           parts == {{x} \X (1 .. times[x]) : x \in S}
<1>1. part \in Surjection(S, parts)
  BY DEF Surjection
<1>2. IsFiniteSet(parts)
  BY <1>1, FS_Surjection
<1>3. \A P \in parts : IsFiniteSet(P)
  <2> SUFFICES ASSUME NEW x \in S  PROVE IsFiniteSet({x} \X (1 .. times[x]))
    OBVIOUS
  <2>1. times[x] \in Int /\ 1 \in Int
    OBVIOUS
  <2>2. IsFiniteSet(1 .. times[x])
    BY <2>1, FS_Interval
  <2>3. IsFiniteSet({x})
    BY FS_Singleton
  <2> QED  BY <2>2, <2>3, FS_Product
<1>4. IsFiniteSet(UNION parts)
  BY <1>2, <1>3, FS_UNION
<1> QED  BY <1>4, FS_CardinalityType DEF Copies

(* One to one between the copies of two sets.                              *)
LEMMA CopiesMatched ==
  ASSUME NEW f, NEW S, NEW h, NEW T, IsFiniteSet(S), \A x \in S : f[x] \in Int,
         NEW to \in Bijection(S, T), \A x \in S : h[to[x]] = f[x]
  PROVE  Cardinality(Copies(h, T)) = Cardinality(Copies(f, S))
<1> DEFINE move == [z \in Copies(f, S) |-> <<to[z[1]], z[2]>>]
<1>1. /\ \A x \in S : to[x] \in T
      /\ \A x, y \in S : to[x] = to[y] => x = y
      /\ \A y \in T : \E x \in S : to[x] = y
  BY DEF Bijection, Injection, IsInjective, Surjection
<1>2. \A z \in Copies(f, S) : z[1] \in S /\ z[2] \in 1 .. f[z[1]] /\ z = <<z[1], z[2]>>
  BY CopyOf
<1>3. move \in [Copies(f, S) -> Copies(h, T)]
  <2> SUFFICES ASSUME NEW z \in Copies(f, S)  PROVE <<to[z[1]], z[2]>> \in Copies(h, T)
    OBVIOUS
  <2>1. to[z[1]] \in T /\ z[2] \in 1 .. h[to[z[1]]]
    BY <1>1, <1>2
  <2> QED  BY <2>1, CopyOf
<1>4. \A y, z \in Copies(f, S) : move[y] = move[z] => y = z
  BY <1>1, <1>2
<1>5. \A u \in Copies(h, T) : \E z \in Copies(f, S) : move[z] = u
  <2> SUFFICES ASSUME NEW u \in Copies(h, T)  PROVE \E z \in Copies(f, S) : move[z] = u
    OBVIOUS
  <2>1. PICK y \in T : \E k \in 1 .. h[y] : u = <<y, k>>
    BY CopyOf
  <2>2. PICK k \in 1 .. h[y] : u = <<y, k>>
    BY <2>1
  <2>3. PICK x \in S : to[x] = y
    BY <1>1
  <2>4. <<x, k>> \in Copies(f, S)
    BY <2>2, <2>3, CopyOf
  <2> QED  BY <2>2, <2>3, <2>4
<1>6. move \in Bijection(Copies(f, S), Copies(h, T))
  BY <1>3, <1>4, <1>5 DEF Bijection, Injection, IsInjective, Surjection
<1>7. IsFiniteSet(Copies(f, S))
  BY CopiesFinite
<1> QED  BY <1>6, <1>7, FS_Bijection DEF ExistsBijection

(* Members counted key by key are counted once each.                       *)
LEMMA CountedByKey ==
  ASSUME NEW I, IsFiniteSet(I), NEW key, NEW times,
         \A i \in I : times[key[i]] = Cardinality({k \in I : key[k] = key[i]})
  PROVE  Cardinality(Copies(times, {key[i] : i \in I})) = Cardinality(I)
<1> DEFINE keys == {key[i] : i \in I}
           fiber(g) == {k \in I : key[k] = g}
           listing == [g \in keys |-> CHOOSE b : b \in Bijection(1 .. times[g], fiber(g))]
           pick == [z \in Copies(times, keys) |-> listing[z[1]][z[2]]]
<1>1. ASSUME NEW g \in keys
      PROVE  listing[g] \in Bijection(1 .. times[g], fiber(g))
  <2>1. IsFiniteSet(fiber(g))
    BY FS_Subset
  <2>2. PICK i \in I : g = key[i]
    OBVIOUS
  <2>3. times[g] = Cardinality(fiber(g))
    BY <2>2
  <2>4. \E b : b \in Bijection(1 .. times[g], fiber(g))
    BY <2>1, <2>3, FS_CardinalityType DEF ExistsBijection
  <2> HIDE DEF fiber
  <2> QED  BY <2>4
<1>2. \A g \in keys :
        /\ \A k \in 1 .. times[g] : listing[g][k] \in I /\ key[listing[g][k]] = g
        /\ \A k, l \in 1 .. times[g] : listing[g][k] = listing[g][l] => k = l
        /\ \A i \in I : key[i] = g => \E k \in 1 .. times[g] : listing[g][k] = i
  <2> SUFFICES ASSUME NEW g \in keys
               PROVE  /\ \A k \in 1 .. times[g] : listing[g][k] \in fiber(g)
                      /\ \A k, l \in 1 .. times[g] : listing[g][k] = listing[g][l] => k = l
                      /\ \A i \in fiber(g) : \E k \in 1 .. times[g] : listing[g][k] = i
    OBVIOUS
  <2> HIDE DEF listing, fiber
  <2>1. listing[g] \in Bijection(1 .. times[g], fiber(g))
    BY <1>1
  <2> QED  BY <2>1 DEF Bijection, Injection, IsInjective, Surjection
<1> HIDE DEF listing
<1>3. \A z \in Copies(times, keys) :
        z[1] \in keys /\ z[2] \in 1 .. times[z[1]] /\ z = <<z[1], z[2]>>
  BY CopyOf
<1>4. pick \in [Copies(times, keys) -> I]
  BY <1>2, <1>3
<1>5. \A y, z \in Copies(times, keys) : pick[y] = pick[z] => y = z
  BY <1>2, <1>3
<1>6. ASSUME NEW i \in I  PROVE \E z \in Copies(times, keys) : pick[z] = i
  <2>1. PICK k \in 1 .. times[key[i]] : listing[key[i]][k] = i
    BY <1>2
  <2>2. <<key[i], k>> \in Copies(times, keys)
    BY <2>1, CopyOf
  <2> QED  BY <2>1, <2>2
<1>7. pick \in Injection(Copies(times, keys), I) /\ pick \in Surjection(Copies(times, keys), I)
  BY <1>4, <1>5, <1>6 DEF Injection, IsInjective, Surjection
<1> QED  BY <1>7, FS_Injection

-----------------------------------------------------------------------------
(***************************************************************************)
(* Sums over bags, and the values that are compared.                       *)
(***************************************************************************)
SoundBag(bag) ==
  /\ IsFiniteSet(DOMAIN bag) /\ bag = [g \in DOMAIN bag |-> bag[g]]
  /\ \A g \in DOMAIN bag : bag[g] \in Nat \ {0} /\ g.outcome \in AllOutcomes

Sound(v) ==
  /\ SoundBag(v.bag) /\ v.counts = Recomputed(v.bag)
  /\ v.status \in Statuses /\ IsPolicy(v.policy)

Ending(bag, outcomes) == {g \in DOMAIN bag : g.outcome \in outcomes}

LEMMA SumIsNumber ==
  ASSUME NEW bag, SoundBag(bag), NEW outcomes
  PROVE  /\ IsFiniteSet(Copies(bag, Ending(bag, outcomes))) /\ Sum(bag, outcomes) \in Nat
         /\ Sum(bag, outcomes) = 0 <=> Ending(bag, outcomes) = {}
<1>1. IsFiniteSet(Ending(bag, outcomes))
  BY FS_Subset DEF SoundBag, Ending
<1>2. \A g \in Ending(bag, outcomes) : bag[g] \in Nat \ {0}
  BY DEF SoundBag, Ending
<1>3. IsFiniteSet(Copies(bag, Ending(bag, outcomes)))
  BY <1>1, <1>2, CopiesFinite
<1>4. Sum(bag, outcomes) = Cardinality(Copies(bag, Ending(bag, outcomes)))
  BY DEF Sum, Ending
<1>5. Copies(bag, Ending(bag, outcomes)) = {} <=> Ending(bag, outcomes) = {}
  <2>1. \A g \in Ending(bag, outcomes) : <<g, 1>> \in Copies(bag, Ending(bag, outcomes))
    BY <1>2, CopyOf
  <2>2. Ending(bag, outcomes) = {} => Copies(bag, Ending(bag, outcomes)) = {}
    BY CopyOf
  <2> QED  BY <2>1, <2>2
<1> QED  BY <1>3, <1>4, <1>5, FS_EmptySet, FS_CardinalityType

(* Each execution has one outcome.                                         *)
LEMMA SumOfParts ==
  ASSUME NEW bag, SoundBag(bag), NEW A, NEW B, A \cap B = {}
  PROVE  Sum(bag, A \cup B) = Sum(bag, A) + Sum(bag, B)
<1> DEFINE these(outcomes) == Copies(bag, Ending(bag, outcomes))
<1>1. these(A \cup B) = these(A) \cup these(B)
  BY CopyOf DEF Ending
<1>2. these(A) \cap these(B) = {}
  <2> SUFFICES ASSUME NEW z \in these(A), z \in these(B)  PROVE FALSE
    OBVIOUS
  <2>1. z[1] \in Ending(bag, A) /\ z[1] \in Ending(bag, B)
    BY CopyOf
  <2> QED  BY <2>1 DEF Ending
<1>3. /\ IsFiniteSet(these(A)) /\ IsFiniteSet(these(B))
      /\ Sum(bag, A) \in Nat /\ Sum(bag, B) \in Nat
  BY SumIsNumber
<1>4. Cardinality(these(A) \cup these(B)) = Cardinality(these(A)) + Cardinality(these(B))
                                           - Cardinality(these(A) \cap these(B))
  BY <1>3, FS_Union
<1>5. /\ Sum(bag, A) = Cardinality(these(A)) /\ Sum(bag, B) = Cardinality(these(B))
      /\ Sum(bag, A \cup B) = Cardinality(these(A \cup B))
  BY DEF Sum, Ending
<1>6. Cardinality(these(A) \cap these(B)) = 0
  BY <1>2, FS_EmptySet, Zenon
<1>7. Cardinality(these(A \cup B)) = Cardinality(these(A) \cup these(B))
  BY <1>1, Zenon
<1> HIDE DEF these
<1> QED  BY <1>3, <1>4, <1>5, <1>6, <1>7

LEMMA SumOfOutcomes ==
  ASSUME NEW bag, SoundBag(bag)
  PROVE  Sum(bag, AllOutcomes) =
           Sum(bag, {Returned}) + Sum(bag, {Failed}) + Sum(bag, {Unknown})
<1>1. /\ AllOutcomes = ({Returned} \cup {Failed}) \cup {Unknown}
      /\ ({Returned} \cup {Failed}) \cap {Unknown} = {} /\ {Returned} \cap {Failed} = {}
  BY DEF AllOutcomes, Returned, Failed, Unknown
<1>2. Sum(bag, ({Returned} \cup {Failed}) \cup {Unknown}) =
        Sum(bag, {Returned} \cup {Failed}) + Sum(bag, {Unknown})
  BY <1>1, SumOfParts
<1>3. Sum(bag, {Returned} \cup {Failed}) = Sum(bag, {Returned}) + Sum(bag, {Failed})
  BY <1>1, SumOfParts
<1> QED  BY <1>1, <1>2, <1>3

(* What the counts of a sound value say.                                   *)
LEMMA CountsSay ==
  ASSUME NEW v, Sound(v)
  PROVE  /\ v.counts.total \in Nat /\ v.counts.returned \in Nat
         /\ v.counts.failed \in Nat /\ v.counts.unknown \in Nat
         /\ v.counts.total = v.counts.returned + v.counts.failed + v.counts.unknown
         /\ v.counts.total = Sum(v.bag, AllOutcomes)
         /\ v.counts.names = Cardinality(AliasesOf(v.bag)) /\ v.counts.names \in Nat
         /\ v.counts.failed = 0 /\ v.counts.unknown = 0 <=>
              \A g \in DOMAIN v.bag : g.outcome = Returned
<1>1. SoundBag(v.bag) /\ v.counts = Recomputed(v.bag)
  BY DEF Sound
<1>2. /\ v.counts.total = Sum(v.bag, AllOutcomes) /\ v.counts.returned = Sum(v.bag, {Returned})
      /\ v.counts.failed = Sum(v.bag, {Failed}) /\ v.counts.unknown = Sum(v.bag, {Unknown})
      /\ v.counts.names = Cardinality(AliasesOf(v.bag))
  BY <1>1 DEF Recomputed
<1>3. \A outcomes : Sum(v.bag, outcomes) \in Nat /\
                    (Sum(v.bag, outcomes) = 0 <=> Ending(v.bag, outcomes) = {})
  BY <1>1, SumIsNumber
<1>4. v.counts.failed = 0 /\ v.counts.unknown = 0 <=>
              \A g \in DOMAIN v.bag : g.outcome = Returned
  <2>1. v.counts.failed = 0 <=> \A g \in DOMAIN v.bag : g.outcome # Failed
    BY <1>2, <1>3 DEF Ending
  <2>2. v.counts.unknown = 0 <=> \A g \in DOMAIN v.bag : g.outcome # Unknown
    BY <1>2, <1>3 DEF Ending
  <2>3. \A g \in DOMAIN v.bag : g.outcome \in {Returned, Failed, Unknown}
    BY <1>1 DEF SoundBag, AllOutcomes
  <2>4. Returned # Failed /\ Returned # Unknown
    BY DEF Returned, Failed, Unknown
  <2> QED  BY <2>1, <2>2, <2>3, <2>4
<1>5. v.counts.names \in Nat
  <2> DEFINE alias == [g \in DOMAIN v.bag |-> g.alias]
  <2>1. alias \in Surjection(DOMAIN v.bag, AliasesOf(v.bag))
    BY DEF Surjection, AliasesOf
  <2> QED  BY <1>1, <1>2, <2>1, FS_Surjection, FS_CardinalityType DEF SoundBag
<1> QED  BY <1>1, <1>2, <1>3, <1>4, <1>5, SumOfOutcomes

-----------------------------------------------------------------------------
(***************************************************************************)
(* Documents that decode: their entries are their bag, one for one.        *)
(***************************************************************************)
LEMMA EntriesListed ==
  ASSUME NEW d, IsDocument(d)
  PROVE  /\ DOMAIN d.entries = 1 .. Len(d.entries) /\ Len(d.entries) \in Nat
         /\ IsFiniteSet(DOMAIN d.entries) /\ Cardinality(DOMAIN d.entries) = Len(d.entries)
<1>1. DOMAIN d.entries = 1 .. Len(d.entries) /\ Len(d.entries) \in Nat
  BY DEF IsDocument
<1> QED  BY <1>1, FS_Interval

LEMMA SignaturesListed ==
  ASSUME NEW d, IsDocument(d),
         NEW to, to = [i \in DOMAIN d.entries |-> Signature(d.entries[i])]
  PROVE  /\ to \in Surjection(DOMAIN d.entries, Signatures(d))
         /\ IsFiniteSet(Signatures(d))
         /\ Distinct(d) => \A i, j \in DOMAIN d.entries : to[i] = to[j] => i = j
<1>1. to \in Surjection(DOMAIN d.entries, Signatures(d))
  BY DEF Surjection, Signatures
<1>2. IsFiniteSet(Signatures(d)) /\
      (Distinct(d) => to \in Injection(DOMAIN d.entries, Signatures(d)))
  BY <1>1, EntriesListed, FS_Surjection DEF Distinct
<1> QED  BY <1>1, <1>2 DEF Injection, IsInjective

LEMMA DistinctEntries ==
  ASSUME NEW d, IsDocument(d), Distinct(d),
         NEW i \in DOMAIN d.entries, NEW j \in DOMAIN d.entries,
         Signature(d.entries[i]) = Signature(d.entries[j])
  PROVE  i = j
<1> DEFINE to == [k \in DOMAIN d.entries |-> Signature(d.entries[k])]
<1>1. \A k, l \in DOMAIN d.entries : to[k] = to[l] => k = l
  BY SignaturesListed
<1> QED  BY <1>1

LEMMA BagEntry ==
  ASSUME NEW d, IsDocument(d), Distinct(d), NEW i \in DOMAIN d.entries
  PROVE  /\ Signature(d.entries[i]) \in DOMAIN ValueOf(d).bag
         /\ ValueOf(d).bag[Signature(d.entries[i])] = d.entries[i].times
<1> DEFINE g == Signature(d.entries[i])
           at == CHOOSE j \in DOMAIN d.entries : Signature(d.entries[j]) = g
<1>1. at \in DOMAIN d.entries /\ Signature(d.entries[at]) = g
  OBVIOUS
<1>2. at = i
  BY <1>1, DistinctEntries
<1>3. g \in Signatures(d)
  BY DEF Signatures
<1>4. DOMAIN ValueOf(d).bag = Signatures(d) /\ ValueOf(d).bag[g] = d.entries[at].times
  BY <1>3 DEF ValueOf
<1> QED  BY <1>2, <1>3, <1>4

LEMMA DecodedSound ==
  ASSUME NEW d, IsDocument(d), Decodable(d)
  PROVE  Sound(ValueOf(d)) /\ Accepted(ValueOf(d)) /\ Distinct(d)
<1>1. Distinct(d) /\ Accepted(ValueOf(d))
  BY DEF Decodable
<1>2. DOMAIN ValueOf(d).bag = Signatures(d) /\
      ValueOf(d).bag = [g \in DOMAIN ValueOf(d).bag |-> ValueOf(d).bag[g]]
  BY DEF ValueOf
<1>3. IsFiniteSet(Signatures(d))
  BY SignaturesListed
<1>4. ASSUME NEW g \in Signatures(d)
      PROVE  ValueOf(d).bag[g] \in Nat \ {0} /\ g.outcome \in AllOutcomes
  <2>1. PICK i \in DOMAIN d.entries : g = Signature(d.entries[i])
    BY DEF Signatures
  <2>a. ValueOf(d).bag[Signature(d.entries[i])] = d.entries[i].times
    BY <1>1, BagEntry
  <2>b. d.entries[i].outcome \in AllOutcomes /\ d.entries[i].times \in Int
    BY ValueAssumption DEF IsDocument, Ints, ValueAssumption
  <2>2. ValueOf(d).bag[g] \in Int /\ g.outcome \in AllOutcomes
    BY <2>1, <2>a, <2>b DEF Signature
  <2>3. ValueOf(d).bag[g] > 0
    BY <1>1, <1>2 DEF Accepted
  <2> QED  BY <2>2, <2>3
<1>5. SoundBag(ValueOf(d).bag)
  BY <1>2, <1>3, <1>4 DEF SoundBag
<1>6. ValueOf(d).counts = Recomputed(ValueOf(d).bag)
  BY <1>1 DEF Accepted
<1>7. ValueOf(d).status \in Statuses /\ IsPolicy(ValueOf(d).policy)
  BY DEF ValueOf, IsDocument
<1> QED  BY <1>1, <1>5, <1>6, <1>7 DEF Sound

LEMMA DecodedSums ==
  ASSUME NEW d, IsDocument(d), Decodable(d), NEW outcomes,
         NEW times, times = [i \in DOMAIN d.entries |-> d.entries[i].times]
  PROVE  Cardinality(Copies(times, {i \in DOMAIN times : d.entries[i].outcome \in outcomes}))
           = Sum(ValueOf(d).bag, outcomes)
<1> DEFINE bag == ValueOf(d).bag
           S == {i \in DOMAIN times : d.entries[i].outcome \in outcomes}
           to == [i \in S |-> Signature(d.entries[i])]
<1>1. Distinct(d)
  BY DEF Decodable
<1>2. DOMAIN bag = Signatures(d)
  BY DEF ValueOf
<1>3. S \subseteq DOMAIN d.entries /\ IsFiniteSet(S)
  BY EntriesListed, FS_Subset
<1>4. \A i \in S : to[i] \in Ending(bag, outcomes) /\ bag[to[i]] = times[i]
  BY <1>1, BagEntry DEF Ending, Signature
<1>5. \A i, j \in S : to[i] = to[j] => i = j
  BY <1>1, DistinctEntries
<1>6. \A g \in Ending(bag, outcomes) : \E i \in S : to[i] = g
  BY <1>2 DEF Ending, Signatures, Signature
<1>7. to \in Bijection(S, Ending(bag, outcomes))
  <2> HIDE DEF bag, S
  <2> QED  BY <1>4, <1>5, <1>6 DEF Bijection, Injection, IsInjective, Surjection
<1>8. \A i \in S : times[i] \in Int
  BY <1>3, ValueAssumption DEF IsDocument, Ints, ValueAssumption
<1>9. Cardinality(Copies(bag, Ending(bag, outcomes))) = Cardinality(Copies(times, S))
  <2> HIDE DEF bag, S, to
  <2> QED  BY <1>3, <1>4, <1>7, <1>8, CopiesMatched
<1> QED  BY <1>9 DEF Sum, Ending

-----------------------------------------------------------------------------
(***************************************************************************)
(* The manifest of a snapshot: its bag holds each attempt once.            *)
(***************************************************************************)
LEMMA AttemptsListed ==
  ASSUME NEW s, IsSnapshot(s)
  PROVE  /\ IsFiniteSet(DOMAIN s.attempts) /\ Len(s.attempts) \in Nat
         /\ Cardinality(DOMAIN s.attempts) = Len(s.attempts)
         /\ \A outcome : IsFiniteSet(Outcomes(s, outcome)) /\ CountOf(s, outcome) \in Nat
         /\ \A outcome : CountOf(s, outcome) = 0 <=>
              \A i \in DOMAIN s.attempts : s.attempts[i].outcome # outcome
         /\ DOMAIN s.attempts = {} <=> s.attempts = <<>>
<1>1. DOMAIN s.attempts = 1 .. Len(s.attempts) /\ Len(s.attempts) \in Nat
  BY DEF IsSnapshot
<1>2. IsFiniteSet(DOMAIN s.attempts) /\ Cardinality(DOMAIN s.attempts) = Len(s.attempts)
  BY <1>1, FS_Interval
<1>3. ASSUME NEW outcome
      PROVE  /\ IsFiniteSet(Outcomes(s, outcome)) /\ CountOf(s, outcome) \in Nat
             /\ CountOf(s, outcome) = 0 <=>
                  \A i \in DOMAIN s.attempts : s.attempts[i].outcome # outcome
  <2>1. IsFiniteSet(Outcomes(s, outcome))
    BY <1>2, FS_Subset DEF Outcomes
  <2>2. CountOf(s, outcome) \in Nat /\ (CountOf(s, outcome) = 0 <=> Outcomes(s, outcome) = {})
    BY <2>1, FS_CardinalityType, FS_EmptySet DEF CountOf
  <2> QED  BY <2>1, <2>2 DEF Outcomes
<1>4. DOMAIN s.attempts = {} <=> s.attempts = <<>>
  BY DEF IsSnapshot
<1> QED  BY <1>1, <1>2, <1>3, <1>4

LEMMA SnapshotSums ==
  ASSUME NEW s, IsSnapshot(s), NEW aliases, NEW outcomes
  PROVE  Sum(BagOf(s, aliases), outcomes)
           = Cardinality({i \in DOMAIN s.attempts : s.attempts[i].outcome \in outcomes})
<1> DEFINE bag == BagOf(s, aliases)
           I == {i \in DOMAIN s.attempts : s.attempts[i].outcome \in outcomes}
           key == [i \in DOMAIN s.attempts |-> Structural(s.attempts[i], aliases)]
<1>1. IsFiniteSet(I) /\ I \subseteq DOMAIN s.attempts
  BY AttemptsListed, FS_Subset
<1>2. Ending(bag, outcomes) = {key[i] : i \in I}
  <2>1. DOMAIN bag = {key[i] : i \in DOMAIN s.attempts}
    BY DEF BagOf
  <2>2. \A i \in DOMAIN s.attempts : key[i].outcome = s.attempts[i].outcome
    BY DEF Structural
  <2> HIDE DEF bag, key
  <2> QED  BY <2>1, <2>2 DEF Ending
<1>3. ASSUME NEW i \in I
      PROVE  bag[key[i]] = Cardinality({k \in I : key[k] = key[i]})
  <2>1. bag[key[i]] = Cardinality({k \in DOMAIN s.attempts :
                                     Structural(s.attempts[k], aliases) = key[i]})
    BY DEF BagOf
  <2>2. {k \in DOMAIN s.attempts : Structural(s.attempts[k], aliases) = key[i]}
          = {k \in I : key[k] = key[i]}
    BY DEF Structural
  <2> QED  BY <2>1, <2>2, Zenon
<1>4. Cardinality(Copies(bag, {key[i] : i \in I})) = Cardinality(I)
  <2> HIDE DEF bag, I, key
  <2> QED  BY <1>1, <1>3, CountedByKey
<1>5. Sum(bag, outcomes) = Cardinality(Copies(bag, Ending(bag, outcomes)))
  BY DEF Sum, Ending
<1>6. Copies(bag, Ending(bag, outcomes)) = Copies(bag, {key[i] : i \in I})
  BY <1>2, Zenon
<1> QED  BY <1>4, <1>5, <1>6

LEMMA SnapshotCounts ==
  ASSUME NEW s, IsSnapshot(s), NEW aliases, NEW policy
  PROVE  LET c == From(s, aliases, policy).counts
         IN  /\ c.total = Len(s.attempts)
             /\ c.failed = CountOf(s, Failed) /\ c.unknown = CountOf(s, Unknown)
             /\ c.names = Cardinality({aliases[n] : n \in ObservedNames(s)})
<1> DEFINE bag == BagOf(s, aliases)
           of(outcomes) == {i \in DOMAIN s.attempts : s.attempts[i].outcome \in outcomes}
           c == From(s, aliases, policy).counts
<1>1. /\ c.total = Sum(bag, AllOutcomes) /\ c.failed = Sum(bag, {Failed})
      /\ c.unknown = Sum(bag, {Unknown}) /\ c.names = Cardinality(AliasesOf(bag))
  BY DEF From, Recomputed
<1>2. \A outcomes : Sum(bag, outcomes) = Cardinality(of(outcomes))
  BY SnapshotSums
<1>3. of(AllOutcomes) = DOMAIN s.attempts /\ Cardinality(DOMAIN s.attempts) = Len(s.attempts)
  BY AttemptsListed DEF IsSnapshot
<1>4. /\ of({Failed}) = Outcomes(s, Failed) /\ of({Unknown}) = Outcomes(s, Unknown)
  BY DEF Outcomes
<1>5. AliasesOf(bag) = {aliases[n] : n \in ObservedNames(s)}
  <2> DEFINE key == [i \in DOMAIN s.attempts |-> Structural(s.attempts[i], aliases)]
  <2>1. DOMAIN bag = {key[i] : i \in DOMAIN s.attempts}
    BY DEF BagOf
  <2>2. \A i \in DOMAIN s.attempts : key[i].alias = aliases[s.attempts[i].name]
    BY DEF Structural
  <2> HIDE DEF bag, key
  <2> QED  BY <2>1, <2>2 DEF AliasesOf, ObservedNames
<1>6. c.total = Len(s.attempts)
  BY <1>1, <1>2, <1>3, Zenon
<1>7. c.failed = CountOf(s, Failed) /\ c.unknown = CountOf(s, Unknown)
  BY <1>1, <1>2, <1>4, Zenon DEF CountOf
<1>8. c.names = Cardinality({aliases[n] : n \in ObservedNames(s)})
  BY <1>1, <1>5, Zenon
<1> QED  BY <1>6, <1>7, <1>8

LEMMA SnapshotSound ==
  ASSUME NEW s, IsSnapshot(s), NEW aliases, NEW policy, IsPolicy(policy)
  PROVE  Sound(From(s, aliases, policy))
<1> DEFINE bag == BagOf(s, aliases)
           key == [i \in DOMAIN s.attempts |-> Structural(s.attempts[i], aliases)]
<1>1. IsFiniteSet(DOMAIN s.attempts)
  BY AttemptsListed
<1>2. key \in Surjection(DOMAIN s.attempts, DOMAIN bag)
  BY DEF Surjection, BagOf
<1>3. IsFiniteSet(DOMAIN bag)
  BY <1>1, <1>2, FS_Surjection
<1>4. ASSUME NEW g \in DOMAIN bag
      PROVE  bag[g] \in Nat \ {0} /\ g.outcome \in AllOutcomes
  <2> DEFINE these == {i \in DOMAIN s.attempts : Structural(s.attempts[i], aliases) = g}
  <2>1. PICK i \in DOMAIN s.attempts : g = Structural(s.attempts[i], aliases)
    BY DEF BagOf
  <2>2. g.outcome \in AllOutcomes
    BY <2>1 DEF Structural, IsSnapshot
  <2>3. IsFiniteSet(these) /\ these # {}
    BY <1>1, <2>1, FS_Subset
  <2>4. bag[g] = Cardinality(these)
    BY DEF BagOf
  <2>5. Cardinality(these) \in Nat /\ Cardinality(these) # 0
    BY <2>3, FS_CardinalityType, FS_EmptySet
  <2> QED  BY <2>2, <2>4, <2>5
<1>5. bag = [g \in DOMAIN bag |-> bag[g]]
  BY DEF BagOf
<1>6. SoundBag(bag)
  BY <1>3, <1>4, <1>5 DEF SoundBag
<1>7. /\ From(s, aliases, policy).bag = bag /\ From(s, aliases, policy).counts = Recomputed(bag)
      /\ From(s, aliases, policy).status = s.status /\ From(s, aliases, policy).policy = policy
  BY DEF From
<1> HIDE DEF bag
<1> QED  BY <1>6, <1>7 DEF Sound, IsSnapshot

-----------------------------------------------------------------------------
(***************************************************************************)
(* The verifier: the first level with a finding decides.                   *)
(***************************************************************************)
LEMMA LeastIs ==
  ASSUME NEW S, NEW i \in S, S \subseteq Int, \A j \in S : i <= j
  PROVE  Min(S) = i
<1>1. \A j \in S : (\A k \in S : j <= k) => j = i
  OBVIOUS
<1> QED  BY <1>1 DEF Min

LEMMA GreatestIs ==
  ASSUME NEW S, NEW i \in S, S \subseteq Int, \A j \in S : j <= i
  PROVE  Max(S) = i
<1>1. \A j \in S : (\A k \in S : j >= k) => j = i
  OBVIOUS
<1> QED  BY <1>1 DEF Max

LEMMA LevelDecides ==
  ASSUME NEW levels, NEW i \in DOMAIN levels, DOMAIN levels \subseteq Int,
         levels[i].findings # {},
         \A j \in DOMAIN levels : levels[j].findings # {} => i <= j
  PROVE  FirstFailing(levels) = levels[i]
BY LeastIs DEF FirstFailing

LEMMA NothingBlocks ==
  ASSUME NEW holds
  PROVE  /\ Blocking(holds) = {} <=> \A k \in DOMAIN holds : ~holds[k]
         /\ \A f \in Blocking(holds) : f.severity = "BLOCKING"
<1>1. Blocking(holds) = {} <=> \A k \in DOMAIN holds : ~holds[k]
  BY Zenon DEF Blocking
<1>2. ASSUME NEW f \in Blocking(holds)  PROVE f.severity = "BLOCKING"
  <2>1. PICK code : f = Finding(code, "BLOCKING", NoSignature)
    BY Zenon DEF Blocking
  <2> QED  BY <2>1 DEF Finding
<1> QED  BY <1>1, <1>2

(* The levels of the comparison of two manifests, by what they find.       *)
Incompatible(a, c) == CompatibilityFindings(a, c.schema, c.operation)
Ineligible(c) == NotEligibleFindings(c.status, c.counts.failed, c.counts.unknown, FALSE)
OverBudget(a, c) == PolicyFindings(a.policy, c.counts)
Drift(a, c) == DriftFindings(a, c)
Blocked(findings) == \E f \in findings : f.severity = "BLOCKING"
Verdict(a, c) ==
  IF Incompatible(a, c) # {} THEN "INCOMPATIBLE"
  ELSE IF Ineligible(c) # {} THEN "NOT_ELIGIBLE"
  ELSE IF OverBudget(a, c) # {} THEN "POLICY_VIOLATION"
  ELSE IF Drift(a, c) # {} THEN IF Blocked(Drift(a, c)) THEN "DRIFT" ELSE "REVIEW_REQUIRED"
  ELSE "MATCH"

LEMMA VerifyDecides ==
  ASSUME NEW a, NEW c
  PROVE  /\ Verify(a, c).status = Verdict(a, c) /\ Verify(a, c).findings # {}
         /\ Verify(a, c).findings \in
              {Incompatible(a, c), Ineligible(c), OverBudget(a, c), Drift(a, c),
               {Finding("MATCH", "INFO", NoSignature)}}
<1> DEFINE L1 == Level("INCOMPATIBLE", Incompatible(a, c))
           L2 == Level("NOT_ELIGIBLE", Ineligible(c))
           L3 == Level("POLICY_VIOLATION", OverBudget(a, c))
           L4 == Level(IF Blocked(Drift(a, c)) THEN "DRIFT" ELSE "REVIEW_REQUIRED", Drift(a, c))
           L5 == Level("MATCH", {Finding("MATCH", "INFO", NoSignature)})
           levels == <<L1, L2, L3, L4, L5>>
<1>2. Verify(a, c) = FirstFailing(levels)
  BY DEF Verify, Incompatible, Ineligible, OverBudget, Drift, Blocked
<1>3. /\ L1.findings = Incompatible(a, c) /\ L1.status = "INCOMPATIBLE"
      /\ L2.findings = Ineligible(c) /\ L2.status = "NOT_ELIGIBLE"
      /\ L3.findings = OverBudget(a, c) /\ L3.status = "POLICY_VIOLATION"
      /\ L4.findings = Drift(a, c)
      /\ L4.status = IF Blocked(Drift(a, c)) THEN "DRIFT" ELSE "REVIEW_REQUIRED"
      /\ L5.findings = {Finding("MATCH", "INFO", NoSignature)} /\ L5.status = "MATCH"
  BY DEF Level
<1>4. L5.findings # {}
  BY <1>3
<1> HIDE DEF L1, L2, L3, L4, L5
<1>5. /\ DOMAIN levels = 1 .. 5 /\ levels[1] = L1 /\ levels[2] = L2 /\ levels[3] = L3
      /\ levels[4] = L4 /\ levels[5] = L5
  OBVIOUS
<1> HIDE DEF levels
<1>6. \A i \in 1 .. 5 :
        levels[i].findings # {} /\ (\A j \in 1 .. 5 : levels[j].findings # {} => i <= j)
          => FirstFailing(levels) = levels[i]
  BY <1>5, LevelDecides
<1>7. CASE L1.findings # {}
  <2>1. FirstFailing(levels) = L1
    BY <1>5, <1>6, <1>7
  <2> QED  BY <1>2, <1>3, <1>7, <2>1 DEF Verdict
<1>8. CASE L1.findings = {} /\ L2.findings # {}
  <2>1. FirstFailing(levels) = L2
    BY <1>5, <1>6, <1>8
  <2> QED  BY <1>2, <1>3, <1>8, <2>1 DEF Verdict
<1>9. CASE L1.findings = {} /\ L2.findings = {} /\ L3.findings # {}
  <2>1. FirstFailing(levels) = L3
    BY <1>5, <1>6, <1>9
  <2> QED  BY <1>2, <1>3, <1>9, <2>1 DEF Verdict
<1>10. CASE L1.findings = {} /\ L2.findings = {} /\ L3.findings = {} /\ L4.findings # {}
  <2>1. FirstFailing(levels) = L4
    BY <1>5, <1>6, <1>10
  <2> QED  BY <1>2, <1>3, <1>10, <2>1 DEF Verdict
<1>11. CASE L1.findings = {} /\ L2.findings = {} /\ L3.findings = {} /\ L4.findings = {}
  <2>1. FirstFailing(levels) = L5
    BY <1>4, <1>5, <1>6, <1>11
  <2> QED  BY <1>2, <1>3, <1>4, <1>11, <2>1 DEF Verdict
<1> QED  BY <1>7, <1>8, <1>9, <1>10, <1>11

-----------------------------------------------------------------------------
(***************************************************************************)
(* What the findings of each level say.                                    *)
(***************************************************************************)
LEMMA EligibleIsEnforceable ==
  ASSUME NEW v, Sound(v)
  PROVE  Eligible(v) <=> Enforceable(v)
BY CountsSay DEF Eligible, Enforceable

LEMMA IncompatibleSays ==
  ASSUME NEW a, NEW schema, NEW operation
  PROVE  CompatibilityFindings(a, schema, operation) = {} <=>
           a.schema = 1 /\ schema = 1 /\ a.operation = operation /\ Eligible(a)
<1> DEFINE holds == [UNSUPPORTED_SCHEMA |-> a.schema # 1 \/ schema # 1,
                     OPERATION_ID_MISMATCH |-> a.operation # operation,
                     APPROVED_MANIFEST_NOT_ELIGIBLE |-> ~Eligible(a)]
<1>1. DOMAIN holds =
        {"UNSUPPORTED_SCHEMA", "OPERATION_ID_MISMATCH", "APPROVED_MANIFEST_NOT_ELIGIBLE"}
  OBVIOUS
<1>2. /\ holds["UNSUPPORTED_SCHEMA"] <=> a.schema # 1 \/ schema # 1
      /\ holds["OPERATION_ID_MISMATCH"] <=> a.operation # operation
      /\ holds["APPROVED_MANIFEST_NOT_ELIGIBLE"] <=> ~Eligible(a)
  OBVIOUS
<1>3. CompatibilityFindings(a, schema, operation) = Blocking(holds)
  BY DEF CompatibilityFindings
<1> HIDE DEF holds
<1> QED  BY <1>1, <1>2, <1>3, NothingBlocks, Zenon

LEMMA IneligibleSays ==
  ASSUME NEW status \in Statuses, NEW failed, NEW unknown, NEW diagnosed \in BOOLEAN
  PROVE  NotEligibleFindings(status, failed, unknown, diagnosed) = {} <=>
           status = "COMPLETE" /\ failed = 0 /\ unknown = 0 /\ ~diagnosed
<1> DEFINE incomplete == status = "INCOMPLETE" \/ unknown # 0 \/ diagnosed
           holds == [CAPTURE_INCOMPLETE |-> incomplete,
                     CALLBACK_FAILURE_NOT_ELIGIBLE |->
                       ~incomplete /\ (status = "REPORTED_EXECUTION_FAILURE" \/ failed # 0)]
<1>1. DOMAIN holds = {"CAPTURE_INCOMPLETE", "CALLBACK_FAILURE_NOT_ELIGIBLE"}
  OBVIOUS
<1>2. /\ holds["CAPTURE_INCOMPLETE"] <=> incomplete
      /\ holds["CALLBACK_FAILURE_NOT_ELIGIBLE"] <=>
           ~incomplete /\ (status = "REPORTED_EXECUTION_FAILURE" \/ failed # 0)
  OBVIOUS
<1>3. NotEligibleFindings(status, failed, unknown, diagnosed) = Blocking(holds)
  BY DEF NotEligibleFindings
<1>4. NotEligibleFindings(status, failed, unknown, diagnosed) = {} <=>
        ~incomplete /\ ~(status = "REPORTED_EXECUTION_FAILURE" \/ failed # 0)
  <2> HIDE DEF holds, incomplete
  <2> QED  BY <1>1, <1>2, <1>3, NothingBlocks, Zenon
<1> QED  BY <1>4, Zenon DEF Statuses

LEMMA OverBudgetSays ==
  ASSUME NEW policy, NEW counts, policy.attempts \in Int, policy.names \in Int,
         counts.total \in Int, counts.names \in Int
  PROVE  PolicyFindings(policy, counts) = {} <=>
           counts.total <= policy.attempts /\ counts.names <= policy.names
<1> DEFINE holds == [ATTEMPT_BUDGET_EXCEEDED |-> counts.total > policy.attempts,
                     DATA_SOURCE_BUDGET_EXCEEDED |-> counts.names > policy.names]
<1>1. DOMAIN holds = {"ATTEMPT_BUDGET_EXCEEDED", "DATA_SOURCE_BUDGET_EXCEEDED"}
  OBVIOUS
<1>2. /\ holds["ATTEMPT_BUDGET_EXCEEDED"] <=> counts.total > policy.attempts
      /\ holds["DATA_SOURCE_BUDGET_EXCEEDED"] <=> counts.names > policy.names
  OBVIOUS
<1>3. PolicyFindings(policy, counts) = Blocking(holds)
  BY DEF PolicyFindings
<1>4. PolicyFindings(policy, counts) = {} <=>
        ~(counts.total > policy.attempts) /\ ~(counts.names > policy.names)
  <2> HIDE DEF holds
  <2> QED  BY <1>1, <1>2, <1>3, NothingBlocks, Zenon
<1> QED  BY <1>4

(* The blocking conditions of the drift of two manifests.                  *)
SameOutline(a, c) ==
  /\ a.policy = c.policy /\ a.counts.total = c.counts.total
  /\ AliasesOf(a.bag) = AliasesOf(c.bag)
  /\ a.counts.returned = c.counts.returned /\ a.counts.failed = c.counts.failed
  /\ a.counts.unknown = c.counts.unknown

LEMMA StructureSays ==
  ASSUME NEW a, NEW c, SoundBag(a.bag), SoundBag(c.bag), a.policy.exact \in BOOLEAN
  PROVE  /\ StructuralFindings(a, c) = {} <=> a.bag = c.bag
         /\ \A f \in StructuralFindings(a, c) : f.severity = "BLOCKING" <=> a.policy.exact
<1> DEFINE changed == {g \in DOMAIN a.bag \cup DOMAIN c.bag : Times(a.bag, g) # Times(c.bag, g)}
<1>1. StructuralFindings(a, c) = {} <=> changed = {}
  BY Zenon DEF StructuralFindings
<1>2. ASSUME changed = {}  PROVE a.bag = c.bag
  <2>1. \A g \in DOMAIN a.bag : Times(a.bag, g) = a.bag[g] /\ a.bag[g] # 0
    BY DEF Times, SoundBag
  <2>2. \A g \in DOMAIN c.bag : Times(c.bag, g) = c.bag[g] /\ c.bag[g] # 0
    BY DEF Times, SoundBag
  <2>3. \A g \in DOMAIN a.bag \cup DOMAIN c.bag : Times(a.bag, g) = Times(c.bag, g)
    BY <1>2
  <2>4. \A g : /\ g \notin DOMAIN a.bag => Times(a.bag, g) = 0
               /\ g \notin DOMAIN c.bag => Times(c.bag, g) = 0
    BY DEF Times
  <2>5. DOMAIN a.bag = DOMAIN c.bag
    BY <2>1, <2>2, <2>3, <2>4
  <2>6. \A g \in DOMAIN a.bag : a.bag[g] = c.bag[g]
    BY <2>1, <2>2, <2>3, <2>5
  <2>7. /\ a.bag = [g \in DOMAIN a.bag |-> a.bag[g]]
        /\ c.bag = [g \in DOMAIN c.bag |-> c.bag[g]]
    BY DEF SoundBag
  <2> QED  BY <2>5, <2>6, <2>7
<1>3. a.bag = c.bag => changed = {}
  OBVIOUS
<1>4. ASSUME NEW f \in StructuralFindings(a, c)
      PROVE  f.severity = "BLOCKING" <=> a.policy.exact
  <2>1. PICK code, g : f = Finding(code, IF a.policy.exact THEN "BLOCKING" ELSE "REVIEW", g)
    BY Zenon DEF StructuralFindings
  <2>2. f.severity = IF a.policy.exact THEN "BLOCKING" ELSE "REVIEW"
    BY <2>1 DEF Finding
  <2> QED  BY <2>2
<1> QED  BY <1>1, <1>2, <1>3, <1>4

LEMMA DriftSays ==
  ASSUME NEW a, NEW c, SoundBag(a.bag), SoundBag(c.bag), a.policy.exact \in BOOLEAN
  PROVE  /\ Drift(a, c) = {} <=> SameOutline(a, c) /\ a.bag = c.bag
         /\ ~Blocked(Drift(a, c)) <=> SameOutline(a, c) /\ (a.policy.exact => a.bag = c.bag)
<1> DEFINE holds ==
      [POLICY_CHANGED |-> a.policy # c.policy,
       OBSERVED_ATTEMPT_COUNT_CHANGED |-> a.counts.total # c.counts.total,
       OBSERVED_DATA_SOURCE_SET_CHANGED |-> AliasesOf(a.bag) # AliasesOf(c.bag),
       OUTCOME_COUNTS_CHANGED |->
         \/ a.counts.returned # c.counts.returned \/ a.counts.failed # c.counts.failed
         \/ a.counts.unknown # c.counts.unknown]
<1>1. DOMAIN holds = {"POLICY_CHANGED", "OBSERVED_ATTEMPT_COUNT_CHANGED",
                      "OBSERVED_DATA_SOURCE_SET_CHANGED", "OUTCOME_COUNTS_CHANGED"}
  OBVIOUS
<1>2. /\ holds["POLICY_CHANGED"] <=> a.policy # c.policy
      /\ holds["OBSERVED_ATTEMPT_COUNT_CHANGED"] <=> a.counts.total # c.counts.total
      /\ holds["OBSERVED_DATA_SOURCE_SET_CHANGED"] <=> AliasesOf(a.bag) # AliasesOf(c.bag)
      /\ holds["OUTCOME_COUNTS_CHANGED"] <=>
           \/ a.counts.returned # c.counts.returned \/ a.counts.failed # c.counts.failed
           \/ a.counts.unknown # c.counts.unknown
  OBVIOUS
<1>3. Drift(a, c) = StructuralFindings(a, c) \cup Blocking(holds)
  BY DEF Drift, DriftFindings
<1>4. Blocking(holds) = {} <=> SameOutline(a, c)
  <2> HIDE DEF holds
  <2> QED  BY <1>1, <1>2, NothingBlocks, Zenon DEF SameOutline
<1>5. \A f \in Blocking(holds) : f.severity = "BLOCKING"
  BY NothingBlocks
<1> HIDE DEF holds
<1>6. Drift(a, c) = {} <=> SameOutline(a, c) /\ a.bag = c.bag
  BY <1>3, <1>4, StructureSays
<1>7. ~Blocked(Drift(a, c)) <=> SameOutline(a, c) /\ (a.policy.exact => a.bag = c.bag)
  <2>1. ~Blocked(Drift(a, c)) <=>
          /\ \A f \in StructuralFindings(a, c) : f.severity # "BLOCKING"
          /\ Blocking(holds) = {}
    BY <1>3, <1>5 DEF Blocked
  <2> QED  BY <1>4, <2>1, StructureSays
<1> QED  BY <1>6, <1>7

(* Equal bags have equal outlines, and so have bags that are returned in   *)
(* full, over the same aliases and of the same size.                       *)
LEMMA OutlineSays ==
  ASSUME NEW a, NEW c, Sound(a), Sound(c), Enforceable(a), Enforceable(c)
  PROVE  SameOutline(a, c) <=>
           /\ a.policy = c.policy /\ AliasesOf(a.bag) = AliasesOf(c.bag)
           /\ Sum(a.bag, AllOutcomes) = Sum(c.bag, AllOutcomes)
<1>1. \A v \in {a, c} :
        /\ v.counts.failed = 0 /\ v.counts.unknown = 0
        /\ v.counts.total = Sum(v.bag, AllOutcomes)
        /\ v.counts.total = v.counts.returned /\ v.counts.returned \in Nat
  BY CountsSay DEF Enforceable
<1> QED  BY <1>1 DEF SameOutline

-----------------------------------------------------------------------------
(***************************************************************************)
(* What a verdict says.                                                    *)
(***************************************************************************)
LEMMA VerdictSays ==
  ASSUME NEW a, NEW c, Sound(a), Sound(c)
  PROVE  /\ Verdict(a, c) = "MATCH" <=> Matches(a, c)
         /\ Verdict(a, c) \in {"MATCH", "REVIEW_REQUIRED"} <=>
              Matches(a, c) \/ (~a.policy.exact /\ MatchesUpToShapes(a, c))
<1>1. /\ SoundBag(a.bag) /\ SoundBag(c.bag) /\ a.policy.exact \in BOOLEAN
      /\ a.policy.attempts \in Int /\ a.policy.names \in Int /\ c.status \in Statuses
  BY ValueAssumption DEF Sound, IsPolicy, Ints, ValueAssumption
<1>2. /\ c.counts.total = Sum(c.bag, AllOutcomes) /\ c.counts.total \in Int
      /\ c.counts.names = Cardinality(AliasesOf(c.bag)) /\ c.counts.names \in Int
  BY CountsSay
<1>3. Incompatible(a, c) = {} <=>
        a.schema = 1 /\ c.schema = 1 /\ a.operation = c.operation /\ Enforceable(a)
  BY IncompatibleSays, EligibleIsEnforceable, Zenon DEF Incompatible
<1>4. Ineligible(c) = {} <=> Enforceable(c)
  <2>1. Ineligible(c) = {} <=> Eligible(c)
    BY <1>1, IneligibleSays DEF Ineligible, Eligible
  <2> QED  BY <2>1, EligibleIsEnforceable
<1>5. OverBudget(a, c) = {} <=>
        /\ Sum(c.bag, AllOutcomes) <= a.policy.attempts
        /\ Cardinality(AliasesOf(c.bag)) <= a.policy.names
  BY <1>1, <1>2, OverBudgetSays DEF OverBudget
<1>6. Enforceable(a) /\ Enforceable(c) =>
        /\ Drift(a, c) = {} <=> a.policy = c.policy /\ a.bag = c.bag
        /\ ~Blocked(Drift(a, c)) <=>
             /\ a.policy = c.policy /\ AliasesOf(a.bag) = AliasesOf(c.bag)
             /\ Sum(a.bag, AllOutcomes) = Sum(c.bag, AllOutcomes)
             /\ a.policy.exact => a.bag = c.bag
  BY <1>1, DriftSays, OutlineSays
<1>7. Comparable(a, c) <=>
        /\ Incompatible(a, c) = {} /\ Ineligible(c) = {} /\ OverBudget(a, c) = {}
        /\ a.policy = c.policy
  BY <1>3, <1>4, <1>5 DEF Comparable
<1>8. Verdict(a, c) = "MATCH" <=>
        /\ Incompatible(a, c) = {} /\ Ineligible(c) = {} /\ OverBudget(a, c) = {}
        /\ Drift(a, c) = {}
  BY Zenon DEF Verdict
<1>9. Verdict(a, c) = "REVIEW_REQUIRED" <=>
        /\ Incompatible(a, c) = {} /\ Ineligible(c) = {} /\ OverBudget(a, c) = {}
        /\ Drift(a, c) # {} /\ ~Blocked(Drift(a, c))
  BY Zenon DEF Verdict
<1> QED  BY <1>1, <1>3, <1>4, <1>6, <1>7, <1>8, <1>9 DEF Matches, MatchesUpToShapes

LEMMA VerdictOfVerify ==
  ASSUME NEW a, NEW c, Sound(a), Sound(c)
  PROVE  /\ Matched(Verify(a, c)) <=> Matches(a, c)
         /\ PassesBlockingChecks(Verify(a, c)) <=>
              Matches(a, c) \/ (~a.policy.exact /\ MatchesUpToShapes(a, c))
         /\ Verify(a, c).status = "INCOMPATIBLE" <=> Incompatible(a, c) # {}
         /\ Verify(a, c).status \in {"INCOMPATIBLE", "NOT_ELIGIBLE"} <=>
              Incompatible(a, c) # {} \/ Ineligible(c) # {}
         /\ Verify(a, c).status \in {"INCOMPATIBLE", "NOT_ELIGIBLE", "POLICY_VIOLATION"} <=>
              Incompatible(a, c) # {} \/ Ineligible(c) # {} \/ OverBudget(a, c) # {}
<1>1. Verify(a, c).status = Verdict(a, c)
  BY VerifyDecides
<1>2. Matched(Verify(a, c)) <=> Matches(a, c)
  BY <1>1, VerdictSays DEF Matched
<1>3. PassesBlockingChecks(Verify(a, c)) <=>
        Matches(a, c) \/ (~a.policy.exact /\ MatchesUpToShapes(a, c))
  BY <1>1, VerdictSays DEF PassesBlockingChecks
<1> QED  BY <1>1, <1>2, <1>3 DEF Verdict

(* A snapshot gets the verdict of its manifest.                            *)
LEMMA SnapshotIneligible ==
  ASSUME NEW s, IsSnapshot(s), SnapshotAccepted(s), NEW aliases, NEW policy
  PROVE  /\ NotEligibleFindings(s.status, CountOf(s, Failed), CountOf(s, Unknown),
                                s.diagnosed) = {}
              <=> Ineligible(From(s, aliases, policy)) = {}
         /\ HasCompleteCapture(s) <=> Ineligible(From(s, aliases, policy)) = {}
<1> DEFINE c == From(s, aliases, policy)
<1>1. c.status = s.status /\ s.status \in Statuses /\ s.diagnosed \in BOOLEAN
  BY DEF From, IsSnapshot
<1>2. c.counts.failed = CountOf(s, Failed) /\ c.counts.unknown = CountOf(s, Unknown)
  BY SnapshotCounts
<1>3. s.status = "COMPLETE" => ~s.diagnosed
  BY DEF SnapshotAccepted, DerivedStatus
<1>4. Ineligible(c) = {} <=>
        s.status = "COMPLETE" /\ CountOf(s, Failed) = 0 /\ CountOf(s, Unknown) = 0
  <2>1. c.status \in Statuses /\ FALSE \in BOOLEAN
    BY <1>1
  <2>2. Ineligible(c) = {} <=>
          c.status = "COMPLETE" /\ c.counts.failed = 0 /\ c.counts.unknown = 0 /\ ~FALSE
    <3> HIDE DEF c
    <3> QED  BY <2>1, IneligibleSays, Zenon DEF Ineligible
  <2> HIDE DEF c
  <2> QED  BY <1>1, <1>2, <2>2
<1>5. NotEligibleFindings(s.status, CountOf(s, Failed), CountOf(s, Unknown), s.diagnosed) = {}
        <=> /\ s.status = "COMPLETE" /\ CountOf(s, Failed) = 0 /\ CountOf(s, Unknown) = 0
            /\ ~s.diagnosed
  BY <1>1, IneligibleSays
<1> QED  BY <1>3, <1>4, <1>5 DEF HasCompleteCapture

LEMMA SnapshotVerdict ==
  ASSUME NEW a, NEW s, IsSnapshot(s), SnapshotAccepted(s), NEW aliases, Resolved(s, aliases)
  PROVE  VerifySnapshot(a, s, aliases).status = Verify(a, From(s, aliases, a.policy)).status
<1> DEFINE c == From(s, aliases, a.policy)
           L1 == Level("INCOMPATIBLE", CompatibilityFindings(a, 1, s.operation))
           L2 == Level("NOT_ELIGIBLE", NotEligibleFindings(s.status, CountOf(s, Failed),
                                                           CountOf(s, Unknown), s.diagnosed))
           L3 == Verify(a, c)
           levels == <<L1, L2, L3>>
<1>1. VerifySnapshot(a, s, aliases) = FirstFailing(levels)
  BY DEF VerifySnapshot
<1>2. /\ L1.status = "INCOMPATIBLE" /\ L2.status = "NOT_ELIGIBLE"
      /\ L1.findings = Incompatible(a, c)
      /\ L2.findings = {} <=> Ineligible(c) = {}
  <2>1. c.schema = 1 /\ c.operation = s.operation
    BY DEF From
  <2>2. Incompatible(a, c) = CompatibilityFindings(a, 1, s.operation)
    BY <2>1, Zenon DEF Incompatible
  <2> HIDE DEF c
  <2> QED  BY <2>2, SnapshotIneligible DEF Level, c
<1>3. L3.status = Verdict(a, c) /\ L3.findings # {}
  BY VerifyDecides
<1> HIDE DEF L1, L2, L3, c
<1>4. DOMAIN levels = 1 .. 3 /\ levels[1] = L1 /\ levels[2] = L2 /\ levels[3] = L3
  OBVIOUS
<1> HIDE DEF levels
<1>5. \A i \in 1 .. 3 :
        levels[i].findings # {} /\ (\A j \in 1 .. 3 : levels[j].findings # {} => i <= j)
          => FirstFailing(levels) = levels[i]
  BY <1>4, LevelDecides
<1>6. CASE L1.findings # {}
  <2>1. FirstFailing(levels) = L1
    BY <1>4, <1>5, <1>6
  <2> QED  BY <1>1, <1>2, <1>3, <1>6, <2>1 DEF Verdict, L3, c
<1>7. CASE L1.findings = {} /\ L2.findings # {}
  <2>1. FirstFailing(levels) = L2
    BY <1>4, <1>5, <1>7
  <2> QED  BY <1>1, <1>2, <1>3, <1>7, <2>1 DEF Verdict, L3, c
<1>8. CASE L1.findings = {} /\ L2.findings = {}
  <2>1. FirstFailing(levels) = L3
    BY <1>3, <1>4, <1>5, <1>8
  <2> QED  BY <1>1, <2>1 DEF L3, c
<1> QED  BY <1>6, <1>7, <1>8

-----------------------------------------------------------------------------
(***************************************************************************)
(* What a review has read, what a test has judged, and what was reported.  *)
(***************************************************************************)
Places == {"start", "candidate", "compare", "fill", "end"}

JudgedWell(j) ==
  /\ j.approved \in Manifests /\ Decodable(Document[j.approved])
  /\ j.snapshot \in Snapshots /\ SnapshotAccepted(j.snapshot) /\ AliasesAccepted(j.aliases)
  /\ j.status = VerifySnapshot(Manifest(j.approved), j.snapshot, j.aliases).status

(* Both manifests have been decoded where the review is past reading them. *)
ReadInv ==
  /\ review \in [at : Places, baseline : Manifests \cup {"none"},
                 candidate : Manifests \cup {"none"}, exit : {-1, 0, 1, 2}]
  /\ \A m \in {review.baseline, review.candidate} \ {"none"} : Decodable(Document[m])
  /\ review.at \in {"candidate", "compare", "fill"} => review.baseline # "none"
  /\ review.at \in {"compare", "fill"} => review.candidate # "none"
  /\ review.candidate # "none" => review.baseline # "none"
  /\ \A j \in judged : JudgedWell(j)

(* A report is whole exactly when the review has ended with its verdict.   *)
ReportInv ==
  /\ review.at = "end" <=> review.exit # -1
  /\ review.exit \in {0, 1} => review.candidate # "none" /\ review.exit = Findings.exit
  /\ review.exit \in {0, 1} <=> report = "written"

(* A call writes a document that was made from a snapshot, and stages it   *)
(* only when it can be encoded.                                            *)
WriterInv ==
  \A w \in Writers :
    /\ pc[w] # "idle" => manifest[w] \in Writable
    /\ pc[w] \in {"flush", "confirm", "move"} => Encodable(Document[manifest[w]])

LEMMA ReadInit ==
  ASSUME ReviewInit
  PROVE  ReadInv /\ ReportInv
<1>1. /\ review = [at |-> "start", baseline |-> "none", candidate |-> "none", exit |-> -1]
      /\ report = "absent" /\ judged = {}
  BY DEF ReviewInit
<1> QED  BY <1>1 DEF ReadInv, ReportInv, Places

(* What a path shows when it can be read.                                  *)
LEMMA ReadableSays ==
  ASSUME NEW n, Readable(n)
  PROVE  Content(n) \in Manifests /\ Content(n) # "none" /\ Decodable(Document[Content(n)])
BY ReviewAssumption DEF Readable, ReviewAssumption

LEMMA ReadStep ==
  ASSUME ReadInv, [ReviewNext]_reviewVars
  PROVE  ReadInv'
<1> USE DEF Places
<1>1. CASE UNCHANGED <<review, judged>>
  BY <1>1 DEF ReadInv, JudgedWell, Manifest
<1>2. CASE ReadBaseline
  <2>1. judged' = judged
    BY <1>2 DEF ReadBaseline
  <2>2. CASE Readable("approved") /\
             review' = [review EXCEPT !.at = "candidate", !.baseline = Content("approved")]
    <3> DEFINE m == Content("approved")
    <3>1. m \in Manifests /\ m # "none" /\ Decodable(Document[m])
      BY <2>2, ReadableSays
    <3> HIDE DEF m
    <3>2. /\ review'.baseline = m /\ review'.candidate = review.candidate
          /\ review'.at = "candidate"
          /\ review' \in [at : Places, baseline : Manifests \cup {"none"},
                          candidate : Manifests \cup {"none"}, exit : {-1, 0, 1, 2}]
      BY <2>2, <3>1 DEF ReadInv, m
    <3> QED  BY <2>1, <3>1, <3>2 DEF ReadInv, JudgedWell, Manifest
  <2>3. CASE FailReview
    BY <2>1, <2>3 DEF FailReview, EndReview, ReadInv, JudgedWell, Manifest
  <2> QED  BY <1>2, <2>2, <2>3 DEF ReadBaseline
<1>3. CASE ReadCandidate
  <2>1. judged' = judged /\ review.at = "candidate"
    BY <1>3 DEF ReadCandidate, ReviewAt
  <2>2. CASE Readable("candidate") /\
             review' = [review EXCEPT !.at = "compare", !.candidate = Content("candidate")]
    <3> DEFINE m == Content("candidate")
    <3>1. m \in Manifests /\ m # "none" /\ Decodable(Document[m])
      BY <2>2, ReadableSays
    <3> HIDE DEF m
    <3>2. /\ review'.candidate = m /\ review'.baseline = review.baseline
          /\ review'.at = "compare"
          /\ review' \in [at : Places, baseline : Manifests \cup {"none"},
                          candidate : Manifests \cup {"none"}, exit : {-1, 0, 1, 2}]
      BY <2>2, <3>1 DEF ReadInv, m
    <3> QED  BY <2>1, <3>1, <3>2 DEF ReadInv, JudgedWell, Manifest
  <2>3. CASE FailReview
    BY <2>1, <2>3 DEF FailReview, EndReview, ReadInv, JudgedWell, Manifest
  <2> QED  BY <1>3, <2>2, <2>3 DEF ReadCandidate
<1>4. CASE CreateReport
  <2>1. judged' = judged /\ review.at = "compare"
    BY <1>4 DEF CreateReport, ReviewAt
  <2>2. CASE review' = [review EXCEPT !.at = "fill"]
    BY <2>1, <2>2 DEF ReadInv, JudgedWell, Manifest
  <2>3. CASE FailReview
    BY <2>1, <2>3 DEF FailReview, EndReview, ReadInv, JudgedWell, Manifest
  <2> QED  BY <1>4, <2>2, <2>3 DEF CreateReport
<1>5. CASE FillReport
  <2>1. judged' = judged /\ review.at = "fill"
    BY <1>5 DEF FillReport, ReviewAt
  <2>2. \E status \in {0, 1, 2} : review' = EndReview(status)
    BY <1>5 DEF FillReport, FailReview, Findings, Report
  <2> QED  BY <2>1, <2>2 DEF EndReview, ReadInv, JudgedWell, Manifest
<1>6. ASSUME NEW s \in Snapshots, NEW aliases \in AliasMaps, Judge(s, aliases)
      PROVE  ReadInv'
  <2> DEFINE m == Content("approved")
             j == [approved |-> m, snapshot |-> s, aliases |-> aliases,
                   status |-> VerifySnapshot(Manifest(m), s, aliases).status]
  <2>1. review' = review /\ judged' = {j}
    BY <1>6 DEF Judge
  <2>2. /\ j.approved = m /\ j.snapshot = s /\ j.aliases = aliases
        /\ j.status = VerifySnapshot(Manifest(m), s, aliases).status
    OBVIOUS
  <2>3. m \in Manifests /\ Decodable(Document[m])
    BY <1>6, ReadableSays DEF Judge
  <2>4. SnapshotAccepted(s) /\ AliasesAccepted(aliases)
    BY <1>6 DEF Judge
  <2> HIDE DEF j, m
  <2>5. JudgedWell(j)
    BY <2>2, <2>3, <2>4, Zenon DEF JudgedWell
  <2>6. \A k \in judged' : JudgedWell(k)
    BY <2>1, <2>5
  <2> QED  BY <2>1, <2>6 DEF ReadInv, JudgedWell, Manifest
<1>7. OutputAppears => UNCHANGED <<review, judged>>
  BY DEF OutputAppears
<1> QED  BY <1>1, <1>2, <1>3, <1>4, <1>5, <1>6, <1>7 DEF ReviewNext, ReviewStep, reviewVars

LEMMA ReportStep ==
  ASSUME ReadInv, ReportInv, [ReviewNext]_reviewVars
  PROVE  ReportInv'
<1>1. Findings.exit \in {0, 1}
  BY DEF Findings, Report
<1>2. review.exit \in {-1, 0, 1, 2} /\ review.at \in Places
  BY DEF ReadInv
<1>3. CASE UNCHANGED <<review, report>>
  BY <1>3 DEF ReportInv, Findings, Manifest
<1>4. ASSUME review.at # "end", report' = report, review'.exit = -1, review'.at # "end"
      PROVE  ReportInv'
  BY <1>2, <1>4 DEF ReportInv
<1>5. ASSUME review.at # "end", FailReview
      PROVE  ReportInv'
  BY <1>2, <1>5 DEF ReportInv, FailReview, EndReview, ReadInv
<1>6. CASE ReadBaseline \/ ReadCandidate
  <2>1. review.at \in {"start", "candidate"} /\ review.exit = -1
    BY <1>2, <1>6 DEF ReadBaseline, ReadCandidate, ReviewAt, ReportInv
  <2>2. \/ FailReview
        \/ report' = report /\ review'.exit = -1 /\ review'.at \in {"candidate", "compare"}
    BY <1>6, <2>1 DEF ReadBaseline, ReadCandidate, ReadInv
  <2> QED  BY <1>4, <1>5, <2>1, <2>2
<1>7. CASE CreateReport
  <2>1. review.at = "compare" /\ review.exit = -1
    BY <1>2, <1>7 DEF CreateReport, ReviewAt, ReportInv
  <2>2. CASE FailReview
    BY <1>5, <2>1, <2>2
  <2>3. CASE report' = "partial" /\ review' = [review EXCEPT !.at = "fill"]
    BY <2>1, <2>3 DEF ReportInv, ReadInv
  <2> QED  BY <1>7, <2>2, <2>3 DEF CreateReport
<1>8. CASE FillReport
  <2>1. review.at = "fill" /\ review.candidate # "none"
    BY <1>8 DEF FillReport, ReviewAt, ReadInv
  <2>2. CASE FailReview
    BY <1>5, <2>1, <2>2
  <2>3. CASE report' = "written" /\ review' = EndReview(Findings.exit)
    <3> DEFINE e == Findings.exit
    <3>1. e \in {0, 1}
      BY <1>1
    <3>2. /\ review'.exit = e /\ review'.at = "end" /\ review'.baseline = review.baseline
          /\ review'.candidate = review.candidate
      BY <2>3 DEF EndReview, ReadInv
    <3>3. Findings'.exit = e
      BY <3>2 DEF Findings, Manifest
    <3> HIDE DEF e
    <3> QED  BY <2>1, <2>3, <3>1, <3>2, <3>3 DEF ReportInv
  <2> QED  BY <1>8, <2>2, <2>3 DEF FillReport
<1>9. CASE OutputAppears
  <2>1. review' = review /\ review.exit = -1 /\ report' = "other"
    BY <1>9 DEF OutputAppears
  <2> QED  BY <2>1 DEF ReportInv
<1>10. ASSUME NEW s, NEW aliases, Judge(s, aliases)
       PROVE  UNCHANGED <<review, report>>
  BY <1>10 DEF Judge
<1> QED  BY <1>3, <1>6, <1>7, <1>8, <1>9, <1>10 DEF ReviewNext, ReviewStep, reviewVars

(* What a review has read was decoded, so its counts are those of its      *)
(* entries and each signature is there once.                               *)
LEMMA ReadIsExact ==
  ASSUME ReadInv
  PROVE  DecodedIsExact
<1> SUFFICES ASSUME NEW m \in {review.baseline, review.candidate} \ {"none"}
    PROVE  LET d == Document[m]
               times == [i \in DOMAIN d.entries |-> d.entries[i].times]
               SumOf(outcomes) ==
                 Cardinality(Copies(times, {i \in DOMAIN times :
                                              d.entries[i].outcome \in outcomes}))
           IN /\ d.counts.total = SumOf(AllOutcomes) /\ d.counts.total \in 0 .. Ceiling
              /\ d.counts.total = d.counts.returned + d.counts.failed + d.counts.unknown
              /\ d.status = "COMPLETE" =>
                   d.counts.returned = SumOf({Returned}) /\ d.counts.total > 0
              /\ \A i, j \in DOMAIN d.entries :
                   Signature(d.entries[i]) = Signature(d.entries[j]) => i = j
  BY DEF DecodedIsExact
<1> DEFINE d == Document[m]
           v == ValueOf(d)
           times == [i \in DOMAIN d.entries |-> d.entries[i].times]
           SumOf(outcomes) ==
             Cardinality(Copies(times, {i \in DOMAIN times : d.entries[i].outcome \in outcomes}))
<1>1. m \in Manifests /\ Decodable(d) /\ IsDocument(d)
  BY ReviewAssumption DEF ReadInv, ReviewAssumption
<1>2. v.counts = d.counts /\ v.status = d.status
  BY DEF ValueOf
<1> HIDE DEF d
<1>3. Sound(v) /\ Accepted(v) /\ Distinct(d)
  BY <1>1, DecodedSound
<1>4. \A outcomes : SumOf(outcomes) = Sum(v.bag, outcomes)
  BY <1>1, DecodedSums
<1>5. v.counts.total <= Ceiling /\ StatusFits(v.status, v.counts)
  BY <1>3 DEF Accepted
<1>6. v.counts.returned = Sum(v.bag, {Returned})
  BY <1>3 DEF Sound, Recomputed
<1> HIDE DEF v, SumOf
<1>7. /\ v.counts.total = Sum(v.bag, AllOutcomes) /\ v.counts.total \in Nat
      /\ v.counts.total = v.counts.returned + v.counts.failed + v.counts.unknown
  BY <1>3, CountsSay
<1>8. v.status = "COMPLETE" => v.counts.total > 0
  BY <1>5, <1>7 DEF StatusFits
<1>9. \A i, j \in DOMAIN d.entries :
        Signature(d.entries[i]) = Signature(d.entries[j]) => i = j
  BY <1>1, <1>3, DistinctEntries
<1>10. v.counts.total \in 0 .. Ceiling
  BY <1>5, <1>7, ValueAssumption DEF ValueAssumption
<1>11. v.counts.total = SumOf(AllOutcomes) /\ v.counts.returned = SumOf({Returned})
  BY <1>4, <1>6, <1>7
<1> QED  BY <1>2, <1>7, <1>8, <1>9, <1>10, <1>11 DEF d, SumOf

LEMMA ReadAreSound ==
  ASSUME ReadInv
  PROVE  /\ review.candidate # "none" => /\ Sound(Manifest(review.baseline))
                                         /\ Sound(Manifest(review.candidate))
         /\ \A j \in judged :
              /\ Sound(Manifest(j.approved)) /\ IsSnapshot(j.snapshot)
              /\ SnapshotAccepted(j.snapshot) /\ AliasesAccepted(j.aliases)
              /\ j.status = VerifySnapshot(Manifest(j.approved), j.snapshot, j.aliases).status
<1>1. \A m \in Manifests : Decodable(Document[m]) => Sound(Manifest(m))
  BY DecodedSound, ReviewAssumption DEF Manifest, ReviewAssumption
<1>2. ASSUME review.candidate # "none"
      PROVE  Sound(Manifest(review.baseline)) /\ Sound(Manifest(review.candidate))
  <2>1. /\ review.baseline \in Manifests /\ review.candidate \in Manifests
        /\ Decodable(Document[review.baseline]) /\ Decodable(Document[review.candidate])
    BY <1>2 DEF ReadInv
  <2> QED  BY <1>1, <2>1
<1>3. \A s \in Snapshots : IsSnapshot(s)
  BY ReviewAssumption DEF ReviewAssumption
<1>4. \A j \in judged : JudgedWell(j)
  BY DEF ReadInv
<1> QED  BY <1>1, <1>2, <1>3, <1>4 DEF JudgedWell

LEMMA VerdictsAreEquivalences ==
  ASSUME ReadInv
  PROVE  VerdictIsEquivalence
<1>1. ASSUME review.candidate # "none"
      PROVE  LET a == Manifest(review.baseline)
                 c == Manifest(review.candidate)
             IN /\ Matched(Verify(a, c)) <=> Matches(a, c)
                /\ PassesBlockingChecks(Verify(a, c)) <=>
                     Matches(a, c) \/ (~a.policy.exact /\ MatchesUpToShapes(a, c))
  BY <1>1, ReadAreSound, VerdictOfVerify
<1>2. ASSUME NEW j \in judged, Resolved(j.snapshot, j.aliases)
      PROVE  LET a == Manifest(j.approved)
                 c == From(j.snapshot, j.aliases, a.policy)
             IN j.status = Verify(a, c).status /\ (j.status = "MATCH" <=> Matches(a, c))
  <2> DEFINE a == Manifest(j.approved)
             c == From(j.snapshot, j.aliases, a.policy)
  <2>1. /\ Sound(a) /\ IsSnapshot(j.snapshot) /\ SnapshotAccepted(j.snapshot)
        /\ j.status = VerifySnapshot(a, j.snapshot, j.aliases).status
    BY ReadAreSound
  <2> HIDE DEF a
  <2>2. j.status = Verify(a, c).status
    BY <1>2, <2>1, SnapshotVerdict
  <2>3. Sound(c)
    BY <2>1, SnapshotSound DEF Sound
  <2> HIDE DEF c
  <2>4. Matched(Verify(a, c)) <=> Matches(a, c)
    BY <2>1, <2>3, VerdictOfVerify
  <2> QED  BY <2>2, <2>4 DEF Matched, a, c
<1> QED  BY <1>1, <1>2 DEF VerdictIsEquivalence

(* Distinct names have distinct aliases, so counting one counts the other. *)
LEMMA AliasesMatchNames ==
  ASSUME NEW s, IsSnapshot(s), NEW aliases, AliasesAccepted(aliases), Resolved(s, aliases),
         NEW policy
  PROVE  /\ AliasesOf(From(s, aliases, policy).bag) = {aliases[n] : n \in ObservedNames(s)}
         /\ From(s, aliases, policy).counts.names = Cardinality(ObservedNames(s))
<1> DEFINE bag == BagOf(s, aliases)
           key == [i \in DOMAIN s.attempts |-> Structural(s.attempts[i], aliases)]
           images == {aliases[n] : n \in ObservedNames(s)}
           to == [n \in ObservedNames(s) |-> aliases[n]]
           name == [i \in DOMAIN s.attempts |-> s.attempts[i].name]
<1>1. AliasesOf(bag) = images
  <2>1. DOMAIN bag = {key[i] : i \in DOMAIN s.attempts}
    BY DEF BagOf
  <2>2. \A i \in DOMAIN s.attempts : key[i].alias = aliases[s.attempts[i].name]
    BY DEF Structural
  <2> HIDE DEF bag, key
  <2> QED  BY <2>1, <2>2 DEF AliasesOf, ObservedNames
<1>2. From(s, aliases, policy).bag = bag
  BY DEF From
<1>3. From(s, aliases, policy).counts.names = Cardinality(images)
  BY SnapshotCounts
<1>4. name \in Surjection(DOMAIN s.attempts, ObservedNames(s))
  BY DEF Surjection, ObservedNames
<1>5. IsFiniteSet(ObservedNames(s))
  BY <1>4, AttemptsListed, FS_Surjection
<1>6. to \in Bijection(ObservedNames(s), images)
  BY DEF Bijection, Injection, IsInjective, Surjection, AliasesAccepted, Resolved
<1>7. Cardinality(images) = Cardinality(ObservedNames(s))
  <2> HIDE DEF images, to
  <2> QED  BY <1>5, <1>6, FS_Bijection DEF ExistsBijection
<1> QED  BY <1>1, <1>2, <1>3, <1>7

LEMMA AssertionsSayTheSame ==
  ASSUME ReadInv
  PROVE  AssertionsAgree
<1> SUFFICES ASSUME NEW j \in judged, Resolved(j.snapshot, j.aliases),
                    j.status # "INCOMPATIBLE"
    PROVE  LET s == j.snapshot
               a == Manifest(j.approved)
               names == {n \in DOMAIN j.aliases : j.aliases[n] \in AliasesOf(a.bag)}
           IN /\ HasCompleteCapture(s) <=> j.status # "NOT_ELIGIBLE"
              /\ HasAtMostAttempts(s, a.policy.attempts) /\ HasAtMostNames(s, a.policy.names)
                   <=> j.status \notin {"NOT_ELIGIBLE", "POLICY_VIOLATION"}
              /\ j.status = "MATCH" =>
                   /\ HasExactlyAttempts(s, a.counts.total) /\ HasNoReportedFailures(s)
                   /\ ObservesExactly(s, names) /\ ObservesOnly(s, names)
  BY DEF AssertionsAgree
<1> DEFINE s == j.snapshot
           aliases == j.aliases
           a == Manifest(j.approved)
           c == From(s, aliases, a.policy)
           names == {n \in DOMAIN aliases : aliases[n] \in AliasesOf(a.bag)}
<1>1. /\ Sound(a) /\ IsSnapshot(s) /\ SnapshotAccepted(s) /\ AliasesAccepted(aliases)
      /\ j.status = VerifySnapshot(a, s, aliases).status
  BY ReadAreSound
<1>2. Resolved(s, aliases) /\ j.status # "INCOMPATIBLE"
  OBVIOUS
<1> HIDE DEF a, s, aliases
<1>3. j.status = Verify(a, c).status
  BY <1>1, <1>2, SnapshotVerdict
<1>4. Sound(c)
  BY <1>1, SnapshotSound DEF Sound
<1>5. HasCompleteCapture(s) <=> Ineligible(c) = {}
  BY <1>1, SnapshotIneligible
<1>6. /\ c.counts.total = Len(s.attempts) /\ c.counts.names = Cardinality(ObservedNames(s))
      /\ AliasesOf(c.bag) = {aliases[n] : n \in ObservedNames(s)}
  <2>1. c.counts.total = Len(s.attempts)
    BY <1>1, SnapshotCounts
  <2>2. /\ AliasesOf(c.bag) = {aliases[n] : n \in ObservedNames(s)}
        /\ c.counts.names = Cardinality(ObservedNames(s))
    BY <1>1, <1>2, AliasesMatchNames, Zenon
  <2> HIDE DEF c
  <2> QED  BY <2>1, <2>2
<1>7. /\ a.policy.attempts \in Int /\ a.policy.names \in Int
      /\ c.counts.total \in Int /\ c.counts.names \in Int
  BY <1>1, <1>4, CountsSay, ValueAssumption DEF Sound, IsPolicy, Ints, ValueAssumption
<1> HIDE DEF c
<1>8. OverBudget(a, c) = {} <=>
        c.counts.total <= a.policy.attempts /\ c.counts.names <= a.policy.names
  BY <1>7, OverBudgetSays DEF OverBudget
<1>9. /\ Incompatible(a, c) = {}
      /\ j.status = "NOT_ELIGIBLE" <=> Ineligible(c) # {}
      /\ j.status \in {"NOT_ELIGIBLE", "POLICY_VIOLATION"} <=>
           Ineligible(c) # {} \/ OverBudget(a, c) # {}
  BY <1>1, <1>2, <1>3, <1>4, VerdictOfVerify
<1>10. HasCompleteCapture(s) <=> j.status # "NOT_ELIGIBLE"
  BY <1>5, <1>9
<1>11. HasAtMostAttempts(s, a.policy.attempts) /\ HasAtMostNames(s, a.policy.names)
         <=> j.status \notin {"NOT_ELIGIBLE", "POLICY_VIOLATION"}
  BY <1>5, <1>6, <1>8, <1>9 DEF HasAtMostAttempts, HasAtMostNames
<1>12. ASSUME j.status = "MATCH"
       PROVE  /\ HasExactlyAttempts(s, a.counts.total) /\ HasNoReportedFailures(s)
              /\ ObservesExactly(s, names) /\ ObservesOnly(s, names)
  <2>1. HasCompleteCapture(s)
    BY <1>10, <1>12
  <2>2. a.bag = c.bag
    <3>1. Matched(Verify(a, c)) <=> Matches(a, c)
      BY <1>1, <1>4, VerdictOfVerify
    <3>2. Matched(Verify(a, c))
      BY <1>3, <1>12 DEF Matched
    <3> QED  BY <3>1, <3>2 DEF Matches
  <2>3. a.counts.total = Len(s.attempts)
    BY <1>1, <1>4, <1>6, <2>2, CountsSay
  <2>4. names = ObservedNames(s)
    BY <1>1, <1>2, <1>6, <2>2 DEF AliasesAccepted, Resolved
  <2> HIDE DEF names
  <2> QED  BY <2>1, <2>3, <2>4 DEF HasExactlyAttempts, HasNoReportedFailures,
                                   HasCompleteCapture, ObservesExactly, ObservesOnly
<1> QED  BY <1>10, <1>11, <1>12 DEF s, a, aliases

-----------------------------------------------------------------------------
(***************************************************************************)
(* The theorems about what is read.                                        *)
(***************************************************************************)
LEMMA AlwaysRead == ReviewSpec => [](ReadInv /\ ReportInv)
<1>1. ReviewInit => ReadInv /\ ReportInv
  BY ReadInit
<1>2. (ReadInv /\ ReportInv) /\ [ReviewNext]_reviewVars => (ReadInv /\ ReportInv)'
  BY ReadStep, ReportStep
<1> QED  BY <1>1, <1>2, PTL DEF ReviewSpec

(* Whatever the two files hold, and whatever calls write meanwhile: the    *)
(* counts of a manifest that a review has read are those of its entries,   *)
(* with no wrap of their sum, within the ceiling, each signature once.     *)
THEOREM ReadManifestsAreExact == ReviewSpec => []DecodedIsExact
<1>1. ReadInv => DecodedIsExact
  BY ReadIsExact
<1> QED  BY <1>1, AlwaysRead, PTL

(* For all manifests and snapshots: the verdict of the four levels is      *)
(* MATCH exactly when the same bag of executions was observed within its   *)
(* budgets, and passes besides only as the policy allows.                  *)
THEOREM VerdictIsExact == ReviewSpec => []VerdictIsEquivalence
<1>1. ReadInv => VerdictIsEquivalence
  BY VerdictsAreEquivalences
<1> QED  BY <1>1, AlwaysRead, PTL

(* For all snapshots, aliases and approved manifests: direct assertions    *)
(* and the verifier agree on evidence, on budgets and on a match.          *)
THEOREM AssertionsFollowVerdict == ReviewSpec => []AssertionsAgree
<1>1. ReadInv => AssertionsAgree
  BY AssertionsSayTheSame
<1> QED  BY <1>1, AlwaysRead, PTL

-----------------------------------------------------------------------------
(***************************************************************************)
(* What a call moves into place can be read: a manifest made from a        *)
(* snapshot is accepted, and its canonical form is what is read.           *)
(***************************************************************************)
LEMMA WrapSmall ==
  ASSUME NEW n \in Nat, n < IntLimit
  PROVE  Wrap(n) = n
<1>1. IntLimit \in Nat
  BY ValueAssumption DEF ValueAssumption
<1> DEFINE a == n + IntLimit
           b == 2 * IntLimit
<1>2. a \in Nat /\ b \in Nat \ {0} /\ a < b /\ a - IntLimit = n
  BY <1>1
<1>3. Wrap(n) = (a % b) - IntLimit
  BY DEF Wrap
<1> HIDE DEF a, b
<1>4. a % b = a
  BY <1>2
<1> QED  BY <1>2, <1>3, <1>4

LEMMA WrittenDecodes ==
  ASSUME NEW m \in Manifests, Written(m), Encodable(Document[m])
  PROVE  Decodable(Document[m])
<1> DEFINE d == Document[m]
<1>1. d.strict /\ d.bytes = d.canonical /\ Distinct(d) /\ d.canonical <= MaxBytes
  BY DEF Written, Encodable
<1>2. PICK s \in Snapshots, aliases \in AliasMaps, p \in Policies :
        /\ SnapshotAccepted(s) /\ AliasesAccepted(aliases) /\ Resolved(s, aliases)
        /\ ValueOf(d) = From(s, aliases, p)
  BY DEF Written
<1> DEFINE v == From(s, aliases, p)
           c == v.counts
<1>3. IsSnapshot(s) /\ IsPolicy(p) /\ PolicyAccepted(p)
  BY ReviewAssumption DEF ReviewAssumption
<1>4. Sound(v)
  BY <1>3, SnapshotSound
<1>5. v.schema = 1 /\ v.policy = p /\ v.status = s.status /\ c = Recomputed(v.bag)
  BY DEF From
<1>6. /\ c.total = Len(s.attempts) /\ c.failed = CountOf(s, Failed)
      /\ c.unknown = CountOf(s, Unknown)
  BY <1>3, SnapshotCounts
<1>7. Len(s.attempts) \in Nat /\ (Len(s.attempts) = 0 <=> s.attempts = <<>>)
  BY <1>3 DEF IsSnapshot
<1>8. Len(s.attempts) <= Ceiling /\ s.status = DerivedStatus(s) /\
      (s.status = "COMPLETE" => s.attempts # <<>>)
  BY <1>2 DEF SnapshotAccepted
<1>9. DOMAIN c = {"total", "returned", "failed", "unknown", "names"}
  BY <1>5 DEF Recomputed
<1> HIDE DEF v, c
<1>10. /\ c.total \in Nat /\ c.returned \in Nat /\ c.failed \in Nat /\ c.unknown \in Nat
       /\ c.names \in Nat /\ c.total = c.returned + c.failed + c.unknown
       /\ c.total = Sum(v.bag, AllOutcomes)
  BY <1>4, CountsSay DEF c
<1>11. c.total < IntLimit /\ c.total <= Ceiling
  BY <1>6, <1>8, <1>10, ValueAssumption DEF ValueAssumption
<1>12. CountsAccepted(c)
  <2>1. Wrap(c.returned + c.failed + c.unknown) = c.total
    BY <1>10, <1>11, WrapSmall
  <2>2. \A field \in DOMAIN c : c[field] >= 0
    BY <1>9, <1>10
  <2> QED  BY <2>1, <2>2 DEF CountsAccepted
<1>13. StatusFits(v.status, c)
  <2>1. s.status \in Statuses /\ CountOf(s, Failed) \in Nat /\ CountOf(s, Unknown) \in Nat
    BY <1>3, AttemptsListed DEF IsSnapshot
  <2>2. s.status = "COMPLETE" => CountOf(s, Failed) = 0 /\ CountOf(s, Unknown) = 0
    BY <1>8, <2>1, <1>3 DEF DerivedStatus, IsSnapshot
  <2>3. s.status = "REPORTED_EXECUTION_FAILURE" =>
          CountOf(s, Failed) # 0 /\ CountOf(s, Unknown) = 0
    BY <1>8, <2>1, <1>3 DEF DerivedStatus, IsSnapshot
  <2>4. CASE v.status = "COMPLETE"
    BY <1>5, <1>6, <1>7, <1>8, <2>2, <2>4 DEF StatusFits
  <2>5. CASE v.status = "REPORTED_EXECUTION_FAILURE"
    BY <1>5, <1>6, <2>3, <2>5 DEF StatusFits
  <2>6. CASE v.status = "INCOMPLETE"
    BY <2>6 DEF StatusFits
  <2> QED  BY <1>5, <2>1, <2>4, <2>5, <2>6 DEF Statuses
<1>14. \A g \in DOMAIN v.bag : v.bag[g] > 0
  BY <1>4 DEF Sound, SoundBag
<1>15. v.schema > 0 /\ PolicyAccepted(v.policy) /\ v.counts = Recomputed(v.bag)
  BY <1>3, <1>5 DEF c
<1>16. Accepted(v)
  BY <1>10, <1>11, <1>12, <1>13, <1>14, <1>15 DEF Accepted, c
<1> QED  BY <1>1, <1>2, <1>16 DEF Decodable, v

-----------------------------------------------------------------------------
(***************************************************************************)
(* The store under a review: its steps are those of ManifestStore, and a   *)
(* call whose manifest cannot be encoded gives up.                         *)
(***************************************************************************)
LEMMA StoreSteps ==
  ASSUME [ReviewNext]_reviewVars
  PROVE  UNCHANGED vars \/ Next \/ \E w \in Writers : EncodeFails(w)
<1>1. ASSUME ReviewStep  PROVE UNCHANGED vars
  BY <1>1 DEF ReviewStep, ReadBaseline, ReadCandidate, CreateReport, FillReport, OutputAppears
<1>2. ASSUME NEW s, NEW aliases, Judge(s, aliases)  PROVE UNCHANGED vars
  BY <1>2 DEF Judge
<1>3. ASSUME NEW w \in Writers, WriteStep(w)  PROVE Next \/ EncodeFails(w)
  <2>1. Writable \subseteq Manifests
    BY ReviewAssumption DEF Writable, ReviewAssumption
  <2> QED  BY <1>3, <2>1 DEF WriteStep, Next
<1>4. Approve => Next
  BY DEF Next
<1> QED  BY <1>1, <1>2, <1>3, <1>4 DEF ReviewNext, reviewVars

LEMMA EncodeFailsKeeps ==
  ASSUME TypeInv, ProtectedInv, NEW w \in Writers, EncodeFails(w)
  PROVE  TypeInv' /\ ProtectedInv' /\ reviewed' = reviewed
<1>1. /\ pc[w] = "stage" /\ Goto(w, "idle") /\ UNCHANGED <<fileVars, temp>>
  BY DEF EncodeFails, Inspect
<1>2. pc' = [pc EXCEPT ![w] = "idle"] /\ UNCHANGED <<layout, reviewed, dir, data>>
  BY <1>1 DEF Goto, fileVars
<1>3. TypeInv'
  BY <1>1, ReadSteps DEF Labels
<1>4. ApprovedInv
  BY <1>1 DEF ProtectedInv, OneLeafInv
<1>5. ApprovedIsReviewed'
  BY <1>2, <1>4, ShownKept
<1>6. LinkStopsCalls'
  BY <1>2, <1>4 DEF ApprovedInv, LinkStopsCalls, TypeInv, TypeOK
<1> QED  BY <1>2, <1>3, <1>4, <1>5, <1>6 DEF ProtectedInv, ApprovedInv

LEMMA StoreKept ==
  ASSUME TypeInv, ProtectedInv, [ReviewNext]_reviewVars
  PROVE  TypeInv' /\ ProtectedInv' /\ reviewed \subseteq reviewed'
<1>1. ASSUME [Next]_vars  PROVE TypeInv' /\ ProtectedInv'
  BY <1>1, TypeStep, ApprovedStep, OneLeafStep, StoreAssumption DEF ProtectedInv
<1>2. ASSUME [Next]_vars  PROVE reviewed \subseteq reviewed'
  BY <1>2 DEF Next, vars, Begin, Check, Look, Probe, Recheck, Compare, Unprobe, Stage, Flush,
     Confirm, Move, Cleanup, Fail, Crash, Approve, Inspect, Goto
<1> QED  BY <1>1, <1>2, StoreSteps, EncodeFailsKeeps

LEMMA WriterStep ==
  ASSUME TypeInv, WriterInv, [ReviewNext]_reviewVars
  PROVE  WriterInv'
<1>a. pc \in [Writers -> Labels] /\ manifest \in [Writers -> Manifests]
  BY DEF TypeInv, TypeOK
<1>1. ASSUME UNCHANGED <<pc, manifest>>  PROVE WriterInv'
  BY <1>1 DEF WriterInv
<1>2. ASSUME NEW w \in Writers, manifest' = manifest,
             NEW label, pc' = [pc EXCEPT ![w] = label],
             label # "idle" => pc[w] # "idle",
             label \in {"flush", "confirm", "move"} =>
               pc[w] \in {"flush", "confirm"} \/ Encodable(Document[manifest[w]])
      PROVE  WriterInv'
  BY <1>a, <1>2 DEF WriterInv
<1>3. ASSUME NEW w \in Writers, WriteStep(w)
      PROVE  WriterInv'
  <2>1. ASSUME NEW m \in Writable, Begin(w, m)  PROVE WriterInv'
    BY <1>a, <2>1 DEF Begin, WriterInv
  <2>2. CASE Encodable(Document[manifest[w]]) /\ Stage(w)
    BY <1>2, <2>2 DEF Stage, Goto
  <2>3. CASE \/ EncodeFails(w) \/ Check(w) \/ Look(w) \/ Recheck(w) \/ Compare(w)
             \/ Confirm(w)
    BY <1>2, <2>3 DEF EncodeFails, Check, Look, Recheck, Compare, Confirm, Inspect, Goto
  <2>4. CASE Probe(w) \/ Unprobe(w) \/ Flush(w) \/ Move(w) \/ Cleanup(w)
    BY <1>2, <2>4 DEF Probe, Unprobe, Flush, Move, Cleanup, Goto
  <2>5. CASE Fail(w)
    <3>1. /\ pc' = [pc EXCEPT ![w] = Finally(pc[w])] /\ manifest' = manifest
          /\ pc[w] \in Labels \ {"idle", "unprobe", "refuse", "cleanup"}
      BY <1>a, <2>5 DEF Fail, Inspect, Goto
    <3>2. Finally(pc[w]) \notin {"flush", "confirm", "move"}
      BY <3>1 DEF Finally, Labels
    <3> QED  BY <1>2, <3>1, <3>2
  <2>6. CASE Crash(w)
    BY <1>2, <2>6 DEF Crash
  <2> QED  BY <1>3, <2>1, <2>2, <2>3, <2>4, <2>5, <2>6 DEF WriteStep
<1>4. ASSUME \/ ReviewStep \/ Approve
             \/ \E s \in Snapshots, aliases \in AliasMaps : Judge(s, aliases)
             \/ UNCHANGED reviewVars
      PROVE  UNCHANGED <<pc, manifest>>
  BY <1>4 DEF ReviewStep, ReadBaseline, ReadCandidate, CreateReport, FillReport, OutputAppears,
     Judge, Approve, vars, callVars, reviewVars
<1> QED  BY <1>1, <1>3, <1>4 DEF ReviewNext

-----------------------------------------------------------------------------
(***************************************************************************)
(* The numbers of a report.                                                *)
(***************************************************************************)
LEMMA FewFinite ==
  ASSUME NEW S, NEW a, NEW b, NEW c, NEW d, S = {a, b, c, d}
  PROVE  IsFiniteSet(S)
<1>1. IsFiniteSet({a}) /\ IsFiniteSet({b}) /\ IsFiniteSet({c}) /\ IsFiniteSet({d})
  BY FS_Singleton
<1>2. IsFiniteSet({a} \cup {b}) /\ IsFiniteSet({c} \cup {d})
  BY <1>1, FS_Union
<1>3. IsFiniteSet(({a} \cup {b}) \cup ({c} \cup {d}))
  BY <1>2, FS_Union
<1>4. ({a} \cup {b}) \cup ({c} \cup {d}) = S
  OBVIOUS
<1> QED  BY <1>3, <1>4

LEMMA BlockingFinite ==
  ASSUME NEW holds, IsFiniteSet(DOMAIN holds)
  PROVE  IsFiniteSet(Blocking(holds))
<1> DEFINE codes == {k \in DOMAIN holds : holds[k]}
           to == [k \in codes |-> Finding(k, "BLOCKING", NoSignature)]
<1>1. IsFiniteSet(codes)
  BY FS_Subset
<1>2. to \in Surjection(codes, Blocking(holds))
  BY DEF Surjection, Blocking
<1> QED  BY <1>1, <1>2, FS_Surjection

LEMMA FindingsFinite ==
  ASSUME NEW a, NEW c, Sound(a), Sound(c)
  PROVE  IsFiniteSet(Verify(a, c).findings)
<1>1. IsFiniteSet(Incompatible(a, c))
  <2> DEFINE holds == [UNSUPPORTED_SCHEMA |-> a.schema # 1 \/ c.schema # 1,
                       OPERATION_ID_MISMATCH |-> a.operation # c.operation,
                       APPROVED_MANIFEST_NOT_ELIGIBLE |-> ~Eligible(a)]
  <2>1. DOMAIN holds = {"UNSUPPORTED_SCHEMA", "OPERATION_ID_MISMATCH",
                        "APPROVED_MANIFEST_NOT_ELIGIBLE", "APPROVED_MANIFEST_NOT_ELIGIBLE"}
    OBVIOUS
  <2>2. Incompatible(a, c) = Blocking(holds)
    BY DEF Incompatible, CompatibilityFindings
  <2>3. IsFiniteSet(DOMAIN holds)
    <3> HIDE DEF holds
    <3> QED  BY <2>1, FewFinite
  <2> HIDE DEF holds
  <2> QED  BY <2>2, <2>3, BlockingFinite
<1>2. IsFiniteSet(Ineligible(c))
  <2> DEFINE incomplete == c.status = "INCOMPLETE" \/ c.counts.unknown # 0 \/ FALSE
             holds == [CAPTURE_INCOMPLETE |-> incomplete,
                       CALLBACK_FAILURE_NOT_ELIGIBLE |->
                         ~incomplete /\ (\/ c.status = "REPORTED_EXECUTION_FAILURE"
                                         \/ c.counts.failed # 0)]
  <2>1. DOMAIN holds = {"CAPTURE_INCOMPLETE", "CALLBACK_FAILURE_NOT_ELIGIBLE",
                        "CALLBACK_FAILURE_NOT_ELIGIBLE", "CALLBACK_FAILURE_NOT_ELIGIBLE"}
    OBVIOUS
  <2>2. Ineligible(c) = Blocking(holds)
    BY DEF Ineligible, NotEligibleFindings
  <2>3. IsFiniteSet(DOMAIN holds)
    <3> HIDE DEF holds
    <3> QED  BY <2>1, FewFinite
  <2> HIDE DEF holds
  <2> QED  BY <2>2, <2>3, BlockingFinite
<1>3. IsFiniteSet(OverBudget(a, c))
  <2> DEFINE holds == [ATTEMPT_BUDGET_EXCEEDED |-> c.counts.total > a.policy.attempts,
                       DATA_SOURCE_BUDGET_EXCEEDED |-> c.counts.names > a.policy.names]
  <2>1. DOMAIN holds = {"ATTEMPT_BUDGET_EXCEEDED", "DATA_SOURCE_BUDGET_EXCEEDED",
                        "DATA_SOURCE_BUDGET_EXCEEDED", "DATA_SOURCE_BUDGET_EXCEEDED"}
    OBVIOUS
  <2>2. OverBudget(a, c) = Blocking(holds)
    BY DEF OverBudget, PolicyFindings
  <2>3. IsFiniteSet(DOMAIN holds)
    <3> HIDE DEF holds
    <3> QED  BY <2>1, FewFinite
  <2> HIDE DEF holds
  <2> QED  BY <2>2, <2>3, BlockingFinite
<1>4. IsFiniteSet(Drift(a, c))
  <2> DEFINE holds ==
        [POLICY_CHANGED |-> a.policy # c.policy,
         OBSERVED_ATTEMPT_COUNT_CHANGED |-> a.counts.total # c.counts.total,
         OBSERVED_DATA_SOURCE_SET_CHANGED |-> AliasesOf(a.bag) # AliasesOf(c.bag),
         OUTCOME_COUNTS_CHANGED |->
           \/ a.counts.returned # c.counts.returned \/ a.counts.failed # c.counts.failed
           \/ a.counts.unknown # c.counts.unknown]
      changed == {g \in DOMAIN a.bag \cup DOMAIN c.bag : Times(a.bag, g) # Times(c.bag, g)}
      to == [g \in changed |->
               Finding(IF Times(c.bag, g) < Times(a.bag, g) THEN "STRUCTURAL_ATTEMPT_REMOVED"
                                                            ELSE "STRUCTURAL_ATTEMPT_ADDED",
                       IF a.policy.exact THEN "BLOCKING" ELSE "REVIEW", g)]
  <2>1. DOMAIN holds = {"POLICY_CHANGED", "OBSERVED_ATTEMPT_COUNT_CHANGED",
                        "OBSERVED_DATA_SOURCE_SET_CHANGED", "OUTCOME_COUNTS_CHANGED"}
    OBVIOUS
  <2>2. Drift(a, c) = StructuralFindings(a, c) \cup Blocking(holds)
    BY DEF Drift, DriftFindings
  <2>3. IsFiniteSet(changed)
    BY FS_Union, FS_Subset DEF Sound, SoundBag
  <2>4. to \in Surjection(changed, StructuralFindings(a, c))
    BY Zenon DEF Surjection, StructuralFindings
  <2>5. IsFiniteSet(StructuralFindings(a, c))
    BY <2>3, <2>4, FS_Surjection
  <2>6. IsFiniteSet(DOMAIN holds)
    <3> HIDE DEF holds
    <3> QED  BY <2>1, FewFinite
  <2> HIDE DEF holds
  <2> QED  BY <2>2, <2>5, <2>6, BlockingFinite, FS_Union
<1>5. IsFiniteSet({Finding("MATCH", "INFO", NoSignature)})
  BY FS_Singleton
<1> QED  BY <1>1, <1>2, <1>3, <1>4, <1>5, VerifyDecides

LEMMA ReportCountsAll ==
  ASSUME NEW a, NEW c, Sound(a), Sound(c)
  PROVE  LET r == Report(a, c) IN r.shown + r.omitted = r.total /\ r.shown <= MaxDisplayed
<1> DEFINE n == Cardinality(Verify(a, c).findings)
           most == MaxDisplayed
<1>1. n \in Nat /\ most \in Nat
  BY FindingsFinite, FS_CardinalityType, ReportAssumption DEF ReportAssumption
<1>2. /\ Report(a, c).shown = Min({most, n}) /\ Report(a, c).total = n
      /\ Report(a, c).omitted = Max({0, n - most})
  BY DEF Report, Displayed, Omitted
<1> HIDE DEF n, most
<1>3. CASE n <= most
  <2>1. Min({most, n}) = n
    BY <1>1, <1>3, LeastIs
  <2>2. Max({0, n - most}) = 0
    BY <1>1, <1>3, GreatestIs
  <2> QED  BY <1>1, <1>2, <1>3, <2>1, <2>2 DEF most
<1>4. CASE n > most
  <2>1. Min({most, n}) = most
    BY <1>1, <1>4, LeastIs
  <2>2. Max({0, n - most}) = n - most
    BY <1>1, <1>4, GreatestIs
  <2> QED  BY <1>1, <1>2, <1>4, <2>1, <2>2 DEF most
<1> QED  BY <1>1, <1>3, <1>4

-----------------------------------------------------------------------------
(***************************************************************************)
(* The review while calls write and a reviewer moves files.                *)
(***************************************************************************)
BaselineInv == review.baseline # "none" => review.baseline \in reviewed

SoundInv ==
  TypeInv /\ ProtectedInv /\ ReadInv /\ ReportInv /\ WriterInv /\ BaselineInv

(* The baseline is what the approved path shows when it is opened.         *)
LEMMA BaselineStep ==
  ASSUME ProtectedInv, ReadInv, BaselineInv, [ReviewNext]_reviewVars,
         reviewed \subseteq reviewed'
  PROVE  BaselineInv'
<1>1. ASSUME review'.baseline = review.baseline
      PROVE  BaselineInv'
  BY <1>1 DEF BaselineInv
<1>2. CASE review' = review
  BY <1>1, <1>2
<1>3. CASE FailReview \/ \E status : review' = EndReview(status)
  BY <1>1, <1>3 DEF FailReview, EndReview, ReadInv
<1>4. CASE ReadBaseline
  <2>1. CASE Readable("approved") /\
             review' = [review EXCEPT !.at = "candidate", !.baseline = Content("approved")]
    <3>1. review'.baseline = Content("approved")
      BY <2>1 DEF ReadInv
    <3>2. Content("approved") \in Manifests /\ Content("approved") # "none"
      BY <2>1, ReadableSays
    <3>3. Shown("approved") \in Files /\ Content("approved") = data[Shown("approved")]
      BY <3>2 DEF Content
    <3>4. data[Shown("approved")] \in reviewed
      BY <3>2, <3>3 DEF ProtectedInv, ApprovedInv, OneLeafInv, ApprovedIsReviewed, Whole
    <3> QED  BY <3>1, <3>3, <3>4 DEF BaselineInv
  <2> QED  BY <1>3, <1>4, <2>1 DEF ReadBaseline
<1>5. CASE ReadCandidate
  <2>1. FailReview \/ review'.baseline = review.baseline
    BY <1>5 DEF ReadCandidate, ReadInv
  <2> QED  BY <1>1, <1>3, <2>1
<1>6. CASE CreateReport
  <2>1. FailReview \/ review'.baseline = review.baseline
    BY <1>6 DEF CreateReport, ReadInv
  <2> QED  BY <1>1, <1>3, <2>1
<1>7. CASE FillReport
  BY <1>3, <1>7 DEF FillReport
<1>8. CASE OutputAppears \/ UNCHANGED reviewVars
           \/ \E s \in Snapshots, aliases \in AliasMaps : Judge(s, aliases)
  BY <1>2, <1>8 DEF OutputAppears, Judge, reviewVars
<1> QED  BY <1>2, <1>4, <1>5, <1>6, <1>7, <1>8 DEF ReviewNext, ReviewStep

LEMMA SoundReview ==
  ASSUME SoundInv
  PROVE  ReviewIsSound
<1>1. ASSUME review.exit \in {0, 1}
      PROVE  /\ report = "written" /\ review.exit = Findings.exit
             /\ Findings.shown + Findings.omitted = Findings.total
             /\ Findings.shown <= MaxDisplayed
             /\ review.exit = 0 =>
                  Matches(Manifest(review.baseline), Manifest(review.candidate))
  <2> DEFINE a == Manifest(review.baseline)
             c == Manifest(review.candidate)
  <2>1. report = "written" /\ review.exit = Findings.exit /\ review.candidate # "none"
    BY <1>1 DEF SoundInv, ReportInv
  <2>2. Sound(a) /\ Sound(c)
    BY <2>1, ReadAreSound DEF SoundInv
  <2>3. Findings = Report(a, c)
    BY DEF Findings
  <2> HIDE DEF a, c
  <2>4. Findings.shown + Findings.omitted = Findings.total /\ Findings.shown <= MaxDisplayed
    BY <2>2, <2>3, ReportCountsAll
  <2>5. review.exit = 0 => Matched(Verify(a, c))
    BY <2>1, <2>3 DEF Report
  <2>6. review.exit = 0 => Matches(a, c)
    BY <2>2, <2>5, VerdictOfVerify
  <2> QED  BY <2>1, <2>4, <2>6 DEF a, c
<1>2. review.exit = 2 => report # "written"
  BY DEF SoundInv, ReportInv
<1>3. ASSUME NEW w \in Writers, pc[w] = "move"
      PROVE  Decodable(Document[manifest[w]])
  <2>1. /\ manifest[w] \in Manifests /\ Written(manifest[w])
        /\ Encodable(Document[manifest[w]])
    BY <1>3, ReviewAssumption DEF SoundInv, WriterInv, Writable, ReviewAssumption
  <2> QED  BY <2>1, WrittenDecodes
<1> QED  BY <1>1, <1>2, <1>3 DEF ReviewIsSound, SoundInv, BaselineInv

LEMMA AlwaysSound ==
  ASSUME Guarded
  PROVE  ReviewSpec => []SoundInv
<1>1. ReviewInit => SoundInv
  <2> SUFFICES ASSUME ReviewInit  PROVE SoundInv
    OBVIOUS
  <2>1. Init /\ review.baseline = "none"
    BY DEF ReviewInit
  <2>2. WriterInv
    BY <2>1 DEF Init, WriterInv
  <2> QED  BY <2>1, <2>2, ReadInit, ProtectedInit DEF SoundInv, BaselineInv
<1>2. SoundInv /\ [ReviewNext]_reviewVars => SoundInv'
  BY StoreKept, ReadStep, ReportStep, WriterStep, BaselineStep DEF SoundInv
<1> QED  BY <1>1, <1>2, PTL DEF ReviewSpec

(* While calls write candidates and a reviewer moves them, behind an       *)
(* approved path of its own or with one call at a time: a review reads a   *)
(* baseline that was reviewed, ends with 0 or 1 only with a whole report   *)
(* that accounts for every finding, with 0 only on a match, and what a     *)
(* call is about to move into place is a document that can be read.        *)
THEOREM ReviewsAreSound ==
  ASSUME Guarded
  PROVE  ReviewSpec => []ReviewIsSound
<1>1. SoundInv => ReviewIsSound
  BY SoundReview
<1> QED  BY <1>1, AlwaysSound, PTL

(* The store keeps its promises while reviews read it and calls give up    *)
(* on manifests that cannot be encoded.                                    *)
THEOREM StoreUnderReview ==
  ASSUME Guarded
  PROVE  ReviewSpec => [](TypeOK /\ ApprovedIsReviewed)
<1>1. SoundInv => TypeOK /\ ApprovedIsReviewed
  BY DEF SoundInv, TypeInv, ProtectedInv, ApprovedInv, OneLeafInv
<1> QED  BY <1>1, AlwaysSound, PTL

(* As long as one call runs at a time, it loses no complete candidate      *)
(* either while reviews read and while it gives up on what it cannot       *)
(* encode.                                                                 *)
THEOREM CandidateKeptUnderReview ==
  ASSUME \A u, v \in Writers : u = v
  PROVE  ReviewSpec => CandidateNeverLost
<1>1. ReviewInit => TypeInv /\ ProtectedInv /\ LoneInv
  BY ProtectedInit
     DEF ReviewInit, Init, Guarded, LoneInv, ProbeOverNothing, StagedIsWhole
<1>2. TypeInv /\ ProtectedInv /\ LoneInv /\ [ReviewNext]_reviewVars
        => (TypeInv /\ ProtectedInv /\ LoneInv)'
  <2> SUFFICES ASSUME TypeInv, ProtectedInv, LoneInv, [ReviewNext]_reviewVars
               PROVE  LoneInv'
    BY StoreKept
  <2>1. CASE [Next]_vars
    BY <2>1, LoneStep, StoreAssumption
  <2>2. ASSUME NEW w \in Writers, EncodeFails(w)  PROVE LoneInv'
    <3>1. /\ UNCHANGED <<layout, dir, data, temp>> /\ pc' = [pc EXCEPT ![w] = "idle"]
      BY <2>2 DEF EncodeFails, Inspect, Goto, fileVars
    <3>2. \A v \in Writers : v = w
      OBVIOUS
    <3>3. pc'[w] = "idle"
      BY <3>1 DEF TypeInv, TypeOK
    <3> QED  BY <3>2, <3>3 DEF LoneInv, ProbeOverNothing, StagedIsWhole
  <2> QED  BY <2>1, <2>2, StoreSteps
<1>3. TypeInv /\ ProtectedInv /\ LoneInv /\ [ReviewNext]_reviewVars =>
        [Whole(Entry("candidate")) =>
           \/ Whole(Entry("candidate"))'
           \/ dir'["approved"] = dir["candidate"]]_vars
  <2>1. ASSUME NEW w \in Writers, EncodeFails(w)
        PROVE  Whole(Entry("candidate")) => Whole(Entry("candidate"))'
    BY <2>1 DEF EncodeFails, Inspect, Goto, fileVars, Whole, Entry, Leaf
  <2> QED  BY <2>1, StoreSteps, LoneKeeps
<1> QED  BY <1>1, <1>2, <1>3, PTL DEF ReviewSpec, CandidateNeverLost
=============================================================================
