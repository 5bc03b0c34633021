------------------------- MODULE ConfigPublishProofs -------------------------
(***************************************************************************)
(* Theorems of ConfigPublish, for any clients and algorithms, any number   *)
(* of filters and plugins, marks and lost requests.                        *)
(***************************************************************************)
EXTENDS ConfigPublish, FiniteSetTheorems, SequenceTheorems, WellFoundedInduction, TLAPS

\* Every algorithm is known to one filter at most.
Uncontested ==
    \A a \in Algorithms : \A i, j \in DOMAIN Filters :
        Needed(a, Filters[i]) # 0 /\ Needed(a, Filters[j]) # 0 => i = j

-----------------------------------------------------------------------------
(* Induction, by way of the least number for which something fails.        *)

LEMMA Least ==
    ASSUME NEW T \in SUBSET Nat, T # {}
    PROVE  \E n \in T : \A m \in T : n <= m
<1> DEFINE R == OpToRel(<, Nat)
<1>1. PICK n \in T : \A m \in T : ~ (<<m, n>> \in R)
  BY WFMin, NatLessThanWellFounded
<1>2. \A m \in Nat : m < n => <<m, n>> \in R
  BY DEF OpToRel
<1> HIDE DEF R
<1>3. ASSUME NEW m \in T PROVE n <= m
  <2>1. ~(m < n) /\ m \in Nat /\ n \in Nat
    BY <1>1, <1>2
  <2>2. QED
    BY <2>1
<1>4. QED
  BY <1>3

\* A set of numbers up to N with the first, and the next to each but N, is all.
LEMMA UpTo ==
    ASSUME NEW N \in Nat, NEW T, 0 \in T, \A n \in 0..(N - 1) : n \in T => n + 1 \in T
    PROVE  \A n \in 0..N : n \in T
<1> DEFINE F == {n \in 0..N : n \notin T}
<1>1. SUFFICES ASSUME F # {} PROVE FALSE
  OBVIOUS
<1>2. PICK n \in F : \A m \in F : n <= m
  <2>1. F \in SUBSET Nat
    OBVIOUS
  <2> HIDE DEF F
  <2>2. QED
    BY <1>1, <2>1, Least
<1>3. n \in Nat /\ n # 0 /\ n <= N /\ n \notin T
  BY <1>2
<1>4. n - 1 \in 0..(N - 1) /\ n - 1 \notin F /\ n - 1 \in 0..N /\ (n - 1) + 1 = n
  BY <1>2, <1>3
<1>5. n - 1 \in T
  BY <1>4
<1>6. QED
  BY <1>3, <1>4, <1>5

LEMMA MaxUpTo ==
    ASSUME NEW N \in Nat, NEW s \in SUBSET (1..N), s # {}
    PROVE  Max(s) \in s /\ \A n \in s : Max(s) >= n
<1> DEFINE F == {N - n : n \in s}
<1>1. F \in SUBSET Nat /\ F # {}
  OBVIOUS
<1>2. PICK d \in F : \A e \in F : d <= e
  BY <1>1, Least
<1>3. PICK x \in s : d = N - x
  BY <1>2
<1>4. ASSUME NEW n \in s PROVE x >= n
  <2>1. d <= N - n /\ n \in Nat /\ x \in Nat
    BY <1>2
  <2>2. QED
    BY <1>3, <2>1
<1>5. \E y \in s : \A n \in s : y >= n
  BY <1>4
<1>6. QED
  BY <1>5 DEF Max

-----------------------------------------------------------------------------
(* The folds over the filters.                                             *)

\* g solves the recursion over the sets of positions that the folds make.
IsFold(g, V, n, step, base) ==
    /\ g \in [SUBSET (1..n) -> V]
    /\ \A s \in SUBSET (1..n) :
          g[s] = IF s = {} THEN base ELSE step[Max(s)][g[s \ {Max(s)}]]

\* It has a solution, for any steps on a set of values.
LEMMA FoldExists ==
    ASSUME NEW V, NEW N \in Nat, NEW step \in [1..N -> [V -> V]], NEW base \in V
    PROVE  \E g : IsFold(g, V, N, step, base)
<1> DEFINE Solves(n, g) ==
              \A s \in SUBSET (1..n) :
                 g[s] = IF s = {} THEN base ELSE step[Max(s)][g[s \ {Max(s)}]]
           Solved(n) == \E g \in [SUBSET (1..n) -> V] : Solves(n, g)
           T == {n \in 0..N : Solved(n)}
<1>1. 0 \in T
  <2> DEFINE g == [s \in SUBSET (1..0) |-> base]
  <2>1. \A s \in SUBSET (1..0) : s = {}
    OBVIOUS
  <2>2. g \in [SUBSET (1..0) -> V] /\ Solves(0, g)
    BY <2>1
  <2> HIDE DEF g
  <2>3. Solved(0)
    BY <2>2
  <2> HIDE DEF Solved
  <2>4. QED
    BY <2>3
<1>2. ASSUME NEW n \in 0..(N - 1), n \in T PROVE n + 1 \in T
  <2>1. PICK g \in [SUBSET (1..n) -> V] : Solves(n, g)
    BY <1>2
  <2> DEFINE k == n + 1
             h == [s \in SUBSET (1..k) |->
                     IF k \in s THEN step[k][g[s \ {k}]] ELSE g[s]]
  <2>2. k \in 1..N /\ n \in Nat /\ k \in Nat /\ k \notin 1..n /\ step[k] \in [V -> V]
    OBVIOUS
  <2>3. \A s \in SUBSET (1..k) : /\ s \ {k} \in SUBSET (1..n)
                                 /\ k \notin s => s \in SUBSET (1..n)
    BY <2>2
  <2> HIDE DEF k
  <2>4. h \in [SUBSET (1..k) -> V]
    BY <2>2, <2>3
  <2>5. ASSUME NEW s \in SUBSET (1..k)
        PROVE  h[s] = IF s = {} THEN base ELSE step[Max(s)][h[s \ {Max(s)}]]
    <3>1. CASE k \in s
      <4>1. Max(s) = k
        <5>1. Max(s) \in s /\ Max(s) >= k
          BY <2>2, <3>1, MaxUpTo
        <5>2. \A n1 \in 1..k : n1 >= k => n1 = k
          BY <2>2
        <5>3. QED
          BY <5>1, <5>2
      <4>2. k \notin s \ {k} /\ s \ {k} \in SUBSET (1..k) /\ s # {}
        BY <3>1
      <4>3. h[s] = step[k][g[s \ {k}]] /\ h[s \ {k}] = g[s \ {k}]
        BY <3>1, <4>2
      <4> HIDE DEF h
      <4>4. QED
        BY <4>1, <4>2, <4>3
    <3>2. CASE k \notin s
      <4>1. s \in SUBSET (1..n) /\ h[s] = g[s]
        BY <2>3, <3>2
      <4>2. g[s] = IF s = {} THEN base ELSE step[Max(s)][g[s \ {Max(s)}]]
        BY <2>1, <4>1
      <4>3. h[s \ {Max(s)}] = g[s \ {Max(s)}]
        BY <3>2
      <4> HIDE DEF h
      <4>4. QED
        BY <4>1, <4>2, <4>3
    <3>3. QED
      BY <3>1, <3>2
  <2> HIDE DEF h
  <2>6. Solves(k, h)
    BY <2>5
  <2>7. k \in 0..N
    BY <2>2
  <2>8. QED
    BY <2>4, <2>6, <2>7 DEF k
<1>3. N \in T
  <2> HIDE DEF T
  <2>1. \A n \in 0..N : n \in T
    BY <1>1, <1>2, UpTo
  <2>2. QED
    BY <2>1
<1>4. QED
  BY <1>3 DEF IsFold

\* it goes from base to end in n steps, one after the other.
IsPath(it, V, n, step, base, end) ==
    /\ it \in [0..n -> V] /\ it[0] = base /\ it[n] = end
    /\ \A i \in 0..(n - 1) : it[i + 1] = step[i + 1][it[i]]

\* Along 1..n, a solution takes one step after the other.
LEMMA FoldPath ==
    ASSUME NEW V, NEW N \in Nat, NEW step \in [1..N -> [V -> V]], NEW base \in V, NEW g,
           g[{}] = base,
           \A s \in SUBSET (1..N) :
              s # {} /\ g[s \ {Max(s)}] \in V => g[s] = step[Max(s)][g[s \ {Max(s)}]]
    PROVE  \E it : IsPath(it, V, N, step, base, g[1..N])
<1>1. 1..0 = {}
  OBVIOUS
<1>2. ASSUME NEW n \in 0..(N - 1), g[1..n] \in V
      PROVE  g[1..(n + 1)] = step[n + 1][g[1..n]] /\ g[1..(n + 1)] \in V
  <2>1. n \in Nat /\ n + 1 \in Nat /\ n + 1 \in 1..(n + 1) /\ n + 1 \in 1..N
    OBVIOUS
  <2>2. 1..(n + 1) \in SUBSET (1..N) /\ (1..(n + 1)) \ {n + 1} = 1..n
    <3>1. 1..(n + 1) \subseteq 1..N
      BY <2>1
    <3>2. (1..(n + 1)) \ {n + 1} = 1..n
      BY <2>1
    <3>3. QED
      BY <3>1, <3>2
  <2>3. 1..(n + 1) # {}
    BY <2>1
  <2>4. Max(1..(n + 1)) = n + 1
    <3>1. \A x \in 1..(n + 1) : x >= n + 1 => x = n + 1
      BY <2>1
    <3>2. Max(1..(n + 1)) \in 1..(n + 1) /\ Max(1..(n + 1)) >= n + 1
      BY <2>1, <2>3, MaxUpTo
    <3>3. QED
      BY <3>1, <3>2
  <2>5. g[1..(n + 1)] = step[n + 1][g[1..n]]
    BY <1>2, <2>2, <2>3, <2>4
  <2>6. QED
    BY <1>2, <2>1, <2>5
<1>3. \A n \in 0..N : g[1..n] \in V
  <2> DEFINE T == {n \in 0..N : g[1..n] \in V}
  <2>1. 0 \in T
    BY <1>1
  <2>2. ASSUME NEW n \in 0..(N - 1), n \in T PROVE n + 1 \in T
    <3>1. g[1..(n + 1)] \in V /\ n + 1 \in 0..N
      BY <1>2, <2>2
    <3>2. QED
      BY <3>1
  <2> HIDE DEF T
  <2>3. \A n \in 0..N : n \in T
    BY <2>1, <2>2, UpTo
  <2>4. QED
    BY <2>3 DEF T
<1> DEFINE it == [n \in 0..N |-> g[1..n]]
<1>4. it \in [0..N -> V] /\ it[0] = base /\ it[N] = g[1..N]
  BY <1>1, <1>3
<1>5. ASSUME NEW n \in 0..(N - 1) PROVE it[n + 1] = step[n + 1][it[n]]
  <2>1. n \in 0..N /\ n + 1 \in 0..N
    OBVIOUS
  <2>2. g[1..(n + 1)] = step[n + 1][g[1..n]]
    BY <1>2, <1>3, <2>1
  <2>3. QED
    BY <2>1, <2>2
<1> HIDE DEF it
<1>6. QED
  BY <1>4, <1>5 DEF IsPath

-----------------------------------------------------------------------------
(* The types of what is encrypted and decrypted.                           *)

DataKeys == {NoKey} \cup (STRING \X Marks)
Contents == [layers : Seq(DataKeys), marks : SUBSET Marks]
Messages == [content : Contents, key : DataKeys]
Plugin == [name : STRING, algorithm : STRING \ {NoAlgorithm}]
Plugins == Seq(Plugin)

N == Len(Filters)

LEMMA FiltersType ==
    /\ N \in Nat /\ DOMAIN Filters = 1..N
    /\ \A i \in 1..N : Filters[i] \in Plugins
  BY PublishAssumption DEF N, Plugin, Plugins

\* The loop stops at a plugin of the filter, if at any.
LEMMA NeededType ==
    ASSUME NEW a, NEW f \in Plugins
    PROVE  Needed(a, f) \in Nat /\ (Needed(a, f) # 0 => Needed(a, f) \in DOMAIN f)
<1> DEFINE I == {i \in 1..Len(f) : NeedCipher(a, f[i])}
<1>1. Needed(a, f) = IF I # {} THEN Min(I) ELSE 0
  BY DEF Needed, SelectInSeq
<1>2. Len(f) \in Nat /\ DOMAIN f = 1..Len(f) /\ I \in SUBSET Nat /\ I \subseteq 1..Len(f)
  BY DEF Plugins
<1> HIDE DEF I
<1>3. CASE I # {}
  <2>1. \E n \in I : \A k \in I : n <= k
    BY <1>2, <1>3, Least
  <2>2. Min(I) \in I
    BY <2>1 DEF Min
  <2>3. QED
    BY <1>1, <1>2, <1>3, <2>2
<1>4. QED
  BY <1>1, <1>3

LEMMA EncryptType ==
    ASSUME NEW a, NEW f \in Plugins, NEW m \in Marks, NEW req \in Messages
    PROVE  Encrypt(a, f, m, req) \in Messages
<1> DEFINE k == <<f[Needed(a, f)].name, m>>
<1>1. CASE Needed(a, f) = 0
  BY <1>1 DEF Encrypt
<1>2. CASE Needed(a, f) # 0
  <2>1. k \in DataKeys
    <3>1. Needed(a, f) \in DOMAIN f
      BY <1>2, NeededType
    <3>2. f[Needed(a, f)] \in Plugin
      BY <3>1 DEF Plugins
    <3>3. f[Needed(a, f)].name \in STRING
      BY <3>2 DEF Plugin
    <3>4. QED
      BY <3>3 DEF DataKeys
  <2>2. Encrypt(a, f, m, req) = [req EXCEPT !.key = k, !.content.layers = <<k>> \o @]
    BY <1>2 DEF Encrypt
  <2> HIDE DEF k
  <2>3. req.content.layers \in Seq(DataKeys) /\ <<k>> \in Seq(DataKeys)
    BY <2>1 DEF Messages, Contents
  <2>4. <<k>> \o req.content.layers \in Seq(DataKeys)
    BY <2>3, ConcatProperties
  <2>5. QED
    BY <2>1, <2>2, <2>4 DEF Messages, Contents
<1>3. QED
  BY <1>1, <1>2

LEMMA DecryptType ==
    ASSUME NEW a, NEW f \in Plugins, NEW resp \in Messages
    PROVE  Decrypt(a, f, resp) \in Messages
<1>1. Garbage \in Contents
  BY DEF Garbage, Content, Contents, DataKeys
<1>2. resp.content.layers \in Seq(DataKeys) /\ resp.content.marks \in SUBSET Marks
  BY DEF Messages, Contents
<1>3. resp.content.layers # << >> => Tail(resp.content.layers) \in Seq(DataKeys)
  BY <1>2, HeadTailProperties
<1>4. resp.content.layers # << >>
        => Content(Tail(resp.content.layers), resp.content.marks) \in Contents
  BY <1>2, <1>3 DEF Content, Contents
<1>5. ASSUME NEW t \in Contents PROVE [resp EXCEPT !.content = t] \in Messages
  BY DEF Messages
<1>6. \/ Decrypt(a, f, resp) = resp
      \/ Decrypt(a, f, resp) = [resp EXCEPT !.content = Garbage]
      \/ /\ resp.content.layers # << >>
         /\ Decrypt(a, f, resp) = [resp EXCEPT !.content =
                  Content(Tail(resp.content.layers), resp.content.marks)]
  BY DEF Decrypt
<1>7. QED
  BY <1>1, <1>4, <1>5, <1>6

\* publish_config_inner: one filter after the other, from the first to the last.
LEMMA RequestFold ==
    ASSUME NEW a, NEW m \in Marks, NEW req \in Messages
    PROVE  \E it \in [0..N -> Messages] :
              /\ it[0] = req /\ it[N] = FilterRequest(a, m, req)
              /\ \A n \in 0..(N - 1) : it[n + 1] = Encrypt(a, Filters[n + 1], m, it[n])
<1> DEFINE step == [i \in 1..N |-> [r \in Messages |-> Encrypt(a, Filters[i], m, r)]]
           Def(g) == [s \in SUBSET (DOMAIN Filters) |->
                        IF s = {} THEN req
                        ELSE Encrypt(a, Filters[Max(s)], m, g[s \ {Max(s)}])]
           It == CHOOSE g : g = Def(g)
<1>1. step \in [1..N -> [Messages -> Messages]]
  BY FiltersType, EncryptType
<1>2. \E g : g = Def(g)
  <2>1. PICK g : IsFold(g, Messages, N, step, req)
    <3> HIDE DEF step, Def, It
    <3>1. N \in Nat
      BY FiltersType
    <3>2. QED
      BY <1>1, <3>1, FoldExists
  <2>2. g \in [SUBSET (1..N) -> Messages] /\ g[{}] = req
    <3> HIDE DEF step, Def, It
    <3>1. QED
      BY <2>1 DEF IsFold
  <2>3. ASSUME NEW s \in SUBSET (1..N), s # {}
        PROVE  g[s] = Encrypt(a, Filters[Max(s)], m, g[s \ {Max(s)}])
    <3>1. Max(s) \in 1..N /\ s \ {Max(s)} \in SUBSET (1..N)
      BY <2>3, MaxUpTo, FiltersType
    <3>2. g[s \ {Max(s)}] \in Messages
      BY <2>2, <3>1
    <3>3. g[s] = step[Max(s)][g[s \ {Max(s)}]]
      <4> HIDE DEF step, Def, It
      <4>1. QED
        BY <2>1, <2>3 DEF IsFold
    <3>4. QED
      BY <3>1, <3>2, <3>3
  <2>4. g = Def(g)
    <3> HIDE DEF step, It
    <3>1. \A s \in SUBSET (1..N) :
             g[s] = IF s = {} THEN req
                    ELSE Encrypt(a, Filters[Max(s)], m, g[s \ {Max(s)}])
      BY <2>2, <2>3
    <3>2. g = [s \in SUBSET (1..N) |-> g[s]]
      BY <2>2
    <3>3. QED
      BY <3>1, <3>2, FiltersType
  <2>5. QED
    BY <2>4
<1>3. It = Def(It)
  <2>1. \E g : g = Def(g)
    BY <1>2
  <2> HIDE DEF Def
  <2>2. QED
    BY <2>1
<1>4. FilterRequest(a, m, req) = It[1..N]
  BY FiltersType DEF FilterRequest, FoldLeft, MapThenFoldSet
<1>5. /\ It[{}] = req
      /\ \A s \in SUBSET (1..N) : s # {} /\ It[s \ {Max(s)}] \in Messages
            => It[s] = step[Max(s)][It[s \ {Max(s)}]]
  <2> HIDE DEF It
  <2>1. It[{}] = req
    BY <1>3
  <2>2. ASSUME NEW s \in SUBSET (1..N), s # {}, It[s \ {Max(s)}] \in Messages
        PROVE  It[s] = step[Max(s)][It[s \ {Max(s)}]]
    <3>1. Max(s) \in 1..N
      BY <2>2, MaxUpTo, FiltersType
    <3>2. It[s] = Encrypt(a, Filters[Max(s)], m, It[s \ {Max(s)}])
      BY <1>3, <2>2, FiltersType
    <3> HIDE DEF Def
    <3>3. QED
      BY <2>2, <3>1, <3>2
  <2>3. QED
    BY <2>1, <2>2
<1>6. PICK it : IsPath(it, Messages, N, step, req, It[1..N])
  <2> HIDE DEF It, step, Def
  <2>1. N \in Nat
    BY FiltersType
  <2>2. QED
    BY <1>1, <1>5, <2>1, FoldPath
<1>7. ASSUME NEW n \in 0..(N - 1)
      PROVE  it[n + 1] = Encrypt(a, Filters[n + 1], m, it[n])
  <2>1. n + 1 \in 1..N /\ n \in 0..N
    BY FiltersType
  <2>2. it[n + 1] = step[n + 1][it[n]] /\ it[n] \in Messages
    <3> HIDE DEF It, step, Def
    <3>1. QED
      BY <1>6, <2>1 DEF IsPath
  <2>3. QED
    BY <2>1, <2>2
<1>8. QED
  <2> HIDE DEF It, step, Def
  <2>1. QED
    BY <1>4, <1>6, <1>7 DEF IsPath

\* get_config: the filters come in the same order.
LEMMA ResponseFold ==
    ASSUME NEW a, NEW resp \in Messages
    PROVE  \E it \in [0..N -> Messages] :
              /\ it[0] = resp /\ it[N] = FilterResponse(a, resp)
              /\ \A n \in 0..(N - 1) : it[n + 1] = Decrypt(a, Filters[n + 1], it[n])
<1> DEFINE step == [i \in 1..N |-> [r \in Messages |-> Decrypt(a, Filters[i], r)]]
           Def(g) == [s \in SUBSET (DOMAIN Filters) |->
                        IF s = {} THEN resp
                        ELSE Decrypt(a, Filters[Max(s)], g[s \ {Max(s)}])]
           It == CHOOSE g : g = Def(g)
<1>1. step \in [1..N -> [Messages -> Messages]]
  BY FiltersType, DecryptType
<1>2. \E g : g = Def(g)
  <2>1. PICK g : IsFold(g, Messages, N, step, resp)
    <3> HIDE DEF step, Def, It
    <3>1. N \in Nat
      BY FiltersType
    <3>2. QED
      BY <1>1, <3>1, FoldExists
  <2>2. g \in [SUBSET (1..N) -> Messages] /\ g[{}] = resp
    <3> HIDE DEF step, Def, It
    <3>1. QED
      BY <2>1 DEF IsFold
  <2>3. ASSUME NEW s \in SUBSET (1..N), s # {}
        PROVE  g[s] = Decrypt(a, Filters[Max(s)], g[s \ {Max(s)}])
    <3>1. Max(s) \in 1..N /\ s \ {Max(s)} \in SUBSET (1..N)
      BY <2>3, MaxUpTo, FiltersType
    <3>2. g[s \ {Max(s)}] \in Messages
      BY <2>2, <3>1
    <3>3. g[s] = step[Max(s)][g[s \ {Max(s)}]]
      <4> HIDE DEF step, Def, It
      <4>1. QED
        BY <2>1, <2>3 DEF IsFold
    <3>4. QED
      BY <3>1, <3>2, <3>3
  <2>4. g = Def(g)
    <3> HIDE DEF step, It
    <3>1. \A s \in SUBSET (1..N) :
             g[s] = IF s = {} THEN resp
                    ELSE Decrypt(a, Filters[Max(s)], g[s \ {Max(s)}])
      BY <2>2, <2>3
    <3>2. g = [s \in SUBSET (1..N) |-> g[s]]
      BY <2>2
    <3>3. QED
      BY <3>1, <3>2, FiltersType
  <2>5. QED
    BY <2>4
<1>3. It = Def(It)
  <2>1. \E g : g = Def(g)
    BY <1>2
  <2> HIDE DEF Def
  <2>2. QED
    BY <2>1
<1>4. FilterResponse(a, resp) = It[1..N]
  BY FiltersType DEF FilterResponse, FoldLeft, MapThenFoldSet
<1>5. /\ It[{}] = resp
      /\ \A s \in SUBSET (1..N) : s # {} /\ It[s \ {Max(s)}] \in Messages
            => It[s] = step[Max(s)][It[s \ {Max(s)}]]
  <2> HIDE DEF It
  <2>1. It[{}] = resp
    BY <1>3
  <2>2. ASSUME NEW s \in SUBSET (1..N), s # {}, It[s \ {Max(s)}] \in Messages
        PROVE  It[s] = step[Max(s)][It[s \ {Max(s)}]]
    <3>1. Max(s) \in 1..N
      BY <2>2, MaxUpTo, FiltersType
    <3>2. It[s] = Decrypt(a, Filters[Max(s)], It[s \ {Max(s)}])
      BY <1>3, <2>2, FiltersType
    <3> HIDE DEF Def
    <3>3. QED
      BY <2>2, <3>1, <3>2
  <2>3. QED
    BY <2>1, <2>2
<1>6. PICK it : IsPath(it, Messages, N, step, resp, It[1..N])
  <2> HIDE DEF It, step, Def
  <2>1. N \in Nat
    BY FiltersType
  <2>2. QED
    BY <1>1, <1>5, <2>1, FoldPath
<1>7. ASSUME NEW n \in 0..(N - 1)
      PROVE  it[n + 1] = Decrypt(a, Filters[n + 1], it[n])
  <2>1. n + 1 \in 1..N /\ n \in 0..N
    BY FiltersType
  <2>2. it[n + 1] = step[n + 1][it[n]] /\ it[n] \in Messages
    <3> HIDE DEF It, step, Def
    <3>1. QED
      BY <1>6, <2>1 DEF IsPath
  <2>3. QED
    BY <2>1, <2>2
<1>8. QED
  <2> HIDE DEF It, step, Def
  <2>1. QED
    BY <1>4, <1>6, <1>7 DEF IsPath

-----------------------------------------------------------------------------
(* What an uncontested algorithm makes of the filters.                     *)

LEMMA NothingDone ==
    ASSUME NEW n \in Nat, NEW it, \A i \in 0..(n - 1) : it[i + 1] = it[i]
    PROVE  it[n] = it[0]
<1> DEFINE T == {i \in 0..n : it[i] = it[0]}
<1>1. 0 \in T
  OBVIOUS
<1>2. ASSUME NEW i \in 0..(n - 1), i \in T PROVE i + 1 \in T
  BY <1>2
<1> HIDE DEF T
<1>3. \A i \in 0..n : i \in T
  BY <1>1, <1>2, UpTo
<1>4. n \in T
  BY <1>3
<1>5. QED
  BY <1>4 DEF T

\* Of n steps, only the k-th does something, and leads to y.
OnlyStep(it, n, k, y) ==
    /\ \A i \in 0..(n - 1) : i + 1 # k => it[i + 1] = it[i]
    /\ it[k - 1] = it[0] => it[k] = y

LEMMA OneDone ==
    ASSUME NEW n \in Nat, NEW it, NEW k \in 1..n, NEW y, OnlyStep(it, n, k, y)
    PROVE  it[n] = y
<1> USE DEF OnlyStep
<1> DEFINE T == {i \in 0..n : it[i] = IF i < k THEN it[0] ELSE y}
<1>1. 0 \in T
  OBVIOUS
<1>2. ASSUME NEW i \in 0..(n - 1), i \in T PROVE i + 1 \in T
  <2>1. i \in Nat /\ i + 1 \in 0..n /\ k \in Nat /\ k - 1 \in Nat
    OBVIOUS
  <2>2. it[i] = IF i < k THEN it[0] ELSE y
    BY <1>2
  <2>3. CASE i + 1 = k
    <3>1. i < k /\ i = k - 1 /\ ~(i + 1 < k)
      BY <2>1, <2>3
    <3>2. it[i + 1] = y
      BY <2>2, <2>3, <3>1
    <3>3. QED
      BY <2>1, <3>1, <3>2
  <2>4. CASE i + 1 # k
    <3>1. i + 1 < k <=> i < k
      BY <2>1, <2>4
    <3>2. it[i + 1] = it[i]
      BY <2>4
    <3>3. QED
      BY <2>1, <2>2, <3>1, <3>2
  <2>5. QED
    BY <2>3, <2>4
<1> HIDE DEF T
<1>3. \A i \in 0..n : i \in T
  BY <1>1, <1>2, UpTo
<1>4. n \in T /\ ~(n < k)
  BY <1>3
<1>5. QED
  BY <1>4 DEF T

\* Of the filters, at most one takes part.
LEMMA RequestFiltered ==
    ASSUME NEW a, NEW m \in Marks, NEW req \in Messages
    PROVE  /\ (\A i \in 1..N : Needed(a, Filters[i]) = 0) => FilterRequest(a, m, req) = req
           /\ \A k \in 1..N :
                 (\A i \in 1..N : i # k => Needed(a, Filters[i]) = 0)
                   => FilterRequest(a, m, req) = Encrypt(a, Filters[k], m, req)
<1>1. PICK it \in [0..N -> Messages] :
         /\ it[0] = req /\ it[N] = FilterRequest(a, m, req)
         /\ \A n \in 0..(N - 1) : it[n + 1] = Encrypt(a, Filters[n + 1], m, it[n])
  BY RequestFold
<1>2. N \in Nat /\ \A n \in 0..(N - 1) : n + 1 \in 1..N
  BY FiltersType
<1>3. \A n \in 0..(N - 1) : Needed(a, Filters[n + 1]) = 0 => it[n + 1] = it[n]
  BY <1>1 DEF Encrypt
<1>4. ASSUME \A i \in 1..N : Needed(a, Filters[i]) = 0
      PROVE  FilterRequest(a, m, req) = req
  <2>1. \A n \in 0..(N - 1) : it[n + 1] = it[n]
    BY <1>2, <1>3, <1>4
  <2>2. it[N] = it[0]
    BY <1>2, <2>1, NothingDone
  <2>3. QED
    BY <1>1, <2>2
<1>5. ASSUME NEW k \in 1..N, \A i \in 1..N : i # k => Needed(a, Filters[i]) = 0
      PROVE  FilterRequest(a, m, req) = Encrypt(a, Filters[k], m, req)
  <2>1. \A n \in 0..(N - 1) : n + 1 # k => it[n + 1] = it[n]
    BY <1>2, <1>3, <1>5
  <2>2. k - 1 \in 0..(N - 1) /\ (k - 1) + 1 = k
    BY <1>2
  <2>3. it[k] = Encrypt(a, Filters[k], m, it[k - 1])
    BY <1>1, <2>2
  <2>4. it[k - 1] = it[0] => it[k] = Encrypt(a, Filters[k], m, req)
    BY <1>1, <2>3
  <2> DEFINE y == Encrypt(a, Filters[k], m, req)
  <2>5. it[N] = y
    <3> HIDE DEF y
    <3>1. it[k - 1] = it[0] => it[k] = y
      BY <2>4 DEF y
    <3>2. OnlyStep(it, N, k, y)
      BY <2>1, <3>1 DEF OnlyStep
    <3>3. QED
      BY <1>2, <3>2, OneDone
  <2>6. QED
    BY <1>1, <2>5
<1>6. QED
  BY <1>4, <1>5

LEMMA ResponseFiltered ==
    ASSUME NEW a, NEW resp \in Messages
    PROVE  /\ (resp.key = NoKey \/ \A i \in 1..N : Needed(a, Filters[i]) = 0)
                 => FilterResponse(a, resp) = resp
           /\ \A k \in 1..N :
                 (\A i \in 1..N : i # k => Needed(a, Filters[i]) = 0)
                   => FilterResponse(a, resp) = Decrypt(a, Filters[k], resp)
<1>1. PICK it \in [0..N -> Messages] :
         /\ it[0] = resp /\ it[N] = FilterResponse(a, resp)
         /\ \A n \in 0..(N - 1) : it[n + 1] = Decrypt(a, Filters[n + 1], it[n])
  BY ResponseFold
<1>2. N \in Nat /\ \A n \in 0..(N - 1) : n + 1 \in 1..N /\ n \in 0..N
  BY FiltersType
<1>3. \A n \in 0..(N - 1) : Needed(a, Filters[n + 1]) = 0 => it[n + 1] = it[n]
  BY <1>1 DEF Decrypt
<1>4. \A n \in 0..(N - 1) : it[n + 1].key = it[n].key
  <2>1. ASSUME NEW n \in 0..(N - 1) PROVE Decrypt(a, Filters[n + 1], it[n]).key = it[n].key
    <3>1. it[n] \in Messages
      BY <1>2
    <3>2. QED
      BY <3>1 DEF Decrypt, Messages
  <2>2. QED
    BY <1>1, <2>1
<1>5. ASSUME resp.key = NoKey PROVE FilterResponse(a, resp) = resp
  <2> DEFINE T == {n \in 0..N : it[n] = resp}
  <2>1. 0 \in T
    BY <1>1, <1>2
  <2>2. ASSUME NEW n \in 0..(N - 1), n \in T PROVE n + 1 \in T
    <3>1. it[n] = resp /\ it[n + 1] = Decrypt(a, Filters[n + 1], it[n]) /\ n + 1 \in 0..N
      BY <1>1, <1>2, <2>2
    <3>2. QED
      BY <1>5, <3>1 DEF Decrypt
  <2> HIDE DEF T
  <2>3. \A n \in 0..N : n \in T
    BY <1>2, <2>1, <2>2, UpTo
  <2>4. N \in T
    BY <1>2, <2>3
  <2>5. QED
    BY <1>1, <2>4 DEF T
<1>6. ASSUME \A i \in 1..N : Needed(a, Filters[i]) = 0
      PROVE  FilterResponse(a, resp) = resp
  <2>1. \A n \in 0..(N - 1) : it[n + 1] = it[n]
    BY <1>2, <1>3, <1>6
  <2>2. it[N] = it[0]
    BY <1>2, <2>1, NothingDone
  <2>3. QED
    BY <1>1, <2>2
<1>7. ASSUME NEW k \in 1..N, \A i \in 1..N : i # k => Needed(a, Filters[i]) = 0
      PROVE  FilterResponse(a, resp) = Decrypt(a, Filters[k], resp)
  <2>1. \A n \in 0..(N - 1) : n + 1 # k => it[n + 1] = it[n]
    BY <1>2, <1>3, <1>7
  <2>2. k - 1 \in 0..(N - 1) /\ (k - 1) + 1 = k
    BY <1>2
  <2>3. it[k] = Decrypt(a, Filters[k], it[k - 1])
    BY <1>1, <2>2
  <2>4. it[k - 1] = it[0] => it[k] = Decrypt(a, Filters[k], resp)
    BY <1>1, <2>3
  <2> DEFINE y == Decrypt(a, Filters[k], resp)
  <2>5. it[N] = y
    <3> HIDE DEF y
    <3>1. it[k - 1] = it[0] => it[k] = y
      BY <2>4 DEF y
    <3>2. OnlyStep(it, N, k, y)
      BY <2>1, <3>1 DEF OnlyStep
    <3>3. QED
      BY <1>2, <3>2, OneDone
  <2>6. QED
    BY <1>1, <2>5
<1>8. QED
  BY <1>5, <1>6, <1>7

\* A content that was never encrypted.
Plain == {t \in Contents : t.layers = << >>}
Unencrypted(t) == [content |-> t, key |-> NoKey]

\* A content that was filtered has its key, or none, and comes back as it was.
ComesBack(a, r, t) ==
    /\ r \in Messages /\ r.content.marks = t.marks
    /\ r.content.layers = IF r.key = NoKey THEN << >> ELSE <<r.key>>
    /\ FilterResponse(a, r).content = t

LEMMA Undone ==
    ASSUME Uncontested, NEW a \in Algorithms, NEW m \in Marks, NEW t \in Plain
    PROVE  ComesBack(a, FilterRequest(a, m, Unencrypted(t)), t)
<1> SUFFICES ASSUME NEW r, r = FilterRequest(a, m, Unencrypted(t))
             PROVE  /\ r \in Messages /\ r.content.marks = t.marks
                    /\ r.content.layers = IF r.key = NoKey THEN << >> ELSE <<r.key>>
                    /\ FilterResponse(a, r).content = t
  BY DEF ComesBack
<1> DEFINE x == Unencrypted(t)
<1>1. x \in Messages /\ x.content = t /\ x.key = NoKey /\ t \in Contents /\ t.layers = << >>
  BY DEF Unencrypted, Plain, Messages, DataKeys
<1> HIDE DEF x
<1>2. CASE \A i \in 1..N : Needed(a, Filters[i]) = 0
  <2>1. r = x /\ FilterResponse(a, r) = r
    BY <1>1, <1>2, RequestFiltered, ResponseFiltered DEF x
  <2>2. QED
    BY <1>1, <2>1
<1>3. ASSUME NEW k \in 1..N, Needed(a, Filters[k]) # 0
      PROVE  /\ r \in Messages /\ r.content.marks = t.marks
             /\ r.content.layers = IF r.key = NoKey THEN << >> ELSE <<r.key>>
             /\ FilterResponse(a, r).content = t
  <2> DEFINE name == Filters[k][Needed(a, Filters[k])].name
             key == <<name, m>>
  <2>1. /\ \A i \in 1..N : i # k => Needed(a, Filters[i]) = 0
        /\ Filters[k] \in Plugins
    BY <1>3, FiltersType DEF Uncontested
  <2>2. r = Encrypt(a, Filters[k], m, x)
    BY <1>1, <2>1, RequestFiltered DEF x
  <2>3. r \in Messages
    BY <1>1, <2>1, <2>2, EncryptType
  <2>4. r = [x EXCEPT !.key = key, !.content.layers = <<key>> \o @]
    BY <1>3, <2>2 DEF Encrypt
  <2>5. key # NoKey /\ key[1] = name
    BY DEF NoKey
  <2> HIDE DEF name, key
  <2>6. /\ r.key = key /\ r.content.layers = <<key>> \o << >>
        /\ r.content.marks = t.marks
    BY <1>1, <2>4 DEF Messages, Contents
  <2>7. <<key>> \o << >> = <<key>>
    OBVIOUS
  <2>8. FilterResponse(a, r) = Decrypt(a, Filters[k], r)
    BY <2>1, <2>3, ResponseFiltered
  <2>9. Decrypt(a, Filters[k], r).content = Content(Tail(<<key>>), t.marks)
    <3>1. <<key>> # << >> /\ Head(<<key>>) = key
      OBVIOUS
    <3>2. Decrypt(a, Filters[k], r)
            = [r EXCEPT !.content = Content(Tail(@.layers), @.marks)]
      BY <1>3, <2>5, <2>6, <2>7, <3>1 DEF Decrypt, name
    <3>3. QED
      BY <2>3, <2>6, <2>7, <3>2 DEF Messages
  <2>10. Tail(<<key>>) = << >>
    OBVIOUS
  <2>11. Content(<< >>, t.marks) = t
    BY <1>1 DEF Content, Contents
  <2>12. QED
    BY <2>3, <2>5, <2>6, <2>7, <2>8, <2>9, <2>10, <2>11
<1>4. QED
  BY <1>2, <1>3

-----------------------------------------------------------------------------
(* The invariant.                                                          *)

\* What the applications may have published with the algorithm a.
Genuine(a) ==
    {Unencrypted(t) : t \in Plain}
    \cup {FilterRequest(a, m, Unencrypted(t)) : m \in Marks, t \in Plain}

Held(s) == [content |-> s.content, key |-> s.key]
Stores == [there : BOOLEAN, content : Contents, key : DataKeys]
Entries == [there : BOOLEAN, content : Contents, key : DataKeys, filters : {TRUE}]

Md5s == {NoMd5} \cup {<<t>> : t \in Contents}

Publication(kind, g, md5) ==
    [kind |-> kind, content |-> g.content, cas |-> md5,
     add |-> AdditionMap(Params(kind), BetaIps(kind), g.key)]
PublishKinds == AllKinds \ {"remove"}
Requests(a) ==
    {RemoveRequest}
    \cup {Publication(kind, g, md5) : kind \in PublishKinds, g \in Genuine(a), md5 \in Md5s}

Apps(a) == [pc : Phases, n : 1..(MaxMarks + 1), read : Plain, md5 : Md5s, req : Requests(a)]

\* Every mark of the content that a md5 is of is among the marks.
Covers(marks, md5) == \A t \in Contents : md5 = <<t>> => t.marks \subseteq marks

\* A request that compares has, besides its own mark, all those of the content
\* it takes the place of; and it is for the released config.
CasFits(r) ==
    r.cas # NoMd5 => r.kind \in PublishKinds \ {"beta"} /\ Covers(r.content.marks, r.cas)

StoresInv ==
    /\ released \in Stores /\ Held(released) \in Genuine(algorithm)
    /\ beta \in Stores /\ Held(beta) \in Genuine(algorithm)
    /\ cache \in [Clients -> Entries]
    /\ \A c \in Clients : Held(cache[c]) \in Genuine(algorithm)

AppsInv ==
    /\ app \in [Clients -> Apps(algorithm)]
    /\ \A c \in Clients :
          /\ Covers(app[c].read.marks, app[c].md5)
          /\ app[c].pc \in {"found", "missing", "sent"} => app[c].n <= MaxMarks
          /\ app[c].pc = "sent" => CasFits(app[c].req)

LateInv ==
    /\ late \subseteq Requests(algorithm) /\ \A r \in late : CasFits(r)
    /\ IsFiniteSet(late) /\ Cardinality(late) <= lost /\ lost \in 0..MaxLost

IInv == algorithm \in Algorithms /\ StoresInv /\ AppsInv /\ LateInv

\* What is assumed of the instance.
Assumed == Uncontested /\ Preloaded = {}

-----------------------------------------------------------------------------
(* Contents and requests.                                                  *)

LEMMA Empty ==
    /\ Content(<< >>, {}) \in Plain /\ Absent.content \in Plain
    /\ Absent = [there |-> FALSE, content |-> Content(<< >>, {}), key |-> NoKey]
    /\ Absent.content = Content(<< >>, {}) /\ NoKey \in DataKeys
  BY DEF Absent, Content, Contents, Plain, DataKeys

LEMMA GenuineFacts ==
    ASSUME Uncontested, NEW a \in Algorithms, NEW r \in Genuine(a)
    PROVE  /\ r \in Messages /\ r.content \in Contents /\ r.key \in DataKeys
           /\ r.content.layers = IF r.key = NoKey THEN << >> ELSE <<r.key>>
           /\ FilterResponse(a, r).content \in Plain
           /\ FilterResponse(a, r).content.marks = r.content.marks
<1>1. CASE \E t \in Plain : r = Unencrypted(t)
  <2>1. PICK t \in Plain : r = Unencrypted(t)
    BY <1>1
  <2>2. r \in Messages /\ r.content = t /\ r.key = NoKey /\ t.layers = << >>
    BY <2>1 DEF Unencrypted, Messages, DataKeys, Plain
  <2>3. FilterResponse(a, r) = r
    BY <2>2, ResponseFiltered
  <2>4. QED
    BY <2>2, <2>3 DEF Messages
<1>2. CASE \E m \in Marks, t \in Plain : r = FilterRequest(a, m, Unencrypted(t))
  <2>1. PICK m \in Marks, t \in Plain : r = FilterRequest(a, m, Unencrypted(t))
    BY <1>2
  <2>2. ComesBack(a, r, t)
    BY <2>1, Undone
  <2>3. QED
    BY <2>2 DEF ComesBack, Messages
<1>3. QED
  BY <1>1, <1>2 DEF Genuine

LEMMA Filtered ==
    ASSUME Uncontested, NEW a \in Algorithms, NEW m \in Marks, NEW t \in Plain
    PROVE  /\ FilterRequest(a, m, Unencrypted(t)) \in Genuine(a)
           /\ FilterRequest(a, m, Unencrypted(t)).content.marks = t.marks
           /\ FilterRequest(a, m, Unencrypted(t)) \in Messages
<1> SUFFICES ASSUME NEW r, r = FilterRequest(a, m, Unencrypted(t))
             PROVE  r \in Genuine(a) /\ r.content.marks = t.marks /\ r \in Messages
  OBVIOUS
<1>1. r \in Genuine(a)
  BY DEF Genuine
<1>2. ComesBack(a, r, t)
  BY Undone
<1>3. QED
  BY <1>1, <1>2 DEF ComesBack

LEMMA HeldStored ==
    ASSUME Uncontested, NEW a \in Algorithms, NEW g \in Genuine(a)
    PROVE  Stored(g.content, g.key) \in Stores /\ Held(Stored(g.content, g.key)) = g
<1>1. g \in Messages
  BY GenuineFacts
<1>2. QED
  BY <1>1 DEF Messages, Stored, Stores, Held

\* The data key is the filters', and only a beta publication names its ips.
LEMMA AdditionFacts ==
    ASSUME NEW kind \in PublishKinds, NEW key
    PROVE  LET add == AdditionMap(Params(kind), BetaIps(kind), key) IN
           /\ add.encryptedDataKey = key
           /\ "betaIps" \in DOMAIN add <=> kind = "beta"
<1> DEFINE P == Params(kind)
           B == BetaIps(kind)
           K == [encryptedDataKey |-> key]
           add == AdditionMap(P, B, key)
<1>1. DOMAIN K = {"encryptedDataKey"} /\ K.encryptedDataKey = key
  OBVIOUS
<1>2. DOMAIN B = IF kind = "beta" THEN {"betaIps"} ELSE {}
  BY DEF BetaIps
<1>3. DOMAIN P = IF kind = "param" THEN {"encryptedDataKey"} ELSE {}
  BY DEF Params
<1> HIDE DEF P, B, K
<1>4. ASSUME NEW f, NEW g
      PROVE  /\ DOMAIN Insert(f, g) = DOMAIN f \cup DOMAIN g
             /\ \A x \in DOMAIN g : Insert(f, g)[x] = g[x]
  BY DEF Insert
<1>5. add = Insert(Insert(P, B), K)
  BY DEF AdditionMap, K
<1> HIDE DEF add
<1>6. /\ DOMAIN add = (DOMAIN P \cup DOMAIN B) \cup DOMAIN K
      /\ add["encryptedDataKey"] = K["encryptedDataKey"]
  <2>1. DOMAIN add = DOMAIN Insert(P, B) \cup DOMAIN K
    BY <1>4, <1>5
  <2>2. DOMAIN Insert(P, B) = DOMAIN P \cup DOMAIN B
    BY <1>4
  <2>3. "encryptedDataKey" \in DOMAIN K
    BY <1>1
  <2>4. add["encryptedDataKey"] = K["encryptedDataKey"]
    BY <1>4, <1>5, <2>3
  <2>5. QED
    BY <2>1, <2>2, <2>4
<1>7. QED
  BY <1>1, <1>2, <1>3, <1>6 DEF add, P, B

LEMMA PublicationFacts ==
    ASSUME NEW kind \in PublishKinds, NEW g \in Messages, NEW md5 \in Md5s
    PROVE  LET r == Publication(kind, g, md5) IN
           /\ r.kind = kind /\ r.content = g.content /\ r.cas = md5
           /\ r.add.encryptedDataKey = g.key
           /\ "betaIps" \in DOMAIN r.add <=> kind = "beta"
<1> DEFINE add == AdditionMap(Params(kind), BetaIps(kind), g.key)
           r == Publication(kind, g, md5)
<1>1. /\ add.encryptedDataKey = g.key
      /\ "betaIps" \in DOMAIN add <=> kind = "beta"
  BY AdditionFacts
<1> HIDE DEF add
<1>2. r = [kind |-> kind, content |-> g.content, cas |-> md5, add |-> add]
  BY DEF Publication, add
<1> HIDE DEF r
<1>3. r.kind = kind /\ r.content = g.content /\ r.cas = md5 /\ r.add = add
  BY <1>2
<1>4. QED
  BY <1>1, <1>3 DEF r

\* The server stores a request whole, and one that compares with its marks.
LEMMA ExecuteFacts ==
    ASSUME Uncontested, IInv, NEW r \in Requests(algorithm), CasFits(r), Execute(r)
    PROVE  /\ released' \in Stores /\ Held(released') \in Genuine(algorithm)
           /\ beta' \in Stores /\ Held(beta') \in Genuine(algorithm)
           /\ r.cas # NoMd5 => released.content.marks \subseteq released'.content.marks
<1>1. /\ algorithm \in Algorithms
      /\ released \in Stores /\ Held(released) \in Genuine(algorithm)
      /\ beta \in Stores /\ Held(beta) \in Genuine(algorithm)
  BY DEF IInv, StoresInv
<1>2. CASE r = RemoveRequest
  <2>1. r.kind = "remove" /\ r.cas = NoMd5
    BY <1>2 DEF RemoveRequest
  <2>2. released' = Absent /\ beta' = beta
    BY <2>1 DEF Execute
  <2>3. Absent \in Stores /\ Held(Absent) = Unencrypted(Content(<< >>, {}))
    BY Empty DEF Stores, Plain, Held, Unencrypted
  <2>4. Held(Absent) \in Genuine(algorithm)
    BY <2>3, Empty DEF Genuine
  <2>5. QED
    BY <1>1, <2>1, <2>2, <2>3, <2>4
<1>3. ASSUME NEW kind \in PublishKinds, NEW g \in Genuine(algorithm), NEW md5 \in Md5s,
             r = Publication(kind, g, md5)
      PROVE  /\ released' \in Stores /\ Held(released') \in Genuine(algorithm)
             /\ beta' \in Stores /\ Held(beta') \in Genuine(algorithm)
             /\ r.cas # NoMd5 => released.content.marks \subseteq released'.content.marks
  <2>1. g \in Messages
    BY <1>1, GenuineFacts
  <2>2. /\ r.kind = kind /\ r.content = g.content /\ r.cas = md5
        /\ r.add.encryptedDataKey = g.key
        /\ "betaIps" \in DOMAIN r.add <=> kind = "beta"
    BY <1>3, <2>1, PublicationFacts
  <2>3. /\ r.kind # "remove"
        /\ Stored(g.content, g.key) \in Stores
        /\ Held(Stored(g.content, g.key)) \in Genuine(algorithm)
        /\ Stored(g.content, g.key).content = g.content
    BY <1>1, <1>3, <2>2, HeldStored DEF PublishKinds, Stored
  <2>4. CASE ~Accepts(r)
    <3>1. released' = released /\ beta' = beta
      BY <2>3, <2>4 DEF Execute
    <3>2. QED
      BY <1>1, <3>1
  <2>5. CASE Accepts(r) /\ kind = "beta"
    <3>1. released' = released /\ beta' = Stored(g.content, g.key)
      BY <2>2, <2>3, <2>5 DEF Execute
    <3>2. QED
      BY <1>1, <2>3, <3>1
  <2>6. CASE Accepts(r) /\ kind # "beta"
    <3>1. released' = Stored(g.content, g.key) /\ beta' = beta
      BY <2>2, <2>3, <2>6 DEF Execute
    <3>2. ASSUME r.cas # NoMd5
          PROVE  released.content.marks \subseteq released'.content.marks
      <4>1. r.cas = <<released.content>> /\ released.content \in Contents
        BY <1>1, <2>6, <3>2 DEF Accepts, Md5, Stores
      <4>2. Covers(g.content.marks, r.cas)
        BY <2>2, <3>2 DEF CasFits
      <4>3. QED
        BY <2>3, <3>1, <4>1, <4>2 DEF Covers
    <3>3. QED
      BY <1>1, <2>3, <3>1, <3>2
  <2>7. QED
    BY <2>4, <2>5, <2>6
<1>4. QED
  BY <1>2, <1>3 DEF Requests

-----------------------------------------------------------------------------
(* The steps.                                                              *)

LEMMA Numbers ==
    /\ MaxMarks \in Nat /\ MaxLost \in Nat /\ 1 \in 1..(MaxMarks + 1)
    /\ \A n \in 1..MaxMarks : n + 1 \in 1..(MaxMarks + 1) /\ n \in 1..(MaxMarks + 1)
  BY PublishAssumption

LEMMA ReadingType ==
    ASSUME NEW a
    PROVE  /\ Reading \in Apps(a) /\ Reading.pc = "reading" /\ Reading.read = Absent.content
           /\ Reading.md5 = NoMd5 /\ Covers(Reading.read.marks, Reading.md5)
<1>1. RemoveRequest \in Requests(a) /\ NoMd5 \in Md5s
  BY DEF Requests, Md5s
<1>2. Reading \in Apps(a)
  BY <1>1, Empty, Numbers DEF Reading, Apps, Phases
<1>3. \A t : <<t>> # NoMd5
  BY DEF NoMd5
<1>4. QED
  BY <1>2, <1>3 DEF Reading, Covers

\* An application goes on.
LEMMA AppStep ==
    ASSUME AppsInv, NEW c \in Clients, NEW r \in Apps(algorithm),
           app' = [app EXCEPT ![c] = r], algorithm' = algorithm,
           Covers(r.read.marks, r.md5),
           r.pc \in {"found", "missing", "sent"} => r.n <= MaxMarks,
           r.pc = "sent" => CasFits(r.req)
    PROVE  AppsInv'
<1>1. /\ app \in [Clients -> Apps(algorithm)]
      /\ \A d \in Clients :
            /\ Covers(app[d].read.marks, app[d].md5)
            /\ app[d].pc \in {"found", "missing", "sent"} => app[d].n <= MaxMarks
            /\ app[d].pc = "sent" => CasFits(app[d].req)
  BY DEF AppsInv
<1>2. /\ app' \in [Clients -> Apps(algorithm)] /\ app'[c] = r
      /\ \A d \in Clients : d # c => app'[d] = app[d]
  BY <1>1
<1>3. \A d \in Clients :
            /\ Covers(app'[d].read.marks, app'[d].md5)
            /\ app'[d].pc \in {"found", "missing", "sent"} => app'[d].n <= MaxMarks
            /\ app'[d].pc = "sent" => CasFits(app'[d].req)
  BY <1>1, <1>2
<1>4. QED
  BY <1>2, <1>3 DEF AppsInv

\* An application starts over, for this mark or the next.
LEMMA AgainInv ==
    ASSUME AppsInv, NEW c \in Clients, NEW n \in 1..(MaxMarks + 1),
           ReadAgain(c, n), algorithm' = algorithm
    PROVE  AppsInv'
<1> DEFINE pc1 == IF n > MaxMarks THEN "finished" ELSE "reading"
           r == [Reading EXCEPT !.n = n, !.pc = pc1]
<1>1. app' = [app EXCEPT ![c] = r] /\ pc1 \in {"finished", "reading"}
  BY DEF ReadAgain
<1> HIDE DEF pc1
<1>2. /\ r \in Apps(algorithm) /\ r.pc = pc1
      /\ r.read = Reading.read /\ r.md5 = Reading.md5
  BY <1>1, ReadingType DEF Apps, Phases
<1> HIDE DEF r
<1>3. Covers(r.read.marks, r.md5) /\ r.pc \notin {"found", "missing", "sent"}
  BY <1>1, <1>2, ReadingType
<1>4. QED
  BY <1>1, <1>2, <1>3, AppStep

LEMMA InitInv ==
    ASSUME Assumed, Init
    PROVE  IInv
<1>1. Held(Absent) \in Genuine(algorithm) /\ Absent \in Stores
  <2>1. Held(Absent) = Unencrypted(Content(<< >>, {}))
    BY Empty DEF Held, Unencrypted
  <2>2. QED
    BY <2>1, Empty DEF Genuine, Stores, Plain
<1>2. /\ Stored(Absent.content, NoKey) \in Stores
      /\ Held(Stored(Absent.content, NoKey)) = Held(Absent)
  BY Empty DEF Stored, Stores, Held, Plain
<1>3. released \in Stores /\ Held(released) \in Genuine(algorithm) /\ beta = Absent
  BY <1>1, <1>2 DEF Init
<1>4. ASSUME NEW c \in Clients
      PROVE  cache[c] \in Entries /\ Held(cache[c]) \in Genuine(algorithm)
  <2>1. PICK s \in {released, Absent} : cache[c] = Entry(c, s)
    BY DEF Init
  <2>2. s \in Stores /\ Held(s) \in Genuine(algorithm) /\ c \notin Preloaded
    BY <1>1, <1>3 DEF Assumed
  <2>3. /\ Entry(c, s) = [there |-> s.there, content |-> s.content, key |-> s.key,
                          filters |-> TRUE]
        /\ Held(Entry(c, s)) = Held(s)
    BY <2>2 DEF Entry, Held
  <2>4. Entry(c, s) \in Entries
    BY <2>2, <2>3 DEF Stores, Entries
  <2>5. QED
    BY <2>1, <2>2, <2>3, <2>4
<1>5. cache \in [Clients -> Entries]
  BY <1>4 DEF Init
<1>6. StoresInv
  BY <1>1, <1>3, <1>4, <1>5 DEF StoresInv
<1>7. AppsInv
  <2>1. app = [c \in Clients |-> Reading]
    BY DEF Init
  <2>2. QED
    BY <2>1, ReadingType DEF AppsInv
<1>8. LateInv
  BY FS_EmptySet, Numbers DEF Init, LateInv
<1>9. QED
  BY <1>6, <1>7, <1>8 DEF IInv, Init

LEMMA GetInv ==
    ASSUME Assumed, IInv, NEW c \in Clients, Get(c)
    PROVE  IInv'
<1> DEFINE s == IF cache[c].there THEN cache[c] ELSE released
           t == FilterResponse(algorithm, Held(s)).content
           n == IF <<c, app[c].n>> \in t.marks THEN app[c].n + 1 ELSE app[c].n
           md5 == IF s.there THEN Md5(s) ELSE NoMd5
           pc1 == IF n > MaxMarks THEN "finished" ELSE IF s.there THEN "found" ELSE "missing"
           r == [Reading EXCEPT !.n = n, !.read = t, !.md5 = md5, !.pc = pc1]
<1>1. /\ cache[c] \in Entries /\ Held(cache[c]) \in Genuine(algorithm)
      /\ released \in Stores /\ Held(released) \in Genuine(algorithm)
      /\ algorithm \in Algorithms /\ Uncontested
      /\ app \in [Clients -> Apps(algorithm)]
  BY DEF IInv, StoresInv, AppsInv, Assumed
<1>2. s.content \in Contents /\ Held(s) \in Genuine(algorithm) /\ Held(s).content = s.content
  BY <1>1 DEF Entries, Stores, Held
<1>3. t \in Plain /\ t.marks = s.content.marks /\ t.marks \subseteq Marks
  <2>1. t \in Plain /\ t.marks = s.content.marks
    BY <1>1, <1>2, GenuineFacts
  <2>2. QED
    BY <1>2, <2>1 DEF Contents
<1>4. app' = [app EXCEPT ![c] = r]
  <2>1. cache[c].there => Snapshot(cache[c]) = FilterResponse(algorithm, Held(cache[c]))
    BY <1>1 DEF Entries, Snapshot, Held
  <2>2. QED
    BY <2>1 DEF Get, Held
<1>5. n \in 1..(MaxMarks + 1)
  <2>1. app[c].n \in 1..(MaxMarks + 1)
    BY <1>1 DEF Apps
  <2>2. <<c, app[c].n>> \in t.marks => app[c].n \in 1..MaxMarks
    BY <1>3 DEF Marks
  <2>3. QED
    BY <2>1, <2>2, Numbers
<1>6. md5 \in Md5s
  BY <1>2 DEF Md5s, Md5
<1>7. Covers(t.marks, md5)
  <2>1. \A u : <<u>> # NoMd5
    BY DEF NoMd5
  <2>2. \A u : <<s.content>> = <<u>> => u = s.content
    OBVIOUS
  <2> HIDE DEF t, s
  <2>3. QED
    BY <1>3, <2>1, <2>2 DEF Covers, Md5
<1> HIDE DEF s, t, n, md5
<1>8. pc1 \in Phases /\ pc1 # "sent" /\ (pc1 \in {"found", "missing"} => n <= MaxMarks)
  BY <1>5, Numbers DEF Phases
<1> HIDE DEF pc1
<1>9. /\ r \in Apps(algorithm) /\ r.n = n /\ r.read = t /\ r.md5 = md5 /\ r.pc = pc1
  BY <1>3, <1>5, <1>6, <1>8, ReadingType DEF Apps
<1> HIDE DEF r
<1>10. AppsInv'
  BY <1>4, <1>7, <1>8, <1>9, AppStep DEF IInv, Get
<1>11. QED
  BY <1>10 DEF Get, IInv, StoresInv, LateInv

LEMMA PublishStep ==
    ASSUME Assumed, IInv, NEW c \in Clients, Publish(c)
    PROVE  IInv'
<1>1. PICK kind \in AllKinds :
         /\ app[c].pc \in {"found", "missing"}
         /\ app' = [app EXCEPT ![c] = [Reading EXCEPT !.n = app[c].n, !.pc = "sent",
                                                     !.req = Request(c, kind)]]
         /\ UNCHANGED <<algorithm, released, beta, cache, late, lost>>
  BY DEF Publish
<1>2. /\ app[c] \in Apps(algorithm) /\ app[c].n <= MaxMarks /\ algorithm \in Algorithms
      /\ Covers(app[c].read.marks, app[c].md5) /\ Uncontested
  BY <1>1 DEF IInv, AppsInv, Assumed
<1>3. Request(c, kind) \in Requests(algorithm) /\ CasFits(Request(c, kind))
  <2>1. CASE kind = "remove"
    BY <2>1 DEF Request, Requests, RemoveRequest, CasFits
  <2>2. CASE kind # "remove"
    <3> DEFINE m == <<c, app[c].n>>
               t == Content(app[c].read.layers, app[c].read.marks \cup {m})
               g == FilterRequest(algorithm, m, Unencrypted(t))
               md5 == Cas(c, kind)
    <3>1. app[c].n \in 1..MaxMarks
      BY <1>2, Numbers DEF Apps
    <3>2. m \in Marks
      BY <3>1 DEF Marks
    <3>3. app[c].read \in Plain
      BY <1>2 DEF Apps
    <3> HIDE DEF m
    <3>4. t \in Plain /\ app[c].read.marks \subseteq t.marks
      BY <3>2, <3>3 DEF Plain, Content, Contents
    <3>5. kind \in PublishKinds /\ Request(c, kind) = Publication(kind, g, md5)
      BY <2>2 DEF PublishKinds, Request, PublishRequest, Publication, Unencrypted, m
    <3> HIDE DEF t
    <3>6. g \in Genuine(algorithm) /\ g.content.marks = t.marks /\ g \in Messages
      <4>1. algorithm \in Algorithms /\ Uncontested
        BY <1>2
      <4>2. QED
        BY <3>2, <3>4, <4>1, Filtered
    <3> HIDE DEF g
    <3>7. md5 \in Md5s /\ (md5 # NoMd5 => md5 = app[c].md5 /\ kind \in {"cas", "param"})
      BY <1>2 DEF Cas, CasMd5, Apps, Md5s
    <3> HIDE DEF md5
    <3>8. Publication(kind, g, md5) \in Requests(algorithm)
      BY <3>5, <3>6, <3>7 DEF Requests
    <3>9. CasFits(Publication(kind, g, md5))
      <4>1. /\ Publication(kind, g, md5).kind = kind
            /\ Publication(kind, g, md5).content = g.content
            /\ Publication(kind, g, md5).cas = md5
        BY <3>5, <3>6, <3>7, PublicationFacts
      <4>2. ASSUME md5 # NoMd5
            PROVE  kind \in PublishKinds \ {"beta"} /\ Covers(g.content.marks, md5)
        BY <1>2, <3>4, <3>5, <3>6, <3>7, <4>2 DEF Covers
      <4>3. QED
        BY <4>1, <4>2 DEF CasFits
    <3>10. QED
      BY <3>5, <3>8, <3>9
  <2>3. QED
    BY <2>1, <2>2
<1> DEFINE q == Request(c, kind)
           r == [Reading EXCEPT !.n = app[c].n, !.pc = "sent", !.req = q]
<1>4. app' = [app EXCEPT ![c] = r] /\ q \in Requests(algorithm) /\ CasFits(q)
  BY <1>1, <1>3
<1> HIDE DEF q
<1>5. /\ r \in Apps(algorithm) /\ r.pc = "sent" /\ r.n = app[c].n /\ r.req = q
      /\ r.read = Reading.read /\ r.md5 = Reading.md5
  BY <1>2, <1>4, ReadingType DEF Apps, Phases
<1> HIDE DEF r
<1>6. AppsInv'
  BY <1>1, <1>2, <1>4, <1>5, ReadingType, AppStep DEF IInv
<1>7. QED
  BY <1>1, <1>6 DEF IInv, StoresInv, LateInv

LEMMA AnswerInv ==
    ASSUME Assumed, IInv, NEW c \in Clients, Answer(c)
    PROVE  IInv'
<1> DEFINE n == IF Accepts(app[c].req) THEN app[c].n + 1 ELSE app[c].n
<1>1. /\ app[c].pc = "sent" /\ Execute(app[c].req) /\ ReadAgain(c, n)
      /\ UNCHANGED <<algorithm, cache, late, lost>>
  BY DEF Answer
<1>2. /\ app[c] \in Apps(algorithm) /\ app[c].n <= MaxMarks /\ CasFits(app[c].req)
      /\ app[c].req \in Requests(algorithm) /\ Uncontested
  BY <1>1 DEF IInv, AppsInv, Apps, Assumed
<1>3. StoresInv'
  <2>1. /\ released' \in Stores /\ Held(released') \in Genuine(algorithm)
        /\ beta' \in Stores /\ Held(beta') \in Genuine(algorithm)
    BY <1>1, <1>2, ExecuteFacts
  <2>2. QED
    BY <1>1, <2>1 DEF IInv, StoresInv
<1>4. n \in 1..(MaxMarks + 1)
  <2>1. app[c].n \in 1..MaxMarks
    BY <1>2, Numbers DEF Apps
  <2>2. QED
    BY <2>1, Numbers
<1> HIDE DEF n
<1>5. AppsInv'
  BY <1>1, <1>4, AgainInv DEF IInv
<1>6. QED
  BY <1>1, <1>3, <1>5 DEF IInv, LateInv

LEMMA LoseInv ==
    ASSUME Assumed, IInv, NEW c \in Clients, Lose(c)
    PROVE  IInv'
<1>1. /\ app[c].pc = "sent" /\ lost < MaxLost
      /\ lost' = lost + 1 /\ late' = late \cup {app[c].req}
      /\ ReadAgain(c, app[c].n)
      /\ UNCHANGED <<algorithm, released, beta, cache>>
  BY DEF Lose
<1>2. /\ app[c].n \in 1..(MaxMarks + 1) /\ CasFits(app[c].req)
      /\ app[c].req \in Requests(algorithm)
  BY <1>1 DEF IInv, AppsInv, Apps
<1>3. AppsInv'
  BY <1>1, <1>2, AgainInv DEF IInv
<1>4. LateInv'
  <2>1. /\ late \subseteq Requests(algorithm) /\ (\A r \in late : CasFits(r))
        /\ IsFiniteSet(late) /\ Cardinality(late) <= lost /\ lost \in 0..MaxLost
    BY DEF IInv, LateInv
  <2>2. /\ IsFiniteSet(late') /\ Cardinality(late) \in Nat
        /\ Cardinality(late') \in {Cardinality(late), Cardinality(late) + 1}
    BY <1>1, <2>1, FS_AddElement, FS_CardinalityType
  <2>3. Cardinality(late') <= lost' /\ lost' \in 0..MaxLost
    BY <1>1, <2>1, <2>2, Numbers
  <2>4. late' \subseteq Requests(algorithm') /\ \A r \in late' : CasFits(r)
    BY <1>1, <1>2, <2>1
  <2>5. QED
    BY <2>2, <2>3, <2>4 DEF LateInv
<1>5. QED
  BY <1>1, <1>3, <1>4 DEF IInv, StoresInv

LEMMA ExecuteLateInv ==
    ASSUME Assumed, IInv, ExecuteLate
    PROVE  IInv'
<1>1. PICK r \in late : Execute(r) /\ late' = late \ {r}
  BY DEF ExecuteLate
<1>2. UNCHANGED <<algorithm, cache, app, lost>>
  BY DEF ExecuteLate
<1>3. /\ late \subseteq Requests(algorithm) /\ (\A q \in late : CasFits(q))
      /\ IsFiniteSet(late) /\ Cardinality(late) <= lost /\ lost \in 0..MaxLost
  BY DEF IInv, LateInv
<1>4. StoresInv'
  <2>1. /\ released' \in Stores /\ Held(released') \in Genuine(algorithm)
        /\ beta' \in Stores /\ Held(beta') \in Genuine(algorithm)
    BY <1>1, <1>3, ExecuteFacts DEF Assumed
  <2>2. QED
    BY <1>2, <2>1 DEF IInv, StoresInv
<1>5. LateInv'
  <2>1. /\ IsFiniteSet(late') /\ Cardinality(late') <= Cardinality(late)
        /\ Cardinality(late) \in Nat /\ Cardinality(late') \in Nat
    BY <1>1, <1>3, FS_Subset, FS_CardinalityType
  <2>2. Cardinality(late') <= lost'
    BY <1>2, <1>3, <2>1
  <2>3. QED
    BY <1>1, <1>2, <1>3, <2>1, <2>2 DEF LateInv
<1>6. QED
  BY <1>2, <1>4, <1>5 DEF IInv, AppsInv

LEMMA RefreshedEntry ==
    ASSUME NEW o \in Entries, NEW s \in Stores
    PROVE  LET e == [o EXCEPT !.there = TRUE, !.content = s.content, !.key = s.key] IN
           e \in Entries /\ Held(e) = Held(s)
  BY DEF Entries, Stores, Held

LEMMA RefreshInv ==
    ASSUME IInv, NEW c \in Clients, Refresh(c)
    PROVE  IInv'
<1> DEFINE e == [cache[c] EXCEPT !.there = TRUE, !.content = released.content,
                                 !.key = released.key]
<1>1. /\ cache' = [cache EXCEPT ![c] = e]
      /\ UNCHANGED <<algorithm, released, beta, app, late, lost>>
  BY DEF Refresh
<1>2. /\ released \in Stores /\ Held(released) \in Genuine(algorithm)
      /\ cache \in [Clients -> Entries]
      /\ \A d \in Clients : Held(cache[d]) \in Genuine(algorithm)
  BY DEF IInv, StoresInv
<1>3. e \in Entries /\ Held(e) = Held(released)
  BY <1>2, RefreshedEntry
<1> HIDE DEF e
<1>4. /\ cache' \in [Clients -> Entries]
      /\ \A d \in Clients : Held(cache'[d]) \in Genuine(algorithm)
  BY <1>1, <1>2, <1>3
<1>5. QED
  BY <1>1, <1>4 DEF IInv, StoresInv, AppsInv, LateInv

LEMMA InductiveInv ==
    ASSUME Assumed
    PROVE  Spec => []IInv
<1>1. Init => IInv
  BY InitInv
<1>2. IInv /\ [Next]_vars => IInv'
  <2> SUFFICES ASSUME IInv, [Next]_vars
               PROVE  IInv'
    OBVIOUS
  <2>1. CASE ExecuteLate
    BY <2>1, ExecuteLateInv
  <2>2. CASE UNCHANGED vars
    BY <2>2 DEF vars, IInv, StoresInv, AppsInv, LateInv
  <2>3. CASE \E c \in Clients : Get(c) \/ Publish(c) \/ Answer(c) \/ Lose(c) \/ Refresh(c)
    BY <2>3, GetInv, PublishStep, AnswerInv, LoseInv, RefreshInv
  <2>4. QED
    BY <2>1, <2>2, <2>3 DEF Next
<1>3. QED
  BY <1>1, <1>2, PTL DEF Spec

-----------------------------------------------------------------------------
(* The theorems.                                                           *)

\* What the server and the entries hold, a content of the applications with the
\* key that belongs to it.
LEMMA KeysFit ==
    ASSUME Uncontested, NEW a \in Algorithms, NEW s, Held(s) \in Genuine(a)
    PROVE  /\ s.content \in Contents /\ s.key \in DataKeys
           /\ s.content.layers = IF s.key = NoKey THEN << >> ELSE <<s.key>>
<1>1. Held(s).content = s.content /\ Held(s).key = s.key
  BY DEF Held
<1>2. QED
  BY <1>1, GenuineFacts

LEMMA TypesFit ==
    /\ \A t \in Contents : IsContent(t)
    /\ \A k \in DataKeys : IsKey(k)
  BY DEF Contents, DataKeys, IsContent, IsKey

LEMMA PublishInvHolds ==
    ASSUME Assumed, IInv
    PROVE  PublishInv
<1>1. \A s \in {released, beta} \cup Range(cache) : Held(s) \in Genuine(algorithm)
  BY DEF IInv, StoresInv, Range
<1>2. KeyFitsContent
  BY <1>1, KeysFit DEF KeyFitsContent, IInv, Assumed
<1>3. \A s \in {released, beta} \cup Range(cache) : IsContent(s.content) /\ IsKey(s.key)
  BY <1>1, KeysFit, TypesFit DEF IInv, Assumed
<1>4. \A c \in Clients : /\ app[c].pc \in Phases /\ app[c].n \in 1..MaxMarks + 1
                         /\ IsContent(app[c].read)
  BY TypesFit DEF IInv, AppsInv, Apps, Plain
<1>5. QED
  BY <1>2, <1>3, <1>4 DEF PublishInv, PublishTypeOK, IInv, LateInv

\* Whatever the filters and the parameters of the applications, and however
\* requests are lost and late, what the server and the entries hold is a content
\* of the applications, and its data key is the one it is encrypted with
\* (ConfigEncryptionFilter::filter, publish_config_inner, fill_data).
THEOREM PublishInvTheorem ==
    ASSUME Assumed
    PROVE  Spec => []PublishInv
<1>1. IInv => PublishInv
  BY PublishInvHolds
<1>2. QED
  BY <1>1, InductiveInv, PTL

\* get_config gives back the content as it was before publish_config encrypted
\* it, from the server or from the entry of a listener.
THEOREM ReadsArePlainTheorem ==
    ASSUME Assumed
    PROVE  Spec => []ReadsArePlain
<1>1. IInv => ReadsArePlain
  BY DEF IInv, AppsInv, Apps, Plain, ReadsArePlain
<1>2. QED
  BY <1>1, InductiveInv, PTL

LEMMA StepKeepsMarks ==
    ASSUME Assumed, IInv, [Next]_vars, NEW req \in Executed, req.cas # NoMd5
    PROVE  released.content.marks \subseteq released'.content.marks
<1> DEFINE Goal == released.content.marks \subseteq released'.content.marks
<1>1. ASSUME released' = released
      PROVE  Goal
  BY <1>1
<1>2. ASSUME NEW c \in Clients, Answer(c)
      PROVE  Goal
  <2>1. app[c].pc = "sent" /\ Execute(app[c].req) /\ late' = late
    BY <1>2 DEF Answer
  <2>2. \A d \in Clients : d # c => app'[d] = app[d]
    BY <1>2 DEF Answer, ReadAgain, IInv, AppsInv
  <2>3. req = app[c].req
    BY <2>1, <2>2 DEF Executed
  <2>4. app[c].req \in Requests(algorithm) /\ CasFits(app[c].req)
    BY <2>1 DEF IInv, AppsInv, Apps
  <2>5. QED
    BY <2>1, <2>3, <2>4, ExecuteFacts DEF Assumed
<1>3. ASSUME ExecuteLate
      PROVE  Goal
  <2>1. PICK r \in late : Execute(r) /\ late' = late \ {r} /\ app' = app
    BY <1>3 DEF ExecuteLate
  <2>2. req = r
    BY <2>1 DEF Executed
  <2>3. r \in Requests(algorithm) /\ CasFits(r)
    BY <2>1 DEF IInv, LateInv
  <2>4. QED
    BY <2>1, <2>2, <2>3, ExecuteFacts DEF Assumed
<1>4. ASSUME NEW c \in Clients, Get(c) \/ Publish(c) \/ Lose(c) \/ Refresh(c)
      PROVE  released' = released
  BY <1>4 DEF Get, Publish, Lose, Refresh
<1>5. ASSUME UNCHANGED vars
      PROVE  released' = released
  BY <1>5 DEF vars
<1> HIDE DEF Goal
<1>6. Goal
  BY <1>1, <1>2, <1>3, <1>4, <1>5 DEF Next
<1>7. QED
  BY <1>6 DEF Goal

\* A publication that compares, with the md5 of the content its application
\* read, never takes away a mark (publish_config_cas, publish_config_param):
\* late, after a lost answer, or from an entry that was stale.
THEOREM NoUpdateLostTheorem ==
    ASSUME Assumed
    PROVE  Spec => NoUpdateLost
<1>1. IInv /\ [Next]_vars
        => [\A req \in Executed : req.cas # NoMd5
              => released.content.marks \subseteq released'.content.marks]_vars
  BY StepKeepsMarks
<1>2. QED
  BY <1>1, InductiveInv, PTL DEF Spec, NoUpdateLost
=============================================================================
