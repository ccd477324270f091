------------------------- MODULE TrustStore_proofs -------------------------
(***************************************************************************)
(* What merging does to a trust store, for every content and every bundle: *)
(* nothing that a reader found is lost, the whole bundle is found          *)
(* afterwards, and merging again adds nothing.                             *)
(***************************************************************************)
EXTENDS TrustStore, FiniteSetTheorems, SequenceTheorems, WellFoundedInduction,
        TLAPS

-----------------------------------------------------------------------------
(* Induction over the natural numbers, with sets for predicates            *)

\* A set of natural numbers has a least one.
LEMMA Least ==
    ASSUME NEW S, S \subseteq Nat, S # {}
    PROVE  \E m \in S : \A k \in S : m =< k
<1> DEFINE R == OpToRel(<, Nat)
<1>1. IsWellFoundedOn(R, Nat)
  BY NatLessThanWellFounded
<1>2. \E m \in S : \A k \in S : <<k, m>> \notin R
  BY <1>1, WFMin
<1>3. \A k, m \in Nat : <<k, m>> \in R <=> k < m
  BY DEF OpToRel
<1> HIDE DEF R
<1>4. PICK m \in S : \A k \in S : <<k, m>> \notin R
  BY <1>2
<1>5. \A k \in S : ~(k < m)
  BY <1>3, <1>4
<1> QED
  BY <1>5

\* A set that has 0 and with every number the next one has them all.
LEMMA Induction ==
    ASSUME NEW S, 0 \in S, \A n \in Nat : n \in S => n + 1 \in S
    PROVE  Nat \subseteq S
<1> SUFFICES ASSUME Nat \ S # {} PROVE FALSE
  OBVIOUS
<1>1. PICK m \in Nat \ S : \A k \in Nat \ S : m =< k
  BY Least
<1>2. m # 0 /\ m - 1 \in Nat /\ m - 1 \in S
  BY <1>1
<1> QED
  BY <1>1, <1>2

-----------------------------------------------------------------------------
(* Sequences                                                               *)

LEMMA FunctionIsSeq ==
    ASSUME NEW S, NEW n \in Nat, NEW f \in [1..n -> S]
    PROVE  f \in Seq(S) /\ Len(f) = n
  BY SeqDef

LEMMA RangeAppend ==
    ASSUME NEW S, NEW s \in Seq(S), NEW e \in S
    PROVE  Range(Append(s, e)) = Range(s) \cup {e}
<1> DEFINE t == Append(s, e)
<1>1. /\ t \in Seq(S) /\ Len(t) = Len(s) + 1 /\ t[Len(s) + 1] = e
      /\ \A i \in 1..Len(s) : t[i] = s[i]
      /\ Len(s) \in Nat
  BY AppendProperties
<1> HIDE DEF t
<1>2. /\ Range(t) = {t[i] : i \in 1..Len(t)}
      /\ Range(s) = {s[i] : i \in 1..Len(s)}
  BY <1>1, RangeEquality
<1> QED
  BY <1>1, <1>2 DEF t

-----------------------------------------------------------------------------
(* What is missing                                                         *)

\* The step of the recursion in Missing.
NewStep(present, add, new, n) ==
    IF n = 0 THEN <<>>
    ELSE IF add[n] \in present \cup Range(new[n - 1]) THEN new[n - 1]
    ELSE Append(new[n - 1], add[n])

\* The recursion of Missing has a solution.
LEMMA MissingExists ==
    ASSUME NEW present, NEW add, Len(add) \in Nat
    PROVE  \E new : new = [n \in 0..Len(add) |-> NewStep(present, add, new, n)]
<1> DEFINE P == {m \in Nat :
                   \E g : g = [n \in 0..m |-> NewStep(present, add, g, n)]}
<1>1. 0 \in P
  <2> DEFINE g == [n \in 0..0 |-> <<>>]
  <2>1. g = [n \in 0..0 |-> NewStep(present, add, g, n)]
    BY DEF NewStep
  <2> QED
    BY <2>1
<1>2. ASSUME NEW m \in Nat, m \in P PROVE m + 1 \in P
  <2>1. PICK g : g = [n \in 0..m |-> NewStep(present, add, g, n)]
    BY <1>2
  <2> DEFINE h == [n \in 0..(m + 1) |->
                     IF n = m + 1 THEN NewStep(present, add, g, n) ELSE g[n]]
  <2>2. ASSUME NEW n \in 0..(m + 1)
        PROVE  NewStep(present, add, h, n) = NewStep(present, add, g, n)
    <3>1. n # 0 => n - 1 \in 0..m /\ h[n - 1] = g[n - 1]
      OBVIOUS
    <3> HIDE DEF h
    <3> QED
      BY <3>1 DEF NewStep
  <2>3. \A n \in 0..m : g[n] = NewStep(present, add, g, n)
    BY <2>1
  <2>4. h = [n \in 0..(m + 1) |-> NewStep(present, add, h, n)]
    <3>1. \A n \in 0..(m + 1) : h[n] = NewStep(present, add, h, n)
      BY <2>2, <2>3
    <3>2. h = [n \in 0..(m + 1) |-> h[n]]
      OBVIOUS
    <3> HIDE DEF h
    <3> QED
      BY <3>1, <3>2
  <2> HIDE DEF h
  <2> QED
    BY <2>4
<1>3. Len(add) \in P
  <2> HIDE DEF P
  <2> QED
    BY <1>1, <1>2, Induction
<1> QED
  BY <1>3

\* The certificates that Missing returns are of the bundle and complete what
\* is present; there are none exactly if all are present.
LEMMA MissingFacts ==
    ASSUME NEW S, NEW present, NEW add \in Seq(S)
    PROVE  /\ Missing(present, add) \in Seq(S)
           /\ Range(add) \subseteq present \cup Range(Missing(present, add))
           /\ Range(Missing(present, add)) \subseteq Range(add)
           /\ Range(add) \subseteq present => Missing(present, add) = <<>>
<1> DEFINE F(g) == [n \in 0..Len(add) |-> NewStep(present, add, g, n)]
           new == CHOOSE g : g = F(g)
<1>1. Len(add) \in Nat /\ \A n \in 1..Len(add) : add[n] \in S
  OBVIOUS
<1>2. new = F(new)
  BY <1>1, MissingExists
<1>3. Missing(present, add) = new[Len(add)]
  BY DEF Missing, NewStep
<1>4. \A n \in 0..Len(add) : new[n] = NewStep(present, add, new, n)
  BY <1>2
<1> HIDE DEF new
<1> DEFINE Good(n) ==
             /\ new[n] \in Seq(S)
             /\ \A i \in 1..n : add[i] \in present \cup Range(new[n])
             /\ Range(new[n]) \subseteq Range(add)
             /\ Range(add) \subseteq present => new[n] = <<>>
           P == {n \in Nat : n =< Len(add) => Good(n)}
<1>5. 0 \in P
  <2>1. new[0] = <<>>
    BY <1>1, <1>4 DEF NewStep
  <2>2. new[0] \in Seq(S) /\ Len(new[0]) = 0
    BY <2>1, EmptySeq
  <2>3. Range(new[0]) = {}
    BY <2>2, RangeEquality
  <2>4. Good(0)
    BY <2>1, <2>2, <2>3
  <2> HIDE DEF Good
  <2> QED
    BY <2>4
<1>6. ASSUME NEW n \in Nat, n \in P PROVE n + 1 \in P
  <2> SUFFICES ASSUME n + 1 =< Len(add) PROVE Good(n + 1)
    OBVIOUS
  <2>1. Good(n)
    BY <1>1, <1>6
  <2>2. /\ add[n + 1] \in S /\ add[n + 1] \in Range(add)
        /\ n + 1 \in 1..Len(add)
    BY <1>1, RangeEquality
  <2>3. new[n + 1] = NewStep(present, add, new, n + 1)
    BY <1>4, <2>2
  <2>4. CASE add[n + 1] \in present \cup Range(new[n])
    <3>1. new[n + 1] = new[n]
      BY <2>3, <2>4 DEF NewStep
    <3> QED
      BY <2>1, <2>4, <3>1
  <2>5. CASE add[n + 1] \notin present \cup Range(new[n])
    <3>1. new[n + 1] = Append(new[n], add[n + 1])
      BY <2>3, <2>5 DEF NewStep
    <3>2. /\ new[n + 1] \in Seq(S)
          /\ Range(new[n + 1]) = Range(new[n]) \cup {add[n + 1]}
      BY <2>1, <2>2, <3>1, AppendProperties, RangeAppend
    <3> QED
      BY <2>1, <2>2, <2>5, <3>2
  <2> QED
    BY <2>4, <2>5
<1>7. Good(Len(add))
  <2> HIDE DEF Good
  <2>1. Nat \subseteq P
    <3> HIDE DEF P
    <3> QED
      BY <1>5, <1>6, Induction
  <2> QED
    BY <1>1, <2>1
<1>8. Range(add) = {add[i] : i \in 1..Len(add)}
  BY RangeEquality
<1> QED
  BY <1>3, <1>7, <1>8

-----------------------------------------------------------------------------
(* Aliases                                                                 *)

AliasType == [prefix : Text, name : Text, suffix : Seq(Nat)]

LEMMA AliasTyped ==
    ASSUME NEW name \in Text
    PROVE  Alias(name) \in AliasType
<1> DEFINE e == <<>>
           b == ""
<1>1. e \in Seq(Nat)
  BY EmptySeq
<1>2. Alias(name) = [prefix |-> b, name |-> name, suffix |-> e]
  BY DEF Alias
<1>3. b \in Text
  BY DEF Text
<1> HIDE DEF e, b
<1> QED
  BY <1>1, <1>2, <1>3 DEF AliasType

\* base, base-2, base-3, ... are all different.
LEMMA NumberedDiffer ==
    ASSUME NEW base \in AliasType, NEW n \in Nat \ {0}
    PROVE  /\ Numbered(base, n) \in AliasType
           /\ \A m \in Nat \ {0} :
                Numbered(base, n) = Numbered(base, m) => n = m
<1> DEFINE s == base.suffix
<1>1. s \in Seq(Nat)
  BY DEF AliasType
<1>2. ASSUME NEW k \in Nat \ {0}
      PROVE  /\ Numbered(base, k) \in AliasType
             /\ Numbered(base, k).suffix = IF k = 1 THEN s ELSE Append(s, k)
  <2>1. Append(s, k) \in Seq(Nat)
    BY <1>1, AppendProperties
  <2> QED
    BY <2>1 DEF Numbered, AliasType
<1>3. ASSUME NEW k \in Nat \ {0} PROVE Append(s, k) # s
  <2>1. Len(Append(s, k)) = Len(s) + 1 /\ Len(s) \in Nat
    BY <1>1, AppendProperties, LenProperties
  <2> QED
    BY <2>1
<1>4. ASSUME NEW m \in Nat \ {0}, Numbered(base, n) = Numbered(base, m)
      PROVE  n = m
  <2>1. /\ Numbered(base, n).suffix = IF n = 1 THEN s ELSE Append(s, n)
        /\ Numbered(base, m).suffix = IF m = 1 THEN s ELSE Append(s, m)
    BY <1>2
  <2>2. Append(s, n) = Append(s, m) => n = m
    BY <1>1, AppendInjective
  <2> QED
    BY <1>3, <1>4, <2>1, <2>2
<1> QED
  BY <1>2, <1>4

\* uniqueAlias finds an alias that is not taken.
LEMMA FreeAliasFree ==
    ASSUME NEW alias \in AliasType, NEW taken, IsFiniteSet(taken)
    PROVE  /\ FreeAlias(alias, taken) \in AliasType
           /\ FreeAlias(alias, taken) \notin taken
<1> DEFINE base == IF alias = NoAlias THEN Alias("cert") ELSE alias
           N == Cardinality(taken) + 1
           Free == {n \in 1..N : Numbered(base, n) \notin taken}
<1>1. base \in AliasType
  <2>1. "cert" \in Text
    BY DEF Text
  <2>2. Alias("cert") \in AliasType
    BY <2>1, AliasTyped
  <2> QED
    BY <2>2
<1>2. N \in Nat \ {0} /\ Cardinality(taken) < N /\ Cardinality(taken) \in Nat
  BY FS_CardinalityType
<1>3. FreeAlias(alias, taken) = Numbered(base, Min(Free))
  BY DEF FreeAlias
<1> HIDE DEF base, N
<1>4. Free # {}
  <2> SUFFICES ASSUME \A n \in 1..N : Numbered(base, n) \in taken PROVE FALSE
    OBVIOUS
  <2> DEFINE f == [n \in 1..N |-> Numbered(base, n)]
  <2>1. f \in [1..N -> taken]
    OBVIOUS
  <2>2. IsFiniteSet(1..N) /\ Cardinality(1..N) = N
    BY <1>2, FS_Interval
  <2> HIDE DEF f
  <2>3. PICK x, y \in 1..N : x # y /\ f[x] = f[y]
    BY <1>2, <2>1, <2>2, FS_PigeonHole
  <2>4. Numbered(base, x) = Numbered(base, y)
    BY <2>3 DEF f
  <2>5. x \in Nat \ {0} /\ y \in Nat \ {0}
    BY <1>2
  <2> QED
    BY <1>1, <2>3, <2>4, <2>5, NumberedDiffer
<1>5. Free \subseteq Nat
  BY <1>2
<1>6. \E m \in Free : \A k \in Free : m =< k
  <2> HIDE DEF Free
  <2> QED
    BY <1>4, <1>5, Least
<1>7. Min(Free) \in Free
  <2> HIDE DEF Free
  <2> QED
    BY <1>6 DEF Min
<1>8. Min(Free) \in Nat \ {0} /\ Numbered(base, Min(Free)) \notin taken
  BY <1>2, <1>7
<1> QED
  BY <1>1, <1>3, <1>8, NumberedDiffer

\* The step of the recursion in DedupeAliases.
AliasStep(entries, alias, i) ==
    FreeAlias(entries[i].alias, {alias[j] : j \in 1..(i - 1)})

\* The recursion of DedupeAliases has a solution.
LEMMA AliasesExist ==
    ASSUME NEW entries, NEW N \in Nat
    PROVE  \E alias : alias = [i \in 1..N |-> AliasStep(entries, alias, i)]
<1> DEFINE P == {m \in Nat :
                   \E g : g = [i \in 1..m |-> AliasStep(entries, g, i)]}
<1>1. 0 \in P
  <2> DEFINE g == [i \in 1..0 |-> 0]
  <2>1. g = [i \in 1..0 |-> AliasStep(entries, g, i)]
    OBVIOUS
  <2> QED
    BY <2>1
<1>2. ASSUME NEW m \in Nat, m \in P PROVE m + 1 \in P
  <2>1. PICK g : g = [i \in 1..m |-> AliasStep(entries, g, i)]
    BY <1>2
  <2> DEFINE h == [i \in 1..(m + 1) |->
                     IF i = m + 1 THEN AliasStep(entries, g, i) ELSE g[i]]
  <2>2. ASSUME NEW i \in 1..(m + 1)
        PROVE  AliasStep(entries, h, i) = AliasStep(entries, g, i)
    <3>1. \A j \in 1..(i - 1) : h[j] = g[j]
      OBVIOUS
    <3> HIDE DEF h
    <3>2. {h[j] : j \in 1..(i - 1)} = {g[j] : j \in 1..(i - 1)}
      BY <3>1
    <3> QED
      BY <3>2 DEF AliasStep
  <2>3. \A i \in 1..m : g[i] = AliasStep(entries, g, i)
    BY <2>1
  <2>4. h = [i \in 1..(m + 1) |-> AliasStep(entries, h, i)]
    <3>1. \A i \in 1..(m + 1) : h[i] = AliasStep(entries, h, i)
      BY <2>2, <2>3
    <3>2. h = [i \in 1..(m + 1) |-> h[i]]
      OBVIOUS
    <3> HIDE DEF h
    <3> QED
      BY <3>1, <3>2
  <2> HIDE DEF h
  <2> QED
    BY <2>4
<1>3. N \in P
  <2> HIDE DEF P
  <2> QED
    BY <1>1, <1>2, Induction
<1> QED
  BY <1>3

\* The entries keep their order and their certificates, and no two of them
\* have the same alias.
LEMMA DedupeFacts ==
    ASSUME NEW entries \in Seq(Entry)
    PROVE  LET d == DedupeAliases(entries)
           IN  /\ d \in Seq(Entry) /\ Len(d) = Len(entries)
               /\ \A i \in 1..Len(entries) : d[i].cert = entries[i].cert
               /\ \A i, j \in 1..Len(entries) :
                    i # j => d[i].alias # d[j].alias
<1> DEFINE N == Len(entries)
           alias == CHOOSE g : g = [i \in 1..N |-> AliasStep(entries, g, i)]
           d == [i \in 1..N |-> [entries[i] EXCEPT !.alias = alias[i]]]
<1>1. N \in Nat /\ DOMAIN entries = 1..N /\ \A i \in 1..N : entries[i] \in Entry
  BY LenProperties, ElementOfSeq
<1>2. DedupeAliases(entries) = d
  BY <1>1 DEF DedupeAliases, AliasStep
<1>3. alias = [i \in 1..N |-> AliasStep(entries, alias, i)]
  BY <1>1, AliasesExist
<1> HIDE DEF alias, N
<1>4. ASSUME NEW i \in 1..N
      PROVE  /\ alias[i] \in AliasType
             /\ \A j \in 1..(i - 1) : alias[i] # alias[j]
  <2> DEFINE taken == {alias[j] : j \in 1..(i - 1)}
             f == [j \in 1..(i - 1) |-> alias[j]]
  <2>1. alias[i] = FreeAlias(entries[i].alias, taken)
    BY <1>3 DEF AliasStep
  <2>2. IsFiniteSet(taken)
    <3>1. f \in Surjection(1..(i - 1), taken)
      BY DEF Surjection
    <3>2. IsFiniteSet(1..(i - 1))
      BY <1>1, FS_Interval
    <3> HIDE DEF f, taken
    <3> QED
      BY <3>1, <3>2, FS_Surjection
  <2>3. entries[i].alias \in AliasType
    BY <1>1 DEF Entry, AliasType
  <2>4. alias[i] \in AliasType /\ alias[i] \notin taken
    <3> HIDE DEF taken
    <3> QED
      BY <2>1, <2>2, <2>3, FreeAliasFree
  <2> QED
    BY <2>4
<1>5. \A i \in 1..N : /\ d[i] \in Entry
                      /\ d[i].cert = entries[i].cert
                      /\ d[i].alias = alias[i]
  BY <1>1, <1>4 DEF Entry, AliasType
<1>6. d \in Seq(Entry) /\ Len(d) = N
  <2>1. d = [i \in 1..N |-> d[i]]
    OBVIOUS
  <2> HIDE DEF d
  <2>2. d \in [1..N -> Entry]
    BY <1>5, <2>1
  <2> QED
    BY <1>1, <2>2, FunctionIsSeq
<1>7. ASSUME NEW i \in 1..N, NEW j \in 1..N, i # j
      PROVE  alias[i] # alias[j]
  <2>1. i \in 1..(j - 1) \/ j \in 1..(i - 1)
    BY <1>1, <1>7
  <2> QED
    BY <1>4, <2>1
<1> HIDE DEF d
<1> QED
  BY <1>2, <1>5, <1>6, <1>7 DEF N

-----------------------------------------------------------------------------
(* Merging                                                                 *)

LEMMA CertsOf ==
    ASSUME NEW s \in Seq(Entry)
    PROVE  Certs(s) = {s[i].cert : i \in 1..Len(s)}
<1>1. DOMAIN s = 1..Len(s)
  BY LenProperties
<1> QED
  BY <1>1 DEF Certs

LEMMA CertsConcat ==
    ASSUME NEW s \in Seq(Entry), NEW t \in Seq(Entry)
    PROVE  s \o t \in Seq(Entry) /\ Certs(s \o t) = Certs(s) \cup Certs(t)
<1> DEFINE u == s \o t
<1>1. /\ u \in Seq(Entry) /\ Len(u) = Len(s) + Len(t)
      /\ \A i \in 1..(Len(s) + Len(t)) :
           u[i] = IF i =< Len(s) THEN s[i] ELSE t[i - Len(s)]
      /\ Len(s) \in Nat /\ Len(t) \in Nat
  BY ConcatProperties, LenProperties
<1> HIDE DEF u
<1>2. \A i \in 1..Len(u) : \/ i \in 1..Len(s) /\ u[i] = s[i]
                           \/ i - Len(s) \in 1..Len(t) /\ u[i] = t[i - Len(s)]
  BY <1>1
<1>3. \A i \in 1..Len(s) : i \in 1..Len(u) /\ u[i] = s[i]
  BY <1>1
<1>4. ASSUME NEW i \in 1..Len(t)
      PROVE  i + Len(s) \in 1..Len(u) /\ u[i + Len(s)] = t[i]
  BY <1>1
<1>5. Certs(u) = Certs(s) \cup Certs(t)
  <2>1. \A c \in Certs(u) : c \in Certs(s) \cup Certs(t)
    <3> TAKE c \in Certs(u)
    <3>1. PICK i \in 1..Len(u) : c = u[i].cert
      BY <1>1, CertsOf
    <3>2. CASE i \in 1..Len(s) /\ u[i] = s[i]
      <4>1. \E k \in 1..Len(s) : c = s[k].cert
        BY <3>1, <3>2
      <4> QED
        BY <4>1, CertsOf
    <3>3. CASE i - Len(s) \in 1..Len(t) /\ u[i] = t[i - Len(s)]
      <4>1. \E k \in 1..Len(t) : c = t[k].cert
        BY <3>1, <3>3
      <4> QED
        BY <4>1, CertsOf
    <3> QED
      BY <1>2, <3>2, <3>3
  <2>2. \A c \in Certs(s) : c \in Certs(u)
    <3> TAKE c \in Certs(s)
    <3>1. PICK i \in 1..Len(s) : c = s[i].cert
      BY CertsOf
    <3>2. \E k \in 1..Len(u) : c = u[k].cert
      BY <1>3, <3>1
    <3> QED
      BY <1>1, <3>2, CertsOf
  <2>3. \A c \in Certs(t) : c \in Certs(u)
    <3> TAKE c \in Certs(t)
    <3>1. PICK i \in 1..Len(t) : c = t[i].cert
      BY CertsOf
    <3>2. i + Len(s) \in 1..Len(u) /\ u[i + Len(s)].cert = c
      BY <1>4, <3>1
    <3> QED
      BY <1>1, <3>2, CertsOf
  <2> QED
    BY <2>1, <2>2, <2>3
<1> QED
  BY <1>1, <1>5 DEF u

\* A sequence of entries with given certificates.
LEMMA EntriesFor ==
    ASSUME NEW certs \in Seq(STRING), NEW s,
           s = [i \in DOMAIN certs |-> s[i]],
           \A i \in DOMAIN certs : s[i] \in Entry /\ s[i].cert = certs[i]
    PROVE  s \in Seq(Entry) /\ Len(s) = Len(certs) /\ Certs(s) = Range(certs)
<1>1. DOMAIN certs = 1..Len(certs) /\ Len(certs) \in Nat
  BY LenProperties
<1>2. s \in Seq(Entry) /\ Len(s) = Len(certs)
  BY <1>1, FunctionIsSeq
<1>3. Range(certs) = {certs[i] : i \in 1..Len(certs)}
  BY RangeEquality
<1>4. Certs(s) = {s[i].cert : i \in 1..Len(certs)}
  BY <1>2, CertsOf
<1>5. \A i \in 1..Len(certs) : s[i].cert = certs[i]
  BY <1>1
<1>6. {s[i].cert : i \in 1..Len(certs)} = {certs[i] : i \in 1..Len(certs)}
  BY <1>5
<1> QED
  BY <1>2, <1>3, <1>4, <1>6

\* What is parsed has the certificates of the file.
LEMMA ParsedFacts ==
    ASSUME NEW c \in Content,
           c.format = "PKCS12" => Certs(c.entries) \subseteq Cert
    PROVE  /\ Parsed(c) \in Seq(Entry) /\ Len(Parsed(c)) = Len(c.entries)
           /\ Certs(Parsed(c)) = Certs(c.entries)
<1> DEFINE e == c.entries
           p == [i \in DOMAIN e |-> [e[i] EXCEPT !.alias = AliasFor(e[i].cert)]]
<1>1. e \in Seq(Entry)
  BY DEF Content
<1>2. /\ DOMAIN e = 1..Len(e) /\ Len(e) \in Nat
      /\ \A i \in 1..Len(e) : e[i] \in Entry
  BY <1>1, LenProperties, ElementOfSeq
<1>3. CASE c.format # "PKCS12"
  BY <1>1, <1>3 DEF Parsed
<1>4. CASE c.format = "PKCS12"
  <2>1. Parsed(c) = p
    BY <1>4 DEF Parsed
  <2>2. ASSUME NEW i \in 1..Len(e)
        PROVE  AliasFor(e[i].cert) \in AliasType
    <3>1. CommonName(e[i].cert) \in Text
      BY <1>1, <1>4, CertsOf, CertAssumption
    <3> QED
      BY <3>1, AliasTyped DEF AliasFor
  <2>3. \A i \in 1..Len(e) : p[i] \in Entry /\ p[i].cert = e[i].cert
    BY <1>2, <2>2 DEF Entry, AliasType
  <2>4. p = [i \in 1..Len(e) |-> p[i]]
    BY <1>2
  <2> HIDE DEF p
  <2>5. p \in Seq(Entry) /\ Len(p) = Len(e)
    <3>1. p \in [1..Len(e) -> Entry]
      BY <2>3, <2>4
    <3> QED
      BY <1>2, <3>1, FunctionIsSeq
  <2>6. Certs(p) = Certs(e)
    <3>1. Certs(p) = {p[i].cert : i \in 1..Len(p)}
      BY <2>5, CertsOf
    <3>2. Certs(e) = {e[i].cert : i \in 1..Len(e)}
      BY <1>1, CertsOf
    <3> HIDE DEF e
    <3> QED
      BY <2>3, <2>5, <3>1, <3>2
  <2> QED
    BY <2>1, <2>5, <2>6
<1> QED
  BY <1>3, <1>4

\* What a reader finds is in the file.
LEMMA ViewInCerts ==
    ASSUME NEW c
    PROVE  View(c) \subseteq Certs(c.entries)
  BY DEF View, Certs

\* Everything is found in a store whose aliases are unique.
LEMMA UniqueView ==
    ASSUME NEW c, c.entries \in Seq(Entry),
           \A i, j \in 1..Len(c.entries) :
               i # j => c.entries[i].alias # c.entries[j].alias
    PROVE  View(c) = Certs(c.entries)
<1>1. DOMAIN c.entries = 1..Len(c.entries) /\ Len(c.entries) \in Nat
  BY LenProperties
<1>2. \A i \in 1..Len(c.entries) : \A j \in (i + 1)..Len(c.entries) :
        j \in 1..Len(c.entries) /\ i # j
  BY <1>1
<1> QED
  BY <1>1, <1>2 DEF View, Certs

\* Both encoders keep the certificates and make all of them visible.
LEMMA EncodeFacts ==
    ASSUME NEW format \in {"JKS", "PKCS12"}, NEW s \in Seq(Entry)
    PROVE  LET m == Encode(format, s)
           IN  /\ m \in Content
               /\ m.format = format
               /\ m.version = (IF format = "JKS" THEN 2 ELSE 0)
               /\ m.password = "" /\ ~m.cut
               /\ Len(m.entries) = Len(s)
               /\ Certs(m.entries) = Certs(s) /\ View(m) = Certs(s)
<1> DEFINE d == DedupeAliases(s)
           m == Encode(format, s)
<1>1. /\ d \in Seq(Entry) /\ Len(d) = Len(s)
      /\ \A i \in 1..Len(s) : d[i].cert = s[i].cert
      /\ \A i, j \in 1..Len(s) : i # j => d[i].alias # d[j].alias
  BY DedupeFacts
<1> HIDE DEF d
<1>2. m = [format |-> format, version |-> IF format = "JKS" THEN 2 ELSE 0,
           password |-> "", cut |-> FALSE, entries |-> d]
  BY DEF Encode, EncodeJKS, EncodePKCS12, Empty, d
<1> HIDE DEF m
<1>3. /\ m.format = format /\ m.version = (IF format = "JKS" THEN 2 ELSE 0)
      /\ m.password = "" /\ ~m.cut /\ m.entries = d
  BY <1>2
<1>4. m \in Content
  <2> DEFINE w == ""
             v == IF format = "JKS" THEN 2 ELSE 0
  <2>1. format \in Text /\ w \in Text /\ v \in Nat
    BY DEF Text
  <2>2. m = [format |-> format, version |-> v, password |-> w, cut |-> FALSE,
             entries |-> d]
    BY <1>2
  <2> HIDE DEF w, v
  <2> QED
    BY <1>1, <2>1, <2>2 DEF Content
<1>5. Certs(d) = Certs(s)
  <2>1. /\ Certs(d) = {d[i].cert : i \in 1..Len(d)}
        /\ Certs(s) = {s[i].cert : i \in 1..Len(s)}
    BY <1>1, CertsOf
  <2> QED
    BY <1>1, <2>1
<1>6. View(m) = Certs(d)
  BY <1>1, <1>3, UniqueView
<1> QED
  BY <1>1, <1>3, <1>4, <1>5, <1>6 DEF m

LEMMA MergePEMFacts ==
    ASSUME NEW c \in Content, NEW b \in Seq(STRING), c.format = "PEM"
    PROVE  LET m == MergePEM(c, b)
           IN  /\ m \in Content /\ m.format = "PEM"
               /\ Certs(m.entries) = Certs(c.entries) \cup Range(b)
               /\ View(m) = Certs(m.entries)
<1> DEFINE new == Missing(Certs(c.entries), b)
           s == [i \in DOMAIN new |-> [alias |-> NoAlias, cert |-> new[i]]]
           m == MergePEM(c, b)
<1>1. /\ new \in Seq(STRING)
      /\ Range(b) \subseteq Certs(c.entries) \cup Range(new)
      /\ Range(new) \subseteq Range(b)
  BY MissingFacts
<1>2. m = [c EXCEPT !.entries = @ \o s]
  BY DEF MergePEM
<1> HIDE DEF new
<1>3. DOMAIN new = 1..Len(new) /\ \A i \in DOMAIN new : new[i] \in STRING
  BY <1>1, LenProperties, ElementOfSeq
<1>4. NoAlias \in AliasType
  <2> DEFINE w == ""
  <2>1. w \in Text
    BY DEF Text
  <2>2. NoAlias = Alias(w)
    BY DEF NoAlias
  <2> HIDE DEF w
  <2> QED
    BY <2>1, <2>2, AliasTyped
<1>5. \A i \in DOMAIN new : s[i] \in Entry /\ s[i].cert = new[i]
  BY <1>3, <1>4 DEF Entry, AliasType
<1>6. s = [i \in DOMAIN new |-> s[i]]
  OBVIOUS
<1> HIDE DEF s
<1>7. s \in Seq(Entry) /\ Certs(s) = Range(new)
  BY <1>1, <1>5, <1>6, EntriesFor
<1>8. c.entries \in Seq(Entry)
  BY DEF Content
<1>9. /\ c.entries \o s \in Seq(Entry)
      /\ Certs(c.entries \o s) = Certs(c.entries) \cup Range(new)
  BY <1>7, <1>8, CertsConcat
<1>10. m \in Content /\ m.format = "PEM" /\ m.entries = c.entries \o s
  BY <1>2, <1>9 DEF Content
<1> HIDE DEF m
<1>11. View(m) = Certs(m.entries)
  BY <1>10 DEF View, Certs
<1> QED
  BY <1>1, <1>9, <1>10, <1>11 DEF m

LEMMA MergeKeyStoreFacts ==
    ASSUME NEW c \in Content, NEW b \in Seq(STRING),
           c.format \in {"JKS", "PKCS12"}, Certs(c.entries) \subseteq Cert
    PROVE  LET m == MergeKeyStore(c, b)
           IN  /\ m \in Content /\ m.format = c.format
               /\ m.version = (IF c.format = "JKS" THEN 2 ELSE 0)
               /\ m.password = "" /\ ~m.cut
               /\ Certs(m.entries) = Certs(c.entries) \cup Range(b)
               /\ View(m) = Certs(m.entries)
<1> DEFINE new == Missing(Certs(c.entries), b)
           s == [i \in DOMAIN new |->
                   [alias |-> [Alias(new[i]) EXCEPT !.prefix = "cainjekt-"],
                    cert |-> new[i]]]
           m == MergeKeyStore(c, b)
<1>1. /\ new \in Seq(STRING)
      /\ Range(b) \subseteq Certs(c.entries) \cup Range(new)
      /\ Range(new) \subseteq Range(b)
  BY MissingFacts
<1>2. m = Encode(c.format, Parsed(c) \o s)
  BY DEF MergeKeyStore
<1> HIDE DEF new
<1>3. DOMAIN new = 1..Len(new) /\ \A i \in DOMAIN new : new[i] \in STRING
  BY <1>1, LenProperties, ElementOfSeq
<1>4. ASSUME NEW i \in DOMAIN new
      PROVE  s[i] \in Entry /\ s[i].cert = new[i]
  <2> DEFINE w == "cainjekt-"
             a == Alias(new[i])
  <2>1. w \in Text
    BY DEF Text
  <2>2. a \in AliasType
    <3>1. new[i] \in Text
      BY <1>3, <1>4 DEF Text
    <3> QED
      BY <3>1, AliasTyped
  <2>3. s[i] = [alias |-> [a EXCEPT !.prefix = w], cert |-> new[i]]
    OBVIOUS
  <2> HIDE DEF w, a, s
  <2> QED
    BY <1>3, <2>1, <2>2, <2>3 DEF Entry, AliasType
<1>5. s = [i \in DOMAIN new |-> s[i]]
  OBVIOUS
<1> HIDE DEF s
<1>6. s \in Seq(Entry) /\ Certs(s) = Range(new)
  BY <1>1, <1>4, <1>5, EntriesFor
<1>7. Parsed(c) \in Seq(Entry) /\ Certs(Parsed(c)) = Certs(c.entries)
  BY ParsedFacts
<1>8. /\ Parsed(c) \o s \in Seq(Entry)
      /\ Certs(Parsed(c) \o s) = Certs(c.entries) \cup Range(new)
  BY <1>6, <1>7, CertsConcat
<1> HIDE DEF m
<1>9. /\ m \in Content /\ m.format = c.format
      /\ m.version = (IF c.format = "JKS" THEN 2 ELSE 0)
      /\ m.password = "" /\ ~m.cut
      /\ Certs(m.entries) = Certs(c.entries) \cup Range(new)
      /\ View(m) = Certs(m.entries)
  BY <1>2, <1>8, EncodeFacts
<1> QED
  BY <1>1, <1>9 DEF m

\* The certificates of a store that was merged, and what is found in it.
LEMMA MergeFacts ==
    ASSUME NEW c \in Content, NEW b \in Seq(STRING), Parsable(c)
    PROVE  /\ Merge(c, b) \in Content /\ Merge(c, b).format = c.format
           /\ Certs(Merge(c, b).entries) = Certs(c.entries) \cup Range(b)
           /\ View(Merge(c, b)) = Certs(Merge(c, b).entries)
<1>1. CASE c.format = "PEM"
  BY <1>1, MergePEMFacts DEF Merge
<1>2. CASE c.format # "PEM"
  <2>1. c.format \in {"JKS", "PKCS12"} /\ Certs(c.entries) \subseteq Cert
    BY <1>2 DEF Parsable, ParsableJKS, ParsablePKCS12
  <2> QED
    BY <1>2, <2>1, MergeKeyStoreFacts DEF Merge
<1> QED
  BY <1>1, <1>2

\* MergePEM and mergeStore lose nothing that a reader of the store found, and
\* he finds the whole bundle afterwards; certificates that were hidden behind
\* a duplicate alias come to light.
THEOREM MergeKeeps ==
    ASSUME NEW c \in Content, NEW b \in Seq(STRING), Parsable(c)
    PROVE  View(c) \cup Range(b) \subseteq View(Merge(c, b))
  BY MergeFacts, ViewInCerts

\* Merging is idempotent: a store that was merged is found up to date.
THEOREM MergeOnce ==
    ASSUME NEW c \in Content, NEW b \in Seq(STRING), Parsable(c)
    PROVE  UpToDate(Merge(c, b), b)
<1>1. Range(b) \subseteq Certs(Merge(c, b).entries)
  BY MergeFacts
<1> QED
  BY <1>1, MissingFacts DEF UpToDate

\* What the encoders write can be parsed again, unless it has become too long.
THEOREM MergeParses ==
    ASSUME NEW c \in Content, NEW b \in Seq(STRING), Range(b) \subseteq Cert,
           Parsable(c)
    PROVE  Rereadable(Merge(c, b)) => Parsable(Merge(c, b))
<1>1. CASE c.format = "PEM"
  BY <1>1, MergeFacts DEF Parsable
<1>2. CASE c.format # "PEM"
  <2>1. c.format \in {"JKS", "PKCS12"} /\ Certs(c.entries) \subseteq Cert
    BY <1>2 DEF Parsable, ParsableJKS, ParsablePKCS12
  <2>2. Certs(Merge(c, b).entries) \subseteq Cert
    BY <2>1, MergeFacts
  <2>3. /\ Merge(c, b).format = c.format
        /\ Merge(c, b).version = (IF c.format = "JKS" THEN 2 ELSE 0)
        /\ Merge(c, b).password = "" /\ ~Merge(c, b).cut
    BY <1>2, <2>1, MergeKeyStoreFacts DEF Merge
  <2> QED
    BY <2>1, <2>2, <2>3 DEF Rereadable, Parsable, ParsableJKS, ParsablePKCS12,
       Complete
<1> QED
  BY <1>1, <1>2

\* mergeStore and MergePEM add the bundle and nothing else: what a reader
\* finds in the file they write is the union of what the store held and of
\* what the bundle holds.  Injection takes an update as that union.
THEOREM MergeExact ==
    ASSUME NEW c \in Content, NEW b \in Seq(STRING), Parsable(c)
    PROVE  View(Merge(c, b)) = Certs(c.entries) \cup Range(b)
  BY MergeFacts

\* The entries that mergeStore adds.
LEMMA AddedTyped ==
    ASSUME NEW present, NEW b \in Seq(STRING)
    PROVE  LET new == Missing(present, b)
           IN  [i \in DOMAIN new |->
                  [alias |-> [Alias(new[i]) EXCEPT !.prefix = "cainjekt-"],
                   cert |-> new[i]]] \in Seq(Entry)
<1> DEFINE new == Missing(present, b)
           s == [i \in DOMAIN new |->
                   [alias |-> [Alias(new[i]) EXCEPT !.prefix = "cainjekt-"],
                    cert |-> new[i]]]
<1>1. new \in Seq(STRING)
  BY MissingFacts
<1> HIDE DEF new
<1>2. DOMAIN new = 1..Len(new) /\ \A i \in DOMAIN new : new[i] \in STRING
  BY <1>1, LenProperties, ElementOfSeq
<1>3. ASSUME NEW i \in DOMAIN new
      PROVE  s[i] \in Entry /\ s[i].cert = new[i]
  <2> DEFINE w == "cainjekt-"
             a == Alias(new[i])
  <2>1. w \in Text
    BY DEF Text
  <2>2. a \in AliasType
    <3>1. new[i] \in Text
      BY <1>2, <1>3 DEF Text
    <3> QED
      BY <3>1, AliasTyped
  <2>3. s[i] = [alias |-> [a EXCEPT !.prefix = w], cert |-> new[i]]
    OBVIOUS
  <2> HIDE DEF w, a, s
  <2> QED
    BY <1>2, <2>1, <2>2, <2>3 DEF Entry, AliasType
<1>4. s = [i \in DOMAIN new |-> s[i]]
  OBVIOUS
<1> HIDE DEF s
<1>5. s \in Seq(Entry)
  BY <1>1, <1>3, <1>4, EntriesFor
<1> QED
  BY <1>5 DEF s, new

-----------------------------------------------------------------------------
(* Aliases that stay                                                       *)

\* uniqueAlias leaves an alias alone that nobody has taken.
LEMMA FreeAliasSame ==
    ASSUME NEW alias \in AliasType, alias # NoAlias,
           NEW taken, IsFiniteSet(taken), alias \notin taken
    PROVE  FreeAlias(alias, taken) = alias
<1> DEFINE N == Cardinality(taken) + 1
           Free == {n \in 1..N : Numbered(alias, n) \notin taken}
<1>1. N \in Nat /\ 1 \in 1..N
  BY FS_CardinalityType
<1>2. Numbered(alias, 1) = alias
  BY DEF Numbered
<1>3. 1 \in Free /\ \A n \in Free : n \in Nat /\ 1 =< n
  BY <1>1, <1>2
<1>4. FreeAlias(alias, taken) = Numbered(alias, Min(Free))
  BY DEF FreeAlias
<1> HIDE DEF Free
<1>5. Min(Free) = 1
  <2>1. Min(Free) \in Free /\ \A y \in Free : Min(Free) =< y
    BY <1>3 DEF Min
  <2> QED
    BY <1>3, <2>1
<1> QED
  BY <1>2, <1>4, <1>5

\* The first entries, as long as their aliases differ.
LEMMA DedupeKeeps ==
    ASSUME NEW entries \in Seq(Entry), NEW m \in 0..Len(entries),
           \A i \in 1..m : entries[i].alias # NoAlias,
           \A i, j \in 1..m : i # j => entries[i].alias # entries[j].alias
    PROVE  \A i \in 1..m : DedupeAliases(entries)[i] = entries[i]
<1> DEFINE N == Len(entries)
           alias == CHOOSE g : g = [i \in 1..N |-> AliasStep(entries, g, i)]
           d == [i \in 1..N |-> [entries[i] EXCEPT !.alias = alias[i]]]
           P == {n \in Nat : n =< m =>
                   \A i \in 1..n : alias[i] = entries[i].alias}
<1>1. /\ N \in Nat /\ DOMAIN entries = 1..N /\ m \in Nat /\ m =< N
      /\ \A i \in 1..N : entries[i] \in Entry
  BY LenProperties, ElementOfSeq
<1>2. DedupeAliases(entries) = d
  BY <1>1 DEF DedupeAliases, AliasStep
<1>3. alias = [i \in 1..N |-> AliasStep(entries, alias, i)]
  BY <1>1, AliasesExist
<1> HIDE DEF alias, N
<1>4. 0 \in P
  OBVIOUS
<1>5. ASSUME NEW n \in Nat, n \in P PROVE n + 1 \in P
  <2> SUFFICES ASSUME n + 1 =< m
               PROVE  \A i \in 1..(n + 1) : alias[i] = entries[i].alias
    OBVIOUS
  <2> DEFINE taken == {alias[j] : j \in 1..n}
             f == [j \in 1..n |-> alias[j]]
             a == entries[n + 1].alias
  <2>1. /\ n + 1 \in 1..m /\ n + 1 \in 1..N /\ (n + 1) - 1 = n
        /\ \A i \in 1..n : alias[i] = entries[i].alias
        /\ \A i \in 1..n : i \in 1..m /\ i # n + 1
    BY <1>1, <1>5
  <2>2. alias[n + 1] = FreeAlias(a, taken)
    BY <1>3, <2>1 DEF AliasStep
  <2>3. IsFiniteSet(taken)
    <3>1. f \in Surjection(1..n, taken)
      BY DEF Surjection
    <3>2. IsFiniteSet(1..n)
      BY FS_Interval
    <3> HIDE DEF f, taken
    <3> QED
      BY <3>1, <3>2, FS_Surjection
  <2>4. a \in AliasType /\ a # NoAlias
    BY <1>1, <2>1 DEF Entry, AliasType
  <2>5. a \notin taken
    BY <2>1
  <2>6. FreeAlias(a, taken) = a
    <3> HIDE DEF a, taken
    <3> QED
      BY <2>3, <2>4, <2>5, FreeAliasSame
  <2>7. \A i \in 1..(n + 1) : i \in 1..n \/ i = n + 1
    OBVIOUS
  <2> QED
    BY <2>1, <2>2, <2>6, <2>7
<1>6. m \in P
  <2> HIDE DEF P
  <2> QED
    BY <1>1, <1>4, <1>5, Induction
<1>7. ASSUME NEW i \in 1..m PROVE d[i] = entries[i]
  <2>1. i \in 1..N /\ alias[i] = entries[i].alias
    BY <1>1, <1>6
  <2>2. entries[i] \in Entry
    BY <1>1, <2>1
  <2>3. [entries[i] EXCEPT !.alias = entries[i].alias] = entries[i]
    BY <2>2 DEF Entry
  <2> QED
    BY <2>1, <2>3
<1> QED
  BY <1>2, <1>7

\* A Java program that asks a JKS for an alias gets the certificate it got
\* before the update: dedupeAliases renames no entry of a store whose aliases
\* are all different, wherever mergeStore puts its own entries.  (An entry
\* without an alias is renamed, and one named "cert" may then be renamed too.)
THEOREM AliasesStay ==
    ASSUME NEW c \in Content, NEW b \in Seq(STRING),
           c.format = "JKS", Parsable(c),
           \A i \in DOMAIN c.entries : c.entries[i].alias # NoAlias,
           \A i, j \in DOMAIN c.entries :
               i # j => c.entries[i].alias # c.entries[j].alias
    PROVE  \A i \in DOMAIN c.entries : Merge(c, b).entries[i] = c.entries[i]
<1> DEFINE e == c.entries
           new == Missing(Certs(e), b)
           s == [i \in DOMAIN new |->
                   [alias |-> [Alias(new[i]) EXCEPT !.prefix = "cainjekt-"],
                    cert |-> new[i]]]
           u == e \o s
           m == Len(e)
<1>1. e \in Seq(Entry) /\ DOMAIN e = 1..m /\ m \in Nat
  BY LenProperties DEF Content
<1>2. Merge(c, b).entries = DedupeAliases(u)
  BY DEF Merge, MergeKeyStore, Parsed, Encode, EncodeJKS, Empty
<1>3. s \in Seq(Entry)
  BY AddedTyped
<1> HIDE DEF e, s
<1>4. /\ u \in Seq(Entry) /\ m \in 0..Len(u)
      /\ \A i \in 1..m : u[i] = e[i]
  <2>1. /\ u \in Seq(Entry) /\ Len(u) = Len(e) + Len(s)
        /\ \A i \in 1..(Len(e) + Len(s)) :
             u[i] = IF i =< Len(e) THEN e[i] ELSE s[i - Len(e)]
        /\ Len(s) \in Nat
    BY <1>1, <1>3, ConcatProperties, LenProperties
  <2> HIDE DEF u
  <2> QED
    BY <1>1, <2>1
<1> HIDE DEF u, m
<1>5. /\ \A i \in 1..m : u[i].alias # NoAlias
      /\ \A i, j \in 1..m : i # j => u[i].alias # u[j].alias
  BY <1>1, <1>4 DEF e
<1>6. \A i \in 1..m : DedupeAliases(u)[i] = u[i]
  BY <1>4, <1>5, DedupeKeeps
<1> QED
  BY <1>1, <1>2, <1>4, <1>6 DEF e

=============================================================================
