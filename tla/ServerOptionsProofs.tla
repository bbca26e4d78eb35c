------------------------ MODULE ServerOptionsProofs ------------------------
(***************************************************************************)
(* Theorems about ServerOptions, for every set of fields, of protocols and *)
(* of kinds of interceptors, and every number of options: the settings are *)
(* what the options ask for, and a call passes the interceptors in the     *)
(* order of the options.                                                   *)
(***************************************************************************)
EXTENDS ServerOptions, FunctionTheorems, FiniteSetTheorems, SequenceTheorems, TLAPS

-----------------------------------------------------------------------------
(* What the options given so far ask for.                                  *)

Named == UNION {given[i].set : i \in Naming("protocol")}
By(f) == {i \in Naming("field") : f \in given[i].set}

\* An option's number is its place in the list, and a field has that of the
\* last option that assigned it.
Assigned(f) ==
    IF By(f) = {} THEN settings[f] = 0
    ELSE settings[f] \in By(f) /\ \A i \in By(f) : i <= settings[f]

Given == [kind : {"replace", "extra", "protocol", "field"}, set : SUBSET (Kinds \cup Protocols \cup Fields)]

SettingsInv ==
    /\ given \in Seq(Given)
    /\ protocols \subseteq Protocols
    /\ settings \in [Fields -> Nat]
    /\ pc = "options" => protocols = Named /\ \A f \in Fields : Assigned(f)
    /\ SettingsEffective

LEMMA GivenStep ==
    ASSUME given \in Seq(Given), NEW k \in {"replace", "extra", "protocol", "field"},
           NEW s \in SUBSET (Kinds \cup Protocols \cup Fields), Give(k, s)
    PROVE  /\ given' \in Seq(Given) /\ Number \in Nat \ {0}
           /\ Named' = IF k = "protocol" THEN Named \cup s ELSE Named
           /\ \A f : /\ By(f)' = IF k = "field" /\ f \in s THEN By(f) \cup {Number} ELSE By(f)
                     /\ \A i \in By(f) : i \in Nat /\ i < Number
<1> DEFINE m == [kind |-> k, set |-> s]
<1> PICK n \in Nat : n = Len(given)
  OBVIOUS
<1>1. m \in Given /\ m.kind = k /\ m.set = s
  BY DEF Given
<1>2. given' = Append(given, m)
  BY DEF Give
<1> HIDE DEF m
<1>3. /\ given' \in Seq(Given) /\ DOMAIN given = 1..n /\ DOMAIN given' = 1..(n + 1)
      /\ \A i \in 1..n : given'[i] = given[i]
      /\ given'[n + 1] = m
  BY <1>1, <1>2
<1>4. Number = n + 1
  BY DEF Number
<1>5. ASSUME NEW kind
      PROVE  Naming(kind)' = IF k = kind THEN Naming(kind) \cup {n + 1} ELSE Naming(kind)
  BY <1>1, <1>3 DEF Naming
<1>6. ASSUME NEW x PROVE x \in Named' <=> x \in Named \/ (k = "protocol" /\ x \in s)
  BY <1>1, <1>3, <1>5 DEF Named, Naming
<1>7. ASSUME NEW f
      PROVE  /\ By(f)' = IF k = "field" /\ f \in s THEN By(f) \cup {n + 1} ELSE By(f)
             /\ \A i \in By(f) : i \in Nat /\ i < n + 1
  BY <1>1, <1>3, <1>5 DEF By, Naming
<1> QED  BY <1>3, <1>4, <1>6, <1>7

LEMMA SettingsInit == Init => SettingsInv
<1> SUFFICES ASSUME Init PROVE SettingsInv
  OBVIOUS
<1>1. given = <<>> /\ Naming("protocol") = {} /\ Naming("field") = {}
  BY DEF Init, Naming
<1>2. Named = {} /\ \A f : By(f) = {}
  BY <1>1 DEF Named, By
<1> QED  BY <1>1, <1>2 DEF Init, SettingsInv, Assigned, SettingsEffective

LEMMA OptionStep ==
    ASSUME SettingsInv,
           \/ \E ks \in SUBSET Kinds : WithInterceptors(ks) \/ WithExtraInterceptors(ks)
           \/ \E p \in Protocols : WithProtocol(p)
           \/ \E f \in Fields : WithField(f)
    PROVE  SettingsInv'
<1>1. pc = "options" /\ UNCHANGED pc /\ given \in Seq(Given) /\ settings \in [Fields -> Nat]
      /\ protocols = Named /\ \A f \in Fields : Assigned(f)
  BY DEF SettingsInv, WithInterceptors, WithExtraInterceptors, WithProtocol, WithField, CanApply
<1>2. SettingsEffective'
  BY <1>1 DEF SettingsEffective
<1>3. ASSUME NEW ks \in SUBSET Kinds, WithInterceptors(ks) \/ WithExtraInterceptors(ks) PROVE SettingsInv'
  <2>1. UNCHANGED <<protocols, settings>> /\ (Give("replace", ks) \/ Give("extra", ks))
    BY <1>3 DEF WithInterceptors, WithExtraInterceptors
  <2>2. given' \in Seq(Given) /\ UNCHANGED Named /\ \A f : UNCHANGED By(f)
    BY <1>1, <2>1, GivenStep
  <2> QED  BY <1>1, <1>2, <2>1, <2>2 DEF SettingsInv, Assigned
<1>4. ASSUME NEW p \in Protocols, WithProtocol(p) PROVE SettingsInv'
  <2>1. protocols' = protocols \cup {p} /\ UNCHANGED settings /\ Give("protocol", {p})
    BY <1>4 DEF WithProtocol
  <2>2. given' \in Seq(Given) /\ Named' = Named \cup {p} /\ \A f : UNCHANGED By(f)
    BY <1>1, <2>1, GivenStep
  <2> QED  BY <1>1, <1>2, <2>1, <2>2 DEF SettingsInv, Assigned
<1>5. ASSUME NEW f \in Fields, WithField(f) PROVE SettingsInv'
  <2>1. settings' = [settings EXCEPT ![f] = Number] /\ UNCHANGED protocols /\ Give("field", {f})
    BY <1>5 DEF WithField
  <2>2. /\ given' \in Seq(Given) /\ UNCHANGED Named /\ Number \in Nat \ {0}
        /\ By(f)' = By(f) \cup {Number} /\ \A i \in By(f) : i \in Nat /\ i < Number
        /\ \A g \in Fields \ {f} : UNCHANGED By(g)
    BY <1>1, <2>1, GivenStep
  <2>3. settings'[f] = Number /\ settings' \in [Fields -> Nat] /\ \A g \in Fields \ {f} : UNCHANGED settings[g]
    BY <1>1, <2>1, <2>2
  <2>4. Assigned(f)'
    BY <2>2, <2>3 DEF Assigned
  <2>5. \A g \in Fields \ {f} : Assigned(g)'
    BY <1>1, <2>2, <2>3 DEF Assigned
  <2> QED  BY <1>1, <1>2, <2>1, <2>2, <2>3, <2>4, <2>5 DEF SettingsInv
<1> QED  BY <1>3, <1>4, <1>5

LEMMA ServeStep ==
    ASSUME SettingsInv, Serve
    PROVE  SettingsInv'
<1>1. /\ pc = "options" /\ pc' = "serving" /\ UNCHANGED given
      /\ protocols' = IF protocols = {} THEN Protocols ELSE protocols
      /\ settings' = [f \in Fields |-> IF f = "resultProcessor" /\ settings[f] = 0 THEN Identity ELSE settings[f]]
  BY DEF Serve, DefaultProcessor
<1>2. /\ protocols = Named /\ given \in Seq(Given) /\ settings \in [Fields -> Nat] /\ protocols \subseteq Protocols
      /\ \A f \in Fields : Assigned(f)
  BY <1>1 DEF SettingsInv
<1>3. UNCHANGED <<Named, Naming("protocol")>> /\ \A f : UNCHANGED By(f)
  BY <1>1 DEF Named, By, Naming
<1>4. Identity \in Nat
  BY BoundAssumption DEF Identity
<1>5. ASSUME NEW f \in Fields
      PROVE  IF By(f)' = {} THEN settings'[f] = IF f = "resultProcessor" THEN Identity ELSE 0
             ELSE settings'[f] \in By(f)' /\ \A i \in By(f)' : i <= settings'[f]
  <2>1. By(f) \subseteq Nat \ {0}
    BY <1>2 DEF By, Naming
  <2> QED  BY <1>1, <1>2, <1>3, <2>1 DEF Assigned
<1>6. SettingsEffective'
  BY <1>1, <1>2, <1>3, <1>5 DEF SettingsEffective, Named, By
<1> QED  BY <1>1, <1>2, <1>4, <1>6 DEF SettingsInv

LEMMA SettingsStep == SettingsInv /\ [Next]_vars => SettingsInv'
<1> SUFFICES ASSUME SettingsInv, [Next]_vars PROVE SettingsInv'
  OBVIOUS
<1>1. CASE UNCHANGED <<given, protocols, settings>> /\ (UNCHANGED pc \/ pc' \notin {"options", "serving"})
  BY <1>1 DEF SettingsInv, SettingsEffective, Named, By, Assigned, Naming
<1>2. CASE FailingOption \/ Enter \/ Skip \/ Pass \/ Handle \/ UNCHANGED vars
  <2>1. UNCHANGED <<given, protocols, settings>> /\ (UNCHANGED pc \/ pc' \notin {"options", "serving"})
    BY <1>2 DEF FailingOption, Enter, Skip, Pass, Handle, vars
  <2> QED  BY <1>1, <2>1
<1> QED  BY <1>2, OptionStep, ServeStep DEF Next

\* A server has the settings its options ask for, for any fields and
\* protocols and however many options are given in whatever order.
THEOREM SettingsAlwaysEffective == Spec => []SettingsEffective
<1>1. SettingsInv => SettingsEffective
  BY DEF SettingsInv
<1> QED  BY <1>1, SettingsInit, SettingsStep, PTL DEF Spec

-----------------------------------------------------------------------------
(* Sets of numbers and their increasing enumerations.                      *)

\* Every nonempty set of numbers has a least one: what an induction over the
\* length of a sequence is reduced to.
LEMMA LeastNumber ==
    ASSUME NEW S \in SUBSET Nat, S # {}
    PROVE  \E m \in S : \A n \in S : m <= n
<1> DEFINE R == {ss \in Nat \X Nat : ss[1] < ss[2]}
<1>1. IsWellFoundedOn(R, Nat)
  BY NatLessThanWellFounded DEF OpToRel
<1>2. \E m \in S : \A n \in S : <<n, m>> \notin R
  BY <1>1, WFMin
<1>3. \A n, m \in Nat : <<n, m>> \notin R => m <= n
  OBVIOUS
<1> HIDE DEF R
<1> QED  BY <1>2, <1>3

\* The members of a set of numbers, in increasing order.
Enumerates(e, S) ==
    /\ e \in Seq(Nat)
    /\ \A i, j \in DOMAIN e : i < j => e[i] < e[j]
    /\ S = {e[i] : i \in DOMAIN e}

\* Two enumerations of a set have the same next member.
LEMMA SameNext ==
    ASSUME NEW S, NEW e, NEW s, Enumerates(e, S), Enumerates(s, S),
           NEW m \in DOMAIN e \cap DOMAIN s, \A i \in 1..(m - 1) : e[i] = s[i]
    PROVE  ~(e[m] < s[m])
<1> SUFFICES ASSUME e[m] < s[m] PROVE FALSE
  OBVIOUS
<1>1. PICK k \in DOMAIN s : s[k] = e[m]
  BY DEF Enumerates
<1>2. m \in Nat \ {0} /\ k \in Nat \ {0} /\ e[m] \in Nat /\ s[m] \in Nat
  BY DEF Enumerates
<1>3. CASE k < m
  <2>1. k \in 1..(m - 1) /\ k \in DOMAIN e
    BY <1>2, <1>3 DEF Enumerates
  <2>2. e[k] < e[m]
    BY <1>3, <2>1 DEF Enumerates
  <2> QED  BY <1>1, <1>2, <2>1, <2>2
<1>4. CASE m < k
  BY <1>1, <1>2, <1>4 DEF Enumerates
<1> QED  BY <1>1, <1>2, <1>3, <1>4

LEMMA NotShorter ==
    ASSUME NEW S, NEW e, NEW s, Enumerates(e, S), Enumerates(s, S),
           Len(e) < Len(s), \A i \in DOMAIN e : e[i] = s[i]
    PROVE  FALSE
<1> DEFINE l == Len(e) + 1
<1>1. l \in DOMAIN s /\ Len(e) \in Nat /\ DOMAIN e = 1..Len(e) /\ DOMAIN s = 1..Len(s) /\ Len(s) \in Nat
  BY DEF Enumerates
<1>2. PICK k \in DOMAIN e : e[k] = s[l]
  BY <1>1 DEF Enumerates
<1>3. k \in DOMAIN s /\ k < l
  BY <1>1
<1>4. s[k] < s[l]
  BY <1>1, <1>3 DEF Enumerates
<1>5. s[k] = s[l] /\ s[k] \in Nat
  BY <1>2, <1>3 DEF Enumerates
<1> QED  BY <1>4, <1>5

\* There is only one: the least place where two differ cannot be.
LEMMA OneEnumeration ==
    ASSUME NEW S, NEW e, NEW s, Enumerates(e, S), Enumerates(s, S)
    PROVE  e = s
<1> DEFINE D == {i \in DOMAIN e \cap DOMAIN s : e[i] # s[i]}
<1>1. /\ DOMAIN e = 1..Len(e) /\ DOMAIN s = 1..Len(s) /\ Len(e) \in Nat /\ Len(s) \in Nat
      /\ e \in Seq(Nat) /\ s \in Seq(Nat)
  BY DEF Enumerates
<1>2. ASSUME D # {} PROVE FALSE
  <2>1. D \in SUBSET Nat
    BY <1>1
  <2>2. PICK m \in D : \A n \in D : m <= n
    BY <1>2, <2>1, LeastNumber
  <2>3. ASSUME NEW i \in 1..(m - 1) PROVE e[i] = s[i]
    <3>1. m \in 1..Len(e) /\ m \in 1..Len(s)
      BY <1>1
    <3>2. i \in 1..Len(e) /\ i \in 1..Len(s) /\ ~(m <= i)
      BY <1>1, <3>1
    <3> QED  BY <1>1, <2>2, <3>2
  <2>4. ~(e[m] < s[m]) /\ ~(s[m] < e[m])
    BY <2>3, SameNext
  <2>5. e[m] \in Nat /\ s[m] \in Nat
    BY <1>1
  <2> QED  BY <2>4, <2>5
<1>3. \A i \in DOMAIN e \cap DOMAIN s : e[i] = s[i]
  BY <1>2
<1> HIDE DEF D
<1>4. ~(Len(e) < Len(s))
  <2> SUFFICES ASSUME Len(e) < Len(s) PROVE FALSE
    OBVIOUS
  <2>1. \A i \in DOMAIN e : e[i] = s[i]
    BY <1>1, <1>3
  <2> QED  BY <2>1, NotShorter
<1>5. ~(Len(s) < Len(e))
  <2> SUFFICES ASSUME Len(s) < Len(e) PROVE FALSE
    OBVIOUS
  <2>1. \A i \in DOMAIN s : s[i] = e[i]
    BY <1>1, <1>3
  <2> QED  BY <2>1, NotShorter
<1>6. Len(e) = Len(s)
  <2>1. \A a, b \in Nat : a < b \/ b < a \/ a = b
    OBVIOUS
  <2> QED  BY <1>1, <1>4, <1>5, <2>1, Zenon
<1> QED  BY <1>1, <1>3, <1>6

LEMMA IncreasingIsInjective ==
    ASSUME NEW S \in SUBSET Nat, NEW n \in Nat, NEW s \in [1..n -> S],
           \A i, j \in DOMAIN s : i < j => s[i] < s[j]
    PROVE  s \in Seq(Nat) /\ s \in Injection(1..n, S)
<1>1. DOMAIN s = 1..n /\ \A i \in 1..n : s[i] \in S
  OBVIOUS
<1>2. \A i \in 1..n : s[i] \in Nat
  BY <1>1, Zenon
<1>3. s \in Seq(Nat)
  <2>1. s \in [1..n -> Nat]
    BY <1>2, Zenon
  <2> QED  BY <2>1
<1>4. \A a, b \in 1..n : s[a] = s[b] => a = b
  BY <1>1, <1>2
<1> QED  BY <1>3, <1>4, Fun_IsInj

\* An increasing sequence over a finite set that is as long as the set is large
\* leaves none of it out.
LEMMA IncreasingEnumerates ==
    ASSUME NEW S \in SUBSET Nat, IsFiniteSet(S), NEW s \in [1..Cardinality(S) -> S],
           \A i, j \in DOMAIN s : i < j => s[i] < s[j]
    PROVE  Enumerates(s, S)
<1>1. PICK n \in Nat : n = Cardinality(S)
  BY FS_CardinalityType
<1>2. s \in [1..n -> S]
  BY <1>1, Zenon
<1>3. s \in Seq(Nat) /\ s \in Injection(1..n, S)
  BY <1>2, IncreasingIsInjective
<1>4. Cardinality(1..n) = n
  BY FS_Interval
<1>5. s \in Surjection(1..n, S)
  BY <1>1, <1>3, <1>4, FS_Injection, Zenon
<1>6. \A t \in S : \E i \in 1..n : s[i] = t
  BY <1>5 DEF Surjection
<1>7. DOMAIN s = 1..n /\ \A i \in 1..n : s[i] \in S
  BY <1>2
<1>8. S = {s[i] : i \in DOMAIN s}
  BY <1>6, <1>7, Zenon
<1> QED  BY <1>3, <1>8 DEF Enumerates

\* An enumeration is what the choice in Effective is made from.
LEMMA EnumerationSize ==
    ASSUME NEW S, NEW e, Enumerates(e, S)
    PROVE  /\ S \in SUBSET Nat /\ IsFiniteSet(S) /\ Cardinality(S) = Len(e)
           /\ e \in [1..Cardinality(S) -> S]
<1>1. e \in Seq(Nat) /\ DOMAIN e = 1..Len(e) /\ Len(e) \in Nat
  BY DEF Enumerates
<1>2. e \in [1..Len(e) -> S] /\ S \in SUBSET Nat
  BY <1>1 DEF Enumerates
<1>3. \A a, b \in 1..Len(e) : e[a] = e[b] => a = b
  <2> SUFFICES ASSUME NEW a \in 1..Len(e), NEW b \in 1..Len(e), e[a] = e[b], a # b PROVE FALSE
    OBVIOUS
  <2>1. e[a] \in Nat /\ a \in Int /\ b \in Int
    BY <1>1
  <2> QED  BY <1>1, <2>1 DEF Enumerates
<1>4. \A t \in S : \E i \in 1..Len(e) : e[i] = t
  BY <1>1 DEF Enumerates
<1>5. e \in Bijection(1..Len(e), S)
  BY <1>2, <1>3, <1>4, Fun_IsBij
<1>6. ExistsBijection(1..Len(e), S)
  BY <1>5 DEF ExistsBijection
<1> QED  BY <1>1, <1>2, <1>6, FS_CountingElements, FS_NatBijection

-----------------------------------------------------------------------------
(* The interceptors of a kind, as a chain.                                 *)

\* How the options nest the interceptors of a kind into a chain: nest[j] has
\* the first j of them.  The chain begins with none, or with one (b) that
\* WithInterceptors gave.
Nested(b, nest, e) ==
    /\ b \in {0, 1} /\ b <= Len(e)
    /\ nest[b] = IF b = 0 THEN None ELSE Leaf(e[1])
    /\ \A j \in (b + 1)..Len(e) : nest[j] = Chain(nest[j - 1], Leaf(e[j]))

ChainOf(c, S) == \E b, nest, e : Enumerates(e, S) /\ Nested(b, nest, e) /\ c = nest[Len(e)]

LEMMA ChainOfNone == ChainOf(None, {})
<1>1. Enumerates(<<>>, {})
  BY DEF Enumerates
<1>2. Nested(0, [j \in {0} |-> None], <<>>)
  BY DEF Nested
<1> QED  BY <1>1, <1>2 DEF ChainOf

LEMMA SingleEnumeration == \A n \in Nat : Enumerates(<<n>>, {n})
BY DEF Enumerates

LEMMA ChainOfOne ==
    ASSUME NEW n \in Nat
    PROVE  ChainOf(Leaf(n), {n})
<1>1. Enumerates(<<n>>, {n})
  BY SingleEnumeration
<1>2. Nested(1, [j \in {1} |-> Leaf(n)], <<n>>)
  <2> DEFINE e == <<n>>
             nest == [j \in {1} |-> Leaf(n)]
  <2>1. Len(e) = 1 /\ e[1] = n /\ nest[1] = Leaf(n) /\ (1 + 1)..Len(e) = {}
    OBVIOUS
  <2> HIDE DEF e, nest
  <2>2. Nested(1, nest, e)
    BY <2>1 DEF Nested
  <2> QED  BY <2>2 DEF e, nest
<1> QED  BY <1>1, <1>2 DEF ChainOf

LEMMA ChainGrows ==
    ASSUME NEW c, NEW S, ChainOf(c, S), NEW n \in Nat, \A i \in S : i < n
    PROVE  ChainOf(Chain(c, Leaf(n)), S \cup {n})
<1>1. PICK b, nest, e : Enumerates(e, S) /\ Nested(b, nest, e) /\ c = nest[Len(e)]
  BY DEF ChainOf
<1>2. PICK m \in Nat : m = Len(e)
  BY <1>1 DEF Enumerates
<1> DEFINE f == Append(e, n)
           grown == [j \in 0..(m + 1) |-> IF j = m + 1 THEN Chain(c, Leaf(n)) ELSE nest[j]]
<1>3. /\ f \in Seq(Nat) /\ Len(f) = m + 1 /\ DOMAIN f = 1..(m + 1) /\ f[m + 1] = n
      /\ \A i \in 1..m : f[i] = e[i]
      /\ e \in Seq(Nat) /\ DOMAIN e = 1..m
  BY <1>1, <1>2 DEF Enumerates
<1>4. /\ grown[m + 1] = Chain(c, Leaf(n))
      /\ \A j \in 0..m : grown[j] = nest[j]
  BY <1>2
<1> HIDE DEF f, grown
<1>5. Enumerates(f, S \cup {n})
  <2>1. \A i \in 1..m : e[i] \in S /\ f[i] < n
    BY <1>1, <1>3 DEF Enumerates
  <2>2. \A i, j \in DOMAIN f : i < j => f[i] < f[j]
    <3> SUFFICES ASSUME NEW i \in 1..(m + 1), NEW j \in 1..(m + 1), i < j PROVE f[i] < f[j]
      BY <1>3
    <3>1. i \in 1..m
      BY <1>2
    <3>2. CASE j = m + 1
      BY <1>3, <2>1, <3>1, <3>2
    <3>3. CASE j # m + 1
      <4>1. j \in 1..m
        BY <1>2, <3>3
      <4>2. e[i] < e[j]
        BY <1>1, <1>3, <3>1, <4>1 DEF Enumerates
      <4> QED  BY <1>3, <3>1, <4>1, <4>2
    <3> QED  BY <3>2, <3>3
  <2>3. \A x : x \in S \cup {n} <=> \E i \in 1..(m + 1) : f[i] = x
    <3>1. \A x \in S : \E i \in 1..m : f[i] = x
      BY <1>1, <1>3 DEF Enumerates
    <3>2. \A i \in 1..(m + 1) : i = m + 1 \/ i \in 1..m
      BY <1>2
    <3>3. \A i \in 1..m : i \in 1..(m + 1)
      BY <1>2
    <3>4. m + 1 \in 1..(m + 1)
      BY <1>2
    <3> QED  BY <1>3, <2>1, <3>1, <3>2, <3>3, <3>4
  <2>4. S \cup {n} = {f[i] : i \in DOMAIN f}
    BY <1>3, <2>3
  <2> QED  BY <1>3, <2>2, <2>4 DEF Enumerates
<1>6. Nested(b, grown, f)
  <2>1. /\ b \in {0, 1} /\ b <= m
        /\ nest[b] = IF b = 0 THEN None ELSE Leaf(e[1])
        /\ \A j \in (b + 1)..m : nest[j] = Chain(nest[j - 1], Leaf(e[j]))
    BY <1>1, <1>2 DEF Nested
  <2>2. grown[b] = IF b = 0 THEN None ELSE Leaf(f[1])
    BY <1>2, <1>3, <1>4, <2>1
  <2>3. ASSUME NEW j \in (b + 1)..(m + 1) PROVE grown[j] = Chain(grown[j - 1], Leaf(f[j]))
    <3>1. CASE j = m + 1
      BY <1>1, <1>2, <1>3, <1>4, <3>1
    <3>2. CASE j # m + 1
      <4>1. j \in (b + 1)..m /\ j \in 1..m /\ j \in 0..m /\ j - 1 \in 0..m
        BY <1>2, <2>1, <3>2
      <4> QED  BY <1>3, <1>4, <2>1, <4>1
    <3> QED  BY <3>1, <3>2
  <2>4. b <= m + 1
    BY <1>2, <2>1
  <2> QED  BY <1>3, <2>1, <2>2, <2>3, <2>4 DEF Nested
<1>7. Chain(c, Leaf(n)) = grown[Len(f)]
  BY <1>3, <1>4
<1> QED  BY <1>5, <1>6, <1>7 DEF ChainOf

\* Only a kind without interceptors has nil for a chain.
LEMMA ChainIsNone ==
    ASSUME NEW c, NEW S, ChainOf(c, S)
    PROVE  c = None <=> S = {}
<1>1. PICK b, nest, e : Enumerates(e, S) /\ Nested(b, nest, e) /\ c = nest[Len(e)]
  BY DEF ChainOf
<1>2. PICK m \in Nat : m = Len(e)
  BY <1>1 DEF Enumerates
<1>3. /\ b \in {0, 1} /\ b <= m
      /\ nest[b] = IF b = 0 THEN None ELSE Leaf(e[1])
      /\ \A j \in (b + 1)..m : nest[j] = Chain(nest[j - 1], Leaf(e[j]))
  BY <1>1, <1>2 DEF Nested
<1>4. \A l, r, i : Chain(l, r) # None /\ Leaf(i) # None
  BY DEF Chain, Leaf, None
<1>5. CASE m = 0
  <2>1. e \in Seq(Nat) /\ Len(e) = 0
    BY <1>1, <1>2, <1>5 DEF Enumerates
  <2>2. DOMAIN e = {}
    BY <2>1
  <2>3. S = {}
    BY <1>1, <2>2 DEF Enumerates
  <2> QED  BY <1>1, <1>2, <1>3, <1>5, <2>3
<1>6. CASE m # 0
  <2>1. e \in Seq(Nat) /\ Len(e) = m
    BY <1>1, <1>2 DEF Enumerates
  <2>2. 1 \in DOMAIN e
    BY <1>2, <1>6, <2>1
  <2>3. S # {}
    BY <1>1, <2>2 DEF Enumerates
  <2>4. CASE b = m
    BY <1>1, <1>2, <1>3, <1>4, <1>6, <2>3, <2>4
  <2>5. CASE b # m
    <3>1. m \in (b + 1)..m
      BY <1>2, <1>3, <2>5
    <3> QED  BY <1>1, <1>2, <1>3, <1>4, <2>3, <3>1
  <2> QED  BY <2>4, <2>5
<1> QED  BY <1>5, <1>6

-----------------------------------------------------------------------------
(* What the options given so far make of the interceptors.                 *)

\* The options that brought the interceptors of a kind: those that no
\* WithInterceptors came after.
Live(k) ==
    {i \in DOMAIN given : /\ given[i].kind \in {"replace", "extra"}
                          /\ k \in given[i].set
                          /\ \A j \in (i + 1)..Len(given) : given[j].kind # "replace"}

LastReplace(l) ==
    /\ l \in 0..Len(given)
    /\ l # 0 => given[l].kind = "replace"
    /\ \A j \in (l + 1)..Len(given) : given[j].kind # "replace"

LEMMA LiveStep ==
    ASSUME given \in Seq(Given), NEW t \in {"replace", "extra", "protocol", "field"},
           NEW s \in SUBSET (Kinds \cup Protocols \cup Fields), Give(t, s)
    PROVE  /\ given' \in Seq(Given) /\ Number = Len(given') /\ Number \in Nat
           /\ (\E l : LastReplace(l)) => (\E l : LastReplace(l)')
           /\ \A k : /\ \A i \in Live(k) : i < Number
                     /\ Live(k)' = CASE t = "replace" -> (IF k \in s THEN {Number} ELSE {})
                                     [] t = "extra"   -> (IF k \in s THEN Live(k) \cup {Number} ELSE Live(k))
                                     [] OTHER         -> Live(k)
<1> DEFINE m == [kind |-> t, set |-> s]
<1> PICK n \in Nat : n = Len(given)
  OBVIOUS
<1>1. m \in Given /\ m.kind = t /\ m.set = s
  BY DEF Given
<1>2. given' = Append(given, m)
  BY DEF Give
<1> HIDE DEF m
<1>3. /\ given' \in Seq(Given) /\ DOMAIN given = 1..n /\ DOMAIN given' = 1..(n + 1) /\ Len(given') = n + 1
      /\ \A i \in 1..n : given'[i] = given[i]
      /\ given'[n + 1] = m
  BY <1>1, <1>2
<1>4. Number = n + 1
  BY DEF Number
<1>5. ASSUME NEW l, LastReplace(l) PROVE \E i : LastReplace(i)'
  <2>1. CASE t = "replace"
    <3>1. LastReplace(n + 1)'
      BY <1>1, <1>3, <2>1 DEF LastReplace
    <3> QED  BY <3>1
  <2>2. CASE t # "replace"
    <3>1. LastReplace(l)'
      BY <1>1, <1>3, <1>5, <2>2 DEF LastReplace
    <3> QED  BY <3>1
  <2> QED  BY <2>1, <2>2
<1>6. ASSUME NEW k, NEW i \in 1..n
      PROVE  /\ i \in Live(k)' <=> t # "replace" /\ i \in Live(k)
             /\ i # n + 1 /\ i < n + 1 /\ i \in 1..(n + 1)
  <2>1. (\A j \in (i + 1)..(n + 1) : given'[j].kind # "replace")
        <=> t # "replace" /\ \A j \in (i + 1)..n : given[j].kind # "replace"
    <3>1. n + 1 \in (i + 1)..(n + 1) /\ \A j \in (i + 1)..n : j \in 1..n /\ j \in (i + 1)..(n + 1)
      OBVIOUS
    <3>2. \A j \in (i + 1)..(n + 1) : j = n + 1 \/ j \in (i + 1)..n
      OBVIOUS
    <3> QED  BY <1>1, <1>3, <3>1, <3>2
  <2> QED  BY <1>3, <2>1 DEF Live
<1>7. ASSUME NEW k PROVE n + 1 \in Live(k)' <=> t \in {"replace", "extra"} /\ k \in s
  BY <1>1, <1>3 DEF Live
<1>8. ASSUME NEW k PROVE Live(k) \subseteq 1..n /\ Live(k)' \subseteq 1..(n + 1)
  BY <1>3 DEF Live
<1>9. \A i \in 1..(n + 1) : i \in 1..n \/ i = n + 1
  OBVIOUS
<1>10. ASSUME NEW k
       PROVE  Live(k)' = CASE t = "replace" -> (IF k \in s THEN {n + 1} ELSE {})
                           [] t = "extra"   -> (IF k \in s THEN Live(k) \cup {n + 1} ELSE Live(k))
                           [] OTHER         -> Live(k)
  <2>1. \A i : i \in Live(k)' => i \in 1..n \/ i = n + 1
    BY <1>8, <1>9
  <2>2. CASE t = "replace"
    BY <1>6, <1>7, <2>1, <2>2
  <2>3. CASE t = "extra"
    <3>1. \A i : i \in Live(k)' <=> i \in Live(k) \/ (i = n + 1 /\ k \in s)
      BY <1>6, <1>7, <1>8, <2>1, <2>3
    <3>2. Live(k)' = IF k \in s THEN Live(k) \cup {n + 1} ELSE Live(k)
      BY <3>1
    <3> QED  BY <2>3, <3>2
  <2>4. CASE t \in {"protocol", "field"}
    BY <1>6, <1>7, <1>8, <2>1, <2>4
  <2> QED  BY <2>2, <2>3, <2>4
<1>11. \A k : \A i \in Live(k) : i < n + 1
  BY <1>6, <1>8
<1> QED  BY <1>3, <1>4, <1>5, <1>10, <1>11

-----------------------------------------------------------------------------
(* A call.                                                                 *)

\* A kind that has no interceptors has the built-in one, with the number 0.
Line(S) == IF S = {} THEN {0} ELSE S

\* What is chosen in Effective is the enumeration of the live interceptors.
LEMMA EffectiveIs ==
    ASSUME given \in Seq(Given), \E l : LastReplace(l), NEW e, Enumerates(e, Line(Live(serving)))
    PROVE  Effective = e
<1> DEFINE last == CHOOSE i \in 0..Len(given) :
                       /\ i # 0 => given[i].kind = "replace"
                       /\ \A j \in (i + 1)..Len(given) : given[j].kind # "replace"
           live == {i \in DOMAIN given : i >= last /\ given[i].kind \in {"replace", "extra"}
                                                  /\ serving \in given[i].set}
<1>1. Effective = IF live = {} THEN <<0>>
                  ELSE CHOOSE s \in [1..Cardinality(live) -> live] :
                           \A i, j \in DOMAIN s : i < j => s[i] < s[j]
  BY DEF Effective
<1>2. LastReplace(last)
  BY DEF LastReplace
<1> HIDE DEF last
<1>3. live = Live(serving)
  <2>1. PICK n \in Nat : n = Len(given) /\ DOMAIN given = 1..n
    OBVIOUS
  <2>2. /\ last \in 0..n
        /\ last # 0 => given[last].kind = "replace"
        /\ \A j \in (last + 1)..n : given[j].kind # "replace"
    BY <1>2, <2>1 DEF LastReplace
  <2>3. ASSUME NEW i \in 1..n
        PROVE  i >= last <=> \A j \in (i + 1)..n : given[j].kind # "replace"
    <3>1. CASE i >= last
      <4>1. \A j \in (i + 1)..n : j \in (last + 1)..n
        BY <2>2, <3>1
      <4> QED  BY <2>2, <3>1, <4>1
    <3>2. CASE ~(i >= last)
      <4>1. last \in (i + 1)..n /\ last # 0
        BY <2>2, <3>2
      <4> QED  BY <2>2, <3>2, <4>1
    <3> QED  BY <3>1, <3>2
  <2> QED  BY <2>1, <2>3 DEF Live
<1> HIDE DEF live
<1>4. CASE live = {}
  <2>1. Enumerates(<<0>>, {0})
    BY SingleEnumeration
  <2> QED  BY <1>1, <1>3, <1>4, <2>1, OneEnumeration DEF Line
<1>5. CASE live # {}
  <2>1. Enumerates(e, live)
    BY <1>3, <1>5 DEF Line
  <2>2. e \in [1..Cardinality(live) -> live] /\ live \in SUBSET Nat /\ IsFiniteSet(live)
    BY <2>1, EnumerationSize
  <2>3. \A i, j \in DOMAIN e : i < j => e[i] < e[j]
    BY <2>1 DEF Enumerates
  <2>4. PICK s : s = CHOOSE r \in [1..Cardinality(live) -> live] :
                         \A i, j \in DOMAIN r : i < j => r[i] < r[j]
    OBVIOUS
  <2>5. s \in [1..Cardinality(live) -> live] /\ \A i, j \in DOMAIN s : i < j => s[i] < s[j]
    BY <2>2, <2>3, <2>4, Zenon
  <2>6. Enumerates(s, live)
    BY <2>2, <2>5, IncreasingEnumerates
  <2>7. s = e
    BY <2>1, <2>6, OneEnumeration
  <2> QED  BY <1>1, <1>5, <2>4, <2>7
<1> QED  BY <1>4, <1>5

\* The interceptors a call has passed, and those it still has to pass, when the
\* chain is taken apart down to its first j, or is past its first j.
Passed(e, j)          == [i \in 1..j |-> e[i]]
Remaining(e, j)       == [i \in 1..(Len(e) - j) |-> Leaf(e[i + j])]
Unwinding(nest, e, j) == <<nest[j]>> \o Remaining(e, j)

InCall(b, nest, e) ==
    \/ /\ pc = "serving" /\ ~reached /\ called = <<>>
       /\ \E j \in b..Len(e) : stack = Unwinding(nest, e, j)
    \/ /\ pc = "serving" /\ ~reached
       /\ \E j \in 0..Len(e) : called = Passed(e, j) /\ stack = Remaining(e, j)
    \/ /\ pc = "served"
       /\ \E j \in 0..Len(e) : called = Passed(e, j) /\ (reached => j = Len(e))

CallInv ==
    \E b, nest, e : Enumerates(e, Line(Live(serving))) /\ Nested(b, nest, e) /\ InCall(b, nest, e)

Leaves(e) == {Leaf(e[i]) : i \in DOMAIN e}

LEMMA PassedIsSeq ==
    ASSUME NEW e \in Seq(Nat), NEW j \in 0..Len(e)
    PROVE  /\ Passed(e, j) \in Seq(Nat) /\ Len(Passed(e, j)) = j
           /\ \A i \in 1..j : Passed(e, j)[i] = e[i] /\ i \in DOMAIN e
           /\ Passed(e, 0) = <<>> /\ 0 \in 0..Len(e)
<1>1. PICK m \in Nat : m = Len(e) /\ DOMAIN e = 1..m
  OBVIOUS
<1>2. Passed(e, j) \in Seq(Nat) /\ Len(Passed(e, j)) = j
  BY <1>1 DEF Passed
<1>3. Passed(e, 0) = <<>> /\ \A i \in 1..j : Passed(e, j)[i] = e[i]
  BY DEF Passed
<1> QED  BY <1>1, <1>2, <1>3

LEMMA RemainingIsSeq ==
    ASSUME NEW e \in Seq(Nat), NEW j \in 0..Len(e)
    PROVE  Remaining(e, j) \in Seq(Leaves(e)) /\ Len(Remaining(e, j)) = Len(e) - j
<1>1. PICK m \in Nat : m = Len(e) /\ DOMAIN e = 1..m
  OBVIOUS
<1>2. \A i \in 1..(m - j) : Leaf(e[i + j]) \in Leaves(e)
  <2>1. \A i \in 1..(m - j) : i + j \in DOMAIN e
    BY <1>1
  <2> QED  BY <2>1, Zenon DEF Leaves
<1>3. m - j \in Nat
  BY <1>1
<1>4. Remaining(e, j) \in Seq(Leaves(e)) /\ Len(Remaining(e, j)) = m - j
  BY <1>1, <1>2, <1>3 DEF Remaining
<1> QED  BY <1>1, <1>4

LEMMA NothingRemains ==
    ASSUME NEW e \in Seq(Nat)
    PROVE  Remaining(e, Len(e)) = <<>>
<1>1. Len(e) \in 0..Len(e)
  OBVIOUS
<1>2. Remaining(e, Len(e)) \in Seq(Leaves(e)) /\ Len(Remaining(e, Len(e))) = 0
  BY <1>1, RemainingIsSeq
<1> QED  BY <1>2, EmptySeq

LEMMA HeadThenTail ==
    ASSUME NEW T, NEW s \in Seq(T), s # <<>>
    PROVE  s = <<Head(s)>> \o Tail(s)
<1>1. Head(s) \in T /\ Tail(s) \in Seq(T) /\ Len(Tail(s)) = Len(s) - 1 /\ Len(s) \in Nat \ {0}
  BY EmptySeq, HeadTailProperties
<1> DEFINE t == <<Head(s)>> \o Tail(s)
<1>2. t \in Seq(T) /\ Len(t) = Len(s)
  BY <1>1
<1>3. ASSUME NEW i \in 1..Len(s) PROVE t[i] = s[i]
  BY <1>1
<1> QED  BY <1>2, <1>3, SeqEqual

LEMMA UnwindingIsSeq ==
    ASSUME NEW e \in Seq(Nat), NEW j \in 0..Len(e), NEW nest
    PROVE  /\ Head(Unwinding(nest, e, j)) = nest[j] /\ Tail(Unwinding(nest, e, j)) = Remaining(e, j)
           /\ Unwinding(nest, e, j) # <<>>
<1>1. Remaining(e, j) \in Seq(Leaves(e))
  BY RemainingIsSeq
<1> DEFINE T == Leaves(e) \cup {nest[j]}
<1>2. Remaining(e, j) \in Seq(T) /\ nest[j] \in T
  BY <1>1
<1> HIDE DEF T
<1> QED  BY <1>2 DEF Unwinding

\* Past the first of what remains there is one less.
LEMMA RemainingTail ==
    ASSUME NEW e \in Seq(Nat), NEW j \in 0..Len(e), j # Len(e)
    PROVE  /\ Remaining(e, j) # <<>>
           /\ Head(Remaining(e, j)) = Leaf(e[j + 1]) /\ Tail(Remaining(e, j)) = Remaining(e, j + 1)
           /\ Append(Passed(e, j), e[j + 1]) = Passed(e, j + 1)
<1>1. PICK m \in Nat : m = Len(e) /\ DOMAIN e = 1..m
  OBVIOUS
<1> DEFINE T == Leaves(e)
<1>2. Remaining(e, j) \in Seq(T) /\ Len(Remaining(e, j)) = m - j
  BY <1>1, RemainingIsSeq
<1> j + 1 \in 0..Len(e)
  BY <1>1
<1>3. Remaining(e, j + 1) \in Seq(T) /\ Len(Remaining(e, j + 1)) = m - (j + 1)
  BY <1>1, RemainingIsSeq
<1>4. Passed(e, j) \in Seq(Nat) /\ Len(Passed(e, j)) = j /\ Passed(e, j + 1) \in Seq(Nat) /\ Len(Passed(e, j + 1)) = j + 1
  BY <1>1, PassedIsSeq
<1>5. \A i \in 1..(m - j) : Remaining(e, j)[i] = Leaf(e[i + j])
  BY <1>1 DEF Remaining
<1>6. \A i \in 1..(m - (j + 1)) : Remaining(e, j + 1)[i] = Leaf(e[i + (j + 1)])
  BY <1>1 DEF Remaining
<1> HIDE DEF T
<1>7. Remaining(e, j) # <<>> /\ Head(Remaining(e, j)) = Leaf(e[j + 1])
  <2>1. 1 \in 1..(m - j) /\ Head(Remaining(e, j)) = Remaining(e, j)[1]
    BY <1>1, <1>2
  <2> QED  BY <1>1, <1>2, <1>5, <2>1
<1>8. Tail(Remaining(e, j)) = Remaining(e, j + 1)
  <2>1. Tail(Remaining(e, j)) \in Seq(T) /\ Len(Tail(Remaining(e, j))) = m - (j + 1)
    <3>1. Tail(Remaining(e, j)) \in Seq(T) /\ Len(Tail(Remaining(e, j))) = Len(Remaining(e, j)) - 1
      BY <1>2, <1>7, HeadTailProperties
    <3>2. (m - j) - 1 = m - (j + 1)
      BY <1>1
    <3> QED  BY <1>2, <3>1, <3>2
  <2>2. ASSUME NEW i \in 1..(m - (j + 1)) PROVE Tail(Remaining(e, j))[i] = Remaining(e, j + 1)[i]
    <3>1. Tail(Remaining(e, j))[i] = Remaining(e, j)[i + 1]
      BY <1>1, <1>2, <1>7
    <3>2. i + 1 \in 1..(m - j) /\ (i + 1) + j = i + (j + 1)
      BY <1>1
    <3> QED  BY <1>5, <1>6, <3>1, <3>2
  <2> QED  BY <1>3, <2>1, <2>2, SeqEqual
<1>9. Append(Passed(e, j), e[j + 1]) = Passed(e, j + 1)
  <2>1. e[j + 1] \in Nat
    BY <1>1
  <2> DEFINE a == Append(Passed(e, j), e[j + 1])
  <2>2. a \in Seq(Nat) /\ Len(a) = j + 1 /\ \A i \in 1..j : a[i] = Passed(e, j)[i]
    BY <1>4, <2>1
  <2>3. a[j + 1] = e[j + 1]
    BY <1>4, <2>1
  <2> HIDE DEF a
  <2>4. ASSUME NEW i \in 1..(j + 1) PROVE a[i] = Passed(e, j + 1)[i]
    BY <2>2, <2>3 DEF Passed
  <2>5. a = Passed(e, j + 1)
    BY <1>4, <2>2, <2>4, SeqEqual
  <2> QED  BY <2>5 DEF a
<1> QED  BY <1>7, <1>8, <1>9

\* Of a chain of two, the second is the next one that remains.
LEMMA UnwindingEnter ==
    ASSUME NEW e \in Seq(Nat), NEW b, NEW nest, Nested(b, nest, e), NEW j \in (b + 1)..Len(e)
    PROVE  <<nest[j].left, nest[j].right>> \o Remaining(e, j) = Unwinding(nest, e, j - 1)
<1>1. PICK m \in Nat : m = Len(e) /\ DOMAIN e = 1..m
  OBVIOUS
<1>2. /\ b \in {0, 1} /\ b <= m
      /\ nest[j] = Chain(nest[j - 1], Leaf(e[j]))
  BY <1>1 DEF Nested
<1>3. nest[j].left = nest[j - 1] /\ nest[j].right = Leaf(e[j])
  BY <1>2 DEF Chain
<1>4. j - 1 \in 0..m /\ j - 1 # m /\ j \in 0..m
  BY <1>1, <1>2
<1>5. Remaining(e, j - 1) # <<>> /\ Head(Remaining(e, j - 1)) = Leaf(e[j]) /\ Tail(Remaining(e, j - 1)) = Remaining(e, j)
  BY <1>1, <1>4, RemainingTail
<1> DEFINE T == Leaves(e) \cup {nest[j - 1]}
<1>6. Remaining(e, j - 1) \in Seq(T) /\ Remaining(e, j) \in Seq(T) /\ nest[j - 1] \in T
  <2>1. \A i \in 0..m : Remaining(e, i) \in Seq(Leaves(e))
    BY <1>1, RemainingIsSeq
  <2>2. Remaining(e, j - 1) \in Seq(T) /\ Remaining(e, j) \in Seq(T)
    <3>1. Remaining(e, j - 1) \in Seq(Leaves(e)) /\ Remaining(e, j) \in Seq(Leaves(e)) /\ Leaves(e) \subseteq T
      BY <1>4, <2>1
    <3> HIDE DEF T
    <3> QED  BY <3>1, SeqMonotonic
  <2> QED  BY <2>2
<1>7. Leaf(e[j]) \in T
  <2>1. j \in DOMAIN e
    BY <1>1, <1>2
  <2> QED  BY <2>1 DEF Leaves
<1> HIDE DEF T
<1>8. Remaining(e, j - 1) = <<Leaf(e[j])>> \o Remaining(e, j)
  BY <1>5, <1>6, HeadThenTail
<1>9. <<nest[j - 1], Leaf(e[j])>> \o Remaining(e, j) = <<nest[j - 1]>> \o (<<Leaf(e[j])>> \o Remaining(e, j))
  BY <1>6, <1>7
<1> QED  BY <1>3, <1>8, <1>9 DEF Unwinding

\* A call starts with the chain of its kind, or the built-in interceptor.
LEMMA CallStarts ==
    ASSUME NEW c, NEW S, ChainOf(c, S)
    PROVE  \E b, nest, e :
              /\ Enumerates(e, Line(S)) /\ Nested(b, nest, e)
              /\ <<IF c = None THEN Builtin ELSE c>> = Unwinding(nest, e, Len(e))
              /\ Len(e) \in b..Len(e)
<1>1. ChainOf(IF c = None THEN Builtin ELSE c, Line(S))
  <2>1. ChainOf(Builtin, {0})
    BY ChainOfOne DEF Builtin, Leaf
  <2> QED  BY <2>1, ChainIsNone DEF Line
<1>2. PICK b, nest, e : /\ Enumerates(e, Line(S)) /\ Nested(b, nest, e)
                        /\ (IF c = None THEN Builtin ELSE c) = nest[Len(e)]
  BY <1>1 DEF ChainOf
<1>3. e \in Seq(Nat) /\ Len(e) \in Nat /\ b \in {0, 1} /\ b <= Len(e)
  BY <1>2 DEF Enumerates, Nested
<1>5. Remaining(e, Len(e)) = <<>>
  BY <1>3, NothingRemains
<1>6. Unwinding(nest, e, Len(e)) = <<nest[Len(e)]>>
  BY <1>5 DEF Unwinding
<1> QED  BY <1>2, <1>3, <1>6

\* Every step of a call takes it on along the same chain.
LEMMA CallStep ==
    ASSUME NEW b, NEW nest, NEW e, e \in Seq(Nat), Nested(b, nest, e), InCall(b, nest, e),
           Enter \/ Skip \/ Pass \/ Handle
    PROVE  InCall(b, nest, e)'
<1>1. PICK m \in Nat : m = Len(e)
  OBVIOUS
<1>2. b \in {0, 1} /\ b <= m
  BY <1>1 DEF Nested
<1>3. pc = "serving"
  BY DEF Enter, Skip, Pass, Handle, Calls
<1>4. \A n : Leaf(n).type = "leaf" /\ Leaf(n).n = n /\ Leaf(n) # None
  BY DEF Leaf, None
<1>7. Passed(e, 0) = <<>> /\ 0 \in 0..m
  BY <1>1, PassedIsSeq
<1>5. ASSUME ~reached, called = <<>>, NEW j \in b..m, stack = Unwinding(nest, e, j)
      PROVE  InCall(b, nest, e)'
  <2>1. j \in 0..m /\ j \in Nat
    BY <1>1, <1>2
  <2>2. Head(stack) = nest[j] /\ Tail(stack) = Remaining(e, j) /\ stack # <<>>
    BY <1>1, <1>5, <2>1, UnwindingIsSeq
  <2>3. CASE j = b
    <3>1. nest[j] = IF b = 0 THEN None ELSE Leaf(e[1])
      BY <2>3 DEF Nested
    <3>2. CASE b = 0
      <4>1. stack' = Remaining(e, 0) /\ UNCHANGED <<pc, called, reached>>
        BY <1>3, <2>2, <2>3, <3>1, <3>2 DEF Enter, Skip, Pass, Handle, None
      <4>2. called' = Passed(e, 0)
        BY <1>5, <1>7, <4>1
      <4> QED  BY <1>1, <1>3, <1>5, <4>1, <4>2 DEF InCall
    <3>3. CASE b = 1
      <4>1. /\ called' = Append(called, e[1]) /\ UNCHANGED reached
            /\ \/ stack' = Remaining(e, 1) /\ UNCHANGED pc
               \/ pc' = "served"
        <5>1. nest[j].type = "leaf" /\ nest[j] # None /\ nest[j].n = e[1]
          BY <1>4, <2>3, <3>1, <3>3
        <5>2. Pass
          BY <2>2, <5>1 DEF Enter, Skip, Handle
        <5>3. Tail(stack) = Remaining(e, 1)
          BY <2>2, <2>3, <3>3
        <5> QED  BY <2>2, <5>1, <5>2, <5>3 DEF Pass
      <4>2. called = Passed(e, 0) /\ 0 \in 0..m /\ 0 # m /\ 1 \in 0..m
        BY <1>1, <1>2, <1>5, <1>7, <3>3
      <4>3. Append(Passed(e, 0), e[0 + 1]) = Passed(e, 0 + 1)
        BY <1>1, <4>2, RemainingTail
      <4>4. called' = Passed(e, 1)
        BY <4>1, <4>2, <4>3
      <4> QED  BY <1>1, <1>3, <1>5, <4>1, <4>2, <4>4 DEF InCall
    <3> QED  BY <1>2, <3>2, <3>3
  <2>4. CASE j # b
    <3>1. j \in (b + 1)..m /\ j - 1 \in b..m
      BY <1>1, <1>2, <2>4
    <3>2. nest[j] = Chain(nest[j - 1], Leaf(e[j]))
      BY <1>1, <3>1 DEF Nested
    <3>3. stack' = <<nest[j].left, nest[j].right>> \o Remaining(e, j) /\ UNCHANGED <<pc, called, reached>>
      <4>1. nest[j].type = "chain" /\ nest[j] # None
        BY <3>2 DEF Chain, None
      <4>2. Enter
        BY <2>2, <4>1 DEF Skip, Pass, Handle
      <4> QED  BY <2>2, <4>2 DEF Enter
    <3>4. stack' = Unwinding(nest, e, j - 1)
      BY <1>1, <3>1, <3>3, UnwindingEnter
    <3> QED  BY <1>1, <1>3, <1>5, <3>1, <3>3, <3>4 DEF InCall
  <2> QED  BY <2>3, <2>4
<1>6. ASSUME ~reached, NEW j \in 0..m, called = Passed(e, j), stack = Remaining(e, j)
      PROVE  InCall(b, nest, e)'
  <2>1. CASE j = m
    <3>2. stack = <<>>
      BY <1>1, <1>6, <2>1, NothingRemains
    <3>3. pc' = "served" /\ UNCHANGED called
      BY <1>3, <3>2 DEF Enter, Skip, Pass, Handle, Calls
    <3> QED  BY <1>1, <1>6, <2>1, <3>3 DEF InCall
  <2>2. CASE j # m
    <3>1. /\ stack # <<>> /\ Head(stack) = Leaf(e[j + 1]) /\ Tail(stack) = Remaining(e, j + 1)
          /\ Append(Passed(e, j), e[j + 1]) = Passed(e, j + 1)
      BY <1>1, <1>6, <2>2, RemainingTail
    <3>2. /\ called' = Passed(e, j + 1) /\ UNCHANGED reached
          /\ \/ stack' = Remaining(e, j + 1) /\ UNCHANGED pc
             \/ pc' = "served"
      BY <1>3, <1>4, <1>6, <3>1 DEF Enter, Skip, Pass, Handle
    <3>3. j + 1 \in 0..m
      BY <1>1, <2>2
    <3> QED  BY <1>1, <1>3, <1>6, <3>2, <3>3 DEF InCall
  <2> QED  BY <2>1, <2>2
<1> QED  BY <1>1, <1>3, <1>5, <1>6 DEF InCall

-----------------------------------------------------------------------------
(* The invariant.                                                          *)

\* While the options are given, the interceptors of every kind are a chain of
\* those that are live; a call is somewhere along such a chain.
InterceptorInv ==
    /\ pc \in {"options", "serving", "served", "failed"}
    /\ serving \in Kinds
    /\ given \in Seq(Given) /\ Len(given) <= MaxOptions
    /\ \E l : LastReplace(l)
    /\ pc \in {"options", "failed"} => called = <<>> /\ ~reached
    /\ pc = "options" => \A k \in Kinds : ChainOf(interceptors[k], Live(k))
    /\ pc \in {"serving", "served"} => CallInv /\ \A k \in Kinds : interceptors[k] # None
    /\ reached \in BOOLEAN

LEMMA InterceptorInit == Init => InterceptorInv
<1> SUFFICES ASSUME Init PROVE InterceptorInv
  OBVIOUS
<1>1. given = <<>> /\ given \in Seq(Given) /\ Len(given) = 0
  BY DEF Init
<1>2. LastReplace(0)
  BY <1>1 DEF LastReplace
<1>3. \A k \in Kinds : Live(k) = {} /\ interceptors[k] = None
  BY <1>1 DEF Live, Init
<1>4. Len(given) <= MaxOptions
  BY <1>1, BoundAssumption
<1>5. \A k \in Kinds : ChainOf(interceptors[k], Live(k))
  BY <1>3, ChainOfNone
<1>6. pc = "options" /\ called = <<>> /\ reached = FALSE /\ serving \in Kinds
  BY DEF Init
<1> QED  BY <1>1, <1>2, <1>4, <1>5, <1>6 DEF InterceptorInv

LEMMA ChainedOptionStep ==
    ASSUME InterceptorInv,
           \/ \E ks \in SUBSET Kinds : WithInterceptors(ks) \/ WithExtraInterceptors(ks)
           \/ \E p \in Protocols : WithProtocol(p)
           \/ \E f \in Fields : WithField(f)
    PROVE  InterceptorInv'
<1>1. /\ pc = "options" /\ UNCHANGED <<pc, called, reached, serving>> /\ Len(given) < MaxOptions
      /\ given \in Seq(Given) /\ \E l : LastReplace(l)
      /\ called = <<>> /\ ~reached /\ reached \in BOOLEAN /\ serving \in Kinds
      /\ \A k \in Kinds : ChainOf(interceptors[k], Live(k))
  BY DEF InterceptorInv, WithInterceptors, WithExtraInterceptors, WithProtocol, WithField, CanApply
<1>2. ASSUME NEW t \in {"replace", "extra", "protocol", "field"},
             NEW s \in SUBSET (Kinds \cup Protocols \cup Fields), Give(t, s),
             \A k \in Kinds : ChainOf(interceptors'[k], Live(k)')
      PROVE  InterceptorInv'
  <2>1. given' \in Seq(Given) /\ Number = Len(given') /\ \E l : LastReplace(l)'
    BY <1>1, <1>2, LiveStep
  <2>2. Len(given') <= MaxOptions
    BY <1>1, <2>1, BoundAssumption DEF Number
  <2> QED  BY <1>1, <1>2, <2>1, <2>2 DEF InterceptorInv
<1>3. ASSUME NEW ks \in SUBSET Kinds, WithInterceptors(ks) PROVE InterceptorInv'
  <2>1. /\ Give("replace", ks) /\ ks \in SUBSET (Kinds \cup Protocols \cup Fields)
        /\ \A k \in Kinds : interceptors'[k] = IF k \in ks THEN Leaf(Number) ELSE None
    BY <1>3 DEF WithInterceptors
  <2>2. Number \in Nat /\ \A k : Live(k)' = IF k \in ks THEN {Number} ELSE {}
    BY <1>1, <2>1, LiveStep
  <2>3. ASSUME NEW k \in Kinds PROVE ChainOf(interceptors'[k], Live(k)')
    BY <2>1, <2>2, ChainOfOne, ChainOfNone
  <2> QED  BY <1>2, <2>1, <2>3
<1>4. ASSUME NEW ks \in SUBSET Kinds, WithExtraInterceptors(ks) PROVE InterceptorInv'
  <2>1. /\ Give("extra", ks) /\ ks \in SUBSET (Kinds \cup Protocols \cup Fields)
        /\ \A k \in Kinds : interceptors'[k] = IF k \in ks THEN Chain(interceptors[k], Leaf(Number))
                                               ELSE interceptors[k]
    BY <1>4 DEF WithExtraInterceptors
  <2>2. /\ Number \in Nat
        /\ \A k : /\ Live(k)' = IF k \in ks THEN Live(k) \cup {Number} ELSE Live(k)
                  /\ \A i \in Live(k) : i < Number
    BY <1>1, <2>1, LiveStep
  <2>3. ASSUME NEW k \in Kinds PROVE ChainOf(interceptors'[k], Live(k)')
    <3>1. ChainOf(interceptors[k], Live(k))
      BY <1>1
    <3>2. ChainOf(Chain(interceptors[k], Leaf(Number)), Live(k) \cup {Number})
      BY <2>2, <3>1, ChainGrows
    <3> QED  BY <2>1, <2>2, <3>1, <3>2
  <2> QED  BY <1>2, <2>1, <2>3
<1>5. ASSUME UNCHANGED interceptors, NEW t \in {"protocol", "field"},
             NEW s \in SUBSET (Kinds \cup Protocols \cup Fields), Give(t, s)
      PROVE  InterceptorInv'
  <2>1. \A k : Live(k)' = Live(k)
    BY <1>1, <1>5, LiveStep
  <2>2. \A k \in Kinds : ChainOf(interceptors'[k], Live(k)')
    BY <1>1, <1>5, <2>1
  <2> QED  BY <1>2, <1>5, <2>2
<1>6. ASSUME NEW p \in Protocols, WithProtocol(p) PROVE InterceptorInv'
  BY <1>5, <1>6 DEF WithProtocol
<1>7. ASSUME NEW f \in Fields, WithField(f) PROVE InterceptorInv'
  BY <1>5, <1>7 DEF WithField
<1> QED  BY <1>3, <1>4, <1>6, <1>7

LEMMA InterceptorStep == InterceptorInv /\ [Next]_vars => InterceptorInv'
<1> SUFFICES ASSUME InterceptorInv, [Next]_vars PROVE InterceptorInv'
  OBVIOUS
<1>1. CASE Serve
  <2>1. /\ pc = "options" /\ pc' = "serving" /\ UNCHANGED <<given, called, reached, serving>>
        /\ \A k \in Kinds : interceptors'[k] = IF interceptors[k] = None THEN Builtin ELSE interceptors[k]
        /\ stack' = <<interceptors'[serving]>>
    BY <1>1 DEF Serve
  <2>2. /\ serving \in Kinds /\ called = <<>> /\ ~reached
        /\ ChainOf(interceptors[serving], Live(serving))
    BY <2>1 DEF InterceptorInv
  <2>3. UNCHANGED Live(serving) /\ \A l : UNCHANGED LastReplace(l)
    BY <2>1 DEF Live, LastReplace
  <2>4. PICK b, nest, e :
           /\ Enumerates(e, Line(Live(serving))) /\ Nested(b, nest, e)
           /\ stack' = Unwinding(nest, e, Len(e))
           /\ Len(e) \in b..Len(e)
    BY <2>1, <2>2, CallStarts
  <2>5. InCall(b, nest, e)'
    BY <2>1, <2>2, <2>4 DEF InCall
  <2>6. CallInv'
    BY <2>3, <2>4, <2>5 DEF CallInv
  <2>7. \A k \in Kinds : interceptors'[k] # None
    BY <2>1 DEF Builtin, None
  <2> QED  BY <2>1, <2>3, <2>6, <2>7 DEF InterceptorInv
<1>2. CASE Enter \/ Skip \/ Pass \/ Handle
  <2>1. /\ pc = "serving" /\ pc' \in {"serving", "served"} /\ UNCHANGED <<given, serving, interceptors>>
        /\ reached \in BOOLEAN => reached' \in BOOLEAN
    BY <1>2 DEF Enter, Skip, Pass, Handle, Calls
  <2>2. UNCHANGED Live(serving) /\ \A l : UNCHANGED LastReplace(l)
    BY <2>1 DEF Live, LastReplace
  <2>3. PICK b, nest, e :
           Enumerates(e, Line(Live(serving))) /\ Nested(b, nest, e) /\ InCall(b, nest, e)
    BY <2>1 DEF InterceptorInv, CallInv
  <2>4. InCall(b, nest, e)'
    BY <1>2, <2>3, CallStep DEF Enumerates
  <2>5. CallInv'
    BY <2>2, <2>3, <2>4 DEF CallInv
  <2> QED  BY <2>1, <2>2, <2>5 DEF InterceptorInv
<1>3. CASE FailingOption \/ UNCHANGED vars
  <2>1. /\ UNCHANGED <<given, serving, interceptors, called, reached, stack>>
        /\ UNCHANGED pc \/ (pc = "options" /\ pc' = "failed")
    BY <1>3 DEF FailingOption, vars, CanApply
  <2>2. (\A k : UNCHANGED Live(k)) /\ \A l : UNCHANGED LastReplace(l)
    BY <2>1 DEF Live, LastReplace
  <2>3. CASE pc' = "failed"
    BY <2>1, <2>2, <2>3 DEF InterceptorInv
  <2>4. CASE UNCHANGED pc
    <3>1. CallInv' <=> CallInv
      BY <2>1, <2>2, <2>4 DEF CallInv, InCall
    <3> QED  BY <2>1, <2>2, <2>4, <3>1 DEF InterceptorInv
  <2> QED  BY <2>1, <2>3, <2>4
<1> QED  BY <1>1, <1>2, <1>3, ChainedOptionStep DEF Next

\* What has been called is a first part of the line of interceptors, all of it
\* once the handler was reached.
LEMMA CalledAlongTheLine ==
    ASSUME InterceptorInv, pc \in {"serving", "served"}
    PROVE  /\ Effective \in Seq(Nat)
           /\ \E j \in 0..Len(Effective) :
                 called = Passed(Effective, j) /\ (reached => j = Len(Effective))
           /\ \A i \in DOMAIN Effective : Effective[i] \in 0..MaxOptions
<1>1. PICK b, nest, e :
         Enumerates(e, Line(Live(serving))) /\ Nested(b, nest, e) /\ InCall(b, nest, e)
  BY DEF InterceptorInv, CallInv
<1>2. Effective = e
  BY <1>1, EffectiveIs DEF InterceptorInv
<1>3. e \in Seq(Nat)
  BY <1>1 DEF Enumerates
<1>4. \E j \in 0..Len(e) : called = Passed(e, j) /\ (reached => j = Len(e))
  <2>1. Passed(e, 0) = <<>> /\ 0 \in 0..Len(e)
    <3>1. 0 \in 0..Len(e)
      BY <1>3
    <3> QED  BY <1>3, <3>1, PassedIsSeq
  <2> QED  BY <1>1, <2>1 DEF InCall
<1>5. \A i \in DOMAIN e : e[i] \in 0..MaxOptions
  <2>1. \A i \in Line(Live(serving)) : i \in 0..MaxOptions
    <3>1. given \in Seq(Given) /\ Len(given) <= MaxOptions
      BY DEF InterceptorInv
    <3>2. DOMAIN given \subseteq 0..MaxOptions /\ 0 \in 0..MaxOptions
      BY <3>1, BoundAssumption
    <3> QED  BY <3>2 DEF Line, Live
  <2> QED  BY <1>1, <2>1 DEF Enumerates
<1> QED  BY <1>2, <1>3, <1>4, <1>5

\* The interceptors of a kind are called in the order of the options that
\* brought them, however many options there are and however they nest the
\* chains, and whichever of them are replaced.
THEOREM InterceptorsInOrder == Spec => []OrderOfOptions
<1>1. InterceptorInv => OrderOfOptions
  <2> SUFFICES ASSUME InterceptorInv, pc \in {"serving", "served"}
               PROVE  Len(called) <= Len(Effective) /\ \A i \in DOMAIN called : called[i] = Effective[i]
    BY DEF OrderOfOptions
  <2>1. Effective \in Seq(Nat)
    BY CalledAlongTheLine
  <2>2. PICK e : e = Effective /\ e \in Seq(Nat)
    BY <2>1
  <2>3. PICK j \in 0..Len(e) : called = Passed(e, j)
    BY <2>2, CalledAlongTheLine
  <2>4. called \in Seq(Nat) /\ Len(called) = j /\ \A i \in 1..j : called[i] = e[i]
    BY <2>2, <2>3, PassedIsSeq
  <2>5. j <= Len(e) /\ DOMAIN called = 1..j
    BY <2>2, <2>3, <2>4
  <2> QED  BY <2>2, <2>4, <2>5
<1> QED  BY <1>1, InterceptorInit, InterceptorStep, PTL DEF Spec

\* The handler of a request is reached only by way of every interceptor.
THEOREM HandlerReachedLast == Spec => []HandlerLast
<1>1. InterceptorInv => HandlerLast
  <2> SUFFICES ASSUME InterceptorInv, reached PROVE called = Effective
    BY DEF HandlerLast
  <2>1. pc \in {"serving", "served"}
    BY DEF InterceptorInv
  <2>2. PICK e : e = Effective /\ e \in Seq(Nat)
    BY <2>1, CalledAlongTheLine
  <2>3. called = Passed(e, Len(e))
    BY <2>1, <2>2, CalledAlongTheLine
  <2>4. Passed(e, Len(e)) = e
    BY <2>2 DEF Passed
  <2> QED  BY <2>2, <2>3, <2>4
<1> QED  BY <1>1, InterceptorInit, InterceptorStep, PTL DEF Spec

-----------------------------------------------------------------------------
(* Types.                                                                  *)

SettingsType == settings \in [Fields -> 0..Identity] /\ protocols \subseteq Protocols

LEMMA SettingsTypeStep == InterceptorInv /\ SettingsType /\ [Next]_vars => SettingsType'
<1> SUFFICES ASSUME InterceptorInv, SettingsType, [Next]_vars PROVE SettingsType'
  OBVIOUS
<1>1. given \in Seq(Given) /\ MaxOptions \in Nat \ {0} /\ Identity \in 0..Identity
  BY BoundAssumption DEF InterceptorInv, Identity
<1>2. ASSUME NEW f \in Fields, WithField(f) PROVE SettingsType'
  <2>1. Number \in 0..Identity
    BY <1>1, <1>2 DEF WithField, CanApply, Number, Identity
  <2> QED  BY <1>2, <2>1 DEF WithField, SettingsType, Identity
<1>3. CASE Serve
  <2>1. \A f \in Fields : settings[f] \in 0..Identity
    BY DEF SettingsType
  <2> QED  BY <1>1, <1>3, <2>1 DEF Serve, DefaultProcessor, SettingsType, Identity
<1>4. ASSUME NEW p \in Protocols, WithProtocol(p) PROVE SettingsType'
  BY <1>4 DEF WithProtocol, SettingsType, Identity
<1>5. CASE UNCHANGED <<settings, protocols>>
  BY <1>5 DEF SettingsType, Identity
<1>6. ASSUME NEW ks \in SUBSET Kinds, WithInterceptors(ks) \/ WithExtraInterceptors(ks) PROVE SettingsType'
  BY <1>5, <1>6 DEF WithInterceptors, WithExtraInterceptors
<1>7. CASE FailingOption \/ Enter \/ Skip \/ Pass \/ Handle \/ UNCHANGED vars
  BY <1>5, <1>7 DEF FailingOption, Enter, Skip, Pass, Handle, vars
<1> QED  BY <1>2, <1>3, <1>4, <1>6, <1>7 DEF Next

\* The types; and a server that is up has an interceptor of every kind, though
\* WithInterceptors takes away those it does not name.
THEOREM ServerOptionsTypes == Spec => []TypeOK
<1>1. Init => SettingsType
  <2> SUFFICES ASSUME Init PROVE SettingsType
    OBVIOUS
  <2>1. 0 \in 0..Identity
    BY BoundAssumption DEF Identity
  <2> QED  BY <2>1 DEF Init, SettingsType
<1>2. InterceptorInv /\ SettingsType => TypeOK
  <2> SUFFICES ASSUME InterceptorInv, SettingsType PROVE TypeOK
    OBVIOUS
  <2>1. called \in Seq(0..MaxOptions)
    <3>1. CASE pc \in {"options", "failed"}
      <4>1. called = <<>>
        BY <3>1 DEF InterceptorInv
      <4> QED  BY <4>1, EmptySeq
    <3>2. CASE pc \in {"serving", "served"}
      <4>1. PICK e : e = Effective /\ e \in Seq(Nat) /\ \A i \in DOMAIN e : e[i] \in 0..MaxOptions
        BY <3>2, CalledAlongTheLine
      <4>2. PICK j \in 0..Len(e) : called = Passed(e, j)
        BY <3>2, <4>1, CalledAlongTheLine
      <4>3. called \in Seq(Nat) /\ Len(called) = j /\ \A i \in 1..j : called[i] = e[i] /\ i \in DOMAIN e
        BY <4>1, <4>2, PassedIsSeq
      <4>4. PICK T : T = 0..MaxOptions
        OBVIOUS
      <4>5. called \in Seq(Nat) /\ Len(called) = j /\ \A i \in 1..j : called[i] \in T
        BY <4>1, <4>3, <4>4
      <4>6. called \in Seq(T)
        BY <4>5
      <4> QED  BY <4>4, <4>6
    <3> QED  BY <3>1, <3>2 DEF InterceptorInv
  <2> QED  BY <2>1 DEF InterceptorInv, SettingsType, TypeOK
<1> QED  BY <1>1, <1>2, InterceptorInit, InterceptorStep, SettingsTypeStep, PTL DEF Spec
=============================================================================
