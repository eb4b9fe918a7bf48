--------------------------- MODULE SettingsProofs ---------------------------
(***************************************************************************)
(* Proofs that no row can loosen, break or falsify a setting, for any      *)
(* declarations, values and texts.                                         *)
(*                                                                         *)
(* Resolved is a function of the state, so the invariant is only what each *)
(* variable may hold (InOrder); the work is in the operators. The lists    *)
(* need facts about recursive and choosing definitions (FlattenSeq,        *)
(* ThoseIn) that hold by induction: it is done with LeastNumber, on the    *)
(* least number for which they would not hold.                             *)
(***************************************************************************)
EXTENDS Settings, FiniteSetTheorems, SequenceTheorems, WellFoundedInduction, TLAPS

-----------------------------------------------------------------------------
(* Induction, and the two operators on lists that need it *)

\* A set of numbers has a least one.
LEMMA LeastNumber ==
    ASSUME NEW T \in SUBSET Nat, T # {}
    PROVE  \E n \in T : \A m \in T : n <= m
<1> DEFINE R == OpToRel(<, Nat)
<1>1. IsWellFoundedOn(R, Nat)
    BY NatLessThanWellFounded
<1>2. \A x \in Nat, y \in Nat : <<x, y>> \in R <=> x < y
    BY DEF OpToRel
<1> HIDE DEF R
<1>3. PICK x \in T : \A y \in T : ~(<<y, x>> \in R)
    BY <1>1, WFMin
<1>4. \A y \in T : ~(y < x)
    BY <1>2, <1>3
<1> QED BY <1>3, <1>4

\* The equation by which FlattenSeq is defined.
Flattens(f, s, n) == f = [i \in 1 .. n |-> IF i = 1 THEN s[i] ELSE f[i - 1] \o s[i]]

\* It has a solution,
LEMMA FlattenExists ==
    ASSUME NEW S, NEW s \in Seq(Seq(S)), NEW n \in Nat, n <= Len(s)
    PROVE  \E f \in [1 .. n -> Seq(S)] : Flattens(f, s, n)
<1> DEFINE Solved(m) == \E f \in [1 .. m -> Seq(S)] : Flattens(f, s, m)
           Bad == {m \in Nat : m <= n /\ ~Solved(m)}
<1> HIDE DEF Solved
<1> SUFFICES ASSUME Bad # {}
             PROVE  FALSE
    <2>1. Bad = {} => Solved(n)
        OBVIOUS
    <2> QED BY <2>1 DEF Solved
<1>1. PICK m \in Bad : \A k \in Bad : m <= k
    BY LeastNumber
<1>2. Len(s) \in Nat /\ \A i \in 1 .. Len(s) : s[i] \in Seq(S)
    BY LenProperties, ElementOfSeq
<1>3. CASE m = 0
    <2>1. [i \in 1 .. 0 |-> s[i]] \in [1 .. 0 -> Seq(S)] /\ Flattens([i \in 1 .. 0 |-> s[i]], s, 0)
        BY DEF Flattens
    <2> QED BY <1>1, <1>3, <2>1 DEF Solved
<1>4. CASE m # 0
    <2>1. m - 1 \in Nat /\ m - 1 \notin Bad /\ m - 1 <= n /\ m \in Nat /\ m <= n
        BY <1>1, <1>4
    <2>2. PICK f \in [1 .. m - 1 -> Seq(S)] : Flattens(f, s, m - 1)
        BY <2>1 DEF Solved
    <2> DEFINE last == IF m = 1 THEN s[m] ELSE f[m - 1] \o s[m]
               g == [i \in 1 .. m |-> IF i < m THEN f[i] ELSE last]
    <2>3. s[m] \in Seq(S) /\ (m # 1 => f[m - 1] \in Seq(S))
        BY <1>2, <2>1, <2>2
    <2>4. last \in Seq(S)
        BY <2>3, ConcatProperties
    <2>5. \A i \in 1 .. m : g[i] \in Seq(S)
        BY <2>1, <2>2, <2>4
    <2>6. \A i \in 1 .. m : g[i] = IF i = 1 THEN s[i] ELSE g[i - 1] \o s[i]
        <3> SUFFICES ASSUME NEW i \in 1 .. m
                     PROVE  g[i] = IF i = 1 THEN s[i] ELSE g[i - 1] \o s[i]
            OBVIOUS
        <3>1. i # 1 => i - 1 \in 1 .. m /\ i - 1 < m /\ g[i - 1] = f[i - 1]
            BY <2>1
        <3>2. CASE i = m
            BY <2>1, <3>1, <3>2
        <3>3. CASE i < m
            <4>1. i \in 1 .. m - 1 /\ g[i] = f[i]
                BY <2>1, <3>3
            <4>2. f[i] = IF i = 1 THEN s[i] ELSE f[i - 1] \o s[i]
                BY <2>2, <4>1 DEF Flattens
            <4> QED BY <3>1, <4>1, <4>2
        <3> QED BY <2>1, <3>2, <3>3
    <2>7. g \in [1 .. m -> Seq(S)] /\ Flattens(g, s, m)
        BY <2>5, <2>6 DEF Flattens
    <2> QED BY <1>1, <2>7 DEF Solved
<1> QED BY <1>3, <1>4

\* and FlattenSeq is the last place of one.
LEMMA FlattenUnfolds ==
    ASSUME NEW S, NEW s \in Seq(Seq(S)), s # <<>>
    PROVE  \E f : Flattens(f, s, Len(s)) /\ FlattenSeq(s) = f[Len(s)]
<1>1. Len(s) \in Nat /\ Len(s) # 0
    BY LenProperties, EmptySeq
<1>2. \E f : Flattens(f, s, Len(s))
    <2>1. \E f \in [1 .. Len(s) -> Seq(S)] : Flattens(f, s, Len(s))
        BY <1>1, FlattenExists
    <2> QED BY <2>1
<1> DEFINE f == CHOOSE g : Flattens(g, s, Len(s))
<1>3. Flattens(f, s, Len(s))
    BY <1>2
<1>4. FlattenSeq(s) = f[Len(s)]
    BY <1>1 DEF FlattenSeq, Flattens
<1> QED BY <1>3, <1>4

\* Flattening gives a sequence of the elements.
LEMMA FlattenType ==
    ASSUME NEW S, NEW s \in Seq(Seq(S)), s # <<>>
    PROVE  FlattenSeq(s) \in Seq(S)
<1>1. PICK f : Flattens(f, s, Len(s)) /\ FlattenSeq(s) = f[Len(s)]
    BY FlattenUnfolds
<1>2. Len(s) \in Nat \ {0} /\ \A i \in 1 .. Len(s) : s[i] \in Seq(S)
    BY LenProperties, ElementOfSeq, EmptySeq
<1> DEFINE Bad == {m \in Nat : m \in 1 .. Len(s) /\ f[m] \notin Seq(S)}
<1>3. Bad = {}
    <2> SUFFICES ASSUME Bad # {}
                 PROVE  FALSE
        OBVIOUS
    <2>1. PICK m \in Bad : \A k \in Bad : m <= k
        BY LeastNumber
    <2>2. m \in 1 .. Len(s) /\ f[m] = IF m = 1 THEN s[m] ELSE f[m - 1] \o s[m]
        BY <1>1, <2>1 DEF Flattens
    <2>3. m # 1 => m - 1 \in Nat /\ m - 1 \in 1 .. Len(s) /\ m - 1 \notin Bad
        BY <2>1, <2>2
    <2>4. s[m] \in Seq(S) /\ (m # 1 => f[m - 1] \in Seq(S))
        BY <1>2, <2>2, <2>3
    <2>5. f[m] \in Seq(S)
        BY <2>2, <2>4, ConcatProperties
    <2> QED BY <2>1, <2>5
<1> QED BY <1>1, <1>2, <1>3

\* Flattening sequences of one element undoes wrapping them.
LEMMA FlattenSingles ==
    ASSUME NEW S, NEW w \in Seq(S), w # <<>>
    PROVE  FlattenSeq([i \in DOMAIN w |-> <<w[i]>>]) = w
<1> DEFINE s == [i \in DOMAIN w |-> <<w[i]>>]
           n == Len(w)
<1>1. n \in Nat \ {0} /\ DOMAIN w = 1 .. n /\ \A i \in 1 .. n : w[i] \in S
    BY LenProperties, ElementOfSeq, EmptySeq
<1>2. s \in Seq(Seq(S)) /\ Len(s) = n /\ s # <<>>
    BY <1>1
<1>3. PICK f : Flattens(f, s, n) /\ FlattenSeq(s) = f[n]
    BY <1>2, FlattenUnfolds
<1> DEFINE Bad == {m \in Nat : m \in 1 .. n /\ f[m] # SubSeq(w, 1, m)}
<1>4. Bad = {}
    <2> SUFFICES ASSUME Bad # {}
                 PROVE  FALSE
        OBVIOUS
    <2>1. PICK m \in Bad : \A k \in Bad : m <= k
        BY LeastNumber
    <2>2. m \in 1 .. n /\ f[m] = IF m = 1 THEN <<w[m]>> ELSE f[m - 1] \o <<w[m]>>
        BY <1>1, <1>3, <2>1 DEF Flattens
    <2>3. CASE m = 1
        BY <1>1, <2>1, <2>2, <2>3
    <2>4. CASE m # 1
        <3>1. m - 1 \in Nat /\ m - 1 \in 1 .. n /\ m - 1 \notin Bad
            BY <2>1, <2>2, <2>4
        <3>2. f[m - 1] = SubSeq(w, 1, m - 1)
            BY <3>1
        <3>3. SubSeq(w, 1, m - 1) \o <<w[m]>> = SubSeq(w, 1, m)
            BY <1>1, <2>2, <3>1
        <3> QED BY <2>1, <2>2, <2>4, <3>2, <3>3
    <2> QED BY <2>3, <2>4
<1>5. f[n] = SubSeq(w, 1, n)
    BY <1>1, <1>4
<1>6. SubSeq(w, 1, n) = w
    BY <1>1
<1> QED BY <1>3, <1>5, <1>6

\* How many of the numbers of a set are not above n.
Below(A, n) == {j \in A : j <= n}
Rank(A, n) == Cardinality(Below(A, n))

LEMMA RankSteps ==
    ASSUME NEW A \in SUBSET Nat, IsFiniteSet(A), NEW n \in Nat
    PROVE  /\ Rank(A, n) \in Nat /\ Rank(A, n + 1) \in Nat
           /\ Rank(A, n + 1) = IF n + 1 \in A THEN Rank(A, n) + 1 ELSE Rank(A, n)
<1>1. IsFiniteSet(Below(A, n)) /\ IsFiniteSet(Below(A, n + 1))
    BY FS_Subset DEF Below
<1>2. Rank(A, n) \in Nat /\ Rank(A, n + 1) \in Nat
    BY <1>1, FS_CardinalityType DEF Rank
<1>3. CASE n + 1 \in A
    <2>1. Below(A, n + 1) = Below(A, n) \cup {n + 1} /\ n + 1 \notin Below(A, n)
        <3>1. \A j \in A : j \in Nat /\ (j <= n + 1 <=> j <= n \/ j = n + 1)
            OBVIOUS
        <3>2. ~(n + 1 <= n)
            OBVIOUS
        <3> QED BY <1>3, <3>1, <3>2 DEF Below
    <2>2. Cardinality(Below(A, n) \cup {n + 1}) = Cardinality(Below(A, n)) + 1
        BY <1>1, <2>1, FS_AddElement
    <2> QED BY <1>2, <1>3, <2>1, <2>2 DEF Rank
<1>4. CASE n + 1 \notin A
    <2>1. Below(A, n + 1) = Below(A, n)
        <3>1. \A j \in A : j <= n + 1 <=> j <= n
            BY <1>4
        <3> QED BY <3>1 DEF Below
    <2> QED BY <1>2, <1>4, <2>1 DEF Rank
<1> QED BY <1>3, <1>4

\* A number of the set has a rank of its own, from 1 to the size of the set,
LEMMA RankDistinguishes ==
    ASSUME NEW A \in SUBSET Nat, IsFiniteSet(A), NEW m \in A
    PROVE  /\ Rank(A, m) \in 1 .. Cardinality(A)
           /\ \A n \in A : Rank(A, m) = Rank(A, n) => m = n
<1>1. \A n \in A : /\ Below(A, n) \subseteq A /\ IsFiniteSet(Below(A, n))
                   /\ Rank(A, n) \in Nat /\ Rank(A, n) <= Cardinality(A)
    BY FS_Subset, FS_CardinalityType DEF Below, Rank
<1>2. Cardinality(A) \in Nat
    BY FS_CardinalityType
<1>3. Rank(A, m) # 0
    <2>1. m \in Below(A, m)
        BY DEF Below
    <2> QED BY <1>1, <2>1, FS_EmptySet DEF Rank
<1>4. ASSUME NEW k \in A, NEW n \in A, k < n
      PROVE  Rank(A, k) # Rank(A, n)
    <2>1. Below(A, k) \subseteq Below(A, n) /\ n \in Below(A, n) /\ n \notin Below(A, k)
        <3>1. n <= n /\ ~(n <= k) /\ \A j \in A : j <= k => j <= n
            BY <1>4
        <3> QED BY <3>1 DEF Below
    <2>2. Below(A, k) # Below(A, n)
        BY <2>1
    <2> QED BY <1>1, <2>1, <2>2, FS_Subset DEF Rank
<1>5. \A n \in A : Rank(A, m) = Rank(A, n) => m = n
    <2> SUFFICES ASSUME NEW n \in A, m # n
                 PROVE  Rank(A, m) # Rank(A, n)
        OBVIOUS
    <2>1. m < n \/ n < m
        OBVIOUS
    <2> QED BY <1>4, <2>1
<1> QED BY <1>1, <1>2, <1>3, <1>5

\* and each of these ranks is one's.
LEMMA RankReaches ==
    ASSUME NEW A \in SUBSET Nat, IsFiniteSet(A), NEW n \in Nat, A \subseteq 1 .. n,
           NEW k \in 1 .. Cardinality(A)
    PROVE  \E i \in A : Rank(A, i) = k
<1> DEFINE Up == {m \in Nat : Rank(A, m) >= k}
<1>1. Cardinality(A) \in Nat
    BY FS_CardinalityType
<1>2. n \in Up
    <2>1. Below(A, n) = A
        <3>1. \A j \in A : j <= n
            OBVIOUS
        <3> QED BY <3>1 DEF Below
    <2>2. Rank(A, n) = Cardinality(A)
        BY <2>1 DEF Rank
    <2> QED BY <1>1, <2>2
<1>3. PICK m \in Up : \A j \in Up : m <= j
    BY <1>2, LeastNumber
<1>4. m # 0
    <2>1. Below(A, 0) = {}
        <3>1. \A j \in A : ~(j <= 0)
            OBVIOUS
        <3> QED BY <3>1 DEF Below
    <2>2. Rank(A, 0) = 0
        BY <2>1, FS_EmptySet DEF Rank
    <2> QED BY <1>1, <1>3, <2>2
<1>5. PICK j \in Nat : m = j + 1
    <2>1. m - 1 \in Nat /\ m = (m - 1) + 1
        BY <1>3, <1>4
    <2> QED BY <2>1
<1>6. j \notin Up
    BY <1>3, <1>5
<1>7. /\ Rank(A, j) \in Nat /\ Rank(A, j + 1) \in Nat
      /\ Rank(A, j + 1) = IF j + 1 \in A THEN Rank(A, j) + 1 ELSE Rank(A, j)
    BY RankSteps
<1>8. Rank(A, j) < k /\ Rank(A, j + 1) >= k
    BY <1>1, <1>3, <1>5, <1>6, <1>7
<1> QED BY <1>1, <1>7, <1>8

\* A comprehension takes the items of the list that meet its condition, and no
\* others.
LEMMA ThoseInTakes ==
    ASSUME NEW S, NEW items \in Seq(S), NEW T
    PROVE  ThoseIn(items, T) \in Seq(S) /\ ToSet(ThoseIn(items, T)) = ToSet(items) \cap T
<1> DEFINE A == {i \in DOMAIN items : items[i] \in T}
           n == Cardinality(A)
           place(k) == CHOOSE i \in A : Rank(A, i) = k
           kept == [k \in 1 .. n |-> items[place(k)]]
<1>1. Len(items) \in Nat /\ DOMAIN items = 1 .. Len(items) /\ \A i \in DOMAIN items : items[i] \in S
    BY LenProperties, ElementOfSeq
<1>2. A \in SUBSET Nat /\ A \subseteq 1 .. Len(items) /\ IsFiniteSet(A) /\ n \in Nat
    <2>1. A \subseteq 1 .. Len(items) /\ A \in SUBSET Nat
        BY <1>1
    <2>2. IsFiniteSet(1 .. Len(items))
        BY <1>1, FS_Interval
    <2>3. IsFiniteSet(A)
        BY <2>1, <2>2, FS_Subset
    <2> QED BY <2>1, <2>3, FS_CardinalityType
<1>3. ThoseIn(items, T) = kept
    BY DEF ThoseIn, Rank, Below
<1>4. \A i \in A : i \in DOMAIN items /\ items[i] \in T
    OBVIOUS
<1>5. \A i \in DOMAIN items : items[i] \in T => i \in A
    OBVIOUS
<1> HIDE DEF A
<1>6. ASSUME NEW k \in 1 .. n
      PROVE  place(k) \in A /\ Rank(A, place(k)) = k
    <2>1. \E i \in A : Rank(A, i) = k
        BY <1>1, <1>2, RankReaches
    <2> QED BY <2>1
<1>7. ASSUME NEW i \in A
      PROVE  Rank(A, i) \in 1 .. n /\ place(Rank(A, i)) = i
    <2>1. Rank(A, i) \in 1 .. n /\ \A j \in A : Rank(A, i) = Rank(A, j) => i = j
        BY <1>2, RankDistinguishes
    <2> QED BY <1>6, <2>1
<1> HIDE DEF place
<1>8. \A k \in 1 .. n : kept[k] \in S /\ kept[k] \in T /\ \E i \in DOMAIN items : kept[k] = items[i]
    BY <1>1, <1>4, <1>6
<1>9. \A i \in A : \E k \in 1 .. n : kept[k] = items[i]
    BY <1>7
<1> HIDE DEF n
<1>10. kept \in Seq(S) /\ DOMAIN kept = 1 .. n
    BY <1>2, <1>8
<1>11. ToSet(kept) = ToSet(items) \cap T
    <2>1. \A x \in ToSet(kept) : x \in ToSet(items) \cap T
        BY <1>8, <1>10 DEF ToSet
    <2>2. ASSUME NEW x \in ToSet(items), x \in T
          PROVE  x \in ToSet(kept)
        <3>1. PICK i \in DOMAIN items : items[i] = x
            BY DEF ToSet
        <3>2. i \in A
            BY <1>5, <2>2, <3>1
        <3> QED BY <1>9, <1>10, <3>1, <3>2 DEF ToSet
    <2> QED BY <2>1, <2>2
<1> QED BY <1>3, <1>10, <1>11

-----------------------------------------------------------------------------
(* Values, texts and floors *)

\* A value the declaration s allows.
Valid(s, v) == IsValue(v) /\ CheckValue(s, v) = v

\* A declaration that KeySpec has let through.
Declared(s) ==
    /\ s.type \in Types /\ s.scope \in ScopeNames /\ s.floor \in Floors \cup {None}
    /\ Declarable(s) /\ IsValue(s.default)

\* The invariant: what each variable may hold.
InOrder ==
    /\ spec # None => Declared(spec)
    /\ toml # None => IsValue(toml)
    /\ exact # None => exact \in Seq(Fields)
    /\ upper # None => upper \in Seq(Fields)
    /\ rows \in [RowScopes -> Seq(Fields) \cup {None}]

LEMMA NoMismatch == \A v : IsValue(v) => v # Mismatch
BY DEF IsValue, Mismatch, Types

\* check_value lets a value through or raises.
LEMMA CheckValueDecides ==
    ASSUME NEW s, NEW v, IsValue(v)
    PROVE  /\ CheckValue(s, v) = Mismatch \/ CheckValue(s, v) = v
           /\ CheckValue(s, v) = v <=> MatchesType(s, v) /\ (s.choices # {} => v \in s.choices)
BY NoMismatch DEF CheckValue

\* A sequence of fields, each stripped.
LEMMA StripKeeps ==
    ASSUME NEW text \in Seq(Fields)
    PROVE  [i \in DOMAIN text |-> Strip(text[i])] \in Seq(Fields)
<1>1. Len(text) \in Nat /\ DOMAIN text = 1 .. Len(text) /\ \A i \in DOMAIN text : text[i] \in Fields
    BY LenProperties, ElementOfSeq
<1>2. \A i \in DOMAIN text : Strip(text[i]) \in Fields
    <2> SUFFICES ASSUME NEW f \in Fields
                 PROVE  Strip(f) \in Fields
        BY <1>1
    <2>1. Strip(f) = "" \/ Strip(f) = "a" \/ Strip(f) = f
        BY DEF Strip
    <2> QED BY <2>1, FieldsAssumption
<1> QED BY <1>1, <1>2

LEMMA DecodeListValue ==
    ASSUME NEW text \in Seq(Fields)
    PROVE  IsValue(DecodeList(text)) /\ DecodeList(text).type = "list[str]"
<1> DEFINE items == [i \in DOMAIN text |-> Strip(text[i])]
           kept == ThoseIn(items, ToSet(items) \ {""})
<1>1. kept \in Seq(Fields) /\ DecodeList(text) = ListOf(kept)
    BY StripKeeps, ThoseInTakes DEF DecodeList
<1> HIDE DEF kept
<1> QED BY <1>1 DEF ListOf, IsValue, Types

\* A text by its type alone is a value of that type, or nothing.
LEMMA CoercedValue ==
    ASSUME NEW s, s.type \in Types, NEW text \in Seq(Fields)
    PROVE  Coerced(s, text) = Mismatch \/ (IsValue(Coerced(s, text)) /\ MatchesType(s, Coerced(s, text)))
<1>1. CASE s.type = "str"
    <2>1. Coerced(s, text) = StrOf(text)
        BY <1>1 DEF Coerced
    <2> QED BY <1>1, <2>1 DEF StrOf, IsValue, Types, MatchesType
<1>2. CASE s.type = "int"
    <2>1. Coerced(s, text) = Mismatch
          \/ \E w \in DOMAIN Numeral : Coerced(s, text) = IntOf(Numeral[w])
        BY <1>2 DEF Coerced
    <2>2. \A w \in DOMAIN Numeral : IsValue(IntOf(Numeral[w])) /\ IntOf(Numeral[w]).type = "int"
        <3> SUFFICES ASSUME NEW w \in DOMAIN Numeral, NEW n, n = Numeral[w]
                     PROVE  IsValue(IntOf(n)) /\ IntOf(n).type = "int"
            OBVIOUS
        <3>1. n \in Int /\ \E u \in DOMAIN Numeral : Numeral[u] = n
            BY NumeralAssumption
        <3>2. IntOf(n).type = "int" /\ IntOf(n).number = n /\ IntOf(n).words = <<>>
              /\ IntOf(n) \in [type : Types, number : Int, words : Seq(Fields)]
            BY <3>1 DEF IntOf, Types
        <3> QED BY <3>1, <3>2 DEF IsValue
    <2> QED BY <1>2, <2>1, <2>2 DEF MatchesType
<1>3. CASE s.type = "bool"
    <2>1. Coerced(s, text) = Mismatch \/ Coerced(s, text) = BoolOf(TRUE) \/ Coerced(s, text) = BoolOf(FALSE)
        BY <1>3 DEF Coerced
    <2>2. \A b \in BOOLEAN : IsValue(BoolOf(b)) /\ BoolOf(b).type = "bool"
        BY DEF BoolOf, IsValue, Types
    <2> QED BY <1>3, <2>1, <2>2 DEF MatchesType
<1>4. CASE s.type = "list[str]"
    <2>1. Coerced(s, text) = DecodeList(text)
        BY <1>4 DEF Coerced
    <2> QED BY <1>4, <2>1, DecodeListValue DEF MatchesType
<1> QED BY <1>1, <1>2, <1>3, <1>4 DEF Types

\* decode_text gives a value of the declaration or raises.
LEMMA DecodeDecides ==
    ASSUME NEW s, s.type \in Types, NEW text \in Seq(Fields)
    PROVE  DecodeText(s, text) = Mismatch \/ Valid(s, DecodeText(s, text))
<1>1. CASE Coerced(s, text) = Mismatch
    BY <1>1 DEF DecodeText, CheckValue, Mismatch
<1>2. CASE IsValue(Coerced(s, text))
    BY <1>2, CheckValueDecides DEF DecodeText, Valid
<1> QED BY <1>1, <1>2, CoercedValue

\* Only a key that is no string has a floor, so only one without choices.
LEMMA FlooredHasNoChoices ==
    ASSUME NEW s, Declared(s), s.floor # None
    PROVE  s.choices = {} /\ s.floor \in Floors /\ s.type = FloorType[s.floor]
<1>1. s.floor \in Floors /\ s.type = FloorType[s.floor]
    BY DEF Declared, Declarable
<1>2. FloorType[s.floor] # "str"
    BY <1>1 DEF FloorType, Floors
<1> QED BY <1>1, <1>2 DEF Declared, Declarable

\* apply_floor gives a value of the declaration that is not looser than the
\* deployment's.
LEMMA FloorHolds ==
    ASSUME NEW s, Declared(s), s.floor # None, NEW d, NEW v, Valid(s, d), Valid(s, v)
    PROVE  /\ Valid(s, ApplyFloor(s.floor, d, v))
           /\ NotLooser(s.floor, ApplyFloor(s.floor, d, v), d)
<1> DEFINE r == ApplyFloor(s.floor, d, v)
<1>1. s.choices = {} /\ s.floor \in Floors /\ s.type = FloorType[s.floor]
    BY FlooredHasNoChoices
<1>2. IsValue(d) /\ IsValue(v) /\ d.type = s.type /\ v.type = s.type
    BY CheckValueDecides DEF Valid, MatchesType
<1>3. /\ d.words \in Seq(Fields) /\ v.words \in Seq(Fields) /\ d.number \in Int /\ v.number \in Int
    BY <1>2 DEF IsValue
<1> SUFFICES IsValue(r) /\ r.type = s.type /\ NotLooser(s.floor, r, d)
    BY <1>1, CheckValueDecides DEF Valid, MatchesType
<1>4. CASE s.floor = "min"
    <2>1. r = IF v.number < d.number THEN v ELSE d
        BY <1>4 DEF ApplyFloor
    <2> QED BY <1>2, <1>3, <1>4, <2>1 DEF NotLooser
<1>5. CASE s.floor = "and"
    <2>1. r = BoolOf(d.number = 1 /\ v.number = 1)
        BY <1>5 DEF ApplyFloor
    <2>2. IsValue(r) /\ r.type = "bool"
        BY <2>1 DEF BoolOf, IsValue, Types
    <2>3. r.number = 1 => d.number = 1
        BY <2>1 DEF BoolOf
    <2> QED BY <1>1, <1>5, <2>2, <2>3 DEF NotLooser, FloorType
<1>6. CASE s.floor = "union"
    <2> DEFINE more == ThoseIn(v.words, ToSet(v.words) \ ToSet(d.words))
    <2>1. r = ListOf(d.words \o more)
        BY <1>6 DEF ApplyFloor
    <2>2. more \in Seq(Fields)
        BY <1>3, ThoseInTakes
    <2> HIDE DEF more
    <2>3. /\ d.words \o more \in Seq(Fields)
          /\ Len(d.words \o more) = Len(d.words) + Len(more)
          /\ \A i \in 1 .. Len(d.words) : (d.words \o more)[i] = d.words[i]
        BY <1>3, <2>2, ConcatProperties
    <2>4. IsValue(r) /\ r.type = "list[str]"
        BY <2>1, <2>3 DEF ListOf, IsValue, Types
    <2>5. ASSUME NEW x \in ToSet(d.words)
          PROVE  x \in ToSet(d.words \o more)
        <3>1. PICK i \in 1 .. Len(d.words) : d.words[i] = x
            BY <1>3, LenProperties DEF ToSet
        <3>2. i \in DOMAIN (d.words \o more)
            BY <1>3, <2>2, <2>3, LenProperties
        <3> QED BY <2>3, <3>1, <3>2 DEF ToSet
    <2>6. r.words = d.words \o more
        BY <2>1 DEF ListOf
    <2>7. NotLooser("union", r, d)
        BY <2>5, <2>6 DEF NotLooser
    <2> QED BY <1>1, <1>6, <2>4, <2>7 DEF FloorType
<1>7. CASE s.floor = "subset"
    <2> DEFINE less == ThoseIn(d.words, ToSet(v.words))
    <2>1. r = ListOf(less)
        BY <1>7 DEF ApplyFloor
    <2>2. less \in Seq(Fields) /\ ToSet(less) = ToSet(d.words) \cap ToSet(v.words)
        BY <1>3, ThoseInTakes
    <2> HIDE DEF less
    <2>3. IsValue(r) /\ r.type = "list[str]" /\ r.words = less
        BY <2>1, <2>2 DEF ListOf, IsValue, Types
    <2> QED BY <1>1, <1>7, <2>2, <2>3 DEF NotLooser, FloorType
<1> QED BY <1>1, <1>4, <1>5, <1>6, <1>7 DEF Floors

\* Being no looser is a preorder.
LEMMA NotLooserIsTransitive ==
    ASSUME NEW floor \in Floors, NEW a, NEW b, NEW c, IsValue(a), IsValue(b), IsValue(c),
           NotLooser(floor, a, b), NotLooser(floor, b, c)
    PROVE  NotLooser(floor, a, c)
<1>1. a.number \in Int /\ b.number \in Int /\ c.number \in Int
    BY DEF IsValue
<1>2. CASE floor = "min"
    BY <1>1, <1>2 DEF NotLooser
<1>3. CASE floor = "and"
    BY <1>3 DEF NotLooser
<1>4. CASE floor = "union"
    BY <1>4 DEF NotLooser
<1>5. CASE floor = "subset"
    BY <1>5 DEF NotLooser
<1> QED BY <1>2, <1>3, <1>4, <1>5 DEF Floors

LEMMA NotLooserIsReflexive ==
    ASSUME NEW floor \in Floors, NEW a, IsValue(a)
    PROVE  NotLooser(floor, a, a)
<1>1. a.number <= a.number
    BY DEF IsValue
<1>2. CASE floor = "min"
    BY <1>1, <1>2 DEF NotLooser
<1>3. CASE floor = "and"
    BY <1>3 DEF NotLooser
<1>4. CASE floor \in {"union", "subset"}
    BY <1>4 DEF NotLooser
<1> QED BY <1>2, <1>3, <1>4 DEF Floors

\* One layer of rows leaves a value of the declaration, no looser than before.
LEMMA RowHolds ==
    ASSUME NEW s, Declared(s), NEW v, Valid(s, v), NEW scope, NEW text \in Seq(Fields) \cup {None}
    PROVE  LET r == ApplyRow(s, v, scope, text)
           IN  Valid(s, r) /\ (s.floor # None => NotLooser(s.floor, r, v))
<1> DEFINE r == ApplyRow(s, v, scope, text)
<1>1. CASE text = None \/ s.scope # scope \/ DecodeText(s, text) = Mismatch
    <2>1. r = v
        BY <1>1 DEF ApplyRow
    <2>2. s.floor # None => s.floor \in Floors
        BY DEF Declared
    <2> QED BY <2>1, <2>2, NotLooserIsReflexive DEF Valid
<1>2. CASE ~(text = None \/ s.scope # scope \/ DecodeText(s, text) = Mismatch)
    <2>1. Valid(s, DecodeText(s, text))
        BY <1>2, DecodeDecides DEF Declared
    <2>2. r = IF s.floor # None THEN ApplyFloor(s.floor, v, DecodeText(s, text)) ELSE DecodeText(s, text)
        BY <1>2 DEF ApplyRow
    <2> QED BY <2>1, <2>2, FloorHolds
<1> QED BY <1>1, <1>2

\* What the file and the environment give is a value of the declaration.
LEMMA DeploymentHolds ==
    ASSUME InOrder, Readable
    PROVE  Declared(spec) /\ Valid(spec, Deployment)
<1>1. Declared(spec) /\ spec.type \in Types
    BY DEF InOrder, Readable, Declared
<1>2. LoadDeploymentToml(spec) # Mismatch /\ LoadEnvironment(spec) # Mismatch
    BY DEF Readable, LayerRaises
<1>3. CASE LoadEnvironment(spec) # None
    <2>1. \E text \in Seq(Fields) : LoadEnvironment(spec) = DecodeText(spec, text)
        BY <1>3 DEF LoadEnvironment, InOrder
    <2> QED BY <1>1, <1>2, <1>3, <2>1, DecodeDecides DEF Deployment
<1>4. CASE LoadEnvironment(spec) = None /\ toml # None
    <2>1. Deployment = CheckValue(spec, toml) /\ CheckValue(spec, toml) # Mismatch /\ IsValue(toml)
        BY <1>2, <1>4 DEF Deployment, LoadDeploymentToml, InOrder
    <2> QED BY <1>1, <2>1, CheckValueDecides DEF Valid
<1>5. CASE LoadEnvironment(spec) = None /\ toml = None
    <2>1. Deployment = spec.default /\ IsValue(spec.default)
        BY <1>1, <1>5 DEF Deployment, Declared
    <2> QED BY <1>1, <2>1, CheckValueDecides DEF Valid, Declared, Declarable
<1> QED BY <1>3, <1>4, <1>5

LEMMA ReadingHolds ==
    ASSUME InOrder, Readable
    PROVE  Valid(spec, Resolved) /\ (spec.floor # None => NotLooser(spec.floor, Resolved, Deployment))
<1> DEFINE inner == ApplyRow(spec, Deployment, "workspace", rows["workspace"])
<1>1. Declared(spec) /\ Valid(spec, Deployment)
    BY DeploymentHolds
<1>2. rows["workspace"] \in Seq(Fields) \cup {None} /\ rows["member"] \in Seq(Fields) \cup {None}
    BY DEF InOrder, RowScopes
<1>3. Valid(spec, inner) /\ (spec.floor # None => NotLooser(spec.floor, inner, Deployment))
    BY <1>1, <1>2, RowHolds
<1> HIDE DEF inner
<1>4. LET r == ApplyRow(spec, inner, "member", rows["member"])
      IN  Valid(spec, r) /\ (spec.floor # None => NotLooser(spec.floor, r, inner))
    BY <1>1, <1>2, <1>3, RowHolds
<1>5. Resolved = ApplyRow(spec, inner, "member", rows["member"])
    BY DEF Resolved, ApplyRows, inner
<1>6. spec.floor # None => spec.floor \in Floors
    BY <1>1 DEF Declared
<1> QED BY <1>1, <1>3, <1>4, <1>5, <1>6, NotLooserIsTransitive DEF Valid

-----------------------------------------------------------------------------
(* Encoding, and the write path *)

LEMMA OneField == ASSUME NEW x \in Fields PROVE <<x>> \in Seq(Fields)
OBVIOUS

LEMMA PiecesType == \A item \in Fields : Pieces(item) \in Seq(Fields)
<1> SUFFICES ASSUME NEW item \in Fields
             PROVE  Pieces(item) \in Seq(Fields)
    OBVIOUS
<1>1. CASE item = "a,b"
    <2>1. Pieces(item) = <<"a", "b">> /\ "a" \in Fields /\ "b" \in Fields
        BY <1>1, FieldsAssumption DEF Pieces
    <2>2. \A x, y \in Fields : <<x, y>> \in Seq(Fields)
        OBVIOUS
    <2> QED BY <2>1, <2>2
<1>2. CASE item # "a,b"
    BY <1>2, OneField DEF Pieces
<1> QED BY <1>1, <1>2

\* What is written into a row is a text.
LEMMA EncodeType ==
    ASSUME NEW s, NEW v, IsValue(v), v.type = s.type
    PROVE  EncodeText(s, v) \in Seq(Fields)
<1>1. v.words \in Seq(Fields) /\ s.type \in Types
    BY DEF IsValue
<1>2. CASE s.type = "str"
    BY <1>1, <1>2 DEF EncodeText
<1>3. CASE s.type = "int"
    <2> DEFINE w == CHOOSE u \in DOMAIN Numeral : Numeral[u] = v.number
    <2>1. w \in DOMAIN Numeral
        BY <1>3 DEF IsValue
    <2>2. EncodeText(s, v) = <<w>>
        BY <1>3 DEF EncodeText
    <2>3. w \in Fields
        BY <2>1, NumeralAssumption
    <2> QED BY <2>2, <2>3, OneField
<1>4. CASE s.type = "bool"
    <2>1. EncodeText(s, v) = <<"true">> \/ EncodeText(s, v) = <<"false">>
        BY <1>4 DEF EncodeText
    <2>2. "true" \in Fields /\ "false" \in Fields
        BY FieldsAssumption
    <2> QED BY <2>1, <2>2, OneField
<1>5. CASE s.type = "list[str]"
    <2> DEFINE p == [i \in DOMAIN v.words |-> Pieces(v.words[i])]
    <2>1. EncodeText(s, v) = IF v.words = <<>> THEN <<"">> ELSE FlattenSeq(p)
        BY <1>5 DEF EncodeText
    <2>2. Len(v.words) \in Nat /\ DOMAIN v.words = 1 .. Len(v.words) /\ \A i \in DOMAIN v.words : v.words[i] \in Fields
        BY <1>1, LenProperties, ElementOfSeq
    <2>3. p \in Seq(Seq(Fields)) /\ Len(p) = Len(v.words)
        BY <2>2, PiecesType
    <2>4. v.words # <<>> => p # <<>>
        BY <1>1, <2>2, <2>3, EmptySeq
    <2> HIDE DEF p
    <2>5. "" \in Fields
        BY FieldsAssumption
    <2>6. v.words # <<>> => FlattenSeq(p) \in Seq(Fields)
        BY <2>3, <2>4, FlattenType
    <2>7. <<"">> \in Seq(Fields)
        BY <2>5, OneField
    <2> QED BY <2>1, <2>6, <2>7
<1> QED BY <1>1, <1>2, <1>3, <1>4, <1>5 DEF Types

LEMMA Single == ASSUME NEW x PROVE Len(<<x>>) = 1 /\ <<x>>[1] = x /\ DOMAIN <<x>> = {1}
OBVIOUS

\* A clean list comes back from its text.
LEMMA ListRoundTrip ==
    ASSUME NEW s, s.type = "list[str]", NEW v, IsValue(v), v.type = s.type, Clean(v)
    PROVE  ToSet(DecodeList(EncodeText(s, v)).words) = ToSet(v.words)
<1> DEFINE w == v.words
           text == EncodeText(s, v)
           items == [i \in DOMAIN text |-> Strip(text[i])]
           kept == ThoseIn(items, ToSet(items) \ {""})
<1>1. w \in Seq(Fields) /\ text \in Seq(Fields) /\ items \in Seq(Fields)
    BY EncodeType, StripKeeps DEF IsValue
<1>2. DecodeList(text).words = kept /\ ToSet(kept) = ToSet(items) \cap (ToSet(items) \ {""})
    BY <1>1, ThoseInTakes DEF DecodeList, ListOf
<1>3. ToSet(items) \ {""} = ToSet(w)
    <2>1. CASE w = <<>>
        <3>1. text = <<"">>
            BY <2>1 DEF EncodeText
        <3>2. \A i \in DOMAIN text : text[i] = ""
            BY <3>1, Single
        <3>3. Strip("") = ""
            BY DEF Strip
        <3>4. \A x \in ToSet(items) : x = ""
            BY <3>2, <3>3 DEF ToSet
        <3>5. ToSet(w) = {}
            BY <2>1 DEF ToSet
        <3> QED BY <3>4, <3>5
    <2>2. CASE w # <<>>
        <3>1. DOMAIN w = 1 .. Len(w) /\ Len(w) \in Nat
            BY <1>1, LenProperties
        <3>2. ASSUME NEW i \in DOMAIN w
              PROVE  w[i] # "" /\ Pieces(w[i]) = <<w[i]>> /\ Strip(w[i]) = w[i]
            <4>1. Pieces(w[i]) = <<Strip(w[i])>> /\ w[i] # ""
                BY DEF Clean
            <4>2. Pieces(w[i]) = <<w[i]>>
                <5>1. w[i] # "a,b"
                    <6> SUFFICES ASSUME w[i] = "a,b"
                                 PROVE  FALSE
                        OBVIOUS
                    <6>1. <<"a", "b">> = <<Strip(w[i])>>
                        BY <4>1 DEF Pieces
                    <6>2. Len(<<"a", "b">>) = 2 /\ Len(<<Strip(w[i])>>) = 1
                        OBVIOUS
                    <6> QED BY <6>1, <6>2
                <5> QED BY <5>1 DEF Pieces
            <4>3. <<w[i]>>[1] = <<Strip(w[i])>>[1]
                BY <4>1, <4>2
            <4> QED BY <4>1, <4>2, <4>3
        <3>3. [i \in DOMAIN w |-> Pieces(w[i])] = [i \in DOMAIN w |-> <<w[i]>>]
            BY <3>2
        <3>4. text = FlattenSeq([i \in DOMAIN w |-> Pieces(w[i])])
            BY <2>2 DEF EncodeText
        <3>5. text = w
            BY <1>1, <2>2, <3>3, <3>4, FlattenSingles
        <3>6. items = [i \in DOMAIN w |-> w[i]]
            BY <3>2, <3>5
        <3>7. DOMAIN items = DOMAIN w /\ \A i \in DOMAIN w : items[i] = w[i]
            BY <3>6
        <3>8. ToSet(items) = ToSet(w)
            BY <3>7 DEF ToSet
        <3>9. "" \notin ToSet(w)
            BY <3>2 DEF ToSet
        <3> QED BY <3>8, <3>9
    <2> QED BY <2>1, <2>2
<1> HIDE DEF w, kept, items
<1>4. ToSet(kept) = ToSet(w)
    BY <1>2, <1>3
<1> QED BY <1>2, <1>4 DEF w

\* decode_text undoes encode_text, a list up to its order.
LEMMA RoundTrip ==
    ASSUME NEW s, NEW v, IsValue(v), v.type = s.type, Clean(v)
    PROVE  LET c == Coerced(s, EncodeText(s, v))
           IN  /\ IsValue(c) /\ c.type = v.type /\ c.number = v.number
               /\ ToSet(c.words) = ToSet(v.words)
               /\ s.type # "list[str]" => c = v
<1> DEFINE t == EncodeText(s, v)
           c == Coerced(s, t)
<1>1. /\ v \in [type : Types, number : Int, words : Seq(Fields)]
      /\ v = [type |-> v.type, number |-> v.number, words |-> v.words]
      /\ s.type \in Types /\ t \in Seq(Fields)
    BY EncodeType DEF IsValue
<1>2. CASE s.type = "str"
    <2>1. c = StrOf(v.words)
        BY <1>2 DEF Coerced, EncodeText
    <2>2. c = v
        BY <1>1, <1>2, <2>1 DEF StrOf, IsValue
    <2> QED BY <1>2, <2>2
<1>3. CASE s.type = "int"
    <2> DEFINE u == CHOOSE x \in DOMAIN Numeral : Numeral[x] = v.number
    <2>1. u \in DOMAIN Numeral /\ Numeral[u] = v.number
        BY <1>3 DEF IsValue
    <2>2. t = <<u>>
        BY <1>3 DEF EncodeText
    <2> HIDE DEF u
    <2>3. u # " " /\ u # " a"
        BY <2>1, NumeralAssumption
    <2>4. Strip(u) = u /\ Len(t) = 1 /\ t[1] = u
        <3>1. Strip(u) = u
            BY <2>3 DEF Strip
        <3> QED BY <2>2, <3>1, Single
    <2> HIDE DEF t
    <2>5. c = IntOf(v.number)
        BY <1>3, <2>1, <2>4 DEF Coerced
    <2>6. c = v
        BY <1>1, <1>3, <2>5 DEF IntOf, IsValue
    <2> QED BY <1>3, <2>6 DEF t
<1>4. CASE s.type = "bool"
    <2>1. v.number = 1 \/ v.number = 0
        BY <1>4 DEF IsValue
    <2>2. t = IF v.number = 1 THEN <<"true">> ELSE <<"false">>
        BY <1>4 DEF EncodeText
    <2> HIDE DEF t
    <2>3. Len(t) = 1 /\ t[1] = IF v.number = 1 THEN "true" ELSE "false"
        BY <2>2
    <2>4. Strip(t[1]) = t[1] /\ Lower(t[1]) = t[1]
        BY <2>3 DEF Strip, Lower
    <2>5. /\ v.number = 1 => t[1] \in TrueWords
          /\ v.number # 1 => t[1] \notin TrueWords /\ t[1] \in FalseWords
        BY <2>3 DEF TrueWords, FalseWords
    <2>6. c = BoolOf(v.number = 1)
        BY <1>4, <2>3, <2>4, <2>5 DEF Coerced, BoolOf
    <2>7. c = v
        BY <1>1, <1>4, <2>1, <2>6 DEF BoolOf, IsValue
    <2> QED BY <1>4, <2>7 DEF t
<1>5. CASE s.type = "list[str]"
    <2>1. c = DecodeList(t)
        BY <1>5 DEF Coerced
    <2>2. IsValue(c) /\ c.type = "list[str]" /\ c.number = 0
        <3>1. DecodeList(t).number = 0
            BY DEF DecodeList, ListOf
        <3> QED BY <1>1, <2>1, <3>1, DecodeListValue
    <2>3. ToSet(c.words) = ToSet(v.words)
        BY <1>5, <2>1, ListRoundTrip
    <2>4. v.number = 0
        BY <1>5 DEF IsValue
    <2> QED BY <1>5, <2>2, <2>3, <2>4
<1> QED BY <1>1, <1>2, <1>3, <1>4, <1>5 DEF Types

LEMMA ToSetConcat ==
    ASSUME NEW S, NEW a \in Seq(S), NEW b \in Seq(S)
    PROVE  ToSet(a \o b) = ToSet(a) \cup ToSet(b)
<1>1. Len(a) \in Nat /\ Len(b) \in Nat /\ DOMAIN a = 1 .. Len(a) /\ DOMAIN b = 1 .. Len(b)
    BY LenProperties
<1>2. /\ a \o b \in Seq(S) /\ Len(a \o b) = Len(a) + Len(b)
      /\ \A i \in 1 .. Len(a) + Len(b) : (a \o b)[i] = IF i <= Len(a) THEN a[i] ELSE b[i - Len(a)]
    BY ConcatProperties
<1>3. DOMAIN (a \o b) = 1 .. Len(a) + Len(b)
    BY <1>2, LenProperties
<1> DEFINE ab == a \o b
<1> HIDE DEF ab
<1>4. \A i \in DOMAIN ab : ab[i] \in ToSet(a) \cup ToSet(b)
    <2> SUFFICES ASSUME NEW i \in 1 .. Len(a) + Len(b)
                 PROVE  ab[i] \in ToSet(a) \cup ToSet(b)
        BY <1>3 DEF ab
    <2>1. CASE i <= Len(a)
        BY <1>1, <1>2, <2>1 DEF ab, ToSet
    <2>2. CASE ~(i <= Len(a))
        <3>1. i - Len(a) \in DOMAIN b
            BY <1>1, <2>2
        <3>2. b[i - Len(a)] \in ToSet(b)
            BY <3>1 DEF ToSet
        <3> QED BY <1>2, <2>2, <3>2 DEF ab
    <2> QED BY <2>1, <2>2
<1>5. \A i \in DOMAIN a : \E k \in DOMAIN ab : ab[k] = a[i]
    <2> SUFFICES ASSUME NEW i \in 1 .. Len(a)
                 PROVE  \E k \in DOMAIN ab : ab[k] = a[i]
        BY <1>1
    <2>1. i \in DOMAIN ab /\ ab[i] = a[i]
        BY <1>1, <1>2, <1>3 DEF ab
    <2> QED BY <2>1
<1>6. \A i \in DOMAIN b : \E k \in DOMAIN ab : ab[k] = b[i]
    <2> SUFFICES ASSUME NEW i \in 1 .. Len(b)
                 PROVE  \E k \in DOMAIN ab : ab[k] = b[i]
        BY <1>1
    <2>1. /\ Len(a) + i \in 1 .. Len(a) + Len(b) /\ ~(Len(a) + i <= Len(a))
          /\ (Len(a) + i) - Len(a) = i
        BY <1>1
    <2>2. Len(a) + i \in DOMAIN ab /\ ab[Len(a) + i] = b[i]
        BY <1>2, <1>3, <2>1 DEF ab
    <2> QED BY <2>2
<1>7. ToSet(ab) = ToSet(a) \cup ToSet(b)
    BY <1>4, <1>5, <1>6 DEF ToSet
<1> QED BY <1>7 DEF ab

\* The floor leaves a value as it is (c is what its text decodes to) exactly if it
\* is not looser than the deployment's.
LEMMA FloorAgrees ==
    ASSUME NEW s, Declared(s), s.floor # None, NEW d, NEW v, NEW c, Valid(s, d), Valid(s, v), IsValue(c),
           c.type = v.type, c.number = v.number, ToSet(c.words) = ToSet(v.words)
    PROVE  ~IsLooser(s.floor, d, v) <=> SameSetting(ApplyFloor(s.floor, d, c), v)
<1> DEFINE r == ApplyFloor(s.floor, d, c)
<1>1. s.floor \in Floors /\ s.type = FloorType[s.floor]
    BY FlooredHasNoChoices
<1>2. IsValue(d) /\ IsValue(v) /\ d.type = s.type /\ v.type = s.type
    BY CheckValueDecides DEF Valid, MatchesType
<1>3. /\ d.words \in Seq(Fields) /\ v.words \in Seq(Fields) /\ c.words \in Seq(Fields)
      /\ d.number \in Int /\ v.number \in Int
    BY <1>2 DEF IsValue
<1>4. CASE s.floor = "min"
    <2>1. r = IF c.number < d.number THEN c ELSE d
        BY <1>4 DEF ApplyFloor
    <2>2. s.type = "int"
        BY <1>1, <1>4 DEF FloorType
    <2>3. d.words = <<>> /\ v.words = <<>> /\ c.words = <<>>
        BY <1>2, <2>2 DEF IsValue
    <2>4. SameSetting(r, v) <=> r.number = v.number
        BY <1>2, <2>1, <2>2, <2>3 DEF SameSetting
    <2>5. IsLooser(s.floor, d, v) <=> v.number > d.number
        BY <1>4 DEF IsLooser
    <2> QED BY <1>3, <2>1, <2>4, <2>5
<1>5. CASE s.floor = "and"
    <2>1. r = BoolOf(d.number = 1 /\ c.number = 1)
        BY <1>5 DEF ApplyFloor
    <2>2. s.type = "bool"
        BY <1>1, <1>5 DEF FloorType
    <2>3. v.words = <<>> /\ v.number \in {0, 1} /\ d.number \in {0, 1}
        BY <1>2, <2>2 DEF IsValue
    <2>4. r.type = "bool" /\ r.words = <<>> /\ r.number = IF d.number = 1 /\ v.number = 1 THEN 1 ELSE 0
        BY <2>1 DEF BoolOf
    <2>5. SameSetting(r, v) <=> r.number = v.number
        BY <1>2, <2>2, <2>3, <2>4 DEF SameSetting
    <2>6. IsLooser(s.floor, d, v) <=> v.number = 1 /\ d.number = 0
        BY <1>5 DEF IsLooser
    <2> QED BY <2>3, <2>4, <2>5, <2>6
<1>6. CASE s.floor = "union"
    <2> DEFINE more == ThoseIn(c.words, ToSet(c.words) \ ToSet(d.words))
    <2>1. r = ListOf(d.words \o more)
        BY <1>6 DEF ApplyFloor
    <2>2. more \in Seq(Fields) /\ ToSet(more) = ToSet(c.words) \cap (ToSet(c.words) \ ToSet(d.words))
        BY <1>3, ThoseInTakes
    <2> HIDE DEF more
    <2>3. s.type = "list[str]" /\ v.number = 0
        <3>1. s.type = "list[str]"
            BY <1>1, <1>6 DEF FloorType
        <3> QED BY <1>2, <3>1 DEF IsValue
    <2>4. r.type = "list[str]" /\ r.number = 0 /\ r.words = d.words \o more
        BY <2>1 DEF ListOf
    <2>5. ToSet(r.words) = ToSet(d.words) \cup ToSet(v.words)
        <3>1. ToSet(d.words \o more) = ToSet(d.words) \cup ToSet(more)
            BY <1>3, <2>2, ToSetConcat
        <3> QED BY <2>2, <2>4, <3>1
    <2>6. SameSetting(r, v) <=> ToSet(r.words) = ToSet(v.words)
        BY <1>2, <2>3, <2>4 DEF SameSetting
    <2>7. IsLooser(s.floor, d, v) <=> ~(ToSet(d.words) \subseteq ToSet(v.words))
        BY <1>6 DEF IsLooser
    <2> HIDE DEF r
    <2> QED BY <2>5, <2>6, <2>7 DEF r
<1>7. CASE s.floor = "subset"
    <2> DEFINE less == ThoseIn(d.words, ToSet(c.words))
    <2>1. r = ListOf(less)
        BY <1>7 DEF ApplyFloor
    <2>2. ToSet(less) = ToSet(d.words) \cap ToSet(c.words)
        BY <1>3, ThoseInTakes
    <2> HIDE DEF less
    <2>3. s.type = "list[str]" /\ v.number = 0
        <3>1. s.type = "list[str]"
            BY <1>1, <1>7 DEF FloorType
        <3> QED BY <1>2, <3>1 DEF IsValue
    <2>4. r.type = "list[str]" /\ r.number = 0 /\ r.words = less
        BY <2>1 DEF ListOf
    <2>5. SameSetting(r, v) <=> ToSet(less) = ToSet(v.words)
        BY <1>2, <2>3, <2>4 DEF SameSetting
    <2>6. IsLooser(s.floor, d, v) <=> ~(ToSet(v.words) \subseteq ToSet(d.words))
        BY <1>7 DEF IsLooser
    <2> QED BY <2>2, <2>5, <2>6
<1> QED BY <1>1, <1>4, <1>5, <1>6, <1>7 DEF Floors

\* One verdict of the write path.
LEMMA WriteAgrees ==
    ASSUME InOrder, Readable, NEW scope \in RowScopes, spec.scope = scope,
           NEW v \in Natives, v.type = spec.type, Clean(v)
    PROVE  Accepts(scope, v) <=> SameSetting(ApplyRows([rows EXCEPT ![scope] = EncodeText(spec, v)]), v)
<1> DEFINE d == Deployment
           text == EncodeText(spec, v)
           c == Coerced(spec, text)
           read == ApplyRow(spec, d, scope, text)
<1>1. Declared(spec) /\ Valid(spec, d) /\ spec # None
    BY DeploymentHolds DEF Readable
<1>2. IsValue(v) /\ IsValue(d) /\ d.type = spec.type
    BY <1>1, NativesAssumption, CheckValueDecides DEF Valid, MatchesType
<1>3. text \in Seq(Fields) /\ text # None
    BY <1>2, EncodeType, TextsAssumption
<1>4. /\ IsValue(c) /\ c.type = v.type /\ c.number = v.number
      /\ ToSet(c.words) = ToSet(v.words) /\ (spec.type # "list[str]" => c = v)
    BY <1>2, RoundTrip
<1>5. ApplyRows([rows EXCEPT ![scope] = text]) = read
    <2>1. rows \in [RowScopes -> Seq(Fields) \cup {None}]
        BY DEF InOrder
    <2> HIDE DEF text, d
    <2>2. CASE scope = "workspace"
        BY <2>1, <2>2 DEF ApplyRows, ApplyRow, RowScopes, d
    <2>3. CASE scope = "member"
        BY <2>1, <2>3 DEF ApplyRows, ApplyRow, RowScopes, d
    <2> QED BY <2>2, <2>3 DEF RowScopes
<1>6. Accepts(scope, v) <=> Valid(spec, v) /\ (spec.floor # None => ~IsLooser(spec.floor, d, v))
    BY <1>1, <1>2, CheckValueDecides, NoMismatch DEF Accepts, Valid
<1>7. spec.choices # {} => c = v
    BY <1>1, <1>4 DEF Declared, Declarable
<1>8. Valid(spec, v) <=> CheckValue(spec, c) = c
    BY <1>2, <1>4, <1>7, CheckValueDecides DEF Valid, MatchesType
<1>9. DecodeText(spec, text) = CheckValue(spec, c)
    BY DEF DecodeText
<1> HIDE DEF c, text, d
<1>10. SameSetting(c, v)
    <2>1. CASE spec.type = "list[str]"
        BY <1>4, <2>1 DEF SameSetting
    <2>2. CASE spec.type # "list[str]"
        BY <1>4, <2>2 DEF SameSetting
    <2> QED BY <2>1, <2>2
<1>11. CASE Valid(spec, v)
    <2>1. DecodeText(spec, text) = c /\ c # Mismatch
        BY <1>4, <1>8, <1>9, <1>11, NoMismatch
    <2>2. read = IF spec.floor # None THEN ApplyFloor(spec.floor, d, c) ELSE c
        BY <1>3, <2>1 DEF ApplyRow
    <2>3. CASE spec.floor = None
        BY <1>5, <1>6, <1>10, <1>11, <2>2, <2>3 DEF text
    <2>4. CASE spec.floor # None
        <3>1. ~IsLooser(spec.floor, d, v) <=> SameSetting(ApplyFloor(spec.floor, d, c), v)
            BY <1>1, <1>4, <1>11, <2>4, FloorAgrees
        <3> QED BY <1>5, <1>6, <1>11, <2>2, <2>4, <3>1 DEF text
    <2> QED BY <2>3, <2>4
<1>12. CASE ~Valid(spec, v)
    <2>1. DecodeText(spec, text) = Mismatch
        BY <1>4, <1>8, <1>9, <1>12, CheckValueDecides
    <2>2. read = d
        BY <2>1 DEF ApplyRow
    <2>3. ~SameSetting(d, v)
        <3>1. spec.choices # {} /\ v \notin spec.choices /\ d \in spec.choices
            BY <1>1, <1>2, <1>12, CheckValueDecides DEF Valid, MatchesType
        <3>2. spec.type = "str"
            BY <1>1, <3>1 DEF Declared, Declarable
        <3>3. /\ v = [type |-> v.type, number |-> v.number, words |-> v.words]
              /\ d = [type |-> d.type, number |-> d.number, words |-> d.words]
            BY <1>2 DEF IsValue
        <3>4. SameSetting(d, v) => d = v
            BY <1>2, <3>2, <3>3 DEF SameSetting
        <3> QED BY <3>1, <3>4
    <2> QED BY <1>5, <1>6, <1>12, <2>2, <2>3 DEF text
<1> QED BY <1>11, <1>12

-----------------------------------------------------------------------------
(* The specification *)

LEMMA InitHolds == SettingsInit => InOrder
BY DEF SettingsInit, InOrder

LEMMA NextKeeps == InOrder /\ [SettingsNext]_settingsVars => InOrder'
<1> SUFFICES ASSUME InOrder, [SettingsNext]_settingsVars
             PROVE  InOrder'
    OBVIOUS
<1> USE DEF InOrder
<1>1. ASSUME NEW s \in Specs, NEW p \in Profiles, Register(s, p)
      PROVE  InOrder'
    <2>1. Declared(s)
        BY <1>1, SpecsAssumption DEF Register, Declared
    <2> QED BY <1>1, <2>1 DEF Register
<1>2. ASSUME NEW e \in Texts \cup {None}, NEW u \in Variants, Restart(e, u)
      PROVE  InOrder'
    <2>1. (e # None => e \in Seq(Fields)) /\ (u # None => u \in Seq(Fields))
        BY TextsAssumption, FieldsAssumption, OneField DEF Variants
    <2> QED BY <1>2, <2>1 DEF Restart
<1>3. ASSUME NEW v \in Natives \cup {None}, EditToml(v)
      PROVE  InOrder'
    BY <1>3, NativesAssumption DEF EditToml
<1>4. ASSUME NEW scope \in RowScopes, NEW text \in Seq(Fields) \cup {None},
             rows' = [rows EXCEPT ![scope] = text], UNCHANGED <<spec, toml, exact, upper>>
      PROVE  InOrder'
    BY <1>4
<1>5. ASSUME NEW scope \in RowScopes, NEW v \in Natives, SettingsSet(scope, v)
      PROVE  InOrder'
    <2>1. IsValue(v) /\ v.type = spec.type
        BY <1>5, NativesAssumption, CheckValueDecides DEF SettingsSet, Accepts, CheckValue, MatchesType
    <2> QED BY <1>4, <1>5, <2>1, EncodeType DEF SettingsSet
<1>6. ASSUME WriteDefaultSetting
      PROVE  InOrder'
    <2>1. IsValue(spec.default) /\ spec.default.type = spec.type
        BY <1>6 DEF WriteDefaultSetting, Declared, Declarable, MatchesType
    <2>2. "workspace" \in RowScopes
        BY DEF RowScopes
    <2> QED BY <1>4, <1>6, <2>1, <2>2, EncodeType DEF WriteDefaultSetting
<1>7. ASSUME NEW scope \in RowScopes, NEW text \in Texts \cup {None}, RowFromElsewhere(scope, text)
      PROVE  InOrder'
    BY <1>4, <1>7, TextsAssumption DEF RowFromElsewhere
<1>8. CASE UNCHANGED settingsVars
    BY <1>8 DEF settingsVars
<1> QED BY <1>1, <1>2, <1>3, <1>5, <1>6, <1>7, <1>8 DEF SettingsNext

\* The declaration, the file, the environment and the rows hold what they may.
THEOREM Invariance == SettingsSpec => []InOrder
BY InitHolds, NextKeeps, PTL DEF SettingsSpec

\* Whatever the rows hold, a request never reads a value looser than the deployment
\* value: for any declarations with any floors, and lists of any length.
THEOREM FloorsHold == SettingsSpec => []NeverLooser
<1>1. InOrder => NeverLooser
    BY ReadingHolds DEF NeverLooser
<1> QED BY <1>1, Invariance, PTL

\* No row makes a setting unreadable or gives it a value its declaration forbids.
THEOREM ReadingNeverBreaks == SettingsSpec => []RowsNeverBreakReading
<1>1. InOrder => RowsNeverBreakReading
    BY ReadingHolds DEF RowsNeverBreakReading, Valid
<1> QED BY <1>1, Invariance, PTL

\* The write path accepts a value exactly when storing its text makes requests read
\* that value.
THEOREM WritesAreRead == SettingsSpec => []WriteMatchesRead
<1>1. InOrder => WriteMatchesRead
    BY WriteAgrees DEF WriteMatchesRead
<1> QED BY <1>1, Invariance, PTL

=============================================================================
