---------------------------- MODULE AlertsProofs ----------------------------
(***************************************************************************)
(* The properties of Alerts for any devices, values, `since` texts, clock  *)
(* and number of rows.  An average is a fold over a set of rows and the    *)
(* length of a duration a fold over its terms, so the first part says what *)
(* these folds compute, by an induction that talks of a set of good        *)
(* subsets instead of a predicate.                                         *)
(***************************************************************************)
EXTENDS Alerts, FiniteSetTheorems, TLAPS

-----------------------------------------------------------------------------
(* Sums over finite sets *)

\* Induction over the natural numbers, for a set instead of a predicate.
LEMMA SetOfNat ==
    ASSUME NEW G, 0 \in G, \A n \in Nat : n \in G => n + 1 \in G
    PROVE  Nat \subseteq G
  <1> DEFINE Bad == Nat \ G
             R   == OpToRel(<, Nat)
  <1>1. SUFFICES ASSUME Bad # {} PROVE FALSE
    OBVIOUS
  <1>2. PICK n \in Bad : \A m \in Bad : <<m, n>> \notin R
    BY <1>1, WFMin, NatLessThanWellFounded, Zenon
  <1>3. n \in Nat /\ n # 0 /\ n - 1 \in Nat /\ n - 1 < n
    OBVIOUS
  <1>4. n - 1 \in Bad
    BY <1>3
  <1>5. <<n - 1, n>> \in R
    BY <1>3, Zenon DEF OpToRel
  <1> QED BY <1>2, <1>4, <1>5

\* Induction over the subsets of a finite set.
LEMMA SetOfSubsets ==
    ASSUME NEW S, IsFiniteSet(S), NEW G, {} \in G,
           \A T \in SUBSET S : T # {} /\ (\A x \in T : T \ {x} \in G) => T \in G
    PROVE  SUBSET S \subseteq G
  <1> DEFINE Bad == (SUBSET S) \ G
             R   == StrictSubsetOrdering(S)
  <1>1. SUFFICES ASSUME Bad # {} PROVE FALSE
    OBVIOUS
  <1>2. IsWellFoundedOn(R, SUBSET S)
    BY FS_StrictSubsetOrderingWellFounded, FS_FiniteSubsetsOfFinite, Zenon
  <1>3. PICK T \in Bad : \A U \in Bad : <<U, T>> \notin R
    BY <1>1, <1>2, WFMin, Zenon
  <1>4. PICK x \in T : T \ {x} \notin G
    BY <1>3
  <1>5. T \ {x} \in Bad /\ T \ {x} # T
    BY <1>3, <1>4
  <1>6. <<T \ {x}, T>> \in R
    BY <1>5 DEF StrictSubsetOrdering
  <1> QED BY <1>3, <1>5, <1>6

\* The element a fold takes next.
Pick(s) == CHOOSE x \in s : TRUE

LEMMA PickIsIn == ASSUME NEW s, s # {} PROVE Pick(s) \in s
  BY DEF Pick

Rest(s) == s \ {Pick(s)}

\* One more element than the sum of the rest: w is what each element counts.
SumsUp(g, w, S) ==
    /\ g[{}] = 0
    /\ \A s \in SUBSET S :
          s # {} /\ g[Rest(s)] \in Int => g[s] = w[Pick(s)] + g[Rest(s)]

\* The recursion of a fold has a solution.
LEMMA SumExists ==
    ASSUME NEW S, IsFiniteSet(S), NEW w \in [S -> Int]
    PROVE  \E g \in [SUBSET S -> Int] : SumsUp(g, w, S)
  <1> DEFINE Right(g, s) == g[s] = IF s = {} THEN 0 ELSE w[Pick(s)] + g[Rest(s)]
             Sums(n) == {g \in [SUBSET S -> Int] :
                            \A s \in SUBSET S : Cardinality(s) <= n => Right(g, s)}
             G == {n \in Nat : Sums(n) # {}}
  <1>0. \A s \in SUBSET S :
           /\ IsFiniteSet(s) /\ Cardinality(s) \in Nat
           /\ Cardinality(s) = 0 <=> s = {}
           /\ s # {} => /\ Pick(s) \in S /\ Rest(s) \in SUBSET S
                        /\ Cardinality(Rest(s)) = Cardinality(s) - 1
    <2> TAKE s \in SUBSET S
    <2>1. IsFiniteSet(s) /\ Cardinality(s) \in Nat
      BY FS_Subset, FS_CardinalityType
    <2>2. Cardinality(s) = 0 <=> s = {}
      BY <2>1, FS_EmptySet
    <2>3. ASSUME s # {} PROVE Cardinality(Rest(s)) = Cardinality(s) - 1
      BY <2>1, <2>3, PickIsIn, FS_RemoveElement DEF Rest
    <2> QED BY <2>1, <2>2, <2>3, PickIsIn DEF Rest
  <1>1. 0 \in G
    <2> DEFINE zero == [s \in SUBSET S |-> 0]
    <2>1. zero \in Sums(0)
      BY <1>0
    <2> QED BY <2>1
  <1>2. ASSUME NEW n \in Nat, n \in G PROVE n + 1 \in G
    <2>1. PICK g \in [SUBSET S -> Int] :
              \A s \in SUBSET S : Cardinality(s) <= n => Right(g, s)
      BY <1>2
    <2> DEFINE h == [s \in SUBSET S |-> IF s = {} THEN 0 ELSE w[Pick(s)] + g[Rest(s)]]
    <2>2. h \in [SUBSET S -> Int]
      BY <1>0
    <2>3. \A s \in SUBSET S : Cardinality(s) <= n => h[s] = g[s]
      BY <2>1
    <2>4. ASSUME NEW s \in SUBSET S, Cardinality(s) <= n + 1 PROVE Right(h, s)
      <3>1. CASE s = {}
        BY <3>1
      <3>2. CASE s # {}
        <4>1. Rest(s) \in SUBSET S /\ Cardinality(Rest(s)) <= n
          BY <1>0, <2>4, <3>2
        <4>2. h[Rest(s)] = g[Rest(s)]
          BY <2>3, <4>1
        <4> QED BY <3>2, <4>2
      <3> QED BY <3>1, <3>2
    <2>5. h \in Sums(n + 1)
      BY <2>2, <2>4
    <2> HIDE DEF Sums
    <2> QED BY <2>5
  <1>3. Cardinality(S) \in G
    BY <1>0, <1>1, <1>2, SetOfNat
  <1>4. PICK g \in [SUBSET S -> Int] :
            \A s \in SUBSET S : Cardinality(s) <= Cardinality(S) => Right(g, s)
    BY <1>3
  <1>5. \A s \in SUBSET S : Right(g, s)
    BY <1>4, FS_Subset
  <1>6. SumsUp(g, w, S)
    BY <1>5 DEF SumsUp
  <1> QED BY <1>6

\* What the elements are bounded by bounds their sum.
LEMMA SumBounds ==
    ASSUME NEW S, IsFiniteSet(S), NEW w \in [S -> Int], NEW g, SumsUp(g, w, S)
    PROVE  /\ g[S] \in Int
           /\ \A c \in Int : (\A x \in S : w[x] <= c) => g[S] <= c * Cardinality(S)
           /\ \A c \in Int : (\A x \in S : w[x] >= c) => g[S] >= c * Cardinality(S)
  <1> DEFINE Good(s) ==
                /\ g[s] \in Int
                /\ \A c \in Int : (\A x \in S : w[x] <= c) => g[s] <= c * Cardinality(s)
                /\ \A c \in Int : (\A x \in S : w[x] >= c) => g[s] >= c * Cardinality(s)
             G == {s \in SUBSET S : Good(s)}
  <1>1. {} \in G
    BY FS_EmptySet DEF SumsUp
  <1>2. ASSUME NEW s \in SUBSET S, s # {}, \A x \in s : s \ {x} \in G PROVE s \in G
    <2> DEFINE n == Cardinality(Rest(s))
    <2>1. Pick(s) \in s /\ w[Pick(s)] \in Int
      BY <1>2, PickIsIn
    <2>2. Good(Rest(s))
      BY <1>2, <2>1 DEF Rest
    <2>3. g[s] = w[Pick(s)] + g[Rest(s)]
      BY <1>2, <2>2 DEF SumsUp
    <2>4. n \in Nat /\ Cardinality(s) = n + 1
      BY <2>1, FS_Subset, FS_CardinalityType, FS_RemoveElement DEF Rest
    <2> HIDE DEF n
    <2>5. \A c \in Int : c * (n + 1) = c * n + c
      BY <2>4
    <2>6. ASSUME NEW c \in Int, \A x \in S : w[x] <= c PROVE g[s] <= c * Cardinality(s)
      <3>1. g[Rest(s)] <= c * n /\ w[Pick(s)] <= c /\ c * n \in Int
        BY <2>1, <2>2, <2>4, <2>6 DEF n
      <3> QED BY <2>1, <2>2, <2>3, <2>4, <2>5, <3>1
    <2>7. ASSUME NEW c \in Int, \A x \in S : w[x] >= c PROVE g[s] >= c * Cardinality(s)
      <3>1. g[Rest(s)] >= c * n /\ w[Pick(s)] >= c /\ c * n \in Int
        BY <2>1, <2>2, <2>4, <2>7 DEF n
      <3> QED BY <2>1, <2>2, <2>3, <2>4, <2>5, <3>1
    <2> QED BY <2>1, <2>2, <2>3, <2>6, <2>7
  <1> HIDE DEF G
  <1>3. S \in G
    BY <1>1, <1>2, SetOfSubsets
  <1> QED BY <1>3 DEF G

-----------------------------------------------------------------------------
(* What the folds of the model compute *)

\* SUM of a column lies where the values of the column lie.
LEMMA TotalBounds ==
    ASSUME NEW S, IsFiniteSet(S), \A r \in S : r.value \in Int
    PROVE  /\ Total(S) \in Int
           /\ \A c \in Int : (\A r \in S : r.value <= c) => Total(S) <= c * Cardinality(S)
           /\ \A c \in Int : (\A r \in S : r.value >= c) => Total(S) >= c * Cardinality(S)
  <1> DEFINE w == [r \in S |-> r.value]
             Body(f) == [s \in SUBSET S |->
                            IF s = {} THEN 0
                            ELSE LET x == CHOOSE y \in s : TRUE IN x.value + f[s \ {x}]]
             g == CHOOSE f : f = Body(f)
  <1>1. Total(S) = g[S]
    BY Zenon DEF Total, MapThenSumSet, MapThenFoldSet
  <1>2. PICK h \in [SUBSET S -> Int] : SumsUp(h, w, S)
    BY SumExists
  <1>3. h = Body(h)
    BY <1>2, PickIsIn DEF SumsUp, Rest, Pick
  <1>4. g = Body(g)
    BY <1>3, Zenon
  <1>5. SumsUp(g, w, S)
    BY <1>4, PickIsIn DEF SumsUp, Rest, Pick
  <1>6. w \in [S -> Int] /\ \A r \in S : w[r] = r.value
    OBVIOUS
  <1> HIDE DEF g, w
  <1> QED BY <1>1, <1>5, <1>6, SumBounds

RowsInv ==
    /\ rows \in [Devices -> SUBSET Measurement]
    /\ \A d \in Devices : IsFiniteSet(rows[d])

LEMMA NumRowsIsNat == RowsInv => NumRows \in Nat
  <1> SUFFICES ASSUME RowsInv PROVE NumRows \in Nat
    OBVIOUS
  <1> DEFINE w == [d \in Devices |-> Cardinality(rows[d])]
             Body(f) == [s \in SUBSET Devices |->
                            IF s = {} THEN 0
                            ELSE LET x == CHOOSE y \in s : TRUE
                                 IN  Cardinality(rows[x]) + f[s \ {x}]]
             g == CHOOSE f : f = Body(f)
  <1>1. NumRows = g[Devices]
    BY Zenon DEF NumRows, MapThenSumSet, MapThenFoldSet
  <1>2. IsFiniteSet(Devices)
    BY AlertsAssumption
  <1>3. w \in [Devices -> Int] /\ \A d \in Devices : w[d] >= 0
    BY FS_CardinalityType DEF RowsInv
  <1>4. PICK h \in [SUBSET Devices -> Int] : SumsUp(h, w, Devices)
    BY <1>2, <1>3, SumExists
  <1>5. h = Body(h)
    BY <1>4, PickIsIn DEF SumsUp, Rest, Pick
  <1>6. g = Body(g)
    BY <1>5, Zenon
  <1>7. SumsUp(g, w, Devices)
    BY <1>6, PickIsIn DEF SumsUp, Rest, Pick
  <1> HIDE DEF g, w
  <1>8. g[Devices] \in Int /\ g[Devices] >= 0 * Cardinality(Devices)
    BY <1>2, <1>3, <1>7, SumBounds
  <1>9. Cardinality(Devices) \in Nat
    BY <1>2, FS_CardinalityType
  <1> QED BY <1>1, <1>8, <1>9

\* The length of a duration's terms; the examples of API.md have one.
LEMMA LengthOfTerms ==
    ASSUME NEW n \in Nat, NEW terms, DOMAIN terms = 1..n,
           \A i \in 1..n : terms[i].number \in Nat /\ terms[i].letters \in DOMAIN Units
    PROVE  /\ Length(terms) \in Nat
           /\ n = 1 => Length(terms) = terms[1].number * Units[terms[1].letters]
  <1> DEFINE S == 1..n
             w == [i \in S |-> terms[i].number * Units[terms[i].letters]]
             Body(f) == [s \in SUBSET DOMAIN terms |->
                            IF s = {} THEN 0
                            ELSE LET x == CHOOSE y \in s : TRUE
                                 IN  f[s \ {x}] + terms[x].number * Units[terms[x].letters]]
             g == CHOOSE f : f = Body(f)
  <1>1. Length(terms) = g[DOMAIN terms]
    BY Zenon DEF Length, FoldSeq, FoldFunction, FoldFunctionOnSet, MapThenFoldSet
  <1>2. IsFiniteSet(S) /\ Cardinality(S) = n
    BY FS_Interval
  <1>3. w \in [S -> Int] /\ \A i \in S : w[i] >= 0
    BY DEF Units, Second, Minute, Hour
  <1>4. PICK h \in [SUBSET S -> Int] : SumsUp(h, w, S)
    BY <1>2, <1>3, SumExists
  <1>5. h = Body(h)
    <2>1. h[{}] = 0
      BY <1>4 DEF SumsUp
    <2>2. ASSUME NEW s \in SUBSET S, s # {}
          PROVE  h[s] = h[Rest(s)] + terms[Pick(s)].number * Units[terms[Pick(s)].letters]
      <3>1. Pick(s) \in S /\ Rest(s) \in SUBSET S
        BY <2>2, PickIsIn DEF Rest
      <3>2. h[s] = w[Pick(s)] + h[Rest(s)] /\ h[Rest(s)] \in Int /\ w[Pick(s)] \in Int
        BY <1>3, <1>4, <2>2, <3>1 DEF SumsUp
      <3>3. w[Pick(s)] = terms[Pick(s)].number * Units[terms[Pick(s)].letters]
        BY <3>1
      <3> HIDE DEF w
      <3> QED BY <3>2, <3>3
    <2> QED BY <1>4, <2>1, <2>2 DEF Rest, Pick
  <1>6. g = Body(g)
    BY <1>5, Zenon
  <1>7. SumsUp(g, w, S)
    <2>1. g[{}] = 0
      BY <1>6
    <2>2. ASSUME NEW s \in SUBSET S, s # {}, g[Rest(s)] \in Int
          PROVE  g[s] = w[Pick(s)] + g[Rest(s)]
      <3>1. Pick(s) \in S
        BY <2>2, PickIsIn
      <3>2. g[s] = g[Rest(s)] + terms[Pick(s)].number * Units[terms[Pick(s)].letters]
        BY <1>6, <2>2 DEF Rest, Pick
      <3>3. w[Pick(s)] = terms[Pick(s)].number * Units[terms[Pick(s)].letters] /\ w[Pick(s)] \in Int
        BY <1>3, <3>1
      <3> HIDE DEF g, w
      <3> QED BY <2>2, <3>2, <3>3
    <2> HIDE DEF g, w
    <2> QED BY <2>1, <2>2 DEF SumsUp
  <1>8. n = 1 => w[1] \in Int /\ w[1] = terms[1].number * Units[terms[1].letters] /\ S = {1}
    BY <1>3
  <1> HIDE DEF g, w, S
  <1>9. g[S] \in Nat
    <2>1. g[S] \in Int /\ g[S] >= 0 * Cardinality(S)
      BY <1>2, <1>3, <1>7, SumBounds
    <2> QED BY <1>2, <2>1
  <1>10. ASSUME n = 1 PROVE g[S] = w[1]
    <2>1. g[S] <= w[1] * Cardinality(S) /\ g[S] >= w[1] * Cardinality(S)
      BY <1>2, <1>3, <1>7, <1>8, <1>10, SumBounds
    <2> QED BY <1>2, <1>8, <1>9, <1>10, <2>1
  <1> QED BY <1>1, <1>8, <1>9, <1>10 DEF S

\* A set of times has a newest one.
LEMMA NewestTime ==
    ASSUME NEW n \in Nat, NEW T \in SUBSET (0..n), T # {}
    PROVE  Max(T) \in T /\ \A t \in T : t <= Max(T)
  <1> DEFINE G == {m \in Nat : (\E t \in T : t >= n - m) => \E t \in T : \A u \in T : u <= t}
  <1>1. 0 \in G
    OBVIOUS
  <1>2. ASSUME NEW m \in Nat, m \in G PROVE m + 1 \in G
    <2>1. CASE \E t \in T : t >= n - m
      BY <1>2, <2>1
    <2>2. CASE \A t \in T : t <= n - (m + 1)
      BY <2>2
    <2> QED BY <2>1, <2>2
  <1>3. n \in G
    BY <1>1, <1>2, SetOfNat
  <1>4. \E t \in T : \A u \in T : t >= u
    <2>1. \E t \in T : t >= n - n
      <3>1. n - n = 0 /\ \A t \in T : t >= 0
        OBVIOUS
      <3> QED BY <3>1
    <2>2. \E t \in T : \A u \in T : u <= t
      BY <1>3, <2>1
    <2> QED BY <2>2
  <1> QED BY <1>4 DEF Max

-----------------------------------------------------------------------------
(* The parameter `since` *)

LEMMA WrapFits ==
    ASSUME NEW n \in Int
    PROVE  /\ Wrap(n) \in Duration
           /\ 0 <= n /\ n < Limit => Wrap(n) = n
  <1> DEFINE m == 2 * Limit
             k == n + Limit
  <1>1. Limit \in Nat /\ Limit > 0 /\ m \in Nat /\ m > 0 /\ k \in Int
    BY DurationsAssumption
  <1>2. (k % m) \in 0..(m - 1)
    BY <1>1
  <1>3. ASSUME 0 <= n, n < Limit PROVE (k % m) = k
    <2>1. k \in 0..(m - 1)
      BY <1>1, <1>3
    <2> HIDE DEF k, m
    <2> QED BY <1>1, <2>1
  <1>4. (k % m) - Limit \in Duration
    <2> HIDE DEF k
    <2> QED BY <1>1, <1>2 DEF Duration
  <1>5. 0 <= n /\ n < Limit => (k % m) - Limit = n
    <2>1. k - Limit = n
      BY <1>1
    <2> HIDE DEF k, m
    <2> QED BY <1>3, <2>1
  <1> QED BY <1>4, <1>5 DEF Wrap

LEMMA SignedIsInt == ASSUME NEW n \in Int, NEW text PROVE Signed(text, n) \in Int
  BY DEF Signed

\* What is not too long fits, with either sign.
LEMMA SignedFits == ASSUME NEW n \in Nat, n < Limit, NEW text PROVE Signed(text, n) \in Duration
  BY DurationsAssumption DEF Signed, Duration

LEMMA ParsedGo ==
    ASSUME NEW text \in SinceText, NEW terms, DOMAIN terms = 1..Len(text.terms),
           \A i \in 1..Len(text.terms) : terms[i].number \in Nat
    PROVE  ParseGoDuration([text EXCEPT !.terms = terms]) \in Duration \cup {Invalid}
  <1> DEFINE new == [text EXCEPT !.terms = terms]
  <1>1. new.terms = terms
    BY DEF SinceText
  <1>2. Len(text.terms) \in Nat
    BY DEF SinceText
  <1> HIDE DEF new
  <1>3. ASSUME \A i \in DOMAIN terms : terms[i].letters \in DOMAIN Units
        PROVE  Length(terms) \in Nat
    BY <1>2, <1>3, LengthOfTerms
  <1>4. ASSUME \A i \in DOMAIN terms : terms[i].letters \in DOMAIN Units, ~(Length(terms) >= Limit)
        PROVE  Signed(new, Length(terms)) \in Duration
    BY <1>3, <1>4, SignedFits, DurationsAssumption
  <1> QED BY <1>1, <1>4, Zenon DEF ParseGoDuration, new

\* The terms of a text after the replacements.
Terms(text) == [i \in DOMAIN text.terms |-> [text.terms[i] EXCEPT !.letters = Replaced(@)]]

Term == [number : Nat, letters : Words]
NewTerm == [number : Nat, letters : {Replaced(l) : l \in Words}]

LEMMA TermsAre ==
    ASSUME NEW text \in SinceText
    PROVE  /\ Terms(text) \in Seq(NewTerm) /\ Len(Terms(text)) = Len(text.terms)
           /\ Len(text.terms) \in Nat /\ DOMAIN Terms(text) = 1..Len(text.terms)
           /\ \A i \in 1..Len(text.terms) :
                 /\ Terms(text)[i].number = text.terms[i].number
                 /\ text.terms[i].number \in Nat
                 /\ Terms(text)[i].letters = Replaced(text.terms[i].letters)
  <1> DEFINE old == text.terms
             n == Len(old)
  <1>1. old \in Seq(Term)
    BY DEF SinceText, Term
  <1>2. n \in Nat /\ DOMAIN old = 1..n /\ \A i \in 1..n : old[i] \in Term
    BY <1>1
  <1>3. \A i \in 1..n : LET new == [old[i] EXCEPT !.letters = Replaced(@)]
                        IN  /\ new \in NewTerm /\ new.number = old[i].number
                            /\ new.letters = Replaced(old[i].letters) /\ new.number \in Nat
    BY <1>2 DEF Term, NewTerm
  <1>4. Terms(text) = [i \in 1..n |-> [old[i] EXCEPT !.letters = Replaced(@)]]
    BY <1>2 DEF Terms
  <1>5. \A i \in 1..n : Terms(text)[i] = [old[i] EXCEPT !.letters = Replaced(@)]
    BY <1>4
  <1>6. Terms(text) \in [1..n -> NewTerm]
    BY <1>3, <1>4
  <1>7. Terms(text) \in Seq(NewTerm) /\ Len(Terms(text)) = n
    BY <1>2, <1>6
  <1> QED BY <1>2, <1>3, <1>5, <1>6, <1>7

LEMMA ParsedIs ==
    ASSUME NEW text
    PROVE  ParseDuration(text) =
              IF Terms(text) # <<>> /\ EndsInD(Last(Terms(text)).letters)
              THEN Wrap(Signed(text, Terms(text)[1].number * 24 * Hour))
              ELSE ParseGoDuration([text EXCEPT !.terms = Terms(text)])
  BY Zenon DEF ParseDuration, Terms

\* Whatever the text, what parseDuration returns fits the type.
LEMMA SinceFits ==
    ASSUME NEW text \in Texts
    PROVE  Since(text) \in Duration \cup {Invalid}
  <1>1. CASE text = None
    BY <1>1, DurationsAssumption DEF Since, Duration
  <1>2. CASE text # None
    <2>1. text \in SinceText
      BY <1>2, AlertsAssumption
    <2>2. Since(text) = ParseDuration(text)
      BY <1>2 DEF Since
    <2>3. CASE Terms(text) # <<>> /\ EndsInD(Last(Terms(text)).letters)
      <3>1. Terms(text)[1].number \in Nat
        BY <2>1, <2>3, TermsAre
      <3>2. Signed(text, Terms(text)[1].number * 24 * Hour) \in Int
        BY <3>1, SignedIsInt DEF Hour, Minute, Second
      <3> QED BY <2>2, <2>3, <3>2, ParsedIs, WrapFits
    <2>4. CASE ~(Terms(text) # <<>> /\ EndsInD(Last(Terms(text)).letters))
      <3>1. ParseGoDuration([text EXCEPT !.terms = Terms(text)]) \in Duration \cup {Invalid}
        BY <2>1, TermsAre, ParsedGo
      <3> QED BY <2>2, <2>4, <3>1, ParsedIs
    <2> QED BY <2>3, <2>4
  <1> QED BY <1>1, <1>2

\* The examples of API.md: one term, of a documented unit, that fits the type.
IsExample(text) ==
    /\ text # None
    /\ Len(text.terms) = 1 /\ ~text.negative /\ text.terms[1].letters \in DOMAIN Documented
    /\ text.terms[1].number * Documented[text.terms[1].letters] < Limit

LEMMA ExamplesAreParsed ==
    ASSUME NEW text \in Texts, IsExample(text)
    PROVE  Since(text) = text.terms[1].number * Documented[text.terms[1].letters]
  <1> DEFINE n == text.terms[1].number
             l == text.terms[1].letters
             terms == Terms(text)
             new == [text EXCEPT !.terms = terms]
  <1>1. text \in SinceText /\ text # None
    BY AlertsAssumption DEF IsExample
  <1>2. /\ terms \in Seq(NewTerm) /\ Len(terms) = 1 /\ DOMAIN terms = 1..1
        /\ terms[1].number = n /\ n \in Nat
        /\ terms[1].letters = Replaced(l)
    BY <1>1, TermsAre DEF IsExample
  <1>3. l \in {"min", "m", "h", "s", "d"}
    BY DEF IsExample, Documented
  <1>4. new.terms = terms /\ new.negative = text.negative /\ ~text.negative
    BY <1>1 DEF SinceText, IsExample
  <1>5. Since(text) = ParseDuration(text)
    BY <1>1 DEF Since
  <1> HIDE DEF terms, new
  <1>6. terms # <<>> /\ Last(terms) = terms[1]
    <2>1. Len(terms) # 0 /\ Len(<<>>) = 0
      BY <1>2
    <2>2. terms # <<>>
      BY <2>1, Zenon
    <2>3. Last(terms) = terms[1]
      BY <1>2, Zenon DEF Last
    <2> QED BY <2>2, <2>3
  <1>7. CASE l = "d"
    <2>1. EndsInD(Last(terms).letters)
      BY <1>2, <1>6, <1>7 DEF EndsInD, Replaced
    <2>2. ParseDuration(text) = Wrap(Signed(text, n * 24 * Hour))
      BY <1>2, <1>6, <2>1, ParsedIs DEF terms
    <2>3. Signed(text, n * 24 * Hour) = n * (24 * Hour)
      BY <1>2, <1>4 DEF Signed, Hour, Minute, Second
    <2>4. Documented[l] = 24 * Hour
      BY <1>7 DEF Documented
    <2>5. n * (24 * Hour) \in Int /\ 0 <= n * (24 * Hour) /\ n * (24 * Hour) < Limit
      BY <1>2, <2>4 DEF IsExample, Hour, Minute, Second
    <2> QED BY <1>5, <2>2, <2>3, <2>4, <2>5, WrapFits
  <1>8. CASE l # "d"
    <2>1. /\ Replaced(l) \in DOMAIN Units /\ Units[Replaced(l)] = Documented[l]
          /\ Replaced(l) \notin {"d", "sond"}
      <3>1. Replaced(l) = IF l = "min" THEN "m" ELSE l
        BY <1>3, <1>8 DEF Replaced
      <3> QED BY <1>3, <1>8, <3>1 DEF Units, Documented
    <2>2. ParseDuration(text) = ParseGoDuration(new)
      BY <1>2, <1>6, <2>1, ParsedIs DEF terms, new, EndsInD
    <2>3. Length(terms) = n * Documented[l]
      <3> HIDE DEF n, l
      <3>1. \A i \in 1..1 : terms[i].number \in Nat /\ terms[i].letters \in DOMAIN Units
        BY <1>2, <2>1
      <3>2. Length(terms) = terms[1].number * Units[terms[1].letters]
        BY <1>2, <3>1, LengthOfTerms
      <3> QED BY <1>2, <2>1, <3>2
    <2>4. ~(Length(terms) >= Limit) /\ Signed(new, Length(terms)) = Length(terms)
      <3>1. n * Documented[l] \in Int /\ n * Documented[l] < Limit /\ Limit \in Int
        BY <1>2, <1>3, DurationsAssumption DEF IsExample, Documented, Hour, Minute, Second
      <3> QED BY <1>4, <2>3, <3>1 DEF Signed
    <2>5. \A i \in DOMAIN new.terms : new.terms[i].letters \in DOMAIN Units
      BY <1>2, <1>4, <2>1
    <2>6. ParseGoDuration(new) = Length(terms)
      BY <1>4, <1>6, <2>4, <2>5 DEF ParseGoDuration
    <2> QED BY <1>5, <2>2, <2>3, <2>6
  <1> QED BY <1>7, <1>8

-----------------------------------------------------------------------------
(* The inductive invariant *)

\* What a request under way was accepted with.
ServedInv ==
    /\ request.asked \subseteq {d \in Devices \ Disabled : Condition[d] # None}
    /\ request.device # None => request.device \in request.asked
    /\ Busy => /\ request.begun <= now
               /\ Since(request.text) # Invalid
               /\ request.since = Since(request.text)
    /\ status = 400 => Since(request.text) = Invalid

\* Every value in the window of a device is alarming, and there is one.
AllAlarming(d) ==
    LET values == Measured(InWindow(d, now - Window(request.since)))
    IN  /\ values # {}
        /\ \A r \in values : Alarming({r}, Condition[d])
        /\ Condition[d].operator \in {"above", "below"}

\* NoAlertHidden for the part of the loop that is done: a device that was
\* neither disturbed nor is still to be handled has the alert it deserves.
HandledInv ==
    Busy => \A d \in request.asked \ disturbed :
               \/ d \in request.todo
               \/ d = request.device
               \/ AllAlarming(d) => \E a \in response : a.device = d

IInv ==
    /\ TypeOK
    /\ RowsInv
    /\ ServedInv
    /\ AlertsAreMeasured
    /\ HandledInv

RequestType ==
    [pc : {"idle", "range", "average"}, text : Texts, since : Duration,
     begun : 0..MaxTime, named : BOOLEAN, asked : SUBSET Devices,
     todo : SUBSET Devices, device : Devices \cup {None}]

LEMMA IdleIs ==
    ASSUME NEW text \in Texts
    PROVE  /\ Idle(text) \in RequestType
           /\ Idle(text).pc = "idle" /\ Idle(text).text = text /\ Idle(text).asked = {}
           /\ Idle(text).todo = {} /\ Idle(text).device = None
  <1>1. 0 \in 0..MaxTime
    BY AlertsAssumption
  <1>2. 0 \in Duration
    BY DurationsAssumption DEF Duration
  <1> QED BY <1>1, <1>2 DEF Idle, RequestType

LEMMA InitIInv == Init => IInv
  <1> SUFFICES ASSUME Init PROVE IInv
    OBVIOUS
  <1> USE DEF Init
  <1>1. /\ request \in RequestType /\ request.pc = "idle" /\ request.asked = {}
        /\ request.todo = {} /\ request.device = None
    BY IdleIs, AlertsAssumption
  <1>2. RowsInv
    BY FS_EmptySet DEF RowsInv
  <1>3. TypeOK
    BY <1>1, <1>2, AlertsAssumption DEF TypeOK, RequestType
  <1>4. ServedInv /\ HandledInv /\ AlertsAreMeasured
    BY <1>1 DEF ServedInv, HandledInv, AlertsAreMeasured, Busy
  <1> QED BY <1>2, <1>3, <1>4 DEF IInv

\* The loop moves: where the request is and what it has left to do.
LEMMA LoopMoves ==
    ASSUME TypeOK, NEW pc \in {"range", "average"}, NEW device \in Devices \cup {None},
           NEW todo \in SUBSET Devices,
           request' = [request EXCEPT !.pc = pc, !.device = device, !.todo = todo]
    PROVE  /\ request' \in RequestType
           /\ request'.pc = pc /\ request'.device = device /\ request'.todo = todo
           /\ request'.text = request.text /\ request'.since = request.since
           /\ request'.begun = request.begun /\ request'.asked = request.asked
           /\ request'.named = request.named
  <1>1. request \in RequestType
    BY DEF TypeOK, RequestType
  <1> QED BY <1>1 DEF RequestType

-----------------------------------------------------------------------------
(* Around the request *)

LEMMA DisturbIs ==
    ASSUME TypeOK, NEW D \in SUBSET Devices, Disturb(D)
    PROVE  disturbed' \in SUBSET Devices /\ (Busy => disturbed' = disturbed \cup D)
  BY DEF TypeOK, Disturb

\* AllAlarming is about the rows of its device, the time and the request only.
LEMMA SameAlarming ==
    ASSUME NEW d, rows'[d] = rows[d], UNCHANGED <<now, request>>
    PROVE  AllAlarming(d)' = AllAlarming(d)
  BY DEF AllAlarming, InWindow

LEMMA SameAlerts ==
    ASSUME AlertsAreMeasured, UNCHANGED <<request, response>>
    PROVE  AlertsAreMeasured'
  BY DEF AlertsAreMeasured, Busy

\* A device that the clock does not disturb keeps its window, as does one of an
\* earlier step.
LEMMA TickStep == ASSUME IInv, Tick PROVE IInv'
  <1> USE DEF IInv
  <1> DEFINE from == now - Window(request.since)
             changed == {d \in Devices : InWindow(d, from + Minute) # InWindow(d, from)}
  <1>1. /\ now' = now + Minute /\ now + Minute <= MaxTime
        /\ UNCHANGED <<rows, nilDB, request, status, response>>
        /\ Disturb(changed)
    BY DEF Tick
  <1>2. disturbed' \in SUBSET Devices /\ (Busy => disturbed' = disturbed \cup changed)
    BY <1>1, DisturbIs
  <1>3. now' \in 0..MaxTime /\ now <= now'
    BY <1>1, AlertsAssumption DEF TypeOK, Minute, Second
  <1>4. TypeOK'
    BY <1>1, <1>2, <1>3 DEF TypeOK
  <1>5. RowsInv' /\ AlertsAreMeasured'
    BY <1>1, SameAlerts DEF RowsInv
  <1>6. ServedInv'
    <2>1. Busy => request.begun <= now'
      BY <1>3 DEF ServedInv, TypeOK
    <2> QED BY <1>1, <2>1 DEF ServedInv, Busy
  <1>7. now' - Window(request.since) = from + Minute
    <2>1. now \in Int /\ Window(request.since) \in Int
      BY DurationsAssumption DEF TypeOK, Window, Duration, Minute, Second
    <2> QED BY <1>1, <2>1 DEF Minute, Second
  <1>8. ASSUME NEW d \in Devices \ changed PROVE AllAlarming(d)' = AllAlarming(d)
    <2>1. InWindow(d, from + Minute) = InWindow(d, from)
      BY <1>8
    <2>2. InWindow(d, now - Window(request.since))' = InWindow(d, from + Minute)
      BY <1>1, <1>7 DEF InWindow
    <2> QED BY <1>1, <2>1, <2>2 DEF AllAlarming
  <1> HIDE DEF changed, from
  <1>9. HandledInv'
    <2> SUFFICES ASSUME Busy', NEW d \in request'.asked \ disturbed'
                 PROVE  \/ d \in request'.todo
                        \/ d = request'.device
                        \/ AllAlarming(d)' => \E a \in response' : a.device = d
      BY DEF HandledInv
    <2>1. Busy /\ d \in request.asked \ disturbed /\ d \in Devices \ changed
      BY <1>1, <1>2 DEF Busy, TypeOK
    <2> QED BY <1>1, <1>8, <2>1 DEF HandledInv
  <1> QED BY <1>4, <1>5, <1>6, <1>9

\* Something happens to the database of one device.
LEMMA DisturbedStep ==
    ASSUME IInv, NEW d \in Devices, Disturb({d}),
           \A e \in Devices \ {d} : rows'[e] = rows[e],
           UNCHANGED <<now, request, status, response>>
    PROVE  /\ disturbed' \in SUBSET Devices
           /\ ServedInv' /\ AlertsAreMeasured' /\ HandledInv'
  <1> USE DEF IInv
  <1>1. disturbed' \in SUBSET Devices /\ (Busy => disturbed' = disturbed \cup {d})
    BY DisturbIs
  <1>2. ServedInv' /\ AlertsAreMeasured'
    BY SameAlerts DEF ServedInv, Busy
  <1>3. ASSUME Busy, NEW e \in request.asked \ (disturbed \cup {d})
        PROVE  \/ e \in request.todo
               \/ e = request.device
               \/ AllAlarming(e)' => \E a \in response : a.device = e
    <2>1. AllAlarming(e)' = AllAlarming(e)
      BY <1>3, SameAlarming DEF TypeOK
    <2> QED BY <1>3, <2>1 DEF HandledInv
  <1>4. HandledInv'
    BY <1>1, <1>3 DEF HandledInv, Busy
  <1> QED BY <1>1, <1>2, <1>4

LEMMA RecordStep == ASSUME IInv, NEW d \in Devices, Record(d) PROVE IInv'
  <1> USE DEF IInv
  <1>1. PICK v \in Values :
           rows' = [rows EXCEPT ![d] = @ \cup {[time |-> now, nr |-> NumRows + 1, value |-> v]}]
    BY DEF Record
  <1>2. /\ NumRows < MaxRows /\ Disturb({d})
        /\ UNCHANGED <<now, nilDB, request, status, response>>
    BY DEF Record
  <1> DEFINE new == [time |-> now, nr |-> NumRows + 1, value |-> v]
  <1>3. new \in Measurement
    BY <1>2, NumRowsIsNat, AlertsAssumption DEF Measurement, TypeOK
  <1> HIDE DEF new
  <1>4. /\ rows' \in [Devices -> SUBSET Measurement]
        /\ rows'[d] = rows[d] \cup {new}
        /\ \A e \in Devices \ {d} : rows'[e] = rows[e]
    <2>1. rows' = [rows EXCEPT ![d] = @ \cup {new}]
      BY <1>1 DEF new
    <2> QED BY <1>3, <2>1 DEF RowsInv
  <1>5. IsFiniteSet(rows[d] \cup {new})
    BY FS_AddElement DEF RowsInv
  <1>6. RowsInv'
    BY <1>4, <1>5 DEF RowsInv
  <1>7. disturbed' \in SUBSET Devices /\ ServedInv' /\ AlertsAreMeasured' /\ HandledInv'
    BY <1>2, <1>4, DisturbedStep
  <1>8. TypeOK'
    BY <1>2, <1>4, <1>7 DEF TypeOK
  <1> QED BY <1>6, <1>7, <1>8

LEMMA ChangeDBStep == ASSUME IInv, NEW d \in Devices, ChangeDB(d) PROVE IInv'
  <1> USE DEF IInv
  <1>1. /\ nilDB' = SymDiff(nilDB, {d}) /\ Disturb({d})
        /\ UNCHANGED <<now, rows, request, status, response>>
    BY DEF ChangeDB
  <1>2. nilDB' \subseteq Devices
    BY <1>1 DEF SymDiff, TypeOK
  <1>3. disturbed' \in SUBSET Devices /\ ServedInv' /\ AlertsAreMeasured' /\ HandledInv'
    BY <1>1, DisturbedStep
  <1>4. TypeOK' /\ RowsInv'
    BY <1>1, <1>2, <1>3 DEF TypeOK, RowsInv
  <1> QED BY <1>3, <1>4

-----------------------------------------------------------------------------
(* The request, from its parameters to the head of the loop *)

\* A request that is answered, or refused, leaves nothing to hide.
LEMMA AnswerStep ==
    ASSUME IInv, NEW text \in Texts, NEW code \in {200, 400, 404, 405, 500}, Answer(text, code),
           code = 400 => Since(text) = Invalid,
           response' \subseteq response, disturbed' \subseteq disturbed,
           UNCHANGED <<now, rows, nilDB>>
    PROVE  IInv'
  <1> USE DEF IInv
  <1>1. /\ request' \in RequestType /\ request'.pc = "idle" /\ request'.text = text
        /\ request'.asked = {} /\ request'.todo = {} /\ request'.device = None
        /\ status' = code
    BY IdleIs DEF Answer
  <1>2. TypeOK'
    BY <1>1 DEF TypeOK, RequestType
  <1>3. ServedInv' /\ HandledInv' /\ RowsInv'
    BY <1>1 DEF ServedInv, HandledInv, Busy, RowsInv
  <1>4. AlertsAreMeasured'
    BY <1>1 DEF AlertsAreMeasured, Busy
  <1> QED BY <1>2, <1>3, <1>4

LEMMA RejectStep == ASSUME IInv, Reject PROVE IInv'
  <1>1. PICK text \in Texts :
           \/ Answer(text, 405)
           \/ Since(text) = Invalid /\ Answer(text, 400)
           \/ Since(text) # Invalid /\ Answer(text, 500)
    BY DEF Reject
  <1>2. response' \subseteq response /\ disturbed' \subseteq disturbed /\ UNCHANGED <<now, rows, nilDB>>
    BY DEF Reject
  <1> QED BY <1>1, <1>2, AnswerStep

LEMMA RespondStep == ASSUME IInv, Respond PROVE IInv'
  <1>1. /\ request.text \in Texts
        /\ UNCHANGED <<now, rows, nilDB, response, disturbed>>
        /\ \E code \in {404, 200} : Answer(request.text, code)
    BY DEF Respond, IInv, TypeOK
  <1> QED BY <1>1, AnswerStep

LEMMA HandleAlertsStep == ASSUME IInv, HandleAlerts PROVE IInv'
  <1> USE DEF IInv
  <1>1. PICK text \in Texts, named \in BOOLEAN, matching \in SUBSET Devices :
          LET asked == {d \in matching \ Disabled : Condition[d] # None}
          IN  /\ Since(text) # Invalid
              /\ request' = [pc |-> "range", text |-> text, since |-> Since(text),
                             begun |-> now, named |-> named, asked |-> asked, todo |-> asked,
                             device |-> None]
    BY DEF HandleAlerts
  <1>2. /\ status' = 0 /\ response' = {} /\ disturbed' = {}
        /\ UNCHANGED <<now, rows, nilDB>>
    BY DEF HandleAlerts
  <1> DEFINE asked == {d \in matching \ Disabled : Condition[d] # None}
  <1>3. asked \subseteq {d \in Devices \ Disabled : Condition[d] # None}
    OBVIOUS
  <1> HIDE DEF asked
  <1>4. request' = [pc |-> "range", text |-> text, since |-> Since(text),
                    begun |-> now, named |-> named, asked |-> asked, todo |-> asked,
                    device |-> None]
    BY <1>1 DEF asked
  <1>5. Since(text) \in Duration /\ Since(text) # Invalid
    BY <1>1, SinceFits
  <1>6. TypeOK'
    BY <1>2, <1>3, <1>4, <1>5, AlertsAssumption DEF TypeOK
  <1>7. ServedInv' /\ HandledInv' /\ RowsInv' /\ AlertsAreMeasured'
    BY <1>2, <1>3, <1>4, <1>5 DEF ServedInv, HandledInv, RowsInv, AlertsAreMeasured, Busy, TypeOK
  <1> QED BY <1>6, <1>7

LEMMA FindDeviceStep == ASSUME IInv, NEW d \in Devices, FindDevice(d) PROVE IInv'
  <1> USE DEF IInv
  <1>1. /\ request.pc = "range" /\ d \in request.todo /\ request.todo \in SUBSET Devices
        /\ request.todo \subseteq request.asked
        /\ request' = [request EXCEPT !.pc = "average", !.device = d, !.todo = request.todo \ {d}]
        /\ UNCHANGED <<now, rows, nilDB, status, response, disturbed>>
    BY DEF FindDevice, TypeOK
  <1>2. request.device = None /\ None \notin Devices
    BY <1>1, AlertsAssumption DEF TypeOK
  <1>3. /\ request' \in RequestType
        /\ request'.pc = "average" /\ request'.device = d /\ request'.todo = request.todo \ {d}
        /\ request'.text = request.text /\ request'.since = request.since
        /\ request'.begun = request.begun /\ request'.asked = request.asked
    <2>1. request.todo \ {d} \in SUBSET Devices
      BY <1>1
    <2> QED BY <1>1, <2>1, LoopMoves
  <1>4. TypeOK'
    BY <1>1, <1>2, <1>3 DEF TypeOK, RequestType
  <1>5. RowsInv' /\ ServedInv' /\ AlertsAreMeasured'
    BY <1>1, <1>2, <1>3 DEF RowsInv, ServedInv, AlertsAreMeasured, Busy
  <1>6. \A e : AllAlarming(e)' = AllAlarming(e)
    BY <1>1, <1>3 DEF AllAlarming, InWindow
  <1>7. HandledInv'
    BY <1>1, <1>2, <1>3, <1>6 DEF HandledInv, Busy, TypeOK
  <1> QED BY <1>4, <1>5, <1>7

\* The loop goes on, and the device it leaves was disturbed or handled.
LEMMA LeaveStep ==
    ASSUME IInv, Busy, NEW d \in Devices, NEW todo \in SUBSET Devices,
           request.todo \subseteq todo \cup {d}, todo \subseteq request.todo,
           request.pc = "average" => d = request.device,
           request' = [request EXCEPT !.pc = "range", !.device = None, !.todo = todo],
           disturbed' = disturbed \cup {d},
           UNCHANGED <<now, rows, nilDB, status, response>>
    PROVE  IInv'
  <1> USE DEF IInv
  <1>1. /\ request' \in RequestType
        /\ request'.pc = "range" /\ request'.device = None /\ request'.todo = todo
        /\ request'.text = request.text /\ request'.since = request.since
        /\ request'.begun = request.begun /\ request'.asked = request.asked
    BY LoopMoves
  <1>2. status = 0 /\ None \notin Devices
    BY AlertsAssumption DEF TypeOK, Busy
  <1>3. TypeOK'
    BY <1>1, <1>2 DEF TypeOK, RequestType
  <1>4. RowsInv' /\ ServedInv' /\ AlertsAreMeasured'
    BY <1>1 DEF RowsInv, ServedInv, AlertsAreMeasured, Busy
  <1>5. \A e : AllAlarming(e)' = AllAlarming(e)
    BY <1>1 DEF AllAlarming, InWindow
  <1>6. request.device \in {None, d}
    BY DEF TypeOK, Busy
  <1>7. HandledInv'
    BY <1>1, <1>2, <1>5, <1>6 DEF HandledInv, Busy, TypeOK
  <1> QED BY <1>3, <1>4, <1>7

LEMMA SkipDeviceStep == ASSUME IInv, NEW d \in Devices, SkipDevice(d) PROVE IInv'
  <1>1. /\ request.pc = "range" /\ request.device = None /\ request.todo \in SUBSET Devices
        /\ request' = [request EXCEPT !.todo = request.todo \ {d}]
        /\ disturbed' = disturbed \cup {d}
        /\ UNCHANGED <<now, rows, nilDB, status, response>>
    BY DEF SkipDevice, IInv, TypeOK
  <1>2. request' = [request EXCEPT !.pc = "range", !.device = None, !.todo = request.todo \ {d}]
    <2>1. request \in RequestType
      BY DEF IInv, TypeOK, RequestType
    <2> QED BY <1>1, <2>1 DEF RequestType
  <1>3. Busy
    BY <1>1 DEF Busy
  <1> QED BY <1>1, <1>2, <1>3, LeaveStep

LEMMA EvaluateFailsStep == ASSUME IInv, EvaluateFails PROVE IInv'
  <1>1. /\ request.pc = "average" /\ request.device \in Devices /\ request.todo \in SUBSET Devices
        /\ request' = [request EXCEPT !.pc = "range", !.device = None]
        /\ disturbed' = disturbed \cup {request.device}
        /\ UNCHANGED <<now, rows, nilDB, status, response>>
    BY DEF EvaluateFails, IInv, TypeOK
  <1>2. request' = [request EXCEPT !.pc = "range", !.device = None, !.todo = request.todo]
    <2>1. request \in RequestType
      BY DEF IInv, TypeOK, RequestType
    <2> QED BY <1>1, <2>1 DEF RequestType
  <1>3. Busy
    BY <1>1 DEF Busy
  <1> QED BY <1>1, <1>2, <1>3, LeaveStep

-----------------------------------------------------------------------------
(* The average of a device *)

\* What the query reports: the newest row is in the window, and the sum and the
\* count are those of the values in it.
LEMMA AverageIs ==
    ASSUME TypeOK, RowsInv, NEW d \in Devices, NEW from \in Int, InWindow(d, from) # {}
    PROVE  LET a == Average(d, from)
               M == Measured(InWindow(d, from))
           IN  /\ a \in Alert
               /\ a.device = d /\ a.over = InWindow(d, from)
               /\ a.last >= from
               /\ a.sum = Total(M)
               /\ M # {} => a.count = Cardinality(M)
               /\ IsFiniteSet(M) /\ \A r \in M : r.value \in Int
  <1> DEFINE W == InWindow(d, from)
             M == Measured(W)
             T == {r.time : r \in W}
             a == Average(d, from)
  <1>1. W \subseteq Measurement /\ W \subseteq rows[d] /\ \A r \in W : r.time \in 0..MaxTime /\ r.time >= from
    BY DEF InWindow, RowsInv, Measurement
  <1>2. M \subseteq rows[d] /\ \A r \in M : r.value \in Int
    BY <1>1, AlertsAssumption DEF Measured, Measurement
  <1>3. IsFiniteSet(M) /\ Cardinality(M) \in Nat /\ (M # {} => Cardinality(M) # 0)
    <2>1. IsFiniteSet(M)
      BY <1>2, FS_Subset DEF RowsInv
    <2> QED BY <2>1, FS_CardinalityType, FS_EmptySet
  <1>4. Max(T) \in 0..MaxTime /\ Max(T) >= from
    <2>1. T \in SUBSET (0..MaxTime) /\ T # {} /\ \A t \in T : t >= from
      BY <1>1
    <2>2. MaxTime \in Nat
      BY AlertsAssumption
    <2> HIDE DEF T
    <2>3. Max(T) \in T
      BY <2>1, <2>2, NewestTime
    <2> QED BY <2>1, <2>3
  <1>5. /\ Max({1, Cardinality(M)}) \in Nat \ {0}
        /\ M # {} => Max({1, Cardinality(M)}) = Cardinality(M)
    <2> DEFINE n == Cardinality(M)
    <2>1. n \in Nat /\ (M # {} => n # 0)
      BY <1>3
    <2> HIDE DEF n
    <2>2. {1, n} \in SUBSET (0..(n + 1)) /\ {1, n} # {} /\ n + 1 \in Nat
      BY <2>1
    <2>3. Max({1, n}) \in {1, n} /\ \A t \in {1, n} : t <= Max({1, n})
      BY <2>2, NewestTime
    <2>4. Max({1, n}) \in Nat \ {0} /\ (M # {} => Max({1, n}) = n)
      BY <2>1, <2>3
    <2> QED BY <2>4 DEF n
  <1>6. Total(M) \in Int
    BY <1>2, <1>3, TotalBounds
  <1>7. a = [device |-> d, over |-> W, last |-> Max(T), sum |-> Total(M),
             count |-> Max({1, Cardinality(M)})]
    BY Zenon DEF Average, Aggregate
  <1> HIDE DEF W, M, T, a
  <1>8. a \in Alert
    BY <1>1, <1>4, <1>5, <1>6, <1>7 DEF Alert
  <1>9. /\ a.device = d /\ a.over = W /\ a.last >= from /\ a.sum = Total(M)
        /\ M # {} => a.count = Cardinality(M)
    BY <1>4, <1>5, <1>7
  <1> QED BY <1>2, <1>3, <1>8, <1>9 DEF W, M, a

\* An average on the alarming side has a value on that side, and is on that
\* side if all its values are.
LEMMA TriggeredIs ==
    ASSUME NEW M, IsFiniteSet(M), \A r \in M : r.value \in Int, M # {},
           NEW a, a.sum = Total(M), a.count = Cardinality(M),
           NEW c, c.threshold \in Int
    PROVE  /\ Triggered(a, c) => Alarming(M, c)
           /\ /\ c.operator \in {"above", "below"}
              /\ \A r \in M : Alarming({r}, c)
              => Triggered(a, c)
  <1> DEFINE n == Cardinality(M)
             t == c.threshold
             s == Total(M)
  <1>1. n \in Nat /\ n > 0
    BY FS_CardinalityType, FS_EmptySet
  <1>2. /\ s \in Int
        /\ \A b \in Int : (\A r \in M : r.value <= b) => s <= b * n
        /\ \A b \in Int : (\A r \in M : r.value >= b) => s >= b * n
    BY TotalBounds
  <1> HIDE DEF n, s
  <1>3. (t + 1) * n = t * n + n /\ (t - 1) * n = t * n - n /\ t * n \in Int
    BY <1>1
  <1>4. ASSUME Triggered(a, c) PROVE Alarming(M, c)
    <2>1. CASE c.operator = "above" /\ s > t * n
      <3>1. ~\A r \in M : r.value <= t
        BY <1>2, <1>3, <2>1
      <3> QED BY <2>1, <3>1 DEF Alarming
    <2>2. CASE c.operator = "below" /\ s < t * n
      <3>1. ~\A r \in M : r.value >= t
        BY <1>2, <1>3, <2>2
      <3> QED BY <2>2, <3>1 DEF Alarming
    <2>3. CASE c.operator \in {"is", "equals"}
      BY <2>3 DEF Alarming
    <2> QED BY <1>4, <2>1, <2>2, <2>3 DEF Triggered, n, s
  <1>5. ASSUME c.operator \in {"above", "below"}, \A r \in M : Alarming({r}, c)
        PROVE  Triggered(a, c)
    <2>1. CASE c.operator = "above"
      <3>1. \A r \in M : r.value >= t + 1
        BY <1>5, <2>1 DEF Alarming
      <3>2. s >= (t + 1) * n
        BY <1>2, <3>1
      <3>3. s > t * n
        BY <1>1, <1>2, <1>3, <3>2
      <3> QED BY <2>1, <3>3 DEF Triggered, n, s
    <2>2. CASE c.operator = "below"
      <3>1. \A r \in M : r.value <= t - 1
        BY <1>5, <2>2 DEF Alarming
      <3>2. s <= (t - 1) * n
        BY <1>2, <3>1
      <3>3. s < t * n
        BY <1>1, <1>2, <1>3, <3>2
      <3> QED BY <2>2, <3>3 DEF Triggered, n, s
    <2> QED BY <1>5, <2>1, <2>2
  <1> QED BY <1>4, <1>5

LEMMA EvaluateStep == ASSUME IInv, Evaluate PROVE IInv'
  <1> USE DEF IInv
  <1> DEFINE d == request.device
             from == now - Window(request.since)
             W == InWindow(d, from)
             M == Measured(W)
             alert == Average(d, from)
             given == /\ W # {}
                      /\ request.since > 0 => alert.last >= request.begun - request.since
                      /\ Triggered(alert, Condition[d])
  <1>1. /\ request.pc = "average"
        /\ request' = [request EXCEPT !.pc = "range", !.device = None]
        /\ response' = IF given THEN response \cup {alert} ELSE response
        /\ UNCHANGED <<now, rows, nilDB, status, disturbed>>
    BY Zenon DEF Evaluate
  <1>2. /\ Busy /\ status = 0 /\ d \in Devices /\ None \notin Devices
        /\ d \in request.asked /\ d \notin request.todo /\ request.todo \in SUBSET Devices
    BY <1>1, AlertsAssumption DEF Busy, TypeOK, ServedInv
  <1>3. Condition[d] \in [operator : STRING, threshold : Int]
    BY <1>2, AlertsAssumption DEF ServedInv
  <1>4. request \in RequestType
    BY DEF TypeOK, RequestType
  <1>5. request' = [request EXCEPT !.pc = "range", !.device = None, !.todo = request.todo]
    BY <1>1, <1>4 DEF RequestType
  <1>6. /\ request' \in RequestType
        /\ request'.pc = "range" /\ request'.device = None /\ request'.todo = request.todo
        /\ request'.text = request.text /\ request'.since = request.since
        /\ request'.begun = request.begun /\ request'.asked = request.asked
    BY <1>2, <1>5, LoopMoves
  <1>7. /\ request.since \in Int /\ request.begun \in Int /\ now \in Int /\ request.begun <= now
        /\ Window(request.since) \in Int /\ from \in Int
        /\ request.since > 0 => Window(request.since) = request.since
    BY <1>2, DurationsAssumption DEF TypeOK, ServedInv, Duration, Window, Minute, Second
  <1>8. ASSUME W # {}
        PROVE  /\ alert \in Alert
               /\ alert.device = d /\ alert.over = W
               /\ alert.last >= from
               /\ alert.sum = Total(M)
               /\ M # {} => alert.count = Cardinality(M)
               /\ IsFiniteSet(M) /\ \A r \in M : r.value \in Int
    BY <1>2, <1>7, <1>8, AverageIs
  <1>9. \A r \in W : r \in Measurement /\ r.time >= from
    BY <1>2 DEF InWindow, RowsInv
  <1> HIDE DEF alert, W, M
  <1>10. TypeOK'
    <2>1. \A a \in response' : a \in Alert
      BY <1>1, <1>8 DEF TypeOK
    <2> QED BY <1>1, <1>2, <1>6, <2>1 DEF TypeOK, RequestType
  <1>11. RowsInv' /\ ServedInv'
    BY <1>1, <1>2, <1>6 DEF RowsInv, ServedInv, Busy
  <1>12. AlertsAreMeasured'
    <2>1. ASSUME NEW a \in response
          PROVE  /\ \A r \in a.over : r.time >= request'.begun - Window(request'.since)
                 /\ Measured(a.over) # {} => Alarming(Measured(a.over), Condition[a.device])
      BY <1>2, <1>6, <2>1 DEF AlertsAreMeasured
    <2>2. ASSUME given
          PROVE  /\ \A r \in alert.over : r.time >= request'.begun - Window(request'.since)
                 /\ Measured(alert.over) # {} => Alarming(Measured(alert.over), Condition[alert.device])
      <3>1. \A r \in W : r.time >= request.begun - Window(request.since)
        BY <1>7, <1>9 DEF Measurement
      <3>2. ASSUME M # {} PROVE Alarming(M, Condition[d])
        BY <1>3, <1>8, <2>2, <3>2, TriggeredIs
      <3> QED BY <1>6, <1>8, <2>2, <3>1, <3>2 DEF M
    <2>3. \A a \in response' : a \in response \/ (given /\ a = alert)
      BY <1>1
    <2> HIDE DEF given
    <2> QED BY <2>1, <2>2, <2>3 DEF AlertsAreMeasured
  <1>13. HandledInv'
    <2>1. \A e : AllAlarming(e)' = AllAlarming(e)
      BY <1>1, <1>6 DEF AllAlarming, InWindow
    <2>2. ASSUME AllAlarming(d) PROVE alert \in response'
      <3>1. /\ M # {} /\ W # {}
            /\ \A r \in M : Alarming({r}, Condition[d])
            /\ Condition[d].operator \in {"above", "below"}
        BY <2>2 DEF AllAlarming, M, W, Measured
      <3>2. Triggered(alert, Condition[d])
        BY <1>3, <1>8, <3>1, TriggeredIs
      <3>3. alert.last \in Int
        BY <1>8, <3>1 DEF Alert
      <3>4. request.since > 0 => alert.last >= request.begun - request.since
        BY <1>7, <1>8, <3>1, <3>3
      <3> QED BY <1>1, <3>1, <3>2, <3>4
    <2>3. ASSUME NEW e \in request.asked \ disturbed, e \notin request.todo, AllAlarming(e)
          PROVE  \E a \in response' : a.device = e
      <3>1. CASE e = d
        <4>1. alert.device = d
          BY <1>8, <2>3, <3>1 DEF AllAlarming, W, Measured
        <4> QED BY <2>2, <2>3, <3>1, <4>1
      <3>2. CASE e # d
        <4>1. \E a \in response : a.device = e
          BY <1>2, <2>3, <3>2 DEF HandledInv
        <4>2. response \subseteq response'
          BY <1>1
        <4> QED BY <4>1, <4>2
      <3> QED BY <3>1, <3>2
    <2> QED BY <1>1, <1>6, <2>1, <2>3 DEF HandledInv
  <1> QED BY <1>10, <1>11, <1>12, <1>13

-----------------------------------------------------------------------------
(* The theorems *)

LEMMA NextIInv == IInv /\ [Next]_vars => IInv'
  <1> SUFFICES ASSUME IInv, [Next]_vars PROVE IInv'
    OBVIOUS
  <1>1. CASE UNCHANGED vars
    <2>1. UNCHANGED <<now, rows, nilDB, request, status, response, disturbed>>
      BY <1>1 DEF vars
    <2>2. TypeOK' /\ RowsInv' /\ ServedInv' /\ AlertsAreMeasured'
      BY <2>1 DEF IInv, TypeOK, RowsInv, ServedInv, AlertsAreMeasured, Busy
    <2>3. \A e : AllAlarming(e)' = AllAlarming(e)
      BY <2>1 DEF AllAlarming, InWindow
    <2>4. HandledInv'
      BY <2>1, <2>3 DEF IInv, HandledInv, Busy
    <2> QED BY <2>2, <2>4 DEF IInv
  <1> QED BY <1>1, TickStep, RecordStep, ChangeDBStep, FindDeviceStep, SkipDeviceStep, RejectStep,
             HandleAlertsStep, EvaluateStep, EvaluateFailsStep, RespondStep DEF Next

\* The inductive invariant: what the request was accepted with, and that each
\* device the loop has left has the alert it deserves or was disturbed.
THEOREM Invariance == Spec => []IInv
  BY InitIInv, NextIInv, PTL DEF Spec

\* Rows, request and alerts keep their types, and the loop of
\* GetTriggeredAlerts handles each device once.
THEOREM TypeCorrect == Spec => []TypeOK
  <1>1. IInv => TypeOK
    BY DEF IInv
  <1> QED BY <1>1, Invariance, PTL

\* An alert is about measurements of its window, and one of them is alarming,
\* for any number of rows the SQL average is taken over.
THEOREM AlertsHaveMeasurements == Spec => []AlertsAreMeasured
  <1>1. IInv => AlertsAreMeasured
    BY DEF IInv
  <1> QED BY <1>1, Invariance, PTL

\* Neither the failure of another device nor the time filter hides an alert.
THEOREM NothingHidden == Spec => []NoAlertHidden
  <1>1. ASSUME IInv PROVE NoAlertHidden
    <2>1. ASSUME request.pc = "range", request.todo = {}, NEW d \in request.asked \ disturbed,
                 AllAlarming(d)
          PROVE  \E a \in response : a.device = d
      <3>1. Busy /\ d # request.device
        BY <1>1, <2>1, AlertsAssumption DEF Busy, IInv, TypeOK, ServedInv
      <3> QED BY <1>1, <2>1, <3>1 DEF IInv, HandledInv
    <2> QED BY <2>1, Zenon DEF NoAlertHidden, AllAlarming
  <1> QED BY <1>1, Invariance, PTL

\* Every `since` of the kind API.md shows is accepted, and the request looks
\* back over just that time: the replacements of parseDuration and the signed
\* width of a duration spoil none of them.
THEOREM SinceIsHonoured == Spec => []SinceMeansWhatItSays
  <1>1. ASSUME IInv PROVE SinceMeansWhatItSays
    <2> DEFINE text == request.text
    <2>1. ASSUME IsExample(text)
          PROVE  LET length == text.terms[1].number * Documented[text.terms[1].letters]
                 IN  status # 400 /\ (Busy /\ length > 0 => Window(request.since) = length)
      <3>1. text \in Texts /\ text \in SinceText
        BY <1>1, <2>1, AlertsAssumption DEF IInv, TypeOK, IsExample
      <3>2. Since(text) = text.terms[1].number * Documented[text.terms[1].letters]
        BY <2>1, <3>1, ExamplesAreParsed
      <3>3. Since(text) # Invalid
        <4>1. text.terms[1].letters \in DOMAIN Documented
          BY <2>1 DEF IsExample
        <4>2. text.terms[1].number \in Nat
          BY <2>1, <3>1, TermsAre DEF IsExample
        <4>3. Documented[text.terms[1].letters] \in Int
          BY <4>1 DEF Documented, Hour, Minute, Second
        <4>4. Since(text) \in Int
          BY <3>2, <4>2, <4>3
        <4> QED BY <4>4, DurationsAssumption
      <3> QED BY <1>1, <3>2, <3>3 DEF IInv, ServedInv, Window
    <2> QED BY <2>1, Zenon DEF SinceMeansWhatItSays, IsExample
  <1> QED BY <1>1, Invariance, PTL

=============================================================================
