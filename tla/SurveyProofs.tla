---------------------------- MODULE SurveyProofs ----------------------------
(***************************************************************************)
(* Theorems about Survey: the sweep reads each message once, a rebuilt     *)
(* cache is what the headers say, and classification follows the published *)
(* suffix algorithm and its own years.                                     *)
(***************************************************************************)
EXTENDS Survey, MailServerProofs, SequenceTheorems

\* A set of numbers has a lowest one.
LEMMA Lowest ==
  ASSUME NEW S \in SUBSET Nat, S # {}
  PROVE  Min(S) \in S /\ Min(S) \in Nat /\ \A y \in S : Min(S) <= y
<1>1. PICK top \in S : top \in Nat
  OBVIOUS
<1>. DEFINE B == S \cap 0..top
            Below(m) == {v \in B : v < m}
            T == {Below(m) : m \in B}
            R == StrictSubsetOrdering(B)
<1>2. top \in B /\ \A v \in S : v \in Nat
  BY <1>1
<1>3. IsFiniteSet(B)
  <2>1. IsFiniteSet(0..top)
    BY <1>1, FS_Interval
  <2>. QED BY <2>1, FS_Subset
<1>4. FiniteSubsetsOf(B) = SUBSET B
  BY <1>3, FS_FiniteSubsetsOfFinite
<1>5. T \subseteq SUBSET B /\ T # {}
  <2>. HIDE DEF B
  <2>1. \A m \in B : Below(m) \in SUBSET B
    OBVIOUS
  <2>. QED BY <1>2, <2>1, Zenon
<1>6. \E P \in T : \A Q \in T : <<Q, P>> \notin R
  <2>. HIDE DEF B, T, R
  <2>1. IsWellFoundedOn(R, FiniteSubsetsOf(B))
    BY <1>3, FS_StrictSubsetOrderingWellFounded DEF R
  <2>. QED BY <1>4, <1>5, <2>1, WFMin
<1>7. PICK x \in B : \A Q \in T : <<Q, Below(x)>> \notin R
  BY <1>6
<1>8. ASSUME NEW y \in S PROVE x <= y
  <2>. SUFFICES ASSUME y < x PROVE FALSE
    BY <1>2
  <2>1. y \in B
    BY <1>1, <1>2
  <2>2. Below(y) \subseteq Below(x) /\ y \in Below(x) /\ y \notin Below(y)
    BY <1>2, <2>1
  <2>3. <<Below(y), Below(x)>> \in R
    BY <2>2 DEF StrictSubsetOrdering
  <2>. QED BY <1>7, <2>1, <2>3
<1>. QED BY <1>2, <1>8 DEF Min

-----------------------------------------------------------------------------
(* The suffixes (psl.py).                                                   *)

\* From(host, i) is the labels from i on.
LEMMA Ends ==
  ASSUME NEW h \in Seq(Labels), NEW i \in 1..(Len(h) + 1)
  PROVE  /\ From(h, i) \in Seq(Labels)
         /\ Len(From(h, i)) = Len(h) - i + 1
         /\ \A n \in 1..(Len(h) - i + 1) : From(h, i)[n] = h[i + n - 1]
<1>1. Len(h) \in Nat /\ i \in Nat /\ i \in Int /\ Len(h) \in Int
  BY LenProperties
<1>2. \A n \in i..Len(h) : h[n] \in Labels
  BY <1>1, ElementOfSeq
<1>3. /\ SubSeq(h, i, Len(h)) \in Seq(Labels)
      /\ Len(SubSeq(h, i, Len(h))) = IF i <= Len(h) THEN Len(h) - i + 1 ELSE 0
      /\ \A n \in 1..(Len(h) - i + 1) : SubSeq(h, i, Len(h))[n] = h[i + n - 1]
  BY <1>1, <1>2, SubSeqProperties
<1>. QED BY <1>1, <1>3 DEF From

\* <<Star>> in front of the labels after i.
LEMMA Wild ==
  ASSUME NEW h \in Seq(Labels), NEW i \in 1..Len(h)
  PROVE  /\ <<Star>> \o From(h, i + 1) \in Seq(Labels \cup {Star})
         /\ Len(<<Star>> \o From(h, i + 1)) = Len(h) - i + 1
         /\ (<<Star>> \o From(h, i + 1))[1] = Star
         /\ \A n \in 2..(Len(h) - i + 1) : (<<Star>> \o From(h, i + 1))[n] = h[i + n - 1]
<1>1. Len(h) \in Nat /\ i \in Nat /\ i + 1 \in 1..(Len(h) + 1)
  BY LenProperties
<1>2. /\ From(h, i + 1) \in Seq(Labels)
      /\ Len(From(h, i + 1)) = Len(h) - i
      /\ \A n \in 1..(Len(h) - i) : From(h, i + 1)[n] = h[i + n]
  <2>1. /\ From(h, i + 1) \in Seq(Labels)
        /\ Len(From(h, i + 1)) = Len(h) - (i + 1) + 1
        /\ \A n \in 1..(Len(h) - (i + 1) + 1) : From(h, i + 1)[n] = h[i + 1 + n - 1]
    BY <1>1, Ends
  <2>2. Len(h) - (i + 1) + 1 = Len(h) - i
    BY <1>1
  <2>3. \A n \in 1..(Len(h) - i) : i + 1 + n - 1 = i + n
    BY <1>1
  <2>. QED BY <2>1, <2>2, <2>3
<1>3. From(h, i + 1) \in Seq(Labels \cup {Star})
  BY <1>2
<1>4. <<Star>> \in Seq(Labels \cup {Star}) /\ Len(<<Star>>) = 1 /\ <<Star>>[1] = Star
  OBVIOUS
<1>5. /\ <<Star>> \o From(h, i + 1) \in Seq(Labels \cup {Star})
      /\ Len(<<Star>> \o From(h, i + 1)) = Len(<<Star>>) + Len(From(h, i + 1))
      /\ \A n \in 1..(Len(<<Star>>) + Len(From(h, i + 1))) :
           (<<Star>> \o From(h, i + 1))[n] =
             IF n <= Len(<<Star>>) THEN <<Star>>[n] ELSE From(h, i + 1)[n - Len(<<Star>>)]
  BY <1>3, <1>4, ConcatProperties
<1>6. ASSUME NEW n \in 2..(Len(h) - i + 1)
      PROVE  (<<Star>> \o From(h, i + 1))[n] = h[i + n - 1]
  <2>1. n - 1 \in 1..(Len(h) - i) /\ n \in Nat /\ ~ n <= 1
    BY <1>1
  <2>2. (<<Star>> \o From(h, i + 1))[n] = From(h, i + 1)[n - 1]
    BY <1>1, <1>2, <1>4, <1>5, <2>1
  <2>3. From(h, i + 1)[n - 1] = h[i + (n - 1)]
    BY <1>2, <2>1
  <2>4. i + (n - 1) = i + n - 1
    BY <1>1, <2>1
  <2>. QED BY <2>2, <2>3, <2>4
<1>7. (<<Star>> \o From(h, i + 1))[1] = Star
  BY <1>1, <1>2, <1>4, <1>5
<1>8. Len(<<Star>> \o From(h, i + 1)) = Len(h) - i + 1
  BY <1>1, <1>2, <1>4, <1>5
<1>. QED BY <1>5, <1>6, <1>7, <1>8

\* A rule of the list matches a host exactly when one of the two lookups finds
\* it at the label where it begins.
LEMMA RuleMatch ==
  ASSUME NEW h \in Seq(Labels), h # <<>>, NEW r \in Seq(Labels \cup {Star}), r # <<>>,
         \A n \in DOMAIN r : r[n] = Star => n = 1
  PROVE  /\ MatchesRule(r, h) =>
              /\ Len(h) - Len(r) + 1 \in 1..Len(h)
              /\ \/ r = From(h, Len(h) - Len(r) + 1)
                 \/ r = <<Star>> \o From(h, Len(h) - Len(r) + 2) /\ r[1] = Star
         /\ \A i \in 1..Len(h) :
              r = From(h, i) \/ r = <<Star>> \o From(h, i + 1) =>
                MatchesRule(r, h) /\ Len(r) = Len(h) - i + 1
<1>. DEFINE L == Len(h)  p == Len(h) - Len(r) + 1
<1>1. L \in Nat \ {0} /\ Len(r) \in Nat \ {0} /\ DOMAIN r = 1..Len(r) /\ p \in Int
  BY EmptySeq, LenProperties
<1>2. ASSUME MatchesRule(r, h)
      PROVE  /\ p \in 1..L
             /\ \/ r = From(h, p)
                \/ r = <<Star>> \o From(h, p + 1) /\ r[1] = Star
  <2>1. Len(r) <= L /\ \A n \in 1..Len(r) : r[n] \in {Star, h[L - Len(r) + n]}
    BY <1>1, <1>2 DEF MatchesRule
  <2>2. p \in 1..L /\ p \in 1..(L + 1) /\ L - p + 1 = Len(r)
    BY <1>1, <2>1
  <2>3. \A n \in 2..Len(r) : r[n] = h[p + n - 1]
    <3>1. SUFFICES ASSUME NEW n \in 2..Len(r) PROVE r[n] = h[p + n - 1]
      OBVIOUS
    <3>2. n \in 1..Len(r) /\ n # 1 /\ L - Len(r) + n = p + n - 1
      BY <1>1
    <3>3. r[n] # Star
      BY <1>1, <3>2
    <3>4. r[n] \in {Star, h[L - Len(r) + n]}
      BY <2>1, <3>2
    <3>. QED BY <3>2, <3>3, <3>4
  <2>4. CASE r[1] = Star
    <3>. DEFINE w == <<Star>> \o From(h, p + 1)
    <3>1. /\ w \in Seq(Labels \cup {Star}) /\ Len(w) = Len(r) /\ w[1] = Star
          /\ \A n \in 2..Len(r) : w[n] = h[p + n - 1]
      BY <2>2, Wild
    <3>2. \A n \in 1..Len(r) : r[n] = w[n]
      BY <1>1, <2>3, <2>4, <3>1
    <3>. HIDE DEF w
    <3>3. r = w
      BY <3>1, <3>2, SeqEqual
    <3>. QED BY <2>2, <2>4, <3>3 DEF w
  <2>5. CASE r[1] # Star
    <3>1. /\ From(h, p) \in Seq(Labels) /\ Len(From(h, p)) = Len(r)
          /\ \A n \in 1..Len(r) : From(h, p)[n] = h[p + n - 1]
      BY <2>2, Ends
    <3>2. From(h, p) \in Seq(Labels \cup {Star})
      BY <3>1
    <3>3. r[1] = h[p + 1 - 1]
      BY <1>1, <2>1, <2>5
    <3>4. \A n \in 1..Len(r) : r[n] = From(h, p)[n]
      BY <1>1, <2>3, <3>1, <3>3
    <3>5. r = From(h, p)
      BY <3>1, <3>2, <3>4, SeqEqual
    <3>. QED BY <2>2, <3>5
  <2>. QED BY <2>4, <2>5
<1>3. ASSUME NEW i \in 1..L, r = From(h, i) \/ r = <<Star>> \o From(h, i + 1)
      PROVE  MatchesRule(r, h) /\ Len(r) = L - i + 1
  <2>1. i \in 1..(L + 1) /\ i \in Nat
    BY <1>1
  <2>2. CASE r = From(h, i)
    <3>1. Len(r) = L - i + 1 /\ \A n \in 1..(L - i + 1) : r[n] = h[i + n - 1]
      BY <2>1, <2>2, Ends
    <3>2. Len(r) <= L /\ \A n \in 1..Len(r) : L - Len(r) + n = i + n - 1
      BY <1>1, <2>1, <3>1
    <3>. QED BY <1>1, <3>1, <3>2 DEF MatchesRule
  <2>3. CASE r = <<Star>> \o From(h, i + 1)
    <3>1. Len(r) = L - i + 1 /\ r[1] = Star /\ \A n \in 2..(L - i + 1) : r[n] = h[i + n - 1]
      BY <2>3, Wild
    <3>2. Len(r) <= L /\ \A n \in 1..Len(r) : L - Len(r) + n = i + n - 1
      BY <1>1, <2>1, <3>1
    <3>3. \A n \in 1..Len(r) : n = 1 \/ n \in 2..Len(r)
      BY <1>1
    <3>. QED BY <1>1, <3>1, <3>2, <3>3 DEF MatchesRule
  <2>. QED BY <1>3, <2>2, <2>3
<1>4. p + 1 = Len(h) - Len(r) + 2
  BY <1>1
<1>. QED BY <1>2, <1>3, <1>4

\* The lines of a list that match a host, and where the two lookups find them.
LEMMA Lookups ==
  ASSUME NEW h \in Hosts, NEW l, WellFormed(l)
  PROVE  /\ h \in Seq(Labels) /\ Len(h) \in Nat \ {0}
         /\ \A r \in l : Len(r.name) \in Nat \ {0} /\ r.name # <<>>
                         /\ r.name \in Seq(Labels \cup {Star})
         /\ \A r \in l : MatchesRule(r.name, h) =>
              /\ Len(h) - Len(r.name) + 1 \in 1..Len(h)
              /\ r.exception => Len(h) - Len(r.name) + 1 \in ExceptionAt(h, l)
              /\ ~ r.exception => Len(h) - Len(r.name) + 1 \in RuleAt(h, l)
         /\ \A i \in ExceptionAt(h, l) : \E r \in l :
              r.exception /\ MatchesRule(r.name, h) /\ Len(r.name) = Len(h) - i + 1
         /\ \A i \in RuleAt(h, l) : \E r \in l :
              ~ r.exception /\ MatchesRule(r.name, h) /\ Len(r.name) = Len(h) - i + 1
<1>1. h \in Seq(Labels) /\ h # <<>>
  BY SurveyAssumption DEF SurveyAssumption
<1>2. Len(h) \in Nat \ {0} /\ DOMAIN h = 1..Len(h)
  BY <1>1, EmptySeq, LenProperties
<1>3. ASSUME NEW r \in l
      PROVE  /\ r.exception \in BOOLEAN
             /\ r.name \in Seq(Labels \cup {Star}) /\ r.name # <<>>
             /\ \A n \in DOMAIN r.name : r.name[n] = Star => n = 1 /\ ~ r.exception
             /\ Len(r.name) \in Nat \ {0} /\ 1 \in DOMAIN r.name
  <2>1. /\ r.exception \in BOOLEAN
        /\ r.name \in Seq(Labels \cup {Star}) /\ r.name # <<>>
        /\ \A n \in DOMAIN r.name : r.name[n] = Star => n = 1 /\ ~ r.exception
    BY DEF WellFormed
  <2>2. Len(r.name) \in Nat \ {0}
    BY <2>1, EmptySeq
  <2>3. DOMAIN r.name = 1..Len(r.name)
    BY <2>1, LenProperties
  <2>. QED BY <2>1, <2>2, <2>3
<1>4. ASSUME NEW r \in l, MatchesRule(r.name, h)
      PROVE  /\ Len(h) - Len(r.name) + 1 \in 1..Len(h)
             /\ r.exception => Len(h) - Len(r.name) + 1 \in ExceptionAt(h, l)
             /\ ~ r.exception => Len(h) - Len(r.name) + 1 \in RuleAt(h, l)
  <2>. DEFINE p == Len(h) - Len(r.name) + 1
  <2>1. /\ p \in 1..Len(h)
        /\ \/ r.name = From(h, p)
           \/ r.name = <<Star>> \o From(h, Len(h) - Len(r.name) + 2) /\ r.name[1] = Star
    BY <1>1, <1>3, <1>4, RuleMatch
  <2>2. Len(h) - Len(r.name) + 2 = p + 1
    BY <1>2, <1>3
  <2>3. ASSUME r.exception PROVE p \in ExceptionAt(h, l)
    <3>1. r.name = From(h, p)
      BY <1>3, <2>1, <2>3
    <3>2. r.name \in Lines(l, TRUE)
      BY <1>3, <2>3 DEF Lines
    <3>. QED BY <1>2, <2>1, <3>1, <3>2 DEF ExceptionAt
  <2>4. ASSUME ~ r.exception PROVE p \in RuleAt(h, l)
    <3>1. r.name \in Lines(l, FALSE)
      BY <1>3, <2>4 DEF Lines
    <3>. QED BY <1>2, <2>1, <2>2, <3>1 DEF RuleAt
  <2>. QED BY <2>1, <2>3, <2>4
<1>5. ASSUME NEW i \in ExceptionAt(h, l)
      PROVE  \E r \in l : r.exception /\ MatchesRule(r.name, h) /\ Len(r.name) = Len(h) - i + 1
  <2>1. i \in 1..Len(h) /\ From(h, i) \in Lines(l, TRUE)
    BY <1>2 DEF ExceptionAt
  <2>2. PICK r \in l : r.exception = TRUE /\ r.name = From(h, i)
    BY <2>1 DEF Lines
  <2>. QED BY <1>1, <1>3, <2>1, <2>2, RuleMatch
<1>6. ASSUME NEW i \in RuleAt(h, l)
      PROVE  \E r \in l : ~ r.exception /\ MatchesRule(r.name, h) /\ Len(r.name) = Len(h) - i + 1
  <2>1. /\ i \in 1..Len(h)
        /\ From(h, i) \in Lines(l, FALSE) \/ <<Star>> \o From(h, i + 1) \in Lines(l, FALSE)
    BY <1>2 DEF RuleAt
  <2>2. PICK r \in l : /\ r.exception = FALSE
                       /\ r.name = From(h, i) \/ r.name = <<Star>> \o From(h, i + 1)
    BY <2>1 DEF Lines
  <2>3. MatchesRule(r.name, h) /\ Len(r.name) = Len(h) - i + 1
    <3>. DEFINE q == r.name
    <3>1. /\ q \in Seq(Labels \cup {Star}) /\ q # <<>>
          /\ \A n \in DOMAIN q : q[n] = Star => n = 1
      BY <1>3
    <3>2. q = From(h, i) \/ q = <<Star>> \o From(h, i + 1)
      BY <2>2
    <3>. HIDE DEF q
    <3>3. \A j \in 1..Len(h) :
            q = From(h, j) \/ q = <<Star>> \o From(h, j + 1) =>
              MatchesRule(q, h) /\ Len(q) = Len(h) - j + 1
      BY <1>1, <3>1, RuleMatch
    <3>4. MatchesRule(q, h) /\ Len(q) = Len(h) - i + 1
      BY <2>1, <3>2, <3>3
    <3>. QED BY <3>4 DEF q
  <2>4. ~ r.exception
    BY <2>2
  <2>. QED BY <2>3, <2>4, Zenon
<1>. QED BY <1>1, <1>2, <1>3, <1>4, <1>5, <1>6

\* The longest of some matching lines, and the lowest label where one is found.
LEMMA Longest ==
  ASSUME NEW L \in Nat, NEW S, S # {}, NEW P \in SUBSET (1..L),
         \A r \in S : Len(r.name) \in Nat /\ L - Len(r.name) + 1 \in P,
         \A i \in P : \E r \in S : Len(r.name) = L - i + 1
  PROVE  /\ P # {} /\ Min(P) \in 1..L
         /\ LET most == CHOOSE r \in S : \A k \in S : Len(k.name) <= Len(r.name)
            IN most \in S /\ Len(most.name) = L - Min(P) + 1
<1>. DEFINE most == CHOOSE r \in S : \A k \in S : Len(k.name) <= Len(r.name)
<1>1. P # {} /\ P \in SUBSET Nat
  <2>1. PICK r \in S : L - Len(r.name) + 1 \in P
    OBVIOUS
  <2>2. 1..L \subseteq Nat
    OBVIOUS
  <2>. QED BY <2>1, <2>2
<1>2. Min(P) \in P /\ Min(P) \in 1..L /\ \A i \in P : Min(P) <= i
  BY <1>1, Lowest
<1>3. PICK r \in S : Len(r.name) = L - Min(P) + 1
  BY <1>2
<1>4. \A k \in S : Len(k.name) <= Len(r.name)
  <2>1. SUFFICES ASSUME NEW k \in S PROVE Len(k.name) <= Len(r.name)
    OBVIOUS
  <2>2. Len(k.name) \in Nat /\ L - Len(k.name) + 1 \in P
    OBVIOUS
  <2>3. Min(P) <= L - Len(k.name) + 1
    BY <1>2, <2>2
  <2>4. \A m \in Int, x \in Nat : m <= L - x + 1 => x <= L - m + 1
    OBVIOUS
  <2>5. Min(P) \in Int
    BY <1>2
  <2>. QED BY <1>3, <2>2, <2>3, <2>4, <2>5
<1>5. most \in S /\ \A k \in S : Len(k.name) <= Len(most.name)
  BY <1>4
<1>6. Len(most.name) = Len(r.name)
  <2>. HIDE DEF most
  <2>. QED BY <1>4, <1>5
<1>. QED BY <1>1, <1>2, <1>3, <1>5, <1>6

\* The longest matching rule is the first one that the lookups find.
LEMMA SameSuffix ==
  ASSUME NEW h \in Hosts, NEW l, WellFormed(l)
  PROVE  PublicSuffix(h, l) = PublishedSuffix(h, l)
<1>. DEFINE L == Len(h)
            M == {r \in l : MatchesRule(r.name, h)}
            E == {r \in M : r.exception}
            most(S) == CHOOSE r \in S : \A k \in S : Len(k.name) <= Len(r.name)
<1>8. /\ h \in Seq(Labels) /\ L \in Nat \ {0}
      /\ \A r \in l : Len(r.name) \in Nat \ {0} /\ r.name # <<>>
                      /\ r.name \in Seq(Labels \cup {Star})
  BY Lookups
<1>9. \A r \in l : MatchesRule(r.name, h) =>
        /\ L - Len(r.name) + 1 \in 1..L
        /\ r.exception => L - Len(r.name) + 1 \in ExceptionAt(h, l)
        /\ ~ r.exception => L - Len(r.name) + 1 \in RuleAt(h, l)
  BY Lookups
<1>10. \A i \in ExceptionAt(h, l) : \E r \in l :
        r.exception /\ MatchesRule(r.name, h) /\ Len(r.name) = L - i + 1
  BY Lookups
<1>11. \A i \in RuleAt(h, l) : \E r \in l :
        ~ r.exception /\ MatchesRule(r.name, h) /\ Len(r.name) = L - i + 1
  BY Lookups
<1>0. /\ h \in Seq(Labels) /\ L \in Nat \ {0}
      /\ \A r \in M : Len(r.name) \in Nat \ {0} /\ r.name # <<>>
                      /\ r.name \in Seq(Labels \cup {Star})
      /\ \A r \in M : /\ L - Len(r.name) + 1 \in 1..L
                      /\ r.exception => L - Len(r.name) + 1 \in ExceptionAt(h, l)
                      /\ ~ r.exception => L - Len(r.name) + 1 \in RuleAt(h, l)
      /\ \A i \in ExceptionAt(h, l) : \E r \in M : r.exception /\ Len(r.name) = L - i + 1
      /\ \A i \in RuleAt(h, l) : \E r \in M : ~ r.exception /\ Len(r.name) = L - i + 1
  <2>. HIDE DEF L
  <2>. QED BY <1>8, <1>9, <1>10, <1>11
<1>. HIDE DEF M
<1>1. L \in Nat \ {0} /\ DOMAIN h = 1..L
  BY <1>0, LenProperties
<1>2. \A r \in M : Len(r.name) \in Nat \ {0} /\ r.name # <<>> /\ r.name \in Seq(Labels \cup {Star})
  BY <1>0
<1>3. Prevailing(h, l) = IF E # {} THEN Tail(most(E).name)
                         ELSE IF M # {} THEN most(M).name ELSE <<Star>>
  BY DEF Prevailing, M
<1>4. ExceptionAt(h, l) \in SUBSET (1..L) /\ RuleAt(h, l) \in SUBSET (1..L)
  BY <1>1 DEF ExceptionAt, RuleAt
<1>5. CASE E # {}
  <2>1. /\ \A r \in E : Len(r.name) \in Nat /\ L - Len(r.name) + 1 \in ExceptionAt(h, l)
        /\ \A i \in ExceptionAt(h, l) : \E r \in E : Len(r.name) = L - i + 1
    BY <1>0
  <2>2. /\ ExceptionAt(h, l) # {} /\ Min(ExceptionAt(h, l)) \in 1..L
        /\ most(E) \in E /\ Len(most(E).name) = L - Min(ExceptionAt(h, l)) + 1
    <3>. HIDE DEF L, E
    <3>. QED BY <1>1, <1>4, <1>5, <2>1, Longest
  <2>. DEFINE i == Min(ExceptionAt(h, l))  m == most(E).name
  <2>3. m # <<>> /\ m \in Seq(Labels \cup {Star}) /\ Len(m) = L - i + 1
    BY <1>2, <2>2
  <2>. HIDE DEF m
  <2>4. Len(Tail(m)) = L - i
    BY <1>1, <2>2, <2>3, HeadTailProperties
  <2>5. L - Len(Tail(m)) + 1 = i + 1
    <3>1. i \in Int /\ \A x \in Int : L - (L - x) + 1 = x + 1
      BY <1>1, <2>2
    <3>. QED BY <2>4, <3>1
  <2>6. PublishedSuffix(h, l) = From(h, L - Len(Tail(m)) + 1)
    BY <1>3, <1>5 DEF PublishedSuffix, m
  <2>. QED BY <2>2, <2>5, <2>6 DEF PublicSuffix
<1>6. CASE E = {} /\ M # {}
  <2>1. ExceptionAt(h, l) = {}
    BY <1>0, <1>6
  <2>2. /\ \A r \in M : Len(r.name) \in Nat /\ L - Len(r.name) + 1 \in RuleAt(h, l)
        /\ \A i \in RuleAt(h, l) : \E r \in M : Len(r.name) = L - i + 1
    BY <1>0, <1>6
  <2>3. /\ RuleAt(h, l) # {} /\ Min(RuleAt(h, l)) \in 1..L
        /\ Len(most(M).name) = L - Min(RuleAt(h, l)) + 1
    <3>. HIDE DEF L, M
    <3>. QED BY <1>1, <1>4, <1>6, <2>2, Longest
  <2>4. L - Len(most(M).name) + 1 = Min(RuleAt(h, l))
    <3>. DEFINE i == Min(RuleAt(h, l))
    <3>1. i \in Int /\ Len(most(M).name) = L - i + 1
      BY <2>3
    <3>. HIDE DEF i, most
    <3>2. L - Len(most(M).name) + 1 = i
      BY <1>1, <3>1
    <3>. QED BY <3>2 DEF i
  <2>5. PublishedSuffix(h, l) = From(h, L - Len(most(M).name) + 1)
    BY <1>3, <1>6 DEF PublishedSuffix
  <2>. QED BY <2>1, <2>3, <2>4, <2>5 DEF PublicSuffix
<1>7. CASE M = {}
  <2>1. ExceptionAt(h, l) = {} /\ RuleAt(h, l) = {}
    BY <1>0, <1>7
  <2>2. Prevailing(h, l) = <<Star>>
    BY <1>3, <1>7
  <2>3. L - Len(<<Star>>) + 1 = L
    BY <1>1
  <2>. QED BY <2>1, <2>2, <2>3 DEF PublicSuffix, PublishedSuffix
<1>. QED BY <1>5, <1>6, <1>7

-----------------------------------------------------------------------------
(* The years (dates.py).                                                    *)

\* A claimed date is missing or a number.
LEMMA Claims ==
  ASSUME NEW k \in Keys, NEW n \in DOMAIN Claimed(Headers[k])
  PROVE  Claimed(Headers[k])[n] \in {Nothing} \cup Int
<1>. DEFINE S == {Nothing} \cup Int
            h == Headers[k]
            back == [m \in DOMAIN h.received |-> h.received[Len(h.received) - m + 1]]
<1>1. h.date \in S /\ h.received \in Seq(S)
  BY SurveyAssumption DEF SurveyAssumption
<1>. HIDE DEF S, h
<1>2. back \in Seq(S)
  <2>1. /\ Len(h.received) \in Nat /\ DOMAIN h.received = 1..Len(h.received)
        /\ \A m \in 1..Len(h.received) : h.received[m] \in S
    BY <1>1, LenProperties, ElementOfSeq
  <2>2. \A m \in 1..Len(h.received) : Len(h.received) - m + 1 \in 1..Len(h.received)
    BY <2>1
  <2>3. back \in [1..Len(h.received) -> S]
    BY <2>1, <2>2
  <2>. QED BY <2>1, <2>3
<1>3. <<h.date>> \in Seq(S)
  BY <1>1
<1>4. Claimed(h) = <<h.date>> \o back
  BY DEF Claimed
<1>5. Claimed(h) \in Seq(S)
  <2>. HIDE DEF back
  <2>. QED BY <1>2, <1>3, <1>4, ConcatProperties
<1>6. \A m \in DOMAIN Claimed(h) : Claimed(h)[m] \in S
  BY <1>5, LenProperties, ElementOfSeq
<1>. QED BY <1>6 DEF S, h

\* Between two days a year stays, unless a claimed date has come within reach.
LEMMA YearStays ==
  ASSUME NEW k \in Keys, NEW d \in Nat, NEW e \in Nat, d <= e,
         \A n \in DOMAIN Claimed(Headers[k]) :
           LET c == Claimed(Headers[k])[n]
           IN c # Nothing => ~ (d + Tolerance < c /\ c <= e + Tolerance)
  PROVE  YearOf(Headers[k], e) = YearOf(Headers[k], d)
<1>1. ASSUME NEW n \in DOMAIN Claimed(Headers[k]), Claimed(Headers[k])[n] # Nothing
      PROVE  IsSane(Claimed(Headers[k])[n], d) <=> IsSane(Claimed(Headers[k])[n], e)
  <2>. DEFINE c == Claimed(Headers[k])[n]
  <2>1. c \in Int
    BY <1>1, Claims
  <2>2. ~ (d + Tolerance < c /\ c <= e + Tolerance)
    BY <1>1
  <2>3. Tolerance \in Nat /\ Floor \in Nat
    BY ClassifyAssumption DEF ClassifyAssumption
  <2>. HIDE DEF c
  <2>4. IsSane(c, d) <=> IsSane(c, e)
    BY <2>1, <2>2, <2>3 DEF IsSane
  <2>. QED BY <2>4 DEF c
<1>2. Believed(Headers[k], d) = Believed(Headers[k], e)
  BY <1>1, Zenon DEF Believed
<1>. QED BY <1>2 DEF YearOf, ResolveDate

-----------------------------------------------------------------------------
(* The mailbox around the sweep.                                            *)

\* Whatever the owner does and whatever arrives: mail that nobody has touched
\* stays where it is, no other joins it, and no used UID comes to name new mail.
LEMMA MailGoesOn ==
  ASSUME ServerTypeOK, NothingAhead, Owner \/ \E f \in Folders, k \in Keys : Arrives(f, k)
  PROVE  /\ ServerTypeOK' /\ NothingAhead'
         /\ touched \subseteq touched'
         /\ \A f \in Folders : nextUid[f] <= nextUid'[f]
         /\ \A t \in Slots :
              /\ t[2] < nextUid[t[1]] => box'[t] \in {box[t], NoKey}
              /\ box[t] \in Keys \ touched' => box'[t] = box[t]
              /\ box'[t] \in Keys \ touched' => box[t] = box'[t]
<1>1. NoKey \notin Keys
  BY ServerAssumption DEF ServerAssumption
<1>2. ASSUME Owner
      PROVE  /\ ServerTypeOK' /\ NothingAhead'
             /\ touched \subseteq touched'
             /\ \A f \in Folders : nextUid[f] <= nextUid'[f]
             /\ \A t \in Slots :
                  /\ t[2] < nextUid[t[1]] => box'[t] \in {box[t], NoKey}
                  /\ box[t] \in Keys \ touched' => box'[t] = box[t]
                  /\ box'[t] \in Keys \ touched' => box[t] = box'[t]
  <2>1. OwnerStep
    BY <1>2 DEF Owner
  <2>2. ServerTypeOK'
    BY <2>1, OwnerTypes
  <2>3. NothingAhead' /\ \A f \in Folders : nextUid[f] <= nextUid'[f]
    BY <2>1, OwnerKeeps DEF Keeps, NothingAhead
  <2>4. touched \subseteq touched' /\ \A t \in Slots : box[t] \in Keys \ touched' => box'[t] = box[t]
    BY <2>1, OwnerEffect
  <2>5. PICK s \in Slots : \/ OwnerExpunges(s) \/ OwnerFlags(s)
                           \/ \E d \in Folders : OwnerMoves(s, d)
    BY <2>1 DEF OwnerStep
  <2>6. Occupied(s) /\ touched' = touched \cup {box[s]}
    BY <2>5 DEF OwnerExpunges, OwnerFlags, OwnerMoves, OwnerTouches
  <2>7. ASSUME NEW t \in Slots
        PROVE  /\ t[2] < nextUid[t[1]] => box'[t] \in {box[t], NoKey}
               /\ box'[t] \in Keys \ touched' => box[t] = box'[t]
    <3>1. CASE OwnerExpunges(s)
      BY <1>1, <3>1 DEF OwnerExpunges, ServerTypeOK
    <3>2. CASE OwnerFlags(s)
      BY <3>2 DEF OwnerFlags
    <3>3. ASSUME NEW d \in Folders, OwnerMoves(s, d)
          PROVE  /\ t[2] < nextUid[t[1]] => box'[t] \in {box[t], NoKey}
                 /\ box'[t] \in Keys \ touched' => box[t] = box'[t]
      <4>1. /\ box'[s] = NoKey /\ box'[Put(s, d)] = box[s]
            /\ \A u \in Slots \ {s, Put(s, d)} : box'[u] = box[u]
        BY <2>6, <3>3, MoveEffect DEF OwnerMoves
      <4>2. Put(s, d)[1] = d /\ Put(s, d)[2] = nextUid[d] /\ ~ nextUid[d] < nextUid[d]
        BY UidBounds DEF Put, ServerTypeOK
      <4>. QED BY <1>1, <2>6, <4>1, <4>2
    <3>. QED BY <2>5, <3>1, <3>2, <3>3
  <2>. QED BY <2>2, <2>3, <2>4, <2>7
<1>3. ASSUME NEW f \in Folders, NEW k \in Keys, Arrives(f, k)
      PROVE  /\ ServerTypeOK' /\ NothingAhead'
             /\ touched \subseteq touched'
             /\ \A g \in Folders : nextUid[g] <= nextUid'[g]
             /\ \A t \in Slots :
                  /\ t[2] < nextUid[t[1]] => box'[t] \in {box[t], NoKey}
                  /\ box[t] \in Keys \ touched' => box'[t] = box[t]
                  /\ box'[t] \in Keys \ touched' => box[t] = box'[t]
  <2>. DEFINE new == <<f, nextUid[f]>>
  <2>1. nextUid \in [Folders -> 1..(MaxUid + 1)] /\ nextUid[f] \in Uids
    BY <1>3, UidBounds DEF Arrives, HasRoom, ServerTypeOK, Uids
  <2>2. new \in Slots /\ new[1] = f /\ new[2] = nextUid[f]
    BY <2>1 DEF Slots
  <2>3. /\ box' = [box EXCEPT ![new] = k]
        /\ nextUid' = [nextUid EXCEPT ![f] = @ + 1]
        /\ touched' = touched \cup {k} /\ userSteps' = userSteps + 1 /\ userSteps < MaxUserSteps
        /\ UNCHANGED <<deleted, validity, faults>>
    BY <1>3 DEF Arrives
  <2>4. /\ box'[new] = k /\ \A t \in Slots \ {new} : box'[t] = box[t]
        /\ nextUid'[f] = nextUid[f] + 1 /\ \A g \in Folders \ {f} : nextUid'[g] = nextUid[g]
    BY <2>1, <2>2, <2>3 DEF ServerTypeOK
  <2>5. ServerTypeOK'
    <3>1. box' \in [Slots -> Keys \cup {NoKey}] /\ touched' \in SUBSET Keys
      BY <2>3 DEF ServerTypeOK
    <3>2. nextUid[f] + 1 \in 1..(MaxUid + 1)
      BY <2>1, UidBounds DEF Uids
    <3>3. nextUid' \in [Folders -> 1..(MaxUid + 1)]
      BY <2>1, <2>3, <3>2
    <3>4. userSteps' \in 0..MaxUserSteps
      BY <2>3, ServerAssumption DEF ServerAssumption, ServerTypeOK
    <3>. QED BY <2>3, <3>1, <3>3, <3>4 DEF ServerTypeOK
  <2>6. \A g \in Folders : nextUid[g] \in Nat /\ nextUid[g] <= nextUid'[g]
    BY <2>1, <2>4, UidBounds
  <2>7. NothingAhead'
    <3>1. SUFFICES ASSUME NEW t \in Slots, t[2] >= nextUid'[t[1]] PROVE box'[t] = NoKey
      BY DEF NothingAhead
    <3>2. t[1] \in Folders /\ t[2] \in Nat
      BY SlotParts
    <3>3. t # new
      BY <2>2, <2>4, <2>6, <3>1
    <3>4. nextUid'[t[1]] \in Nat /\ t[2] >= nextUid[t[1]]
      BY <2>4, <2>6, <3>1, <3>2
    <3>. QED BY <2>4, <3>3, <3>4 DEF NothingAhead
  <2>8. box[new] = NoKey
    BY <2>1, <2>2, UidBounds DEF NothingAhead
  <2>9. ~ new[2] < nextUid[new[1]]
    BY <2>2, <2>6
  <2>. QED BY <1>1, <2>3, <2>4, <2>5, <2>6, <2>7, <2>8, <2>9
<1>. QED BY <1>2, <1>3

-----------------------------------------------------------------------------
(* What the server answers.                                                 *)

\* The server's answer to SEARCH: each UID of the set, once.
LEMMA Answer ==
  ASSUME NEW S \in SUBSET Uids
  PROVE  /\ SetToSeq(S) \in Seq(Uids) /\ DOMAIN SetToSeq(S) = 1..Len(SetToSeq(S))
         /\ IsInjective(SetToSeq(S))
         /\ \A i \in DOMAIN SetToSeq(S) : SetToSeq(S)[i] \in S
         /\ \A u \in S : \E i \in DOMAIN SetToSeq(S) : SetToSeq(S)[i] = u
<1>. DEFINE c == Cardinality(S)  a == SetToSeq(S)
<1>1. IsFiniteSet(S)
  <2>1. IsFiniteSet(Uids)
    BY FS_Interval, UidBounds DEF Uids
  <2>. QED BY <2>1, FS_Subset
<1>2. c \in Nat /\ ExistsBijection(1..c, S)
  BY <1>1, FS_CardinalityType
<1>3. \E f \in [1..c -> S] : IsInjective(f)
  BY <1>2 DEF ExistsBijection, Bijection, Injection
<1>4. a \in [1..c -> S] /\ IsInjective(a)
  BY <1>3 DEF SetToSeq
<1>. HIDE DEF a
<1>5. a \in Injection(1..c, S)
  BY <1>4 DEF Injection, IsInjective
<1>6. IsFiniteSet(1..c) /\ Cardinality(1..c) = c
  BY <1>2, FS_Interval
<1>7. a \in Surjection(1..c, S)
  BY <1>1, <1>5, <1>6, FS_Injection
<1>8. \A u \in S : \E i \in 1..c : a[i] = u
  BY <1>7 DEF Surjection
<1>9. a \in Seq(S) /\ Len(a) = c /\ DOMAIN a = 1..c
  BY <1>2, <1>4
<1>10. a \in Seq(Uids)
  BY <1>2, <1>4
<1>. QED BY <1>4, <1>8, <1>9, <1>10 DEF a

\* The UIDs found between two bounds are those that hold mail.
LEMMA FoundMail ==
  ASSUME sweep.n \in 1..Len(order), NEW lo \in Nat \ {0}, NEW hi \in Nat, hi <= MaxUid
  PROVE  /\ Found(lo, hi) \in Seq(Uids) /\ DOMAIN Found(lo, hi) = 1..Len(Found(lo, hi))
         /\ IsInjective(Found(lo, hi))
         /\ \A i \in DOMAIN Found(lo, hi) : lo <= Found(lo, hi)[i] /\ Found(lo, hi)[i] <= hi
         /\ \A u \in lo..hi : Occupied(<<Folder, u>>) =>
              \E i \in DOMAIN Found(lo, hi) : Found(lo, hi)[i] = u
<1>. DEFINE S == {u \in lo..hi : Occupied(<<Folder, u>>)}
<1>1. S \in SUBSET Uids
  BY UidBounds DEF Uids
<1>2. \A u \in S : lo <= u /\ u <= hi
  OBVIOUS
<1>3. Found(lo, hi) = SetToSeq(S)
  BY DEF Found
<1>4. /\ SetToSeq(S) \in Seq(Uids) /\ DOMAIN SetToSeq(S) = 1..Len(SetToSeq(S))
      /\ IsInjective(SetToSeq(S))
      /\ \A i \in DOMAIN SetToSeq(S) : SetToSeq(S)[i] \in S
      /\ \A u \in S : \E i \in DOMAIN SetToSeq(S) : SetToSeq(S)[i] = u
  BY <1>1, Answer
<1>5. \A u \in lo..hi : Occupied(<<Folder, u>>) => u \in S
  OBVIOUS
<1>. HIDE DEF S
<1>. QED BY <1>2, <1>3, <1>4, <1>5

\* A chunk is answered with one record for each of its UIDs that still holds mail.
LEMMA FetchedMail ==
  ASSUME ServerTypeOK, Folder \in Folders, NEW chunk \in Seq(Uids)
  PROVE  /\ Fetched(chunk) \in Seq([key : Keys, slot : Slots])
         /\ \A i \in DOMAIN Fetched(chunk) :
              LET r == Fetched(chunk)[i]
              IN /\ r.slot[1] = Folder /\ r.slot[2] \in ToSet(chunk)
                 /\ r.key = box[r.slot]
         /\ \A i, j \in DOMAIN Fetched(chunk) :
              Fetched(chunk)[i].slot = Fetched(chunk)[j].slot => i = j
         /\ \A u \in ToSet(chunk) : Occupied(<<Folder, u>>) =>
              \E i \in DOMAIN Fetched(chunk) : Fetched(chunk)[i].slot = <<Folder, u>>
<1>. DEFINE S == {u \in ToSet(chunk) : Occupied(<<Folder, u>>)}
            live == SetToSeq(S)
<1>1. ToSet(chunk) \subseteq Uids
  <2>1. \A i \in DOMAIN chunk : chunk[i] \in Uids
    BY LenProperties, ElementOfSeq
  <2>. QED BY <2>1 DEF ToSet
<1>2. S \in SUBSET Uids /\ S \subseteq ToSet(chunk) /\ \A u \in S : Occupied(<<Folder, u>>)
  BY <1>1
<1>3. /\ live \in Seq(Uids) /\ DOMAIN live = 1..Len(live)
      /\ IsInjective(live)
      /\ \A i \in DOMAIN live : live[i] \in S
      /\ \A u \in S : \E i \in DOMAIN live : live[i] = u
  BY <1>2, Answer
<1>4. Fetched(chunk) = [n \in DOMAIN live |-> [key |-> box[<<Folder, live[n]>>], slot |-> <<Folder, live[n]>>]]
  BY DEF Fetched
<1>5. \A u \in ToSet(chunk) : Occupied(<<Folder, u>>) => u \in S
  OBVIOUS
<1>. HIDE DEF S, live
<1>6. ASSUME NEW n \in DOMAIN live
      PROVE  [key |-> box[<<Folder, live[n]>>], slot |-> <<Folder, live[n]>>] \in [key : Keys, slot : Slots]
  <2>1. live[n] \in Uids /\ Occupied(<<Folder, live[n]>>)
    BY <1>2, <1>3
  <2>2. <<Folder, live[n]>> \in Slots
    BY <2>1 DEF Slots
  <2>3. box[<<Folder, live[n]>>] \in Keys
    BY <2>1, <2>2 DEF ServerTypeOK, Occupied
  <2>. QED BY <2>2, <2>3
<1>7. Fetched(chunk) \in [1..Len(live) -> [key : Keys, slot : Slots]] /\ Len(live) \in Nat
  BY <1>3, <1>4, <1>6, LenProperties
<1>. DEFINE a == Fetched(chunk)  R == [key : Keys, slot : Slots]
<1>8. /\ a \in [1..Len(live) -> R] /\ DOMAIN a = 1..Len(live)
      /\ \A i \in 1..Len(live) : /\ a[i].slot = <<Folder, live[i]>>
                                 /\ a[i].key = box[<<Folder, live[i]>>]
  BY <1>3, <1>4, <1>7
<1>9. \A i \in 1..Len(live) : live[i] \in ToSet(chunk)
  BY <1>2, <1>3
<1>10. \A i, j \in 1..Len(live) : live[i] = live[j] => i = j
  BY <1>3 DEF IsInjective
<1>. HIDE DEF a, R
<1>11. a \in Seq(R)
  BY <1>7, <1>8
<1>12. \A i, j \in 1..Len(live) : a[i].slot = a[j].slot => i = j
  <2>1. SUFFICES ASSUME NEW i \in 1..Len(live), NEW j \in 1..Len(live), a[i].slot = a[j].slot
                 PROVE  i = j
    OBVIOUS
  <2>2. <<Folder, live[i]>> = <<Folder, live[j]>>
    BY <1>8, <2>1
  <2>3. live[i] = live[j]
    BY <2>2
  <2>. QED BY <1>10, <2>3
<1>13. \A i \in 1..Len(live) : /\ a[i].slot[1] = Folder /\ a[i].slot[2] \in ToSet(chunk)
                               /\ a[i].key = box[a[i].slot]
  <2>1. SUFFICES ASSUME NEW i \in 1..Len(live)
                 PROVE  /\ a[i].slot[1] = Folder /\ a[i].slot[2] \in ToSet(chunk)
                        /\ a[i].key = box[a[i].slot]
    OBVIOUS
  <2>2. a[i].slot = <<Folder, live[i]>> /\ a[i].key = box[<<Folder, live[i]>>]
    BY <1>8
  <2>3. <<Folder, live[i]>>[1] = Folder /\ <<Folder, live[i]>>[2] = live[i]
    OBVIOUS
  <2>. QED BY <1>9, <2>2, <2>3
<1>14. \A u \in ToSet(chunk) : Occupied(<<Folder, u>>) =>
         \E i \in 1..Len(live) : a[i].slot = <<Folder, u>>
  BY <1>3, <1>5, <1>8
<1>. QED BY <1>8, <1>11, <1>12, <1>13, <1>14 DEF a, R

-----------------------------------------------------------------------------
(* Sequences put together and taken apart.                                  *)

\* Each place of two sequences put together is a place of one of them.
LEMMA Joined ==
  ASSUME NEW S, NEW a \in Seq(S), NEW b \in Seq(S)
  PROVE  /\ a \o b \in Seq(S)
         /\ \A i \in DOMAIN (a \o b) :
              \/ i \in DOMAIN a /\ (a \o b)[i] = a[i]
              \/ i - Len(a) \in DOMAIN b /\ (a \o b)[i] = b[i - Len(a)]
         /\ \A i \in DOMAIN a : i \in DOMAIN (a \o b) /\ (a \o b)[i] = a[i]
         /\ \A i \in DOMAIN b : Len(a) + i \in DOMAIN (a \o b) /\ (a \o b)[Len(a) + i] = b[i]
<1>. DEFINE c == a \o b
<1>1. /\ Len(a) \in Nat /\ DOMAIN a = 1..Len(a)
      /\ Len(b) \in Nat /\ DOMAIN b = 1..Len(b)
  BY LenProperties
<1>2. /\ c \in Seq(S) /\ Len(c) = Len(a) + Len(b)
      /\ \A i \in 1..(Len(a) + Len(b)) : c[i] = IF i <= Len(a) THEN a[i] ELSE b[i - Len(a)]
  BY ConcatProperties
<1>. HIDE DEF c
<1>3. DOMAIN c = 1..(Len(a) + Len(b))
  BY <1>2, LenProperties
<1>4. \A i \in DOMAIN c : \/ i \in DOMAIN a /\ c[i] = a[i]
                          \/ i - Len(a) \in DOMAIN b /\ c[i] = b[i - Len(a)]
  BY <1>1, <1>2, <1>3
<1>5. \A i \in DOMAIN a : i \in DOMAIN c /\ c[i] = a[i]
  BY <1>1, <1>2, <1>3
<1>6. ASSUME NEW i \in DOMAIN b PROVE Len(a) + i \in DOMAIN c /\ c[Len(a) + i] = b[i]
  <2>1. /\ Len(a) + i \in 1..(Len(a) + Len(b)) /\ ~ Len(a) + i <= Len(a)
        /\ (Len(a) + i) - Len(a) = i
    BY <1>1
  <2>. QED BY <1>2, <1>3, <2>1
<1>. QED BY <1>2, <1>4, <1>5, <1>6 DEF c

\* A sequence without repetition, cut in two: each element is in one part.
LEMMA Cut ==
  ASSUME NEW S, NEW q \in Seq(S), NEW n \in 0..Len(q), IsInjective(q)
  PROVE  LET front == SubSeq(q, 1, n)
             rest  == SubSeq(q, n + 1, Len(q))
         IN /\ front \in Seq(S) /\ rest \in Seq(S) /\ IsInjective(rest)
            /\ ToSet(q) = ToSet(front) \cup ToSet(rest)
            /\ ToSet(front) \cap ToSet(rest) = {}
<1>. DEFINE front == SubSeq(q, 1, n)  rest == SubSeq(q, n + 1, Len(q))
<1>1. Len(q) \in Nat /\ DOMAIN q = 1..Len(q) /\ n \in Nat /\ n <= Len(q)
  BY LenProperties
<1>2. \A i \in 1..Len(q) : q[i] \in S
  BY ElementOfSeq
<1>3. /\ front \in Seq(S) /\ Len(front) = n
      /\ \A i \in 1..n : front[i] = q[i]
  <2>1. /\ SubSeq(q, 1, n) \in Seq(S)
        /\ Len(SubSeq(q, 1, n)) = IF 1 <= n THEN n - 1 + 1 ELSE 0
        /\ \A i \in 1..(n - 1 + 1) : SubSeq(q, 1, n)[i] = q[1 + i - 1]
    BY <1>1, <1>2, SubSeqProperties
  <2>2. n - 1 + 1 = n /\ (~ 1 <= n => n = 0) /\ \A i \in 1..n : 1 + i - 1 = i
    BY <1>1
  <2>. QED BY <2>1, <2>2
<1>4. /\ rest \in Seq(S) /\ Len(rest) = Len(q) - n
      /\ \A i \in 1..(Len(q) - n) : rest[i] = q[n + i]
  <2>1. /\ SubSeq(q, n + 1, Len(q)) \in Seq(S)
        /\ Len(SubSeq(q, n + 1, Len(q))) = IF n + 1 <= Len(q) THEN Len(q) - (n + 1) + 1 ELSE 0
        /\ \A i \in 1..(Len(q) - (n + 1) + 1) : SubSeq(q, n + 1, Len(q))[i] = q[n + 1 + i - 1]
    BY <1>1, <1>2, SubSeqProperties
  <2>2. \A a, b \in Nat : b <= a => /\ (IF b + 1 <= a THEN a - (b + 1) + 1 ELSE 0) = a - b
                                    /\ a - (b + 1) + 1 = a - b
    OBVIOUS
  <2>3. (IF n + 1 <= Len(q) THEN Len(q) - (n + 1) + 1 ELSE 0) = Len(q) - n
    BY <1>1, <2>2
  <2>4. Len(q) - (n + 1) + 1 = Len(q) - n
    BY <1>1, <2>2
  <2>5. \A i \in 1..(Len(q) - n) : n + 1 + i - 1 = n + i
    BY <1>1
  <2>. QED BY <2>1, <2>3, <2>4, <2>5
<1>. HIDE DEF front, rest
<1>5. DOMAIN front = 1..n /\ DOMAIN rest = 1..(Len(q) - n)
  BY <1>3, <1>4, LenProperties
<1>6. \A i, j \in 1..Len(q) : q[i] = q[j] => i = j
  BY <1>1 DEF IsInjective
<1>7. IsInjective(rest)
  <2>1. SUFFICES ASSUME NEW i \in 1..(Len(q) - n), NEW j \in 1..(Len(q) - n), rest[i] = rest[j]
                 PROVE  i = j
    BY <1>5 DEF IsInjective
  <2>2. n + i \in 1..Len(q) /\ n + j \in 1..Len(q) /\ q[n + i] = q[n + j]
    BY <1>1, <1>4, <2>1
  <2>3. n + i = n + j
    BY <1>6, <2>2
  <2>. QED BY <1>1, <2>3
<1>8. ToSet(front) \subseteq ToSet(q)
  <2>1. \A i \in 1..n : i \in 1..Len(q)
    BY <1>1
  <2>. QED BY <1>1, <1>3, <1>5, <2>1 DEF ToSet
<1>9. ToSet(rest) \subseteq ToSet(q)
  <2>1. \A i \in 1..(Len(q) - n) : n + i \in 1..Len(q)
    BY <1>1
  <2>. QED BY <1>1, <1>4, <1>5, <2>1 DEF ToSet
<1>10. ToSet(q) \subseteq ToSet(front) \cup ToSet(rest)
  <2>1. SUFFICES ASSUME NEW i \in 1..Len(q) PROVE q[i] \in ToSet(front) \cup ToSet(rest)
    BY <1>1 DEF ToSet
  <2>2. CASE i <= n
    <3>1. i \in 1..n
      BY <1>1, <2>2
    <3>. QED BY <1>3, <1>5, <3>1 DEF ToSet
  <2>3. CASE ~ i <= n
    <3>1. i - n \in 1..(Len(q) - n) /\ n + (i - n) = i
      BY <1>1, <2>3
    <3>2. rest[i - n] = q[i]
      BY <1>4, <3>1
    <3>. QED BY <1>5, <3>1, <3>2 DEF ToSet
  <2>. QED BY <2>2, <2>3
<1>11. ASSUME NEW x \in ToSet(front) \cap ToSet(rest) PROVE FALSE
  <2>1. PICK i \in 1..n : front[i] = x
    BY <1>5, <1>11 DEF ToSet
  <2>2. PICK j \in 1..(Len(q) - n) : rest[j] = x
    BY <1>5, <1>11 DEF ToSet
  <2>3. i \in 1..Len(q) /\ n + j \in 1..Len(q) /\ q[i] = q[n + j]
    BY <1>1, <1>3, <1>4, <2>1, <2>2
  <2>4. i = n + j
    BY <1>6, <2>3
  <2>. QED BY <1>1, <2>4
<1>. QED BY <1>3, <1>4, <1>7, <1>8, <1>9, <1>10, <1>11 DEF front, rest

-----------------------------------------------------------------------------
(* The steps.                                                               *)

\* The process has only read.
Elsewhere == UNCHANGED <<serverVars, settings, list, today, dbVars>>

\* The fields of the record of the sweep.
LEMMA Fields ==
  ASSUME sweep \in Sweeps, SettingsFit
  PROVE  /\ sweep.step \in {"idle", "count", "select", "search", "fetch", "upsert"}
         /\ sweep.mode \in {"none", "plan", "rebuild-index"}
         /\ sweep.n \in 0..Len(order) /\ sweep.known \in 0..(MaxUid + 1)
         /\ sweep.lo \in 1..(MaxUid + 1) /\ sweep.day \in Nat
         /\ sweep.uids \in Seq(Uids) /\ sweep.seen \in Seq([key : Keys, slot : Slots])
         /\ Len(order) \in Nat \ {0} /\ DOMAIN order = 1..Len(order)
         /\ \A i \in 1..Len(order) : order[i] \in Folders
         /\ \A i, j \in 1..Len(order) : order[i] = order[j] => i = j
<1>1. /\ order \in Seq(Folders) /\ order # <<>> /\ IsInjective(order)
  BY DEF SettingsFit
<1>2. Len(order) \in Nat \ {0} /\ DOMAIN order = 1..Len(order)
  BY <1>1, EmptySeq, LenProperties
<1>3. \A i \in 1..Len(order) : order[i] \in Folders
  BY <1>1, ElementOfSeq
<1>4. \A i, j \in 1..Len(order) : order[i] = order[j] => i = j
  BY <1>1, <1>2 DEF IsInjective
<1>. QED BY <1>2, <1>3, <1>4 DEF Sweeps

\* What was read: its records are records.
LEMMA SeenTypes ==
  ASSUME sweep \in Sweeps
  PROVE  /\ DOMAIN sweep.seen = 1..Len(sweep.seen) /\ Len(sweep.seen) \in Nat
         /\ \A i \in DOMAIN sweep.seen :
              /\ sweep.seen[i].key \in Keys /\ sweep.seen[i].slot \in Slots
<1>1. sweep.seen \in Seq([key : Keys, slot : Slots])
  BY DEF Sweeps
<1>2. DOMAIN sweep.seen = 1..Len(sweep.seen) /\ Len(sweep.seen) \in Nat
  BY <1>1, LenProperties
<1>3. \A i \in 1..Len(sweep.seen) : sweep.seen[i] \in [key : Keys, slot : Slots]
  BY <1>1, ElementOfSeq
<1>. QED BY <1>2, <1>3

\* The end of a window.
LEMMA Window_ ==
  ASSUME NEW lo \in Nat \ {0}, sweep.known \in Nat, lo < sweep.known
  PROVE  /\ WindowEnd(lo) \in Nat /\ lo <= WindowEnd(lo) /\ WindowEnd(lo) + 1 <= sweep.known
<1>. DEFINE S == {lo + Window - 1, sweep.known - 1}
<1>1. Window \in Nat \ {0}
  BY SurveyAssumption DEF SurveyAssumption
<1>2. lo + Window - 1 \in Nat /\ sweep.known - 1 \in Nat
  BY <1>1
<1>3. S \in SUBSET Nat /\ S # {}
  BY <1>2
<1>4. Min(S) \in S /\ Min(S) \in Nat /\ \A y \in S : Min(S) <= y
  <2>. HIDE DEF S
  <2>. QED BY <1>3, Lowest
<1>5. WindowEnd(lo) = Min(S)
  BY DEF WindowEnd
<1>6. Min(S) = lo + Window - 1 \/ Min(S) = sweep.known - 1
  BY <1>4
<1>7. lo <= Min(S)
  <2>. DEFINE m == Min(S)
  <2>1. m = lo + Window - 1 \/ m = sweep.known - 1
    BY <1>6
  <2>. HIDE DEF m
  <2>2. lo <= m
    BY <1>1, <2>1
  <2>. QED BY <2>2 DEF m
<1>8. Min(S) <= sweep.known - 1
  BY <1>4
<1>9. Min(S) + 1 <= sweep.known
  <2>. DEFINE m == Min(S)
  <2>1. m \in Nat /\ m <= sweep.known - 1
    BY <1>4, <1>8
  <2>. HIDE DEF m
  <2>2. m + 1 <= sweep.known
    BY <2>1
  <2>. QED BY <2>2 DEF m
<1>. QED BY <1>4, <1>5, <1>7, <1>9

\* A chunk takes at least one UID.
LEMMA Chunk ==
  ASSUME NEW L \in Nat \ {0}
  PROVE  Min({BatchSize, L}) \in 1..L
<1>. DEFINE S == {BatchSize, L}
<1>1. BatchSize \in Nat \ {0}
  BY SurveyAssumption DEF SurveyAssumption
<1>2. S \in SUBSET Nat /\ S # {} /\ \A y \in S : y >= 1
  BY <1>1
<1>3. Min(S) \in S /\ Min(S) \in Nat /\ \A y \in S : Min(S) <= y
  <2>. HIDE DEF S
  <2>. QED BY <1>2, Lowest
<1>4. Min(S) <= L /\ Min(S) >= 1
  BY <1>2, <1>3
<1>. QED BY <1>3, <1>4

\* UIDNEXT as it is reported is above the mail of the folder.
LEMMA ReportedAbove ==
  ASSUME ServerTypeOK, NothingAhead, NEW f \in Folders
  PROVE  /\ Reported(f) \in 0..(MaxUid + 1)
         /\ Reported(f) >= 2 =>
              \A s \in Slots : Occupied(s) /\ s[1] = f => s[2] < Reported(f)
<1>1. nextUid[f] \in 1..(MaxUid + 1) /\ MaxUid \in Nat
  BY UidBounds DEF ServerTypeOK
<1>2. Reported(f) \in 0..(MaxUid + 1)
  BY <1>1 DEF Reported
<1>3. ASSUME Reported(f) >= 2, NEW s \in Slots, Occupied(s), s[1] = f
      PROVE  s[2] < Reported(f)
  <2>1. Reported(f) = nextUid[f]
    BY <1>3 DEF Reported
  <2>2. ~ s[2] >= nextUid[s[1]]
    BY <1>3 DEF NothingAhead, Occupied
  <2>3. s[2] \in Nat
    BY SlotParts
  <2>. QED BY <1>1, <1>3, <2>1, <2>2, <2>3
<1>. QED BY <1>2, <1>3

\* What the process and its records keep to; each step of the work preserves it.
Together == SweepInPlace /\ NothingTwice /\ RecordsAreTrue /\ NothingMissed

LEMMA CountKeeps ==
  ASSUME SurveyInv, Count
  PROVE  Elsewhere /\ sweep' \in Sweeps /\ Together'
<1>1. /\ SurveyTypeOK /\ SettingsFit /\ NothingAhead /\ SweepInPlace /\ ServerTypeOK
      /\ sweep \in Sweeps
  BY DEF SurveyInv, SurveyTypeOK
<1>2. /\ Len(order) \in Nat \ {0} /\ \A i \in 1..Len(order) : order[i] \in Folders
      /\ sweep.n \in 0..Len(order)
  BY <1>1, Fields
<1>. DEFINE last == order[Len(order)]
<1>3. last \in Folders
  BY <1>2
<1>4. /\ Reported(last) \in 0..(MaxUid + 1)
      /\ Reported(last) >= 2 => \A s \in Slots : Occupied(s) /\ s[1] = last => s[2] < Reported(last)
  BY <1>1, <1>3, ReportedAbove
<1>5. sweep.step = "count" /\ Elsewhere
  BY DEF Count, Elsewhere
<1>6. sweep.lo = 1 /\ sweep.uids = <<>> /\ sweep.seen = <<>>
  BY <1>1, <1>5 DEF SweepInPlace
<1>7. sweep' = [sweep EXCEPT !.step = "select", !.n = 1, !.known = Reported(last)]
  BY DEF Count
<1>8. /\ sweep'.step = "select" /\ sweep'.n = 1 /\ sweep'.known = Reported(last)
      /\ sweep'.mode = sweep.mode /\ sweep'.lo = 1 /\ sweep'.uids = <<>> /\ sweep'.seen = <<>>
  BY <1>1, <1>6, <1>7 DEF Sweeps
<1>9. sweep' \in Sweeps
  <2>1. 1 \in 0..Len(order)
    BY <1>2
  <2>2. Reported(last) \in 0..(MaxUid + 1)
    BY <1>4
  <2>. HIDE DEF last
  <2>. QED BY <1>1, <1>7, <2>1, <2>2 DEF Sweeps
<1>10. /\ order' = order /\ box' = box /\ nextUid' = nextUid /\ touched' = touched
       /\ run' = run /\ messages' = messages
  BY <1>5 DEF Elsewhere, serverVars, settings, dbVars
<1>11. SweepInPlace'
  BY <1>1, <1>2, <1>5, <1>8, <1>10 DEF SweepInPlace
<1>12. NothingTwice'
  BY <1>8 DEF NothingTwice, IsInjective
<1>13. RecordsAreTrue'
  BY <1>8 DEF RecordsAreTrue
<1>14. NothingMissed'
  <2>1. SUFFICES ASSUME NEW s \in Slots, Still(s)'
                 PROVE  /\ \A j \in 1..(sweep'.n - 1) : order'[j] = s[1] => Read(s)'
                        /\ s[1] = Folder' /\ Len(order') = 1 /\ sweep'.known >= 2 =>
                             s[2] < sweep'.known
    BY <1>8 DEF NothingMissed
  <2>2. Occupied(s)
    BY <1>10, <2>1 DEF Still, Occupied
  <2>3. Folder' = order[1]
    BY <1>8, <1>10 DEF Folder
  <2>4. 1..(sweep'.n - 1) = {}
    BY <1>8
  <2>. QED BY <1>4, <1>8, <1>10, <2>2, <2>3, <2>4
<1>. QED BY <1>5, <1>9, <1>11, <1>12, <1>13, <1>14 DEF Together

LEMMA SelectKeeps ==
  ASSUME SurveyInv, Select
  PROVE  Elsewhere /\ sweep' \in Sweeps /\ Together'
<1>1. /\ SurveyTypeOK /\ SettingsFit /\ NothingAhead /\ SweepInPlace /\ ServerTypeOK
      /\ sweep \in Sweeps /\ NothingTwice /\ RecordsAreTrue /\ NothingMissed
  BY DEF SurveyInv, SurveyTypeOK
<1>2. sweep.step = "select" /\ Elsewhere
  BY DEF Select, Elsewhere
<1>3. sweep.n \in 1..Len(order) /\ sweep.uids = <<>> /\ run > 0
  BY <1>1, <1>2 DEF SweepInPlace
<1>4. /\ Len(order) \in Nat \ {0} /\ \A i \in 1..Len(order) : order[i] \in Folders
      /\ sweep.known \in 0..(MaxUid + 1)
  BY <1>1, Fields
<1>5. Folder \in Folders
  BY <1>3, <1>4 DEF Folder
<1>6. /\ Known \in 0..(MaxUid + 1)
      /\ Known >= 2 => \A s \in Slots : Still(s) /\ s[1] = Folder => s[2] < Known
  <2>1. /\ Reported(Folder) \in 0..(MaxUid + 1)
        /\ Reported(Folder) >= 2 =>
             \A s \in Slots : Occupied(s) /\ s[1] = Folder => s[2] < Reported(Folder)
    <3>1. \A f \in Folders :
            /\ Reported(f) \in 0..(MaxUid + 1)
            /\ Reported(f) >= 2 => \A s \in Slots : Occupied(s) /\ s[1] = f => s[2] < Reported(f)
      BY <1>1, ReportedAbove
    <3>. QED BY <1>5, <3>1
  <2>2. Len(order) = 1 /\ sweep.known >= 2 =>
          \A s \in Slots : Still(s) /\ s[1] = Folder => s[2] < sweep.known
    BY <1>1, <1>2 DEF NothingMissed
  <2>. QED BY <1>4, <2>1, <2>2 DEF Known, Still
<1>7. sweep' = [sweep EXCEPT !.step = "search", !.known = Known, !.lo = 1]
  BY DEF Select
<1>8. /\ sweep'.step = "search" /\ sweep'.n = sweep.n /\ sweep'.known = Known
      /\ sweep'.mode = sweep.mode /\ sweep'.lo = 1 /\ sweep'.uids = <<>> /\ sweep'.seen = sweep.seen
  BY <1>1, <1>3, <1>7 DEF Sweeps
<1>9. sweep' \in Sweeps
  <2>1. 1 \in 1..(MaxUid + 1)
    BY UidBounds
  <2>. QED BY <1>1, <1>6, <1>7, <2>1 DEF Sweeps
<1>10. /\ order' = order /\ box' = box /\ nextUid' = nextUid /\ touched' = touched
       /\ run' = run /\ messages' = messages
  BY <1>2 DEF Elsewhere, serverVars, settings, dbVars
<1>11. SweepInPlace'
  BY <1>1, <1>2, <1>3, <1>8, <1>10 DEF SweepInPlace
<1>12. Folder' = Folder
  BY <1>8, <1>10 DEF Folder
<1>13. NothingTwice'
  BY <1>1, <1>2, <1>8, <1>10, <1>12 DEF NothingTwice, IsInjective
<1>14. RecordsAreTrue'
  BY <1>1, <1>8, <1>10 DEF RecordsAreTrue
<1>15. NothingMissed'
  <2>1. SUFFICES ASSUME NEW s \in Slots, Still(s)'
                 PROVE  /\ \A j \in 1..(sweep'.n - 1) : order'[j] = s[1] => Read(s)'
                        /\ s[1] = Folder' /\ sweep'.known >= 2 =>
                             s[2] < sweep'.known /\ ~ s[2] < sweep'.lo
    BY <1>8 DEF NothingMissed
  <2>2. Still(s)
    BY <1>10, <2>1 DEF Still, Occupied
  <2>3. Read(s)' <=> Read(s)
    BY <1>8 DEF Read
  <2>4. ~ s[2] < 1
    <3>1. s[2] \in Uids
      BY SlotParts
    <3>. QED BY <3>1, UidBounds
  <2>. QED BY <1>1, <1>6, <1>8, <1>10, <1>12, <2>2, <2>3, <2>4 DEF NothingMissed
<1>. QED BY <1>2, <1>9, <1>11, <1>13, <1>14, <1>15 DEF Together

LEMMA SearchEndsKeeps ==
  ASSUME SurveyInv, SearchEnds
  PROVE  Elsewhere /\ sweep' \in Sweeps /\ Together'
<1>1. /\ SurveyTypeOK /\ SettingsFit /\ NothingAhead /\ SweepInPlace /\ ServerTypeOK
      /\ sweep \in Sweeps /\ NothingTwice /\ RecordsAreTrue /\ NothingMissed
  BY DEF SurveyInv, SurveyTypeOK
<1>2. sweep.step = "search" /\ Elsewhere /\ sweep.known >= 2 /\ ~ sweep.lo < sweep.known
  BY DEF SearchEnds, Elsewhere, More
<1>3. sweep.lo \in Nat /\ sweep.known \in Nat
  BY <1>1, Fields, UidBounds
<1>4. sweep' = [sweep EXCEPT !.step = "fetch"]
  BY DEF SearchEnds
<1>5. /\ sweep'.step = "fetch" /\ sweep'.n = sweep.n /\ sweep'.known = sweep.known
      /\ sweep'.mode = sweep.mode /\ sweep'.lo = sweep.lo /\ sweep'.uids = sweep.uids
      /\ sweep'.seen = sweep.seen
  BY <1>1, <1>4 DEF Sweeps
<1>6. sweep' \in Sweeps
  BY <1>1, <1>4 DEF Sweeps
<1>7. /\ order' = order /\ box' = box /\ nextUid' = nextUid /\ touched' = touched
      /\ run' = run /\ messages' = messages
  BY <1>2 DEF Elsewhere, serverVars, settings, dbVars
<1>8. Folder' = Folder
  BY <1>5, <1>7 DEF Folder
<1>9. SweepInPlace'
  BY <1>1, <1>2, <1>5, <1>7 DEF SweepInPlace
<1>10. NothingTwice'
  BY <1>1, <1>2, <1>5, <1>7, <1>8 DEF NothingTwice
<1>11. RecordsAreTrue'
  BY <1>1, <1>5, <1>7 DEF RecordsAreTrue
<1>12. NothingMissed'
  <2>1. SUFFICES ASSUME NEW s \in Slots, Still(s)'
                 PROVE  /\ \A j \in 1..(sweep'.n - 1) : order'[j] = s[1] => Read(s)'
                        /\ s[1] = Folder' => Read(s)' \/ s[2] \in ToSet(sweep'.uids)
    BY <1>5 DEF NothingMissed
  <2>2. Still(s) /\ s[2] \in Nat
    BY <1>7, <2>1, SlotParts DEF Still, Occupied
  <2>3. Read(s)' <=> Read(s)
    BY <1>5 DEF Read
  <2>4. s[1] = Folder => s[2] < sweep.known /\ (s[2] < sweep.lo => s[2] \in ToSet(sweep.uids))
    BY <1>1, <1>2, <2>2 DEF NothingMissed
  <2>5. s[1] = Folder => s[2] \in ToSet(sweep.uids)
    BY <1>2, <1>3, <2>2, <2>4
  <2>. QED BY <1>1, <1>5, <1>7, <1>8, <2>2, <2>3, <2>5 DEF NothingMissed
<1>. QED BY <1>2, <1>6, <1>9, <1>10, <1>11, <1>12 DEF Together

LEMMA SearchAllKeeps ==
  ASSUME SurveyInv, SearchAll
  PROVE  Elsewhere /\ sweep' \in Sweeps /\ Together'
<1>. DEFINE all == Found(1, MaxUid)
<1>1. /\ SurveyTypeOK /\ SettingsFit /\ NothingAhead /\ SweepInPlace /\ ServerTypeOK
      /\ sweep \in Sweeps /\ NothingTwice /\ RecordsAreTrue /\ NothingMissed
  BY DEF SurveyInv, SurveyTypeOK
<1>2. sweep.step = "search" /\ Elsewhere
  BY DEF SearchAll, Elsewhere
<1>3. sweep.n \in 1..Len(order)
  BY <1>1, <1>2 DEF SweepInPlace
<1>4. /\ all \in Seq(Uids) /\ DOMAIN all = 1..Len(all) /\ IsInjective(all)
      /\ \A u \in 1..MaxUid : Occupied(<<Folder, u>>) => \E i \in DOMAIN all : all[i] = u
  <2>1. 1 \in Nat \ {0} /\ MaxUid \in Nat /\ MaxUid <= MaxUid
    BY UidBounds
  <2>. QED BY <1>3, <2>1, FoundMail
<1>5. sweep' = [sweep EXCEPT !.step = "fetch", !.uids = all]
  BY DEF SearchAll
<1>. HIDE DEF all
<1>6. /\ sweep'.step = "fetch" /\ sweep'.n = sweep.n /\ sweep'.known = sweep.known
      /\ sweep'.mode = sweep.mode /\ sweep'.lo = sweep.lo /\ sweep'.uids = all
      /\ sweep'.seen = sweep.seen
  BY <1>1, <1>5 DEF Sweeps
<1>7. sweep' \in Sweeps
  BY <1>1, <1>4, <1>5 DEF Sweeps
<1>8. /\ order' = order /\ box' = box /\ nextUid' = nextUid /\ touched' = touched
      /\ run' = run /\ messages' = messages
  BY <1>2 DEF Elsewhere, serverVars, settings, dbVars
<1>9. Folder' = Folder
  BY <1>6, <1>8 DEF Folder
<1>10. SweepInPlace'
  BY <1>1, <1>2, <1>6, <1>8 DEF SweepInPlace
<1>11. NothingTwice'
  BY <1>1, <1>2, <1>4, <1>6, <1>8, <1>9 DEF NothingTwice
<1>12. RecordsAreTrue'
  BY <1>1, <1>6, <1>8 DEF RecordsAreTrue
<1>13. NothingMissed'
  <2>1. SUFFICES ASSUME NEW s \in Slots, Still(s)'
                 PROVE  /\ \A j \in 1..(sweep'.n - 1) : order'[j] = s[1] => Read(s)'
                        /\ s[1] = Folder' => Read(s)' \/ s[2] \in ToSet(sweep'.uids)
    BY <1>6 DEF NothingMissed
  <2>2. Still(s) /\ s = <<s[1], s[2]>> /\ s[2] \in 1..MaxUid
    BY <1>8, <2>1, SlotParts DEF Still, Occupied, Uids
  <2>3. Read(s)' <=> Read(s)
    BY <1>6 DEF Read
  <2>4. s[1] = Folder => s[2] \in ToSet(all)
    BY <1>4, <2>2 DEF ToSet, Still
  <2>. QED BY <1>1, <1>6, <1>8, <1>9, <2>2, <2>3, <2>4 DEF NothingMissed
<1>. QED BY <1>2, <1>7, <1>10, <1>11, <1>12, <1>13 DEF Together

LEMMA SearchWindowKeeps ==
  ASSUME SurveyInv, SearchWindow
  PROVE  Elsewhere /\ sweep' \in Sweeps /\ Together'
<1>. DEFINE lo == sweep.lo  hi == WindowEnd(sweep.lo)  new == Found(sweep.lo, hi)
            both == sweep.uids \o Found(sweep.lo, hi)
<1>1. /\ SurveyTypeOK /\ SettingsFit /\ NothingAhead /\ SweepInPlace /\ ServerTypeOK
      /\ sweep \in Sweeps /\ NothingTwice /\ RecordsAreTrue /\ NothingMissed
  BY DEF SurveyInv, SurveyTypeOK
<1>2. sweep.step = "search" /\ Elsewhere /\ sweep.known >= 2 /\ lo < sweep.known
  BY DEF SearchWindow, Elsewhere, More
<1>3. sweep.n \in 1..Len(order)
  BY <1>1, <1>2 DEF SweepInPlace
<1>4. /\ lo \in Nat \ {0} /\ sweep.known \in Nat /\ sweep.known <= MaxUid + 1 /\ MaxUid \in Nat
      /\ sweep.uids \in Seq(Uids) /\ DOMAIN sweep.uids = 1..Len(sweep.uids)
  BY <1>1, Fields, UidBounds, LenProperties
<1>5. hi \in Nat /\ lo <= hi /\ hi + 1 <= sweep.known
  BY <1>2, <1>4, Window_
<1>6. /\ new \in Seq(Uids) /\ DOMAIN new = 1..Len(new) /\ IsInjective(new)
      /\ \A i \in DOMAIN new : lo <= new[i] /\ new[i] <= hi
      /\ \A u \in lo..hi : Occupied(<<Folder, u>>) => \E i \in DOMAIN new : new[i] = u
  <2>1. hi <= MaxUid
    BY <1>4, <1>5
  <2>. HIDE DEF hi
  <2>. QED BY <1>3, <1>4, <1>5, <2>1, FoundMail
<1>7. sweep' = [sweep EXCEPT !.uids = both, !.lo = hi + 1]
  BY DEF SearchWindow, AfterWindow
<1>8. both = sweep.uids \o new
  OBVIOUS
<1>. HIDE DEF lo, hi, new, both
<1>9. /\ sweep'.step = "search" /\ sweep'.n = sweep.n /\ sweep'.known = sweep.known
      /\ sweep'.mode = sweep.mode /\ sweep'.lo = hi + 1 /\ sweep'.uids = both
      /\ sweep'.seen = sweep.seen
  BY <1>1, <1>2, <1>7 DEF Sweeps
<1>10. /\ both \in Seq(Uids)
       /\ \A i \in DOMAIN both :
            \/ i \in DOMAIN sweep.uids /\ both[i] = sweep.uids[i]
            \/ i - Len(sweep.uids) \in DOMAIN new /\ both[i] = new[i - Len(sweep.uids)]
       /\ \A i \in DOMAIN sweep.uids : i \in DOMAIN both /\ both[i] = sweep.uids[i]
       /\ \A i \in DOMAIN new :
            Len(sweep.uids) + i \in DOMAIN both /\ both[Len(sweep.uids) + i] = new[i]
  <2>. DEFINE q == sweep.uids
  <2>1. q \in Seq(Uids) /\ new \in Seq(Uids) /\ both = q \o new
    BY <1>4, <1>6, <1>8
  <2>. HIDE DEF q
  <2>2. /\ q \o new \in Seq(Uids)
        /\ \A i \in DOMAIN (q \o new) :
             \/ i \in DOMAIN q /\ (q \o new)[i] = q[i]
             \/ i - Len(q) \in DOMAIN new /\ (q \o new)[i] = new[i - Len(q)]
        /\ \A i \in DOMAIN q : i \in DOMAIN (q \o new) /\ (q \o new)[i] = q[i]
        /\ \A i \in DOMAIN new :
             Len(q) + i \in DOMAIN (q \o new) /\ (q \o new)[Len(q) + i] = new[i]
    BY <2>1, Joined
  <2>. QED BY <2>1, <2>2 DEF q
<1>11. sweep' \in Sweeps
  <2>1. hi + 1 \in 1..(MaxUid + 1)
    BY <1>4, <1>5
  <2>. QED BY <1>1, <1>7, <1>10, <2>1 DEF Sweeps
<1>12. /\ order' = order /\ box' = box /\ nextUid' = nextUid /\ touched' = touched
       /\ run' = run /\ messages' = messages
  BY <1>2 DEF Elsewhere, serverVars, settings, dbVars
<1>13. Folder' = Folder
  BY <1>9, <1>12 DEF Folder
<1>14. SweepInPlace'
  BY <1>1, <1>2, <1>5, <1>9, <1>12 DEF SweepInPlace
<1>15. /\ \A i \in DOMAIN sweep.uids : sweep.uids[i] \in Nat /\ sweep.uids[i] < lo
       /\ \A i, j \in DOMAIN sweep.uids : sweep.uids[i] = sweep.uids[j] => i = j
       /\ \A i \in DOMAIN new : new[i] \in Nat
       /\ \A i, j \in DOMAIN new : new[i] = new[j] => i = j
  <2>1. \A i \in DOMAIN sweep.uids : sweep.uids[i] \in Uids
    BY <1>4, ElementOfSeq
  <2>2. \A i \in DOMAIN new : new[i] \in Uids
    BY <1>6, ElementOfSeq
  <2>3. \A i \in DOMAIN sweep.uids : sweep.uids[i] < lo
    BY <1>1, <1>2 DEF NothingTwice, lo
  <2>4. IsInjective(sweep.uids)
    BY <1>1 DEF NothingTwice
  <2>. QED BY <1>6, <2>1, <2>2, <2>3, <2>4, UidBounds DEF IsInjective
<1>16. \A i \in DOMAIN both : both[i] \in Nat /\ both[i] < hi + 1
  <2>1. SUFFICES ASSUME NEW i \in DOMAIN both PROVE both[i] \in Nat /\ both[i] < hi + 1
    OBVIOUS
  <2>2. CASE i \in DOMAIN sweep.uids /\ both[i] = sweep.uids[i]
    <3>1. sweep.uids[i] \in Nat /\ sweep.uids[i] < lo
      BY <1>15, <2>2
    <3>2. sweep.uids[i] < hi + 1
      BY <1>4, <1>5, <3>1
    <3>. QED BY <2>2, <3>1, <3>2
  <2>3. CASE i - Len(sweep.uids) \in DOMAIN new /\ both[i] = new[i - Len(sweep.uids)]
    <3>1. both[i] \in Nat /\ both[i] <= hi
      BY <1>6, <1>15, <2>3
    <3>2. both[i] < hi + 1
      BY <1>5, <3>1
    <3>. QED BY <3>1, <3>2
  <2>. QED BY <1>10, <2>2, <2>3
<1>17. IsInjective(both)
  <2>1. SUFFICES ASSUME NEW i \in DOMAIN both, NEW j \in DOMAIN both, both[i] = both[j]
                 PROVE  i = j
    BY DEF IsInjective
  <2>2. i \in Nat /\ j \in Nat /\ Len(sweep.uids) \in Nat
    BY <1>4, <1>10, LenProperties
  <2>3. ASSUME NEW a \in DOMAIN sweep.uids, NEW b \in DOMAIN new, sweep.uids[a] = new[b]
        PROVE  FALSE
    <3>1. sweep.uids[a] \in Nat /\ sweep.uids[a] < lo /\ lo <= new[b]
      BY <1>6, <1>15
    <3>. QED BY <1>4, <2>3, <3>1
  <2>4. CASE i \in DOMAIN sweep.uids /\ both[i] = sweep.uids[i]
    <3>1. CASE j \in DOMAIN sweep.uids /\ both[j] = sweep.uids[j]
      BY <1>15, <2>1, <2>4, <3>1
    <3>2. CASE j - Len(sweep.uids) \in DOMAIN new /\ both[j] = new[j - Len(sweep.uids)]
      BY <2>1, <2>3, <2>4, <3>2
    <3>. QED BY <1>10, <3>1, <3>2
  <2>5. CASE i - Len(sweep.uids) \in DOMAIN new /\ both[i] = new[i - Len(sweep.uids)]
    <3>1. CASE j \in DOMAIN sweep.uids /\ both[j] = sweep.uids[j]
      BY <2>1, <2>3, <2>5, <3>1
    <3>2. CASE j - Len(sweep.uids) \in DOMAIN new /\ both[j] = new[j - Len(sweep.uids)]
      <4>1. i - Len(sweep.uids) = j - Len(sweep.uids)
        BY <1>15, <2>1, <2>5, <3>2
      <4>. QED BY <2>2, <4>1
    <3>. QED BY <1>10, <3>1, <3>2
  <2>. QED BY <1>10, <2>4, <2>5
<1>18. NothingTwice'
  <2>1. \A i \in DOMAIN sweep.seen : sweep.seen[i].slot[1] # Folder
    BY <1>1, <1>2 DEF NothingTwice
  <2>. QED BY <1>1, <1>9, <1>12, <1>13, <1>16, <1>17, <2>1 DEF NothingTwice
<1>19. RecordsAreTrue'
  BY <1>1, <1>9, <1>12 DEF RecordsAreTrue
<1>20. NothingMissed'
  <2>1. SUFFICES ASSUME NEW s \in Slots, Still(s)'
                 PROVE  /\ \A j \in 1..(sweep'.n - 1) : order'[j] = s[1] => Read(s)'
                        /\ s[1] = Folder' =>
                             s[2] < sweep'.known /\ (s[2] < sweep'.lo => s[2] \in ToSet(sweep'.uids))
    BY <1>9 DEF NothingMissed
  <2>2. Still(s) /\ s = <<s[1], s[2]>> /\ s[2] \in Nat
    BY <1>12, <2>1, SlotParts DEF Still, Occupied
  <2>3. Read(s)' <=> Read(s)
    BY <1>9 DEF Read
  <2>4. s[1] = Folder => s[2] < sweep.known /\ (s[2] < lo => s[2] \in ToSet(sweep.uids))
    BY <1>1, <1>2, <2>2 DEF NothingMissed, lo
  <2>5. ToSet(sweep.uids) \subseteq ToSet(both)
    BY <1>10 DEF ToSet
  <2>6. ASSUME s[1] = Folder, s[2] < hi + 1, ~ s[2] < lo PROVE s[2] \in ToSet(both)
    <3>1. s[2] \in lo..hi
      BY <1>4, <1>5, <2>2, <2>6
    <3>2. Occupied(<<Folder, s[2]>>)
      BY <2>2, <2>6 DEF Still
    <3>3. PICK i \in DOMAIN new : new[i] = s[2]
      BY <1>6, <3>1, <3>2
    <3>. QED BY <1>10, <3>3 DEF ToSet
  <2>7. \A j \in 1..(sweep.n - 1) : order[j] = s[1] => Read(s)
    BY <1>1, <2>2 DEF NothingMissed
  <2>. QED BY <1>9, <1>12, <1>13, <2>3, <2>4, <2>5, <2>6, <2>7
<1>. QED BY <1>2, <1>11, <1>14, <1>18, <1>19, <1>20 DEF Together

LEMMA FetchChunkKeeps ==
  ASSUME SurveyInv, FetchChunk
  PROVE  Elsewhere /\ sweep' \in Sweeps /\ Together'
<1>. DEFINE q == sweep.uids
            m == Min({BatchSize, Len(sweep.uids)})
            front == SubSeq(sweep.uids, 1, m)
            rest == SubSeq(sweep.uids, m + 1, Len(sweep.uids))
            new == Fetched(front)
            old == sweep.seen
            both == sweep.seen \o Fetched(front)
            R == [key : Keys, slot : Slots]
<1>1. /\ SurveyTypeOK /\ SettingsFit /\ NothingAhead /\ SweepInPlace /\ ServerTypeOK
      /\ sweep \in Sweeps /\ NothingTwice /\ RecordsAreTrue /\ NothingMissed
  BY DEF SurveyInv, SurveyTypeOK
<1>2. sweep.step = "fetch" /\ Elsewhere /\ q # <<>>
  BY DEF FetchChunk, Elsewhere
<1>3. sweep.n \in 1..Len(order) /\ sweep.n \in Nat
  BY <1>1, <1>2, Fields DEF SweepInPlace
<1>4. q \in Seq(Uids) /\ old \in Seq(R) /\ IsInjective(q)
  BY <1>1, Fields DEF NothingTwice
<1>5. Folder \in Folders
  BY <1>1, <1>3, Fields DEF Folder
<1>6. m \in 1..Len(q)
  <2>1. Len(q) \in Nat \ {0}
    BY <1>2, <1>4, EmptySeq
  <2>. QED BY <2>1, Chunk
<1>7. sweep' = [sweep EXCEPT !.uids = rest, !.seen = both]
  BY DEF FetchChunk
<1>8. both = old \o new /\ new = Fetched(front)
  OBVIOUS
<1>9. /\ front \in Seq(Uids) /\ rest \in Seq(Uids) /\ IsInjective(rest)
      /\ ToSet(q) = ToSet(front) \cup ToSet(rest)
      /\ ToSet(front) \cap ToSet(rest) = {}
  <2>1. m \in 0..Len(q)
    BY <1>6
  <2>. HIDE DEF m
  <2>. QED BY <1>4, <2>1, Cut
<1>. HIDE DEF m, q, front, rest, new, old, both, R
<1>10. /\ new \in Seq(R)
       /\ \A i \in DOMAIN new :
            /\ new[i].slot[1] = Folder /\ new[i].slot[2] \in ToSet(front)
            /\ new[i].key = box[new[i].slot]
       /\ \A i, j \in DOMAIN new : new[i].slot = new[j].slot => i = j
       /\ \A u \in ToSet(front) : Occupied(<<Folder, u>>) =>
            \E i \in DOMAIN new : new[i].slot = <<Folder, u>>
  <2>1. /\ Fetched(front) \in Seq([key : Keys, slot : Slots])
        /\ \A i \in DOMAIN Fetched(front) :
             /\ Fetched(front)[i].slot[1] = Folder
             /\ Fetched(front)[i].slot[2] \in ToSet(front)
             /\ Fetched(front)[i].key = box[Fetched(front)[i].slot]
        /\ \A i, j \in DOMAIN Fetched(front) :
             Fetched(front)[i].slot = Fetched(front)[j].slot => i = j
        /\ \A u \in ToSet(front) : Occupied(<<Folder, u>>) =>
             \E i \in DOMAIN Fetched(front) : Fetched(front)[i].slot = <<Folder, u>>
    BY <1>1, <1>5, <1>9, FetchedMail
  <2>. QED BY <1>8, <2>1 DEF R
<1>11. /\ both \in Seq(R)
       /\ \A i \in DOMAIN both :
            \/ i \in DOMAIN old /\ both[i] = old[i]
            \/ i - Len(old) \in DOMAIN new /\ both[i] = new[i - Len(old)]
       /\ \A i \in DOMAIN old : i \in DOMAIN both /\ both[i] = old[i]
       /\ \A i \in DOMAIN new : Len(old) + i \in DOMAIN both /\ both[Len(old) + i] = new[i]
  BY <1>4, <1>8, <1>10, Joined
<1>12. /\ sweep'.step = "fetch" /\ sweep'.n = sweep.n /\ sweep'.known = sweep.known
       /\ sweep'.mode = sweep.mode /\ sweep'.lo = sweep.lo /\ sweep'.uids = rest
       /\ sweep'.seen = both
  BY <1>1, <1>2, <1>7 DEF Sweeps
<1>13. sweep' \in Sweeps
  BY <1>1, <1>7, <1>9, <1>11 DEF Sweeps, R
<1>14. /\ order' = order /\ box' = box /\ nextUid' = nextUid /\ touched' = touched
       /\ run' = run /\ messages' = messages
  BY <1>2 DEF Elsewhere, serverVars, settings, dbVars
<1>15. Folder' = Folder
  BY <1>12, <1>14 DEF Folder
<1>16. SweepInPlace'
  BY <1>1, <1>2, <1>12, <1>14 DEF SweepInPlace
<1>17. /\ \A i \in DOMAIN old : \E j \in 1..sweep.n : order[j] = old[i].slot[1]
       /\ \A i \in DOMAIN old : old[i].slot[1] = Folder => old[i].slot[2] \notin ToSet(q)
       /\ \A i, j \in DOMAIN old : old[i].slot = old[j].slot => i = j
  BY <1>1 DEF NothingTwice, q, old
<1>18. \A i, j \in DOMAIN both : both[i].slot = both[j].slot => i = j
  <2>1. SUFFICES ASSUME NEW i \in DOMAIN both, NEW j \in DOMAIN both, both[i].slot = both[j].slot
                 PROVE  i = j
    OBVIOUS
  <2>2. i \in Nat /\ j \in Nat /\ Len(old) \in Nat
    BY <1>4, <1>11, LenProperties
  <2>3. ASSUME NEW a \in DOMAIN old, NEW b \in DOMAIN new, old[a].slot = new[b].slot
        PROVE  FALSE
    BY <1>9, <1>10, <1>17, <2>3
  <2>4. CASE i \in DOMAIN old /\ both[i] = old[i]
    <3>1. CASE j \in DOMAIN old /\ both[j] = old[j]
      BY <1>17, <2>1, <2>4, <3>1
    <3>2. CASE j - Len(old) \in DOMAIN new /\ both[j] = new[j - Len(old)]
      BY <2>1, <2>3, <2>4, <3>2
    <3>. QED BY <1>11, <3>1, <3>2
  <2>5. CASE i - Len(old) \in DOMAIN new /\ both[i] = new[i - Len(old)]
    <3>1. CASE j \in DOMAIN old /\ both[j] = old[j]
      BY <2>1, <2>3, <2>5, <3>1
    <3>2. CASE j - Len(old) \in DOMAIN new /\ both[j] = new[j - Len(old)]
      <4>1. i - Len(old) = j - Len(old)
        BY <1>10, <2>1, <2>5, <3>2
      <4>. QED BY <2>2, <4>1
    <3>. QED BY <1>11, <3>1, <3>2
  <2>. QED BY <1>11, <2>4, <2>5
<1>19. \A i \in DOMAIN both :
         /\ \E j \in 1..sweep.n : order[j] = both[i].slot[1]
         /\ both[i].slot[1] = Folder => both[i].slot[2] \notin ToSet(rest)
  <2>1. SUFFICES ASSUME NEW i \in DOMAIN both
                 PROVE  /\ \E j \in 1..sweep.n : order[j] = both[i].slot[1]
                        /\ both[i].slot[1] = Folder => both[i].slot[2] \notin ToSet(rest)
    OBVIOUS
  <2>2. CASE i \in DOMAIN old /\ both[i] = old[i]
    BY <1>9, <1>17, <2>2
  <2>3. CASE i - Len(old) \in DOMAIN new /\ both[i] = new[i - Len(old)]
    <3>1. sweep.n \in 1..sweep.n /\ order[sweep.n] = Folder
      BY <1>3 DEF Folder
    <3>2. both[i].slot[1] = Folder /\ both[i].slot[2] \in ToSet(front)
      BY <1>10, <2>3
    <3>. QED BY <1>9, <3>1, <3>2
  <2>. QED BY <1>11, <2>2, <2>3
<1>20. NothingTwice'
  BY <1>9, <1>12, <1>14, <1>15, <1>18, <1>19 DEF NothingTwice
<1>21. RecordsAreTrue'
  <2>1. SUFFICES ASSUME NEW i \in DOMAIN both
                 PROVE  /\ both[i].slot[2] < nextUid[both[i].slot[1]]
                        /\ box[both[i].slot] \in {both[i].key, NoKey}
                        /\ both[i].key \notin touched => box[both[i].slot] = both[i].key
    BY <1>12, <1>14 DEF RecordsAreTrue
  <2>2. CASE i \in DOMAIN old /\ both[i] = old[i]
    BY <1>1, <2>2 DEF RecordsAreTrue, old
  <2>3. CASE i - Len(old) \in DOMAIN new /\ both[i] = new[i - Len(old)]
    <3>1. both[i].key = box[both[i].slot]
      BY <1>10, <2>3
    <3>2. both[i] \in R
      BY <1>11, LenProperties, ElementOfSeq
    <3>3. both[i].slot \in Slots /\ both[i].key \in Keys
      BY <3>2 DEF R
    <3>4. ~ both[i].slot[2] >= nextUid[both[i].slot[1]]
      BY <1>1, <3>1, <3>3, ServerAssumption DEF NothingAhead, ServerAssumption
    <3>5. both[i].slot[2] \in Nat /\ nextUid[both[i].slot[1]] \in Nat
      <4>1. \A f \in Folders : nextUid[f] \in 1..(MaxUid + 1)
        BY <1>1 DEF ServerTypeOK
      <4>2. both[i].slot[1] \in Folders /\ both[i].slot[2] \in Nat
        BY <3>3, SlotParts
      <4>. QED BY <4>1, <4>2, UidBounds
    <3>6. both[i].slot[2] < nextUid[both[i].slot[1]]
      BY <3>4, <3>5
    <3>. QED BY <3>1, <3>6
  <2>. QED BY <1>11, <2>2, <2>3
<1>22. NothingMissed'
  <2>1. SUFFICES ASSUME NEW s \in Slots, Still(s)'
                 PROVE  /\ \A j \in 1..(sweep'.n - 1) : order'[j] = s[1] => Read(s)'
                        /\ s[1] = Folder' => Read(s)' \/ s[2] \in ToSet(sweep'.uids)
    BY <1>12 DEF NothingMissed
  <2>2. Still(s) /\ s = <<s[1], s[2]>>
    BY <1>14, <2>1, SlotParts DEF Still, Occupied
  <2>3. Read(s)' <=> \E i \in DOMAIN both : both[i].slot = s
    BY <1>12 DEF Read
  <2>4. Read(s) => Read(s)'
    BY <1>11, <2>3 DEF Read, old
  <2>5. /\ \A j \in 1..(sweep.n - 1) : order[j] = s[1] => Read(s)
        /\ s[1] = Folder => Read(s) \/ s[2] \in ToSet(q)
    BY <1>1, <1>2, <2>2 DEF NothingMissed, q
  <2>6. ASSUME s[1] = Folder, s[2] \in ToSet(front) PROVE Read(s)'
    <3>1. Occupied(<<Folder, s[2]>>)
      BY <2>2, <2>6 DEF Still
    <3>2. PICK i \in DOMAIN new : new[i].slot = <<Folder, s[2]>>
      BY <1>10, <2>6, <3>1
    <3>3. Len(old) + i \in DOMAIN both /\ both[Len(old) + i].slot = s
      BY <1>11, <2>2, <2>6, <3>2
    <3>. QED BY <2>3, <3>3
  <2>. QED BY <1>9, <1>12, <1>14, <1>15, <2>4, <2>5, <2>6
<1>. QED BY <1>2, <1>13, <1>16, <1>20, <1>21, <1>22 DEF Together

LEMMA FolderDoneKeeps ==
  ASSUME SurveyInv, FolderDone
  PROVE  Elsewhere /\ sweep' \in Sweeps /\ Together'
<1>1. /\ SurveyTypeOK /\ SettingsFit /\ NothingAhead /\ SweepInPlace /\ ServerTypeOK
      /\ sweep \in Sweeps /\ NothingTwice /\ RecordsAreTrue /\ NothingMissed
  BY DEF SurveyInv, SurveyTypeOK
<1>2. sweep.step = "fetch" /\ Elsewhere /\ sweep.uids = <<>>
  BY DEF FolderDone, Elsewhere
<1>3. sweep.n \in 1..Len(order) /\ sweep.n \in Nat /\ Len(order) \in Nat
  BY <1>1, <1>2, Fields DEF SweepInPlace
<1>4. \A i, j \in 1..Len(order) : order[i] = order[j] => i = j
  BY <1>1, Fields
<1>5. /\ order' = order /\ box' = box /\ nextUid' = nextUid /\ touched' = touched
      /\ run' = run /\ messages' = messages
  BY <1>2 DEF Elsewhere, serverVars, settings, dbVars
<1>6. \A s \in Slots : Still(s) =>
        \A j \in 1..sweep.n : order[j] = s[1] => Read(s)
  <2>1. SUFFICES ASSUME NEW s \in Slots, Still(s), NEW j \in 1..sweep.n, order[j] = s[1]
                 PROVE  Read(s)
    OBVIOUS
  <2>2. CASE j = sweep.n
    <3>1. Read(s) \/ s[2] \in ToSet(sweep.uids)
      BY <1>1, <1>2, <2>1, <2>2 DEF NothingMissed, Folder
    <3>2. ToSet(sweep.uids) = {}
      BY <1>2 DEF ToSet
    <3>. QED BY <3>1, <3>2
  <2>3. CASE j # sweep.n
    <3>1. j \in 1..(sweep.n - 1)
      BY <1>3, <2>3
    <3>. QED BY <1>1, <2>1, <3>1 DEF NothingMissed
  <2>. QED BY <2>2, <2>3
<1>7. CASE sweep.n < Len(order)
  <2>1. sweep' = [sweep EXCEPT !.step = "select", !.n = sweep.n + 1]
    BY <1>7 DEF FolderDone
  <2>2. /\ sweep'.step = "select" /\ sweep'.n = sweep.n + 1 /\ sweep'.known = sweep.known
        /\ sweep'.mode = sweep.mode /\ sweep'.lo = sweep.lo /\ sweep'.uids = <<>>
        /\ sweep'.seen = sweep.seen
    BY <1>1, <1>2, <2>1 DEF Sweeps
  <2>3. sweep.n + 1 \in 1..Len(order) /\ sweep.n + 1 \in 0..Len(order)
    BY <1>3, <1>7
  <2>4. sweep' \in Sweeps
    BY <1>1, <2>1, <2>3 DEF Sweeps
  <2>5. SweepInPlace'
    BY <1>1, <1>2, <1>5, <2>2, <2>3 DEF SweepInPlace
  <2>6. \A i \in DOMAIN sweep.seen :
          /\ \E j \in 1..(sweep.n + 1) : order[j] = sweep.seen[i].slot[1]
          /\ sweep.seen[i].slot[1] # order[sweep.n + 1]
    <3>1. SUFFICES ASSUME NEW i \in DOMAIN sweep.seen
                   PROVE  /\ \E j \in 1..(sweep.n + 1) : order[j] = sweep.seen[i].slot[1]
                          /\ sweep.seen[i].slot[1] # order[sweep.n + 1]
      OBVIOUS
    <3>2. PICK j \in 1..sweep.n : order[j] = sweep.seen[i].slot[1]
      BY <1>1 DEF NothingTwice
    <3>3. j \in 1..(sweep.n + 1) /\ j \in 1..Len(order) /\ j # sweep.n + 1
      BY <1>3
    <3>. QED BY <1>4, <2>3, <3>2, <3>3
  <2>7. NothingTwice'
    BY <1>1, <1>5, <2>2, <2>6 DEF NothingTwice, Folder, IsInjective
  <2>8. RecordsAreTrue'
    BY <1>1, <1>5, <2>2 DEF RecordsAreTrue
  <2>9. NothingMissed'
    <3>1. SUFFICES ASSUME NEW s \in Slots, Still(s)'
                   PROVE  /\ \A j \in 1..(sweep'.n - 1) : order'[j] = s[1] => Read(s)'
                          /\ Len(order') # 1
      BY <2>2 DEF NothingMissed
    <3>2. Still(s)
      BY <1>5, <3>1 DEF Still, Occupied
    <3>3. Read(s)' <=> Read(s)
      BY <2>2 DEF Read
    <3>4. Len(order) # 1
      <4>1. \A a, b \in Nat : 1 <= a /\ a < b => b # 1
        OBVIOUS
      <4>2. 1 <= sweep.n
        BY <1>3
      <4>. QED BY <1>3, <1>7, <4>1, <4>2
    <3>5. 1..(sweep'.n - 1) = 1..sweep.n
      BY <1>3, <2>2
    <3>. QED BY <1>5, <1>6, <3>2, <3>3, <3>4, <3>5
  <2>. QED BY <1>2, <2>4, <2>5, <2>7, <2>8, <2>9 DEF Together
<1>8. CASE ~ sweep.n < Len(order)
  <2>1. sweep' = [sweep EXCEPT !.step = "upsert"]
    BY <1>8 DEF FolderDone
  <2>2. /\ sweep'.step = "upsert" /\ sweep'.n = sweep.n /\ sweep'.known = sweep.known
        /\ sweep'.mode = sweep.mode /\ sweep'.lo = sweep.lo /\ sweep'.uids = <<>>
        /\ sweep'.seen = sweep.seen
    BY <1>1, <1>2, <2>1 DEF Sweeps
  <2>3. sweep.n = Len(order)
    BY <1>3, <1>8
  <2>4. sweep' \in Sweeps
    BY <1>1, <2>1 DEF Sweeps
  <2>5. SweepInPlace'
    BY <1>1, <1>2, <1>3, <1>5, <2>2, <2>3 DEF SweepInPlace
  <2>6. Folder' = Folder
    BY <1>5, <2>2 DEF Folder
  <2>7. NothingTwice'
    BY <1>1, <1>2, <1>5, <2>2, <2>6 DEF NothingTwice, IsInjective
  <2>8. RecordsAreTrue'
    BY <1>1, <1>5, <2>2 DEF RecordsAreTrue
  <2>9. NothingMissed'
    <3>1. SUFFICES ASSUME NEW s \in Slots, Still(s)'
                   PROVE  /\ \A j \in 1..(sweep'.n - 1) : order'[j] = s[1] => Read(s)'
                          /\ s[1] = Folder' => Read(s)'
      BY <2>2 DEF NothingMissed
    <3>2. Still(s)
      BY <1>5, <3>1 DEF Still, Occupied
    <3>3. Read(s)' <=> Read(s)
      BY <2>2 DEF Read
    <3>4. \A j \in 1..(sweep.n - 1) : j \in 1..sweep.n
      BY <1>3
    <3>5. sweep.n \in 1..sweep.n
      BY <1>3
    <3>. QED BY <1>5, <1>6, <2>2, <2>6, <3>2, <3>3, <3>4, <3>5 DEF Folder
  <2>. QED BY <1>2, <2>4, <2>5, <2>7, <2>8, <2>9 DEF Together
<1>. QED BY <1>7, <1>8

\* The work on a folder leaves the rest of the invariant as it is.
LEMMA ReadingKeeps ==
  ASSUME SurveyInv, Elsewhere, sweep' \in Sweeps, Together'
  PROVE  SurveyInv'
<1>1. /\ SurveyTypeOK /\ SettingsFit /\ NothingAhead
  BY DEF SurveyInv
<1>2. /\ order' = order /\ reports' = reports /\ lastRun' = lastRun /\ list' = list
      /\ today' = today /\ run' = run /\ messages' = messages
      /\ UNCHANGED serverVars
  BY DEF Elsewhere, settings, dbVars
<1>3. ServerTypeOK' /\ NothingAhead'
  BY <1>1, <1>2 DEF SurveyTypeOK, ServerTypeOK, NothingAhead, serverVars
<1>4. Sweeps' = Sweeps
  BY <1>2 DEF Sweeps
<1>5. SurveyTypeOK'
  BY <1>1, <1>2, <1>3, <1>4 DEF SurveyTypeOK
<1>6. SettingsFit'
  BY <1>1, <1>2 DEF SettingsFit
<1>. QED BY <1>3, <1>5, <1>6 DEF SurveyInv, Together

\* Where nothing is read yet, nothing is amiss.
LEMMA NothingYet ==
  ASSUME sweep'.step \in {"idle", "count"}, sweep'.n = 0, sweep'.uids = <<>>, sweep'.seen = <<>>
  PROVE  NothingTwice' /\ RecordsAreTrue' /\ NothingMissed'
<1>1. NothingTwice'
  BY DEF NothingTwice, IsInjective
<1>2. RecordsAreTrue'
  BY DEF RecordsAreTrue
<1>3. NothingMissed'
  <2>1. 1..(sweep'.n - 1) = {}
    OBVIOUS
  <2>. QED BY <2>1 DEF NothingMissed
<1>. QED BY <1>1, <1>2, <1>3

LEMMA BeginKeeps ==
  ASSUME SurveyInv, NEW mode \in {"plan", "rebuild-index"}, Begin(mode)
  PROVE  SurveyInv'
<1>1. /\ SurveyTypeOK /\ SettingsFit /\ NothingAhead /\ today \in Nat
  BY DEF SurveyInv, SurveyTypeOK
<1>2. /\ order' = order /\ reports' = reports /\ lastRun' = lastRun /\ list' = list
      /\ today' = today /\ box' = box /\ deleted' = deleted /\ nextUid' = nextUid
      /\ validity' = validity /\ faults' = faults /\ userSteps' = userSteps
      /\ touched' = {} /\ run' = run + 1 /\ run < lastRun /\ messages' = Cleared(mode)
      /\ sweep' = [NotRead EXCEPT !.step = "count", !.mode = mode, !.day = today]
  BY DEF Begin, mailVars, settings
<1>3. /\ sweep'.step = "count" /\ sweep'.mode = mode /\ sweep'.n = 0 /\ sweep'.known = 0
      /\ sweep'.lo = 1 /\ sweep'.uids = <<>> /\ sweep'.seen = <<>> /\ sweep'.day = today
  BY <1>2 DEF NotRead
<1>4. sweep' \in Sweeps'
  <2>1. Len(order) \in Nat /\ MaxUid \in Nat
    BY <1>1, UidBounds, LenProperties DEF SettingsFit
  <2>2. 0 \in 0..Len(order) /\ 0 \in 0..(MaxUid + 1) /\ 1 \in 1..(MaxUid + 1)
    BY <2>1
  <2>3. <<>> \in Seq(Uids) /\ <<>> \in Seq([key : Keys, slot : Slots])
    OBVIOUS
  <2>4. sweep' = [step |-> "count", mode |-> mode, n |-> 0, known |-> 0, lo |-> 1,
                  uids |-> <<>>, seen |-> <<>>, day |-> today]
    BY <1>2 DEF NotRead
  <2>5. sweep' \in Sweeps
    BY <1>1, <2>2, <2>3, <2>4 DEF Sweeps
  <2>6. Sweeps' = Sweeps
    BY <1>2 DEF Sweeps
  <2>. QED BY <2>5, <2>6
<1>5. run \in Nat /\ lastRun \in Nat /\ run + 1 \in 0..lastRun /\ run + 1 > 0
  BY <1>1, <1>2 DEF SurveyTypeOK, SettingsFit
<1>6. ServerTypeOK' /\ NothingAhead'
  BY <1>1, <1>2 DEF SurveyTypeOK, ServerTypeOK, NothingAhead
<1>7. SurveyTypeOK' /\ SettingsFit'
  BY <1>1, <1>2, <1>4, <1>5, <1>6 DEF SurveyTypeOK, SettingsFit
<1>8. SweepInPlace'
  <2>1. mode = "rebuild-index" => \A k \in Keys : messages'[k] = NoRow
    BY <1>2 DEF Cleared
  <2>. QED BY <1>2, <1>3, <1>5, <2>1 DEF SweepInPlace
<1>9. NothingTwice' /\ RecordsAreTrue' /\ NothingMissed'
  BY <1>3, NothingYet
<1>. QED BY <1>6, <1>7, <1>8, <1>9 DEF SurveyInv

\* The command ends, with all its rows or with a failure.
LEMMA EndKeeps ==
  ASSUME SurveyInv, sweep' = NotRead, Upsert \/ Fails
  PROVE  SurveyInv'
<1>1. /\ SurveyTypeOK /\ SettingsFit /\ NothingAhead
  BY DEF SurveyInv
<1>2. /\ order' = order /\ reports' = reports /\ lastRun' = lastRun /\ list' = list
      /\ today' = today /\ box' = box /\ deleted' = deleted /\ nextUid' = nextUid
      /\ validity' = validity /\ userSteps' = userSteps /\ touched' = touched /\ run' = run
      /\ faults' = faults \/ Fault
  BY DEF Upsert, Fails, serverVars, mailVars, settings
<1>3. faults' \in 0..MaxFaults
  BY <1>1, <1>2, FaultTypes DEF SurveyTypeOK, ServerTypeOK
<1>4. ServerTypeOK' /\ NothingAhead'
  BY <1>1, <1>2, <1>3 DEF SurveyTypeOK, ServerTypeOK, NothingAhead
<1>5. /\ sweep'.step = "idle" /\ sweep'.n = 0 /\ sweep'.lo = 1 /\ sweep'.uids = <<>>
      /\ sweep'.seen = <<>>
  BY DEF NotRead
<1>6. sweep' \in Sweeps'
  <2>1. Len(order) \in Nat /\ MaxUid \in Nat
    BY <1>1, UidBounds, LenProperties DEF SettingsFit
  <2>2. 0 \in 0..Len(order) /\ 0 \in 0..(MaxUid + 1) /\ 1 \in 1..(MaxUid + 1) /\ 0 \in Nat
    BY <2>1
  <2>3. <<>> \in Seq(Uids) /\ <<>> \in Seq([key : Keys, slot : Slots])
    OBVIOUS
  <2>4. NotRead = [step |-> "idle", mode |-> "none", n |-> 0, known |-> 0, lo |-> 1,
                   uids |-> <<>>, seen |-> <<>>, day |-> 0]
    BY DEF NotRead
  <2>5. NotRead \in Sweeps
    BY <2>2, <2>3, <2>4 DEF Sweeps
  <2>6. Sweeps' = Sweeps
    BY <1>2 DEF Sweeps
  <2>. QED BY <2>5, <2>6
<1>7. SurveyTypeOK' /\ SettingsFit'
  BY <1>1, <1>2, <1>4, <1>6 DEF SurveyTypeOK, SettingsFit
<1>8. SweepInPlace'
  BY <1>5 DEF SweepInPlace
<1>9. NothingTwice' /\ RecordsAreTrue' /\ NothingMissed'
  BY <1>5, NothingYet
<1>. QED BY <1>4, <1>7, <1>8, <1>9 DEF SurveyInv

\* The mailbox changes under the sweep.
LEMMA MailKeeps ==
  ASSUME SurveyInv, Owner \/ \E f \in Folders, k \in Keys : Arrives(f, k)
  PROVE  SurveyInv'
<1>1. /\ SurveyTypeOK /\ ServerTypeOK /\ SettingsFit /\ NothingAhead /\ SweepInPlace
      /\ NothingTwice /\ RecordsAreTrue /\ NothingMissed /\ sweep \in Sweeps
  BY DEF SurveyInv, SurveyTypeOK
<1>2. /\ order' = order /\ reports' = reports /\ lastRun' = lastRun /\ list' = list
      /\ today' = today /\ run' = run /\ messages' = messages /\ sweep' = sweep
  BY DEF Owner, Arrives, settings, dbVars
<1>3. /\ ServerTypeOK' /\ NothingAhead' /\ touched \subseteq touched'
      /\ \A f \in Folders : nextUid[f] <= nextUid'[f]
  BY <1>1, MailGoesOn
<1>4. \A t \in Slots :
        /\ t[2] < nextUid[t[1]] => box'[t] \in {box[t], NoKey}
        /\ box[t] \in Keys \ touched' => box'[t] = box[t]
        /\ box'[t] \in Keys \ touched' => box[t] = box'[t]
  BY <1>1, MailGoesOn
<1>5. SurveyTypeOK' /\ SettingsFit'
  BY <1>1, <1>2, <1>3 DEF SurveyTypeOK, SettingsFit, Sweeps
<1>6. SweepInPlace' /\ NothingTwice'
  BY <1>1, <1>2 DEF SweepInPlace, NothingTwice, Folder
<1>7. RecordsAreTrue'
  <2>1. SUFFICES ASSUME NEW i \in DOMAIN sweep.seen
                 PROVE  LET r == sweep.seen[i]
                        IN /\ r.slot[2] < nextUid'[r.slot[1]]
                           /\ box'[r.slot] \in {r.key, NoKey}
                           /\ r.key \notin touched' => box'[r.slot] = r.key
    BY <1>2 DEF RecordsAreTrue
  <2>. DEFINE t == sweep.seen[i].slot  k == sweep.seen[i].key
  <2>2. t \in Slots /\ k \in Keys
    BY <1>1, SeenTypes
  <2>3. /\ t[2] < nextUid[t[1]] /\ box[t] \in {k, NoKey}
        /\ k \notin touched => box[t] = k
    BY <1>1 DEF RecordsAreTrue
  <2>. HIDE DEF t, k
  <2>4. t[1] \in Folders /\ t[2] \in Nat
    BY <2>2, SlotParts
  <2>5. nextUid[t[1]] \in Nat /\ nextUid'[t[1]] \in Nat /\ nextUid[t[1]] <= nextUid'[t[1]]
    <3>1. nextUid[t[1]] \in 1..(MaxUid + 1) /\ nextUid'[t[1]] \in 1..(MaxUid + 1)
      BY <1>1, <1>3, <2>4 DEF ServerTypeOK
    <3>. QED BY <1>3, <2>4, <3>1, UidBounds
  <2>6. t[2] < nextUid'[t[1]]
    BY <2>3, <2>4, <2>5
  <2>7. box'[t] \in {k, NoKey}
    BY <1>4, <2>2, <2>3
  <2>8. k \notin touched' => box'[t] = k
    BY <1>3, <1>4, <2>2, <2>3
  <2>. QED BY <2>6, <2>7, <2>8 DEF t, k
<1>8. NothingMissed'
  <2>1. \A s \in Slots : Still(s)' => Still(s)
    <3>1. \A s \in Slots : box'[s] \in Keys \cup {NoKey}
      BY <1>3 DEF ServerTypeOK
    <3>. QED BY <1>3, <1>4, <3>1 DEF Still, Occupied
  <2>2. \A s \in Slots : Read(s)' <=> Read(s)
    BY <1>2 DEF Read
  <2>3. Folder' = Folder
    BY <1>2 DEF Folder
  <2>. QED BY <1>1, <1>2, <2>1, <2>2, <2>3 DEF NothingMissed
<1>. QED BY <1>3, <1>5, <1>6, <1>7, <1>8 DEF SurveyInv

\* Days pass, and a release brings another list.
LEMMA AsideKeeps ==
  ASSUME SurveyInv, TimePasses \/ (\E l \in Vendored : Revendor(l)) \/ UNCHANGED surveyVars
  PROVE  SurveyInv'
<1>1. /\ SurveyTypeOK /\ ServerTypeOK /\ SettingsFit /\ NothingAhead /\ SweepInPlace
      /\ NothingTwice /\ RecordsAreTrue /\ NothingMissed
  BY DEF SurveyInv, SurveyTypeOK
<1>2. /\ order' = order /\ reports' = reports /\ lastRun' = lastRun /\ run' = run
      /\ messages' = messages /\ sweep' = sweep
      /\ box' = box /\ deleted' = deleted /\ nextUid' = nextUid /\ validity' = validity
      /\ touched' = touched /\ faults' = faults /\ userSteps' = userSteps
  BY DEF TimePasses, Revendor, surveyVars, serverVars, settings, dbVars
<1>3. today' \in Nat
  BY <1>1 DEF TimePasses, Revendor, surveyVars, SurveyTypeOK
<1>4. WellFormed(list')
  <2>1. \A l \in Vendored : WellFormed(l)
    BY SurveyAssumption DEF SurveyAssumption
  <2>2. list' = list \/ list' \in Vendored
    BY DEF TimePasses, Revendor, surveyVars
  <2>3. WellFormed(list)
    BY <1>1 DEF SettingsFit
  <2>4. PICK l : l = list'
    OBVIOUS
  <2>. QED BY <2>1, <2>2, <2>3, <2>4
<1>5. ServerTypeOK' /\ NothingAhead'
  BY <1>1, <1>2 DEF ServerTypeOK, NothingAhead
<1>6. SurveyTypeOK'
  BY <1>1, <1>2, <1>3, <1>5 DEF SurveyTypeOK, Sweeps
<1>7. SettingsFit'
  BY <1>1, <1>2, <1>4 DEF SettingsFit, WellFormed
<1>8. SweepInPlace' /\ NothingTwice'
  BY <1>1, <1>2 DEF SweepInPlace, NothingTwice, Folder
<1>9. RecordsAreTrue'
  BY <1>1, <1>2 DEF RecordsAreTrue
<1>10. NothingMissed'
  BY <1>1, <1>2 DEF NothingMissed, Still, Occupied, Read, Folder
<1>. QED BY <1>5, <1>6, <1>7, <1>8, <1>9, <1>10 DEF SurveyInv

\* The invariant holds of every mailbox to begin with.
LEMMA SurveyStarts ==
  ASSUME SurveyInit
  PROVE  SurveyInv
<1>1. PICK s \in Starts :
        /\ box = s.box /\ nextUid = s.nextUid
        /\ order = s.order /\ reports = s.reports /\ list = s.list /\ today = s.today
        /\ lastRun = s.runs /\ faults = MaxFaults - s.faults
        /\ userSteps = MaxUserSteps - s.userSteps
  BY DEF SurveyInit
<1>2. Fits(s)
  BY SurveyAssumption DEF SurveyAssumption
<1>3. /\ box \in [Slots -> Keys \cup {NoKey}] /\ nextUid \in [Folders -> 1..(MaxUid + 1)]
      /\ order \in Seq(Folders) /\ order # <<>> /\ IsInjective(order)
      /\ reports \in BOOLEAN /\ WellFormed(list) /\ today \in Nat /\ lastRun \in Nat
  BY <1>1, <1>2 DEF Fits
<1>4. NothingAhead
  BY <1>1, <1>2 DEF Fits, NothingAhead
<1>5. faults \in 0..MaxFaults /\ userSteps \in 0..MaxUserSteps
  <2>1. s.faults \in 0..MaxFaults /\ s.userSteps \in 0..MaxUserSteps
    BY <1>2 DEF Fits
  <2>2. \A a \in Nat : \A b \in 0..a : a - b \in 0..a
    OBVIOUS
  <2>3. MaxFaults - s.faults \in 0..MaxFaults
    BY <2>1, <2>2, ServerAssumption DEF ServerAssumption
  <2>4. MaxUserSteps - s.userSteps \in 0..MaxUserSteps
    BY <2>1, <2>2, ServerAssumption DEF ServerAssumption
  <2>. QED BY <1>1, <2>3, <2>4
<1>6. /\ deleted = {} /\ validity = [f \in Folders |-> 1] /\ touched = {}
      /\ run = 0 /\ messages = [k \in Keys |-> NoRow] /\ sweep = NotRead
  BY DEF SurveyInit
<1>7. ServerTypeOK
  BY <1>3, <1>5, <1>6 DEF ServerTypeOK
<1>8. sweep \in Sweeps
  <2>1. Len(order) \in Nat /\ MaxUid \in Nat
    BY <1>3, UidBounds, LenProperties
  <2>2. 0 \in 0..Len(order) /\ 0 \in 0..(MaxUid + 1) /\ 1 \in 1..(MaxUid + 1) /\ 0 \in Nat
    BY <2>1
  <2>3. <<>> \in Seq(Uids) /\ <<>> \in Seq([key : Keys, slot : Slots])
    OBVIOUS
  <2>4. sweep = [step |-> "idle", mode |-> "none", n |-> 0, known |-> 0, lo |-> 1,
                 uids |-> <<>>, seen |-> <<>>, day |-> 0]
    BY <1>6 DEF NotRead
  <2>. QED BY <2>2, <2>3, <2>4 DEF Sweeps
<1>9. /\ sweep.step = "idle" /\ sweep.n = 0 /\ sweep.lo = 1 /\ sweep.uids = <<>>
      /\ sweep.seen = <<>>
  BY <1>6 DEF NotRead
<1>10. SurveyTypeOK /\ SettingsFit /\ SweepInPlace
  BY <1>3, <1>6, <1>7, <1>8, <1>9 DEF SurveyTypeOK, SettingsFit, SweepInPlace
<1>11. NothingTwice /\ RecordsAreTrue /\ NothingMissed
  <2>1. 1..(sweep.n - 1) = {}
    BY <1>9
  <2>. QED BY <1>9, <2>1 DEF NothingTwice, IsInjective, RecordsAreTrue, NothingMissed
<1>. QED BY <1>4, <1>10, <1>11 DEF SurveyInv

\* Every step of the sweep, the mailbox and the calendar keeps the invariant.
LEMMA SurveyStep ==
  ASSUME SurveyInv, [SurveyNext]_surveyVars
  PROVE  SurveyInv'
<1>1. CASE \E mode \in {"plan", "rebuild-index"} : Begin(mode)
  BY <1>1, BeginKeeps
<1>2. CASE Work
  <2>1. CASE Count
    BY <2>1, CountKeeps, ReadingKeeps
  <2>2. CASE Select
    BY <2>2, SelectKeeps, ReadingKeeps
  <2>3. CASE SearchAll
    BY <2>3, SearchAllKeeps, ReadingKeeps
  <2>4. CASE SearchWindow
    BY <2>4, SearchWindowKeeps, ReadingKeeps
  <2>5. CASE SearchEnds
    BY <2>5, SearchEndsKeeps, ReadingKeeps
  <2>6. CASE FetchChunk
    BY <2>6, FetchChunkKeeps, ReadingKeeps
  <2>7. CASE FolderDone
    BY <2>7, FolderDoneKeeps, ReadingKeeps
  <2>8. CASE Upsert
    BY <2>8, EndKeeps DEF Upsert
  <2>. QED BY <1>2, <2>1, <2>2, <2>3, <2>4, <2>5, <2>6, <2>7, <2>8 DEF Work
<1>3. CASE Fails
  BY <1>3, EndKeeps DEF Fails
<1>4. CASE Owner \/ \E f \in Folders, k \in Keys : Arrives(f, k)
  BY <1>4, MailKeeps
<1>5. CASE TimePasses \/ (\E l \in Vendored : Revendor(l)) \/ UNCHANGED surveyVars
  BY <1>5, AsideKeeps
<1>. QED BY <1>1, <1>2, <1>3, <1>4, <1>5 DEF SurveyNext

-----------------------------------------------------------------------------
(* The theorems.                                                            *)

\* What holds the sweep together, in every state: its windows miss nothing below
\* them, what is read stays true, and no UID is taken up twice.
THEOREM SurveyInvariance == SurveySpec => []SurveyInv
<1>1. SurveyInit => SurveyInv
  BY SurveyStarts
<1>2. SurveyInv /\ [SurveyNext]_surveyVars => SurveyInv'
  BY SurveyStep
<1>. QED BY <1>1, <1>2, PTL DEF SurveySpec

\* Each slot has one record at most, and one at the end if its mail stayed.
LEMMA OnceRead ==
  ASSUME SurveyInv
  PROVE  EachReadOnce
<1>1. /\ SurveyTypeOK /\ SettingsFit /\ SweepInPlace /\ NothingTwice /\ NothingMissed
      /\ sweep \in Sweeps
  BY DEF SurveyInv, SurveyTypeOK
<1>. DEFINE At(s) == {i \in DOMAIN sweep.seen : sweep.seen[i].slot = s}
<1>2. ASSUME NEW s \in Slots, Read(s) PROVE ReadAs(s) = 1
  <2>1. PICK i \in DOMAIN sweep.seen : sweep.seen[i].slot = s
    BY <1>2 DEF Read
  <2>2. \A j \in DOMAIN sweep.seen : sweep.seen[j].slot = s => j = i
    BY <1>1, <2>1 DEF NothingTwice
  <2>3. At(s) = {i}
    BY <2>1, <2>2
  <2>4. Cardinality(At(s)) = 1
    BY <2>3, FS_Singleton
  <2>. QED BY <2>4 DEF ReadAs
<1>3. ASSUME NEW s \in Slots, ~ Read(s) PROVE ReadAs(s) = 0
  <2>1. At(s) = {}
    BY <1>3 DEF Read
  <2>2. Cardinality(At(s)) = 0
    BY <2>1, FS_EmptySet
  <2>. QED BY <2>2 DEF ReadAs
<1>4. \A s \in Slots : ReadAs(s) <= 1
  <2>1. SUFFICES ASSUME NEW s \in Slots PROVE ReadAs(s) <= 1
    OBVIOUS
  <2>2. ReadAs(s) = 1 \/ ReadAs(s) = 0
    BY <1>2, <1>3
  <2>. QED BY <2>2
<1>5. ASSUME sweep.step = "upsert", NEW s \in Swept, Occupied(s), box[s] \notin touched
      PROVE  ReadAs(s) = 1
  <2>1. s \in Slots /\ \E n \in DOMAIN order : order[n] = s[1]
    BY DEF Swept
  <2>2. PICK n \in DOMAIN order : order[n] = s[1]
    BY <2>1
  <2>3. /\ DOMAIN order = 1..Len(order) /\ Len(order) \in Nat /\ sweep.n = Len(order)
    BY <1>1, <1>5, Fields DEF SweepInPlace
  <2>4. Still(s)
    BY <1>5 DEF Still
  <2>5. CASE n = sweep.n
    <3>1. Read(s)
      BY <1>1, <1>5, <2>1, <2>2, <2>4, <2>5 DEF NothingMissed, Folder
    <3>. QED BY <1>2, <2>1, <3>1
  <2>6. CASE n # sweep.n
    <3>1. n \in 1..(sweep.n - 1)
      BY <2>3, <2>6
    <3>2. Read(s)
      BY <1>1, <2>1, <2>2, <2>4, <3>1 DEF NothingMissed
    <3>. QED BY <1>2, <2>1, <3>2
  <2>. QED BY <2>5, <2>6
<1>. QED BY <1>4, <1>5 DEF EachReadOnce

\* Whatever arrives, moves or is expunged meanwhile, no UID is read twice, and
\* mail that nobody touches is read exactly once (imap.py 263-303).
THEOREM ReadOnce == SurveySpec => []EachReadOnce
<1>1. SurveyInv => EachReadOnce
  BY OnceRead
<1>. QED BY <1>1, SurveyInvariance, PTL

\* Every variable of the sweep keeps its type; it is part of the invariant above.
THEOREM SurveyTypeCorrect == SurveySpec => []SurveyTypeOK
<1>1. SurveyInv => SurveyTypeOK
  BY DEF SurveyInv
<1>. QED BY <1>1, SurveyInvariance, PTL

-----------------------------------------------------------------------------
(* The rebuilt cache.                                                       *)

\* Into a table without rows, Upserted(n) writes the new row of what was read.
LEMMA FreshRows ==
  ASSUME SurveyInv, sweep.step = "upsert", sweep.mode = "rebuild-index",
         NEW n \in 0..Len(sweep.seen), messages' = Upserted(n), NEW k \in Keys
  PROVE  /\ messages'[k] # NoRow =>
              /\ messages'[k].year = YearOf(Headers[k], today)
              /\ messages'[k].sender = DeriveSender(Headers[k], list)
              /\ messages'[k].run = run
         /\ messages'[k] # NoRow <=> Sightings(k, n) # {}
<1>1. messages[k] = NoRow /\ run > 0
  BY DEF SurveyInv, SweepInPlace
<1>2. run # 0
  <2>1. run \in 0..lastRun
    BY DEF SurveyInv, SurveyTypeOK
  <2>. QED BY <1>1, <2>1
<1>. DEFINE s == Sightings(k, n)  f == sweep.seen[Max(s)].slot[1]
<1>3. messages'[k] = IF s = {} THEN messages[k]
                     ELSE IF messages[k] = NoRow THEN NewRow(k, f)
                     ELSE [messages[k] EXCEPT !.folder = f, !.run = run]
  BY DEF Upserted
<1>. HIDE DEF s, f
<1>4. Now = today
  BY DEF Now
<1>5. /\ NewRow(k, f).run = run
      /\ NewRow(k, f).year = YearOf(Headers[k], today)
      /\ NewRow(k, f).sender = DeriveSender(Headers[k], list)
  BY <1>4 DEF NewRow
<1>6. NoRow.run = 0
  BY DEF NoRow
<1>7. NewRow(k, f) # NoRow
  BY <1>2, <1>5, <1>6
<1>. QED BY <1>1, <1>3, <1>5, <1>7 DEF s

\* What was read of a message that nobody touched is where the message is.
LEMMA ReadWhereItIs ==
  ASSUME SurveyInv, sweep.step = "upsert", NEW k \in Keys \ touched
  PROVE  Sightings(k, Len(sweep.seen)) # {} <=> \E s \in Swept : box[s] = k
<1>1. /\ SurveyTypeOK /\ SettingsFit /\ SweepInPlace /\ NothingTwice /\ NothingMissed
      /\ RecordsAreTrue /\ sweep \in Sweeps
  BY DEF SurveyInv, SurveyTypeOK
<1>2. DOMAIN sweep.seen = 1..Len(sweep.seen)
  BY <1>1, SeenTypes
<1>3. sweep.n = Len(order) /\ DOMAIN order = 1..Len(order) /\ Len(order) \in Nat
  BY <1>1, Fields DEF SweepInPlace
<1>4. k # NoKey
  BY ServerAssumption DEF ServerAssumption
<1>5. ASSUME NEW i \in DOMAIN sweep.seen, sweep.seen[i].key = k
      PROVE  \E s \in Swept : box[s] = k
  <2>1. sweep.seen[i].slot \in Slots
    BY <1>1, SeenTypes
  <2>2. \E j \in 1..sweep.n : order[j] = sweep.seen[i].slot[1]
    BY <1>1 DEF NothingTwice
  <2>3. sweep.seen[i].slot \in Swept
    BY <1>3, <2>1, <2>2 DEF Swept
  <2>4. box[sweep.seen[i].slot] = k
    BY <1>1, <1>5 DEF RecordsAreTrue
  <2>. QED BY <2>3, <2>4
<1>6. ASSUME NEW s \in Swept, box[s] = k
      PROVE  \E i \in DOMAIN sweep.seen : sweep.seen[i].key = k
  <2>1. s \in Slots /\ Occupied(s) /\ box[s] \notin touched
    BY <1>4, <1>6 DEF Swept, Occupied
  <2>2. EachReadOnce
    BY OnceRead
  <2>3. ReadAs(s) = 1
    BY <2>1, <2>2 DEF EachReadOnce
  <2>4. {i \in DOMAIN sweep.seen : sweep.seen[i].slot = s} # {}
    <3>1. Cardinality({}) # 1
      BY FS_EmptySet
    <3>. QED BY <2>3, <3>1 DEF ReadAs
  <2>5. PICK i \in DOMAIN sweep.seen : sweep.seen[i].slot = s
    BY <2>4
  <2>6. box[s] \in {sweep.seen[i].key, NoKey}
    BY <1>1, <2>5 DEF RecordsAreTrue
  <2>. QED BY <1>4, <1>6, <2>6
<1>. QED BY <1>2, <1>5, <1>6 DEF Sightings

\* A rebuild leaves what the headers say under today's rules, of all the mail that
\* was there throughout and of no mail but what was read (recovery.py 147-159).
THEOREM RebuildsAreFresh == SurveySpec => RebuildIsFresh
<1>. DEFINE Fresh ==
        sweep.step = "upsert" /\ sweep.mode = "rebuild-index" =>
          \A k \in Keys :
            /\ messages'[k] # NoRow =>
                 /\ messages'[k].year = YearOf(Headers[k], today)
                 /\ messages'[k].sender = DeriveSender(Headers[k], list)
                 /\ messages'[k].run = run
            /\ faults' = faults /\ sweep'.step = "idle" /\ k \notin touched =>
                 (messages'[k] # NoRow <=> \E s \in Swept : box[s] = k)
<1>1. ASSUME SurveyInv, [SurveyNext]_surveyVars PROVE Fresh
  <2>1. SUFFICES ASSUME sweep.step = "upsert", sweep.mode = "rebuild-index", NEW k \in Keys
                 PROVE  /\ messages'[k] # NoRow =>
                             /\ messages'[k].year = YearOf(Headers[k], today)
                             /\ messages'[k].sender = DeriveSender(Headers[k], list)
                             /\ messages'[k].run = run
                        /\ faults' = faults /\ sweep'.step = "idle" /\ k \notin touched =>
                             (messages'[k] # NoRow <=> \E s \in Swept : box[s] = k)
    OBVIOUS
  <2>2. Len(sweep.seen) \in Nat /\ messages[k] = NoRow /\ faults \in Nat
    <3>1. sweep \in Sweeps /\ faults \in 0..MaxFaults
      BY <1>1 DEF SurveyInv, SurveyTypeOK, ServerTypeOK
    <3>2. messages[k] = NoRow
      BY <1>1, <2>1 DEF SurveyInv, SweepInPlace
    <3>. QED BY <3>1, <3>2, SeenTypes
  <2>3. CASE Upsert
    <3>1. messages' = Upserted(Len(sweep.seen)) /\ Len(sweep.seen) \in 0..Len(sweep.seen)
      BY <2>2, <2>3 DEF Upsert
    <3>2. /\ messages'[k] # NoRow =>
               /\ messages'[k].year = YearOf(Headers[k], today)
               /\ messages'[k].sender = DeriveSender(Headers[k], list)
               /\ messages'[k].run = run
          /\ messages'[k] # NoRow <=> Sightings(k, Len(sweep.seen)) # {}
      BY <1>1, <2>1, <3>1, FreshRows
    <3>3. k \notin touched =>
            (Sightings(k, Len(sweep.seen)) # {} <=> \E s \in Swept : box[s] = k)
      BY <1>1, <2>1, ReadWhereItIs
    <3>. QED BY <3>2, <3>3
  <2>4. CASE Fails
    <3>1. PICK n \in 0..Len(sweep.seen) : messages' = Upserted(n)
      BY <2>1, <2>4 DEF Fails
    <3>2. messages'[k] # NoRow =>
            /\ messages'[k].year = YearOf(Headers[k], today)
            /\ messages'[k].sender = DeriveSender(Headers[k], list)
            /\ messages'[k].run = run
      BY <1>1, <2>1, <3>1, FreshRows
    <3>3. faults' # faults
      BY <2>2, <2>4 DEF Fails, Fault
    <3>. QED BY <3>2, <3>3
  <2>5. CASE UNCHANGED <<messages, sweep>>
    BY <2>1, <2>2, <2>5
  <2>6. UNCHANGED <<messages, sweep>> \/ Upsert \/ Fails
    <3>1. CASE \E mode \in {"plan", "rebuild-index"} : Begin(mode)
      BY <2>1, <3>1 DEF Begin
    <3>2. CASE Work
      BY <2>1, <3>2 DEF Work, Count, Select, SearchAll, SearchWindow, SearchEnds,
                        FetchChunk, FolderDone
    <3>3. CASE \/ Owner \/ TimePasses \/ (\E l \in Vendored : Revendor(l))
               \/ \E f \in Folders, j \in Keys : Arrives(f, j)
      BY <3>3 DEF Owner, TimePasses, Revendor, Arrives, dbVars
    <3>4. CASE UNCHANGED surveyVars
      BY <3>4 DEF surveyVars, dbVars
    <3>. QED BY <1>1, <3>1, <3>2, <3>3, <3>4 DEF SurveyNext
  <2>. QED BY <2>3, <2>4, <2>5, <2>6
<1>. QED BY <1>1, SurveyInvariance, PTL DEF SurveySpec, RebuildIsFresh

-----------------------------------------------------------------------------
(* Years and suffixes.                                                      *)

\* As time passes a message changes its year only when one of its own headers was
\* ahead of the clock and now is not (dates.py 39-46, 76-89).
THEOREM YearsSettle == SurveySpec => YearIsSettled
<1>. DEFINE Settled ==
        \A k \in Keys :
          YearOf(Headers[k], today') # YearOf(Headers[k], today) =>
            \E n \in DOMAIN Claimed(Headers[k]) :
              LET d == Claimed(Headers[k])[n]
              IN /\ d # Nothing
                 /\ today + Tolerance < d /\ d <= today' + Tolerance
<1>1. ASSUME SurveyInv, [SurveyNext]_surveyVars PROVE Settled
  <2>1. today \in Nat
    BY <1>1 DEF SurveyInv, SurveyTypeOK
  <2>2. today' \in {today, today + 1}
    BY <1>1 DEF SurveyNext, Begin, Work, Count, Select, SearchAll, SearchWindow, SearchEnds,
                FetchChunk, FolderDone, Upsert, Fails, Owner, Arrives, TimePasses, Revendor,
                surveyVars
  <2>3. PICK e \in Nat : e = today' /\ today <= e
    BY <2>1, <2>2
  <2>4. SUFFICES ASSUME NEW k \in Keys,
                        \A n \in DOMAIN Claimed(Headers[k]) :
                          LET d == Claimed(Headers[k])[n]
                          IN d # Nothing => ~ (today + Tolerance < d /\ d <= e + Tolerance)
                 PROVE  YearOf(Headers[k], e) = YearOf(Headers[k], today)
    BY <2>3
  <2>. QED BY <2>1, <2>3, <2>4, YearStays
<1>. QED BY <1>1, SurveyInvariance, PTL DEF SurveySpec, YearIsSettled

\* Under whatever well-formed list, the suffix of every host is the one that the
\* published algorithm gives (psl.py 1, 28-37, 49-72).
THEOREM SuffixesAsPublished == SurveySpec => []SuffixAsPublished
<1>1. SurveyInv => SuffixAsPublished
  <2>1. SUFFICES ASSUME SurveyInv, NEW h \in Hosts
                 PROVE  PublicSuffix(h, list) = PublishedSuffix(h, list)
    BY DEF SuffixAsPublished
  <2>2. WellFormed(list)
    BY <2>1 DEF SurveyInv, SettingsFit
  <2>. QED BY <2>2, SameSuffix
<1>. QED BY <1>1, SurveyInvariance, PTL

=============================================================================
