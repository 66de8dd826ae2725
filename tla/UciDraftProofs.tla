--------------------------- MODULE UciDraftProofs ---------------------------
(***************************************************************************)
(* What the operators on the draft of a file do, for every file, batch and *)
(* list of lines: what a filter of a sequence keeps and in which order,    *)
(* what each command of uci leaves of the sections and of their order, and *)
(* that the lines of a draft tell everything it changes.                   *)
(***************************************************************************)
EXTENDS UciDraft, FiniteSetTheorems, SequenceTheorems, TLAPS

\* uci's names name one section each.
Named(file) == \A i, j \in DOMAIN file : file[i].id = file[j].id => i = j

\* A sequence: the lines of a draft, a batch, a file, whatever is in it.
IsLog(log) == \E S : log \in Seq(S)

-----------------------------------------------------------------------------
(***************************************************************************)
(* Sequences.                                                              *)
(***************************************************************************)

LEMMA LogShape ==
  ASSUME NEW s, IsLog(s)
  PROVE  Len(s) \in Nat /\ DOMAIN s = 1 .. Len(s) /\ IsFiniteSet(DOMAIN s)
<1>1. Len(s) \in Nat /\ DOMAIN s = 1 .. Len(s)
  BY LenProperties DEF IsLog
<1> QED
  BY <1>1, FS_Interval

LEMMA LogEqual ==
  ASSUME NEW s, NEW t, IsLog(s), IsLog(t), Len(s) = Len(t),
         \A i \in 1 .. Len(s) : s[i] = t[i]
  PROVE  s = t
<1>1. PICK S, T : s \in Seq(S) /\ t \in Seq(T)
  BY DEF IsLog
<1>2. s \in Seq(S \cup T) /\ t \in Seq(S \cup T)
  BY <1>1, SeqMonotonic
<1> QED
  BY <1>2, SeqEqual

LEMMA LogMade ==
  ASSUME NEW n \in Nat, NEW s, s = [i \in 1 .. n |-> s[i]]
  PROVE  IsLog(s) /\ Len(s) = n
<1> DEFINE S == {s[i] : i \in 1 .. n}
<1>1. \A i \in 1 .. n : s[i] \in S
  OBVIOUS
<1> HIDE DEF S
<1>2. [i \in 1 .. n |-> s[i]] \in Seq(S)
  BY <1>1, IsASeq
<1>3. s \in Seq(S) /\ DOMAIN s = 1 .. n
  BY <1>2
<1>4. Len(s) = n
  BY <1>3, LenProperties
<1> QED
  BY <1>3, <1>4 DEF IsLog

LEMMA LogAppended ==
  ASSUME NEW s, IsLog(s), NEW e
  PROVE  /\ IsLog(Append(s, e)) /\ Len(Append(s, e)) = Len(s) + 1
         /\ \A i \in 1 .. Len(s) : Append(s, e)[i] = s[i]
         /\ Append(s, e)[Len(s) + 1] = e
<1>1. PICK S : s \in Seq(S)
  BY DEF IsLog
<1>2. s \in Seq(S \cup {e})
  BY <1>1, SeqMonotonic
<1> QED
  BY <1>2, AppendProperties DEF IsLog

LEMMA LogJoined ==
  ASSUME NEW s, NEW t, IsLog(s), IsLog(t)
  PROVE  /\ IsLog(s \o t) /\ Len(s \o t) = Len(s) + Len(t)
         /\ \A i \in 1 .. Len(s) : (s \o t)[i] = s[i]
         /\ \A i \in 1 .. Len(t) : (s \o t)[Len(s) + i] = t[i]
<1>1. PICK S, T : s \in Seq(S) /\ t \in Seq(T)
  BY DEF IsLog
<1>2. s \in Seq(S \cup T) /\ t \in Seq(S \cup T)
  BY <1>1, SeqMonotonic
<1>3. Len(s) \in Nat /\ Len(t) \in Nat
  BY <1>2, LenProperties
<1>4. /\ s \o t \in Seq(S \cup T) /\ Len(s \o t) = Len(s) + Len(t)
      /\ \A i \in 1 .. Len(s) + Len(t) :
           (s \o t)[i] = IF i <= Len(s) THEN s[i] ELSE t[i - Len(s)]
  BY <1>2, ConcatProperties
<1>5. \A i \in 1 .. Len(s) : (s \o t)[i] = s[i]
  BY <1>3, <1>4
<1>6. \A i \in 1 .. Len(t) : (s \o t)[Len(s) + i] = t[i]
  BY <1>3, <1>4
<1> QED
  BY <1>4, <1>5, <1>6 DEF IsLog

-----------------------------------------------------------------------------
(***************************************************************************)
(* Filters.                                                                *)
(***************************************************************************)

\* Ranks keep the order.
LEMMA RankGrows ==
  ASSUME NEW K, IsFiniteSet(K), K \subseteq Int, NEW i \in K, NEW j \in K
  PROVE  /\ Rank(K, i) \in 1 .. Cardinality(K)
         /\ i < j <=> Rank(K, i) < Rank(K, j)
<1> DEFINE up(n) == {k \in K : k <= n}
<1>1. ASSUME NEW n \in K
      PROVE  /\ IsFiniteSet(up(n)) /\ Cardinality(up(n)) \in 1 .. Cardinality(K)
  <2>1. up(n) \in SUBSET K /\ n \in up(n)
    OBVIOUS
  <2>2. IsFiniteSet(up(n)) /\ Cardinality(up(n)) <= Cardinality(K)
    BY <2>1, FS_Subset
  <2>3. Cardinality(up(n)) # 0
    BY <2>1, <2>2, FS_EmptySet
  <2> QED
    BY <2>2, <2>3, FS_CardinalityType
<1>2. ASSUME NEW m \in K, NEW n \in K, m < n
      PROVE  Cardinality(up(m)) < Cardinality(up(n))
  <2>0. m \in Int /\ n \in Int /\ \A k \in K : k \in Int
    OBVIOUS
  <2>1. up(m) \in SUBSET up(n) /\ n \in up(n) /\ n \notin up(m)
    <3>1. ASSUME NEW k \in up(m) PROVE k \in up(n)
      <4>1. k \in K /\ k \in Int /\ k <= m
        BY <2>0
      <4>2. k <= n
        BY <1>2, <2>0, <4>1
      <4> QED
        BY <4>1, <4>2
    <3>2. n <= n /\ ~(n <= m)
      BY <1>2, <2>0
    <3> QED
      BY <3>1, <3>2
  <2>2. up(m) # up(n)
    BY <2>1
  <2> HIDE DEF up
  <2>3. IsFiniteSet(up(n))
    BY <1>1
  <2>4. Cardinality(up(m)) <= Cardinality(up(n)) /\ Cardinality(up(m)) # Cardinality(up(n))
    BY <2>1, <2>2, <2>3, FS_Subset
  <2>5. Cardinality(up(m)) \in Int /\ Cardinality(up(n)) \in Int
    BY <1>1
  <2> QED
    BY <2>4, <2>5
<1>3. \A n \in K : Rank(K, n) = Cardinality(up(n))
  BY DEF Rank
<1> HIDE DEF up
<1>4. Rank(K, i) \in 1 .. Cardinality(K) /\ Rank(K, j) \in 1 .. Cardinality(K)
  BY <1>1, <1>3
<1>5. i < j => Rank(K, i) < Rank(K, j)
  BY <1>2, <1>3
<1>6. j < i => Rank(K, j) < Rank(K, i)
  BY <1>2, <1>3
<1>7. i \in Int /\ j \in Int
  OBVIOUS
<1> QED
  BY <1>4, <1>5, <1>6, <1>7

\* Each of the positions is the one of its rank, and there are no others.
LEMMA NthIs ==
  ASSUME NEW K, IsFiniteSet(K), K \subseteq Int
  PROVE  /\ Cardinality(K) \in Nat
         /\ \A i \in K : Rank(K, i) \in 1 .. Cardinality(K) /\ Nth(K, Rank(K, i)) = i
         /\ \A n \in 1 .. Cardinality(K) : Nth(K, n) \in K /\ Rank(K, Nth(K, n)) = n
<1> DEFINE f == [i \in K |-> Rank(K, i)]
           N == 1 .. Cardinality(K)
<1>1. Cardinality(K) \in Nat
  BY FS_CardinalityType
<1>2. ASSUME NEW i \in K, NEW j \in K, Rank(K, i) = Rank(K, j) PROVE i = j
  <2>1. /\ Rank(K, i) \in 1 .. Cardinality(K) /\ Rank(K, j) \in 1 .. Cardinality(K)
        /\ i < j <=> Rank(K, i) < Rank(K, j)
        /\ j < i <=> Rank(K, j) < Rank(K, i)
    BY RankGrows
  <2> QED
    BY <1>2, <2>1
<1>3. \A i \in K : Rank(K, i) \in N
  BY RankGrows
<1>4. f \in Injection(K, N)
  BY <1>2, <1>3 DEF Injection, IsInjective
<1>5. IsFiniteSet(N) /\ Cardinality(N) = Cardinality(K)
  BY <1>1, FS_Interval
<1>6. f \in Surjection(K, N)
  BY <1>4, <1>5, FS_Injection
<1>7. ASSUME NEW i \in K PROVE Nth(K, Rank(K, i)) = i
  BY <1>2 DEF Nth
<1>8. ASSUME NEW n \in N PROVE Nth(K, n) \in K /\ Rank(K, Nth(K, n)) = n
  <2>1. \E i \in K : Rank(K, i) = n
    BY <1>6 DEF Surjection
  <2> QED
    BY <2>1 DEF Nth
<1> QED
  BY <1>1, <1>3, <1>7, <1>8

\* What a filter keeps, and where.
LEMMA PickedIs ==
  ASSUME NEW s, IsLog(s), NEW K \in SUBSET DOMAIN s
  PROVE  LET p == Picked(s, K)
         IN  /\ IsLog(p) /\ Len(p) = Cardinality(K) /\ Cardinality(K) \in Nat
             /\ DOMAIN p = 1 .. Cardinality(K)
             /\ \A i \in K : Rank(K, i) \in DOMAIN p /\ p[Rank(K, i)] = s[i]
             /\ \A n \in DOMAIN p : /\ Nth(K, n) \in K /\ Rank(K, Nth(K, n)) = n
                                    /\ p[n] = s[Nth(K, n)]
<1> DEFINE p == Picked(s, K)
<1>1. IsFiniteSet(K) /\ K \subseteq Int
  BY LogShape, FS_Subset
<1>2. /\ Cardinality(K) \in Nat
      /\ \A i \in K : Rank(K, i) \in 1 .. Cardinality(K) /\ Nth(K, Rank(K, i)) = i
      /\ \A n \in 1 .. Cardinality(K) : Nth(K, n) \in K /\ Rank(K, Nth(K, n)) = n
  BY <1>1, NthIs
<1>3. /\ p = [n \in 1 .. Cardinality(K) |-> p[n]]
      /\ \A n \in 1 .. Cardinality(K) : p[n] = s[Nth(K, n)]
  BY DEF Picked
<1> HIDE DEF p
<1>4. IsLog(p) /\ Len(p) = Cardinality(K)
  BY <1>2, <1>3, LogMade
<1>5. DOMAIN p = 1 .. Cardinality(K)
  BY <1>3
<1>6. \A i \in K : Rank(K, i) \in DOMAIN p /\ p[Rank(K, i)] = s[i]
  BY <1>2, <1>3, <1>5
<1>7. \A n \in DOMAIN p : Nth(K, n) \in K /\ Rank(K, Nth(K, n)) = n /\ p[n] = s[Nth(K, n)]
  BY <1>2, <1>3, <1>5
<1> QED
  BY <1>2, <1>4, <1>5, <1>6, <1>7 DEF p

\* A filter that keeps everything changes nothing.
LEMMA PickedAll ==
  ASSUME NEW s, IsLog(s)
  PROVE  Picked(s, DOMAIN s) = s
<1> DEFINE K == DOMAIN s
           p == Picked(s, K)
<1>1. /\ IsLog(p) /\ Len(p) = Cardinality(K)
      /\ \A i \in K : p[Rank(K, i)] = s[i]
  BY PickedIs
<1>2. Len(s) \in Nat /\ K = 1 .. Len(s)
  BY LogShape
<1>3. Cardinality(K) = Len(s)
  <2>1. Cardinality(1 .. Len(s)) = IF 1 > Len(s) THEN 0 ELSE Len(s) - 1 + 1
    BY <1>2, FS_Interval
  <2> QED
    BY <1>2, <2>1
<1>4. ASSUME NEW i \in K PROVE Rank(K, i) = i
  <2>1. {j \in K : j <= i} = 1 .. i
    BY <1>2
  <2>2. Cardinality(1 .. i) = i
    BY <1>2, FS_Interval
  <2> QED
    BY <2>1, <2>2 DEF Rank
<1> HIDE DEF K, p
<1>5. \A i \in 1 .. Len(p) : p[i] = s[i]
  BY <1>1, <1>2, <1>3, <1>4
<1>6. p = s
  BY <1>1, <1>3, <1>5, LogEqual
<1> QED
  BY <1>6 DEF K, p

\* One that keeps one position keeps that element.
LEMMA PickedOne ==
  ASSUME NEW s, IsLog(s), NEW k \in DOMAIN s
  PROVE  Picked(s, {k}) = <<s[k]>>
<1> DEFINE K == {k}
           p == Picked(s, K)
<1>0. K \in SUBSET DOMAIN s
  OBVIOUS
<1>1. Cardinality(K) = 1
  BY FS_Singleton
<1> HIDE DEF K
<1>2. /\ IsLog(p) /\ Len(p) = 1
      /\ \A n \in 1 .. 1 : Nth(K, n) \in K /\ p[n] = s[Nth(K, n)]
  BY <1>0, <1>1, PickedIs
<1> HIDE DEF p
<1>3. p[1] = s[k]
  BY <1>2 DEF K
<1>4. IsLog(<<s[k]>>) /\ Len(<<s[k]>>) = 1 /\ <<s[k]>>[1] = s[k]
  <2> DEFINE e == s[k]
  <2> HIDE DEF e
  <2>1. <<e>> \in Seq({e}) /\ Len(<<e>>) = 1 /\ <<e>>[1] = e
    OBVIOUS
  <2> QED
    BY <2>1 DEF e, IsLog
<1>5. p = <<s[k]>>
  BY <1>2, <1>3, <1>4, LogEqual
<1> QED
  BY <1>5 DEF p, K

-----------------------------------------------------------------------------
(***************************************************************************)
(* Files: the sections, and their order.                                   *)
(***************************************************************************)

\* A section, with options that are named.
Formed(s) ==
  /\ s = Section(s.id, s.kind, s.opt) /\ s.id \in Int \ {0}
  /\ s.opt = [o \in DOMAIN s.opt |-> s.opt[o]] /\ "" \notin DOMAIN s.opt

WellFormed(file) ==
  IsLog(file) /\ Named(file) /\ \A i \in DOMAIN file : Formed(file[i])

SameOrder(file, g, X) ==
  \A x, y \in X : Pos(file, x) < Pos(file, y) <=> Pos(g, x) < Pos(g, y)

\* All that is not about one section stays as it was.
Keeps(file, g, id) ==
  /\ WellFormed(g) /\ Ids(g) \ {id} = Ids(file) \ {id}
  /\ \A x \in Ids(file) \ {id} : Of(g, x) = Of(file, x)
  /\ SameOrder(file, g, Ids(file) \ {id})

LEMMA SectionFields ==
  \A id, k, o : LET s == Section(id, k, o) IN s.id = id /\ s.kind = k /\ s.opt = o
BY DEF Section

\* A name finds its section.
LEMMA PosIs ==
  ASSUME NEW file, Named(file), NEW i \in DOMAIN file
  PROVE  /\ Pos(file, file[i].id) = i
         /\ Of(file, file[i].id) = file[i]
<1>1. \A j \in DOMAIN file : file[j].id = file[i].id => j = i
  BY DEF Named
<1>2. Pos(file, file[i].id) = i
  BY <1>1 DEF Pos
<1> QED
  BY <1>2 DEF Of

LEMMA PosIn ==
  ASSUME NEW file, NEW id \in Ids(file)
  PROVE  Pos(file, id) \in DOMAIN file /\ file[Pos(file, id)].id = id
BY DEF Ids, Pos

LEMMA SectionAt ==
  ASSUME NEW file, WellFormed(file), NEW id \in Ids(file)
  PROVE  /\ Pos(file, id) \in 1 .. Len(file) /\ Len(file) \in Nat
         /\ Of(file, id) = file[Pos(file, id)] /\ Of(file, id).id = id
         /\ Formed(Of(file, id)) /\ id \in Int \ {0}
<1>1. Pos(file, id) \in DOMAIN file /\ file[Pos(file, id)].id = id
  BY PosIn
<1>2. Len(file) \in Nat /\ DOMAIN file = 1 .. Len(file)
  BY LogShape DEF WellFormed
<1>3. Of(file, id) = file[Pos(file, id)]
  BY DEF Of
<1>4. Formed(Of(file, id))
  BY <1>1, <1>3 DEF WellFormed
<1> QED
  BY <1>1, <1>2, <1>3, <1>4 DEF Formed

\* Two names, two places.
LEMMA PosDiffer ==
  ASSUME NEW file, NEW x \in Ids(file), NEW y \in Ids(file),
         Pos(file, x) = Pos(file, y)
  PROVE  x = y
BY PosIn

\* Sections with the places they had are in the order they were in.
LEMMA SamePlaces ==
  ASSUME NEW file, NEW g, NEW X, \A x \in X : Pos(g, x) = Pos(file, x)
  PROVE  SameOrder(file, g, X)
BY DEF SameOrder

\* A section of the new file and one of the old that are one.
LEMMA FoundAt ==
  ASSUME NEW g, Named(g), NEW j \in DOMAIN g, NEW x, g[j].id = x
  PROVE  x \in Ids(g) /\ Pos(g, x) = j /\ Of(g, x) = g[j]
BY PosIs DEF Ids

\* `uci set': the options of one section.
LEMMA StagedFile ==
  ASSUME NEW file, WellFormed(file), NEW id \in Ids(file), NEW es
  PROVE  LET g == Staged(file, id, es)
         IN  /\ Keeps(file, g, id) /\ Ids(g) = Ids(file)
             /\ \A x \in Ids(file) : Pos(g, x) = Pos(file, x)
             /\ Of(g, id) = Section(id, Of(file, id).kind,
                                    Over(Of(file, id).opt, Values(es)))
             /\ Len(g) = Len(file) /\ \A i \in DOMAIN file : g[i].kind = file[i].kind
<1> DEFINE k == Pos(file, id)
           was == Of(file, id)
           o == Over(was.opt, Values(es))
           new == Section(id, was.kind, o)
           g == Staged(file, id, es)
<1>1. /\ k \in 1 .. Len(file) /\ Len(file) \in Nat /\ was = file[k]
      /\ was.id = id /\ Formed(was) /\ id \in Int \ {0}
  BY SectionAt
<1>2. IsLog(file) /\ Named(file) /\ DOMAIN file = 1 .. Len(file)
  BY LogShape DEF WellFormed
<1>3. new.id = id /\ new.kind = was.kind /\ new.opt = o
  BY DEF Section
<1>4. g = [file EXCEPT ![k] = new]
  <2>1. g = [file EXCEPT ![k] = [file[k] EXCEPT !.opt = o]]
    BY <1>1, <1>2 DEF Staged, UciSet
  <2>2. [was EXCEPT !.opt = o] = new
    <3>1. was = Section(id, was.kind, was.opt)
      BY <1>1 DEF Formed
    <3> HIDE DEF o, was
    <3> QED
      BY <3>1 DEF Section
  <2> QED
    BY <1>1, <2>1, <2>2
<1>5. Formed(new)
  <2>1. o = [x \in DOMAIN o |-> o[x]] /\ DOMAIN o = DOMAIN was.opt
    BY DEF Over
  <2> HIDE DEF o
  <2> QED
    BY <1>1, <1>3, <2>1 DEF Formed, new
<1> HIDE DEF new, was, o
<1>6. /\ IsLog(g) /\ Len(g) = Len(file) /\ DOMAIN g = DOMAIN file
      /\ \A i \in DOMAIN file : i # k => g[i] = file[i]
      /\ g[k] = new
  <2>1. PICK S : file \in Seq(S)
    BY <1>2 DEF IsLog
  <2>2. file \in Seq(S \cup {new})
    BY <2>1, SeqMonotonic
  <2>3. g \in Seq(S \cup {new}) /\ Len(g) = Len(file)
    BY <1>1, <1>4, <2>2, ExceptSeq
  <2>4. IsLog(g) /\ DOMAIN g = 1 .. Len(g)
    BY <2>3, LenProperties DEF IsLog
  <2> QED
    BY <1>1, <1>2, <1>4, <2>3, <2>4
<1> HIDE DEF g
<1>7. \A i \in DOMAIN file : g[i].id = file[i].id /\ g[i].kind = file[i].kind /\ Formed(g[i])
  BY <1>1, <1>2, <1>3, <1>5, <1>6 DEF WellFormed
<1>8. WellFormed(g) /\ Named(g)
  BY <1>2, <1>6, <1>7 DEF WellFormed, Named
<1>9. Ids(g) = Ids(file)
  BY <1>6, <1>7 DEF Ids
<1>10. ASSUME NEW x \in Ids(file)
       PROVE  /\ Pos(g, x) = Pos(file, x)
              /\ x # id => Of(g, x) = Of(file, x)
              /\ x = id => Of(g, x) = new
  <2>1. Pos(file, x) \in DOMAIN file /\ file[Pos(file, x)].id = x
    BY PosIn
  <2>2. Pos(g, x) = Pos(file, x) /\ Of(g, x) = g[Pos(file, x)]
    BY <1>6, <1>7, <1>8, <2>1, FoundAt
  <2>3. x # id => Pos(file, x) # k
    BY <1>1, PosDiffer
  <2> QED
    BY <1>6, <2>1, <2>2, <2>3 DEF Of
<1>11. SameOrder(file, g, Ids(file) \ {id})
  BY <1>10, SamePlaces
<1>12. Keeps(file, g, id)
  BY <1>8, <1>9, <1>10, <1>11 DEF Keeps
<1>13. Of(g, id) = new
  BY <1>10
<1> QED
  BY <1>6, <1>7, <1>9, <1>10, <1>12, <1>13 DEF g, new, was, o

\* `uci add': one more section, at the end.
LEMMA AddedFile ==
  ASSUME NEW file, WellFormed(file), NEW s, Formed(s), s.id \notin Ids(file)
  PROVE  LET g == Append(file, s)
         IN  /\ Keeps(file, g, s.id) /\ Ids(g) = Ids(file) \cup {s.id}
             /\ \A x \in Ids(file) : Pos(g, x) = Pos(file, x)
             /\ Of(g, s.id) = s /\ Pos(g, s.id) = Len(file) + 1
             /\ Len(g) = Len(file) + 1
<1> DEFINE g == Append(file, s)
<1>1. IsLog(file) /\ Named(file) /\ DOMAIN file = 1 .. Len(file) /\ Len(file) \in Nat
  BY LogShape DEF WellFormed
<1>2. /\ IsLog(g) /\ Len(g) = Len(file) + 1
      /\ \A i \in 1 .. Len(file) : g[i] = file[i]
      /\ g[Len(file) + 1] = s
  BY <1>1, LogAppended
<1> HIDE DEF g
<1>3. DOMAIN g = 1 .. Len(file) + 1
  BY <1>2, LogShape
<1>4. \A i \in DOMAIN g : i \in DOMAIN file \/ i = Len(file) + 1
  BY <1>1, <1>3
<1>5. \A i \in DOMAIN file : i \in DOMAIN g /\ g[i] = file[i] /\ g[i].id # s.id
  BY <1>1, <1>2, <1>3 DEF Ids
<1>6. Len(file) + 1 \in DOMAIN g
  BY <1>1, <1>3
<1>7. WellFormed(g) /\ Named(g)
  BY <1>2, <1>4, <1>5, <1>6 DEF WellFormed, Named
<1>8. Ids(g) = Ids(file) \cup {s.id}
  BY <1>2, <1>4, <1>5, <1>6 DEF Ids
<1>9. Of(g, s.id) = s /\ Pos(g, s.id) = Len(file) + 1
  BY <1>2, <1>6, <1>7, FoundAt
<1>10. ASSUME NEW x \in Ids(file)
       PROVE  Pos(g, x) = Pos(file, x) /\ Of(g, x) = Of(file, x)
  <2>1. Pos(file, x) \in DOMAIN file /\ file[Pos(file, x)].id = x
    BY PosIn
  <2>2. Pos(g, x) = Pos(file, x) /\ Of(g, x) = g[Pos(file, x)]
    BY <1>5, <1>7, <2>1, FoundAt
  <2> QED
    BY <1>5, <2>1, <2>2 DEF Of
<1>11. SameOrder(file, g, Ids(file) \ {s.id})
  BY <1>10, SamePlaces
<1>12. Keeps(file, g, s.id)
  BY <1>7, <1>8, <1>10, <1>11 DEF Keeps
<1> QED
  BY <1>2, <1>8, <1>9, <1>10, <1>12 DEF g

\* `uci delete': the others close up.
LEMMA DeletedFile ==
  ASSUME NEW file, WellFormed(file), NEW id \in Ids(file)
  PROVE  LET g == UciDelete(file, id)
         IN  /\ Keeps(file, g, id) /\ Ids(g) = Ids(file) \ {id}
             /\ Len(g) = Len(file) - 1
             /\ \A x \in Ids(file) \ {id} :
                  Pos(g, x) = IF Pos(file, x) < Pos(file, id) THEN Pos(file, x)
                              ELSE Pos(file, x) - 1
<1> DEFINE g == UciDelete(file, id)
           k == Pos(file, id)
           at(i) == IF i < k THEN i ELSE i + 1
           to(i) == IF i < k THEN i ELSE i - 1
<1>1. IsLog(file) /\ Named(file) /\ DOMAIN file = 1 .. Len(file) /\ Len(file) \in Nat
  BY LogShape DEF WellFormed
<1>2. k \in 1 .. Len(file) /\ file[k].id = id
  BY <1>1, PosIn
<1>3. \A i \in 1 .. Len(file) - 1 : at(i) \in DOMAIN file /\ at(i) # k /\ g[i] = file[at(i)]
  BY <1>1, <1>2 DEF UciDelete
<1>4. IsLog(g) /\ Len(g) = Len(file) - 1 /\ DOMAIN g = 1 .. Len(file) - 1
  <2>1. g = [i \in 1 .. Len(file) - 1 |-> g[i]] /\ Len(file) - 1 \in Nat
    BY <1>1, <1>2 DEF UciDelete
  <2> HIDE DEF g
  <2> QED
    BY <2>1, LogMade, LogShape
<1> HIDE DEF g
<1>5. \A i, j \in 1 .. Len(file) - 1 : at(i) = at(j) => i = j
  BY <1>1, <1>2
<1>6. \A j \in DOMAIN file : j # k => to(j) \in 1 .. Len(file) - 1 /\ at(to(j)) = j
  BY <1>1, <1>2
<1> HIDE DEF at, to
<1>7. Named(g)
  <2> SUFFICES ASSUME NEW i \in DOMAIN g, NEW j \in DOMAIN g, g[i].id = g[j].id
               PROVE  i = j
    BY DEF Named
  <2>1. at(i) = at(j)
    BY <1>1, <1>3, <1>4 DEF Named
  <2> QED
    BY <1>4, <1>5, <2>1
<1>8. WellFormed(g)
  BY <1>3, <1>4, <1>7 DEF WellFormed
<1>9. ASSUME NEW x \in Ids(file) \ {id}
      PROVE  x \in Ids(g) /\ Pos(g, x) = to(Pos(file, x)) /\ Of(g, x) = Of(file, x)
  <2>1. Pos(file, x) \in DOMAIN file /\ file[Pos(file, x)].id = x
    BY PosIn
  <2>2. Pos(file, x) # k
    BY PosDiffer
  <2>3. to(Pos(file, x)) \in DOMAIN g /\ g[to(Pos(file, x))] = file[Pos(file, x)]
    BY <1>3, <1>4, <1>6, <2>1, <2>2
  <2> QED
    BY <1>7, <2>1, <2>3, FoundAt DEF Of
<1>10. ASSUME NEW x \in Ids(g) PROVE x \in Ids(file) \ {id}
  <2>1. PICK i \in DOMAIN g : g[i].id = x
    BY DEF Ids
  <2>2. at(i) \in DOMAIN file /\ at(i) # k /\ file[at(i)].id = x
    BY <1>3, <1>4, <2>1
  <2>3. x # id
    BY <1>1, <1>2, <2>2 DEF Named
  <2> QED
    BY <2>2, <2>3 DEF Ids
<1>11. Ids(g) = Ids(file) \ {id}
  BY <1>9, <1>10
<1>12. SameOrder(file, g, Ids(file) \ {id})
  <2> SUFFICES ASSUME NEW x \in Ids(file) \ {id}, NEW y \in Ids(file) \ {id}
               PROVE  Pos(file, x) < Pos(file, y) <=> Pos(g, x) < Pos(g, y)
    BY DEF SameOrder
  <2>1. /\ Pos(file, x) \in 1 .. Len(file) /\ Pos(file, x) # k
        /\ Pos(file, y) \in 1 .. Len(file) /\ Pos(file, y) # k
    BY <1>1, PosIn, PosDiffer
  <2>2. Pos(g, x) = to(Pos(file, x)) /\ Pos(g, y) = to(Pos(file, y))
    BY <1>9
  <2> QED
    BY <1>1, <1>2, <2>1, <2>2 DEF to
<1>13. Keeps(file, g, id)
  BY <1>8, <1>9, <1>11, <1>12 DEF Keeps
<1> QED
  BY <1>4, <1>9, <1>11, <1>13 DEF g, to

\* One element put between two others.
Inserted(s, n, e, h) ==
  /\ IsLog(h) /\ Len(h) = Len(s) + 1
  /\ \A i \in 1 .. n : h[i] = s[i]
  /\ h[n + 1] = e
  /\ \A i \in n + 1 .. Len(s) : h[i + 1] = s[i]

LEMMA LogInserted ==
  ASSUME NEW s, IsLog(s), NEW n \in 0 .. Len(s), NEW e
  PROVE  Inserted(s, n, e, SubSeq(s, 1, n) \o <<e>> \o SubSeq(s, n + 1, Len(s)))
<1> DEFINE a == SubSeq(s, 1, n)
           b == a \o <<e>>
           c == SubSeq(s, n + 1, Len(s))
           h == b \o c
<1>1. PICK S : s \in Seq(S)
  BY DEF IsLog
<1>2. Len(s) \in Nat /\ \A i \in 1 .. Len(s) : s[i] \in S
  BY <1>1, LenProperties, ElementOfSeq
<1>3. /\ a \in Seq(S) /\ Len(a) = n
      /\ \A i \in 1 .. n : a[i] = s[i]
  <2>1. 1 \in Int /\ n \in Int /\ \A i \in 1 .. n : s[i] \in S
    BY <1>2
  <2>2. /\ a \in Seq(S) /\ Len(a) = IF 1 <= n THEN n - 1 + 1 ELSE 0
        /\ \A i \in 1 .. n - 1 + 1 : a[i] = s[1 + i - 1]
    BY ONLY <2>1, SubSeqProperties
  <2> HIDE DEF a
  <2> QED
    BY <1>2, <2>2
<1>4. /\ c \in Seq(S) /\ Len(c) = Len(s) - n
      /\ \A i \in 1 .. Len(s) - n : c[i] = s[n + i]
  <2>1. n + 1 \in Int /\ Len(s) \in Int /\ \A i \in n + 1 .. Len(s) : s[i] \in S
    BY <1>2
  <2>2. /\ c \in Seq(S)
        /\ Len(c) = IF n + 1 <= Len(s) THEN Len(s) - (n + 1) + 1 ELSE 0
        /\ \A i \in 1 .. Len(s) - (n + 1) + 1 : c[i] = s[n + 1 + i - 1]
    BY ONLY <2>1, SubSeqProperties
  <2> HIDE DEF c
  <2> QED
    BY <1>2, <2>2
<1>5. IsLog(a) /\ IsLog(c)
  BY <1>3, <1>4 DEF IsLog
<1>6. IsLog(<<e>>) /\ Len(<<e>>) = 1 /\ <<e>>[1] = e
  <2>1. <<e>> \in Seq({e}) /\ Len(<<e>>) = 1 /\ <<e>>[1] = e
    OBVIOUS
  <2> QED
    BY <2>1 DEF IsLog
<1> HIDE DEF a, c
<1>7. /\ IsLog(b) /\ Len(b) = n + 1
      /\ \A i \in 1 .. n : b[i] = s[i]
      /\ b[n + 1] = e
  <2> DEFINE one == <<e>>
  <2> HIDE DEF one
  <2>1. IsLog(one) /\ Len(one) = 1 /\ one[1] = e
    BY <1>6 DEF one
  <2>2. /\ IsLog(a \o one) /\ Len(a \o one) = Len(a) + Len(one)
        /\ \A i \in 1 .. Len(a) : (a \o one)[i] = a[i]
        /\ \A i \in 1 .. Len(one) : (a \o one)[Len(a) + i] = one[i]
    BY <1>5, <2>1, LogJoined
  <2> QED
    BY <1>2, <1>3, <2>1, <2>2 DEF one
<1> HIDE DEF b
<1>8. /\ IsLog(h) /\ Len(h) = Len(b) + Len(c)
      /\ \A i \in 1 .. Len(b) : h[i] = b[i]
      /\ \A i \in 1 .. Len(c) : h[Len(b) + i] = c[i]
  BY <1>5, <1>7, LogJoined
<1> HIDE DEF h
<1>9. \A i \in 1 .. n : h[i] = s[i]
  BY <1>2, <1>7, <1>8
<1>10. Len(h) = Len(s) + 1 /\ h[n + 1] = e
  BY <1>2, <1>4, <1>7, <1>8
<1>11. ASSUME NEW i \in n + 1 .. Len(s) PROVE h[i + 1] = s[i]
  <2>1. i - n \in 1 .. Len(c) /\ Len(b) + (i - n) = i + 1 /\ n + (i - n) = i
    BY <1>2, <1>4, <1>7
  <2>2. i - n \in 1 .. Len(s) - n /\ c[i - n] = s[n + (i - n)]
    BY <1>4, <2>1
  <2>3. h[Len(b) + (i - n)] = c[i - n]
    BY <1>8, <2>1
  <2> QED
    BY <2>1, <2>2, <2>3
<1> QED
  BY <1>8, <1>9, <1>10, <1>11 DEF Inserted, h, b, a, c

\* `uci reorder': one section on another place.
LEMMA ReorderedFile ==
  ASSUME NEW file, WellFormed(file), NEW id \in Ids(file), NEW place \in Nat
  PROVE  LET g    == UciReorder(file, id, place)
             rest == UciDelete(file, id)
             n    == IF place < Len(rest) THEN place ELSE Len(rest)
         IN  /\ Keeps(file, g, id) /\ Ids(g) = Ids(file) /\ Of(g, id) = Of(file, id)
             /\ Pos(g, id) = n + 1
             /\ \A x \in Ids(file) \ {id} :
                  Pos(g, x) < Pos(g, id) <=> Pos(rest, x) <= n
<1> DEFINE g    == UciReorder(file, id, place)
           rest == UciDelete(file, id)
           n    == IF place < Len(rest) THEN place ELSE Len(rest)
           s    == Of(file, id)
           to(i) == IF i <= n THEN i ELSE i + 1
<1>1. /\ WellFormed(rest) /\ Ids(rest) = Ids(file) \ {id}
      /\ \A x \in Ids(file) \ {id} : Of(rest, x) = Of(file, x)
      /\ SameOrder(file, rest, Ids(file) \ {id})
  BY DeletedFile DEF Keeps
<1>2. Formed(s) /\ s.id = id
  BY SectionAt
<1> HIDE DEF rest, s
<1>3. Len(rest) \in Nat /\ DOMAIN rest = 1 .. Len(rest) /\ IsLog(rest) /\ Named(rest)
  BY <1>1, LogShape DEF WellFormed
<1>4. n \in 0 .. Len(rest)
  BY <1>3
<1>5. /\ IsLog(g) /\ Len(g) = Len(rest) + 1
      /\ \A i \in 1 .. n : g[i] = rest[i]
      /\ g[n + 1] = s
      /\ \A i \in n + 1 .. Len(rest) : g[i + 1] = rest[i]
  <2>1. g = SubSeq(rest, 1, n) \o <<s>> \o SubSeq(rest, n + 1, Len(rest))
    BY DEF UciReorder, rest, s
  <2> HIDE DEF g, n
  <2>2. Inserted(rest, n, s, g)
    BY <1>3, <1>4, <2>1, LogInserted
  <2> QED
    BY <2>2 DEF Inserted
<1> HIDE DEF g, n
<1>6. DOMAIN g = 1 .. Len(rest) + 1
  BY <1>5, LogShape
<1>7. \A i \in DOMAIN rest : to(i) \in DOMAIN g /\ to(i) # n + 1 /\ g[to(i)] = rest[i]
  BY <1>3, <1>4, <1>5, <1>6
<1>8. ASSUME NEW j \in DOMAIN g, j # n + 1
      PROVE  \E i \in DOMAIN rest : j = to(i)
  <2>1. CASE j <= n
    BY <1>3, <1>4, <1>6, <1>8, <2>1
  <2>2. CASE j > n + 1
    <3>1. j - 1 \in DOMAIN rest /\ to(j - 1) = j
      BY <1>3, <1>4, <1>6, <2>2
    <3> QED
      BY <3>1
  <2> QED
    BY <1>3, <1>4, <1>6, <1>8, <2>1, <2>2
<1>9. n + 1 \in DOMAIN g
  BY <1>3, <1>4, <1>6
<1>10. \A i, j \in DOMAIN rest : i < j <=> to(i) < to(j)
  BY <1>3, <1>4
<1>11. \A i \in DOMAIN rest : to(i) < n + 1 <=> i <= n
  BY <1>3, <1>4
<1> HIDE DEF to
<1>12. \A i \in DOMAIN rest : rest[i].id # id
  BY <1>1 DEF Ids
<1>13. Named(g)
  <2> SUFFICES ASSUME NEW i \in DOMAIN g, NEW j \in DOMAIN g, g[i].id = g[j].id
               PROVE  i = j
    BY DEF Named
  <2>1. CASE i = n + 1 /\ j = n + 1
    BY <2>1
  <2>2. CASE i = n + 1 /\ j # n + 1
    BY <1>2, <1>5, <1>7, <1>8, <1>12, <2>2
  <2>3. CASE i # n + 1 /\ j = n + 1
    BY <1>2, <1>5, <1>7, <1>8, <1>12, <2>3
  <2>4. CASE i # n + 1 /\ j # n + 1
    <3>1. PICK x \in DOMAIN rest, y \in DOMAIN rest : i = to(x) /\ j = to(y)
      BY <1>8, <2>4
    <3>2. rest[x].id = rest[y].id
      BY <1>7, <3>1
    <3>3. x = y
      BY <1>3, <3>2 DEF Named
    <3> QED
      BY <3>1, <3>3
  <2> QED
    BY <2>1, <2>2, <2>3, <2>4
<1>14. WellFormed(g)
  <2> SUFFICES ASSUME NEW j \in DOMAIN g PROVE Formed(g[j])
    BY <1>5, <1>13 DEF WellFormed
  <2>1. CASE j = n + 1
    BY <1>2, <1>5, <2>1
  <2>2. CASE j # n + 1
    BY <1>1, <1>7, <1>8, <2>2 DEF WellFormed
  <2> QED
    BY <2>1, <2>2
<1>15. id \in Ids(g) /\ Pos(g, id) = n + 1 /\ Of(g, id) = s
  BY <1>2, <1>5, <1>9, <1>13, FoundAt
<1>16. ASSUME NEW x \in Ids(rest)
       PROVE  /\ x \in Ids(g) /\ Pos(g, x) = to(Pos(rest, x)) /\ Of(g, x) = Of(rest, x)
              /\ Pos(rest, x) \in DOMAIN rest
  <2>1. Pos(rest, x) \in DOMAIN rest /\ rest[Pos(rest, x)].id = x
    BY PosIn
  <2>2. /\ to(Pos(rest, x)) \in DOMAIN g
        /\ g[to(Pos(rest, x))] = rest[Pos(rest, x)]
    BY <1>7, <2>1
  <2> QED
    BY <1>13, <2>1, <2>2, FoundAt DEF Of
<1>17. Ids(g) = Ids(file)
  <2>1. ASSUME NEW x \in Ids(g), x # id PROVE x \in Ids(rest)
    <3>1. PICK j \in DOMAIN g : g[j].id = x
      BY DEF Ids
    <3>2. j # n + 1
      BY <1>2, <1>5, <2>1, <3>1
    <3>3. PICK i \in DOMAIN rest : j = to(i)
      BY <1>8, <3>2
    <3> QED
      BY <1>7, <3>1, <3>3 DEF Ids
  <2> QED
    BY <1>1, <1>15, <1>16, <2>1
<1>18. SameOrder(file, g, Ids(file) \ {id})
  <2> SUFFICES ASSUME NEW x \in Ids(file) \ {id}, NEW y \in Ids(file) \ {id}
               PROVE  Pos(file, x) < Pos(file, y) <=> Pos(g, x) < Pos(g, y)
    BY DEF SameOrder
  <2>1. Pos(file, x) < Pos(file, y) <=> Pos(rest, x) < Pos(rest, y)
    BY <1>1 DEF SameOrder
  <2>2. Pos(rest, x) < Pos(rest, y) <=> to(Pos(rest, x)) < to(Pos(rest, y))
    BY <1>1, <1>10, <1>16
  <2>3. Pos(g, x) = to(Pos(rest, x)) /\ Pos(g, y) = to(Pos(rest, y))
    BY <1>1, <1>16
  <2> QED
    BY <2>1, <2>2, <2>3
<1>19. \A x \in Ids(file) \ {id} : Of(g, x) = Of(file, x)
  BY <1>1, <1>16
<1>20. Keeps(file, g, id)
  BY <1>14, <1>17, <1>18, <1>19 DEF Keeps
<1>21. \A x \in Ids(file) \ {id} : Pos(g, x) < Pos(g, id) <=> Pos(rest, x) <= n
  BY <1>1, <1>11, <1>15, <1>16
<1> QED
  BY <1>15, <1>17, <1>20, <1>21 DEF g, rest, n, s

\* The names a sequence mentions are finitely many.
LEMMA NamesFinite ==
  ASSUME NEW log, IsLog(log)
  PROVE  IsFiniteSet({log[i].id : i \in DOMAIN log})
<1> DEFINE f == [i \in DOMAIN log |-> log[i].id]
           T == {log[i].id : i \in DOMAIN log}
<1>1. IsFiniteSet(DOMAIN log)
  BY LogShape
<1>2. f \in Surjection(DOMAIN log, T)
  BY DEF Surjection
<1> QED
  BY <1>1, <1>2, FS_Surjection

\* The name uci gives a new section is nobody's, and was nobody's.
LEMMA NewIdIs ==
  ASSUME NEW file, IsLog(file), NEW log, IsLog(log)
  PROVE  /\ NewId(file, log) \in Nat \ {0} /\ NewId(file, log) \notin Ids(file)
         /\ \A i \in DOMAIN log : log[i].id # NewId(file, log)
<1> DEFINE used == Ids(file) \cup {log[i].id : i \in DOMAIN log}
<1>1. IsFiniteSet(used)
  BY NamesFinite, FS_Union DEF Ids
<1>2. Cardinality(used) \in Nat
  BY <1>1, FS_CardinalityType
<1>3. \E n \in 1 .. Cardinality(used) + 1 : n \notin used
  <2> SUFFICES ASSUME 1 .. Cardinality(used) + 1 \subseteq used PROVE FALSE
    OBVIOUS
  <2>1. Cardinality(1 .. Cardinality(used) + 1) <= Cardinality(used)
    BY <1>1, FS_Subset
  <2>2. Cardinality(1 .. Cardinality(used) + 1) = Cardinality(used) + 1
    BY <1>2, FS_Interval
  <2> QED
    BY <1>2, <2>1, <2>2
<1>4. NewId(file, log) \in 1 .. Cardinality(used) + 1 /\ NewId(file, log) \notin used
  BY <1>3 DEF NewId
<1> QED
  BY <1>2, <1>4

-----------------------------------------------------------------------------
(***************************************************************************)
(* Batches, and the lines they make.                                       *)
(***************************************************************************)

InBatch(sets) == {sets[i] : i \in DOMAIN sets}

\* The settings of a batch that are picked, in turn.
LEMMA InTurnIs ==
  ASSUME NEW sets, IsLog(sets), NEW E, E \subseteq InBatch(sets)
  PROVE  LET es == InTurn(sets, E)
         IN  /\ IsLog(es) /\ \A i \in DOMAIN es : es[i] \in E
             /\ \A s \in E : \E i \in DOMAIN es : es[i] = s
<1> DEFINE K == {i \in DOMAIN sets : sets[i] \in E}
           es == InTurn(sets, E)
<1>1. K \in SUBSET DOMAIN sets /\ es = Picked(sets, K)
  BY DEF InTurn
<1>2. \A s \in E : \E i \in K : sets[i] = s
  BY DEF InBatch
<1>3. \A i \in K : sets[i] \in E
  OBVIOUS
<1> HIDE DEF K, es
<1>4. /\ IsLog(es)
      /\ \A i \in K : Rank(K, i) \in DOMAIN es /\ es[Rank(K, i)] = sets[i]
      /\ \A n \in DOMAIN es : Nth(K, n) \in K /\ es[n] = sets[Nth(K, n)]
  BY <1>1, PickedIs
<1>5. IsLog(es) /\ (\A i \in DOMAIN es : es[i] \in E)
      /\ \A s \in E : \E i \in DOMAIN es : es[i] = s
  BY <1>2, <1>3, <1>4
<1> QED
  BY <1>5 DEF es

\* One line for each of them, of its section and about its key.
LEMMA LinesAre ==
  ASSUME NEW id, NEW sets, IsLog(sets), NEW E, E \subseteq InBatch(sets)
  PROVE  LET log == LinesOf(id, sets, E)
         IN  /\ IsLog(log) /\ Len(log) = Len(InTurn(sets, E))
             /\ \A i \in DOMAIN log :
                  /\ log[i].id = id /\ ~log[i].reorder
                  /\ \E s \in E : log[i].option = s.key
             /\ \A s \in E : \E i \in DOMAIN log : log[i].option = s.key
<1> DEFINE es == InTurn(sets, E)
           log == LinesOf(id, sets, E)
<1>1. /\ IsLog(es) /\ \A i \in DOMAIN es : es[i] \in E
      /\ \A s \in E : \E i \in DOMAIN es : es[i] = s
  BY InTurnIs
<1>2. log = [i \in DOMAIN es |-> Line(id, es[i].key, FALSE)]
  BY DEF LinesOf
<1> HIDE DEF es, log
<1>3. DOMAIN es = 1 .. Len(es) /\ Len(es) \in Nat
  BY <1>1, LogShape
<1>4. IsLog(log) /\ Len(log) = Len(es) /\ DOMAIN log = DOMAIN es
  <2>1. log = [i \in 1 .. Len(es) |-> log[i]]
    BY <1>2, <1>3
  <2> QED
    BY <1>2, <1>3, <2>1, LogMade
<1>5. \A i \in DOMAIN es :
        log[i].id = id /\ ~log[i].reorder /\ log[i].option = es[i].key
  BY <1>2 DEF Line
<1> QED
  BY <1>1, <1>4, <1>5 DEF es, log

-----------------------------------------------------------------------------
(***************************************************************************)
(* A draft is recorded: its lines tell everything it changes.              *)
(***************************************************************************)

\* A line that writes an option of a section, or with "" the section itself,
\* and one that moves it.
SetLine(l, x, o) == \E i \in DOMAIN l : l[i].id = x /\ l[i].option = o /\ ~l[i].reorder
MoveLine(l, x) == \E i \in DOMAIN l : l[i].id = x /\ l[i].reorder

\* What the lines say of one section: it came or went, or else they have every
\* option of it that is another now.
SectionTold(c, v, l, x) ==
  IF x \in Ids(c) \cap Ids(v)
    THEN /\ ~SetLine(l, x, "")
         /\ Of(c, x).kind = Of(v, x).kind
         /\ DOMAIN Of(c, x).opt = DOMAIN Of(v, x).opt
         /\ \A o \in DOMAIN Of(c, x).opt :
              Of(c, x).opt[o] # Of(v, x).opt[o] => SetLine(l, x, o)
    ELSE SetLine(l, x, "")

\* The sections nobody moved are in the order they were in.
OrderTold(c, v, l) ==
  SameOrder(c, v, {x \in Ids(c) \cap Ids(v) : ~MoveLine(l, x)})

Recorded(c, v, l) ==
  /\ WellFormed(c) /\ WellFormed(v) /\ IsLog(l)
  /\ \A i \in DOMAIN l : l[i].reorder => l[i].option = ""
  /\ \A x \in Ids(c) \cup Ids(v) : SectionTold(c, v, l, x)
  /\ OrderTold(c, v, l)

\* Some more lines, all of one section.
IsLineOf(e, id) == e.id = id /\ (e.reorder => e.option = "")

Longer(l, m, id) ==
  /\ IsLog(m)
  /\ \A i \in DOMAIN l : i \in DOMAIN m /\ m[i] = l[i]
  /\ \A i \in DOMAIN m : i \notin DOMAIN l => IsLineOf(m[i], id)

LEMMA LongerByOne ==
  ASSUME NEW l, IsLog(l), NEW id, NEW e, IsLineOf(e, id)
  PROVE  LET m == Append(l, e)
         IN  /\ Longer(l, m, id) /\ \E i \in DOMAIN m : m[i] = e
             /\ \A i \in DOMAIN m : i \notin DOMAIN l => m[i] = e
<1> DEFINE m == Append(l, e)
<1>1. /\ IsLog(m) /\ Len(m) = Len(l) + 1
      /\ \A i \in 1 .. Len(l) : m[i] = l[i]
      /\ m[Len(l) + 1] = e
  BY LogAppended
<1> HIDE DEF m
<1>2. Len(l) \in Nat /\ DOMAIN l = 1 .. Len(l) /\ DOMAIN m = 1 .. Len(l) + 1
  BY <1>1, LogShape
<1>3. \A i \in DOMAIN l : i \in DOMAIN m /\ m[i] = l[i]
  BY <1>1, <1>2
<1>4. \A i \in DOMAIN m : i \notin DOMAIN l => i = Len(l) + 1
  BY <1>2
<1>5. Len(l) + 1 \in DOMAIN m
  BY <1>2
<1> QED
  BY <1>1, <1>3, <1>4, <1>5 DEF Longer, m

LEMMA LongerByBatch ==
  ASSUME NEW l, IsLog(l), NEW id, NEW sets, IsLog(sets),
         NEW E, E \subseteq InBatch(sets)
  PROVE  LET m == l \o LinesOf(id, sets, E)
         IN  /\ Longer(l, m, id)
             /\ \A i \in DOMAIN m : i \notin DOMAIN l =>
                  ~m[i].reorder /\ \E s \in E : m[i].option = s.key
             /\ \A s \in E : SetLine(m, id, s.key)
<1> DEFINE t == LinesOf(id, sets, E)
           m == l \o t
<1>1. /\ IsLog(t)
      /\ \A i \in DOMAIN t : /\ t[i].id = id /\ ~t[i].reorder
                             /\ \E s \in E : t[i].option = s.key
      /\ \A s \in E : \E i \in DOMAIN t : t[i].option = s.key
  BY LinesAre
<1> HIDE DEF t
<1>2. /\ IsLog(m) /\ Len(m) = Len(l) + Len(t)
      /\ \A i \in 1 .. Len(l) : m[i] = l[i]
      /\ \A i \in 1 .. Len(t) : m[Len(l) + i] = t[i]
  BY <1>1, LogJoined
<1> HIDE DEF m
<1>3. /\ Len(l) \in Nat /\ DOMAIN l = 1 .. Len(l)
      /\ Len(t) \in Nat /\ DOMAIN t = 1 .. Len(t)
      /\ DOMAIN m = 1 .. Len(l) + Len(t)
  BY <1>1, <1>2, LogShape
<1>4. \A i \in DOMAIN l : i \in DOMAIN m /\ m[i] = l[i]
  BY <1>2, <1>3
<1>5. ASSUME NEW i \in DOMAIN m, i \notin DOMAIN l
      PROVE  \E j \in DOMAIN t : m[i] = t[j]
  <2>1. i - Len(l) \in DOMAIN t /\ Len(l) + (i - Len(l)) = i
    BY <1>3, <1>5
  <2>2. m[Len(l) + (i - Len(l))] = t[i - Len(l)]
    BY <1>2, <1>3, <2>1
  <2> QED
    BY <2>1, <2>2
<1>6. ASSUME NEW j \in DOMAIN t PROVE \E i \in DOMAIN m : m[i] = t[j]
  <2>1. Len(l) + j \in DOMAIN m
    BY <1>3
  <2> QED
    BY <1>2, <1>3, <2>1
<1>7. Longer(l, m, id)
  BY <1>1, <1>2, <1>4, <1>5 DEF Longer, IsLineOf
<1>8. \A s \in E : SetLine(m, id, s.key)
  BY <1>1, <1>6 DEF SetLine
<1>9. \A i \in DOMAIN m : i \notin DOMAIN l =>
        ~m[i].reorder /\ \E s \in E : m[i].option = s.key
  BY <1>1, <1>5
<1> QED
  BY <1>7, <1>8, <1>9 DEF m, t

\* More lines of one section say no more of the others.
LEMMA LinesOfOthers ==
  ASSUME NEW l, NEW m, NEW id, Longer(l, m, id), NEW x
  PROVE  /\ x # id => /\ \A o : SetLine(m, x, o) <=> SetLine(l, x, o)
                      /\ MoveLine(m, x) <=> MoveLine(l, x)
         /\ \A o : SetLine(l, x, o) => SetLine(m, x, o)
         /\ MoveLine(l, x) => MoveLine(m, x)
<1>1. ASSUME NEW o, SetLine(l, x, o) PROVE SetLine(m, x, o)
  BY <1>1 DEF SetLine, Longer, IsLineOf
<1>2. ASSUME MoveLine(l, x) PROVE MoveLine(m, x)
  BY <1>2 DEF MoveLine, Longer
<1>3. ASSUME x # id, NEW o, SetLine(m, x, o) PROVE SetLine(l, x, o)
  <2>1. PICK i \in DOMAIN m : m[i].id = x /\ m[i].option = o /\ ~m[i].reorder
    BY <1>3 DEF SetLine
  <2>2. i \in DOMAIN l
    BY <1>3, <2>1 DEF Longer, IsLineOf
  <2> QED
    BY <2>1, <2>2 DEF SetLine, Longer, IsLineOf
<1>4. ASSUME x # id, MoveLine(m, x) PROVE MoveLine(l, x)
  <2>1. PICK i \in DOMAIN m : m[i].id = x /\ m[i].reorder
    BY <1>4 DEF MoveLine
  <2>2. i \in DOMAIN l
    BY <1>4, <2>1 DEF Longer, IsLineOf
  <2> QED
    BY <2>1, <2>2 DEF MoveLine, Longer
<1> QED
  BY <1>1, <1>2, <1>3, <1>4

\* A step of a draft that is about one section.
LEMMA RecordedStep ==
  ASSUME NEW c, NEW v, NEW l, Recorded(c, v, l),
         NEW w, NEW m, NEW id, Keeps(v, w, id), Longer(l, m, id),
         id \in Ids(c) \cup Ids(w) => SectionTold(c, w, m, id),
         \/ SameOrder(v, w, Ids(v) \cap Ids(w))
         \/ MoveLine(m, id)
         \/ id \notin Ids(c) \cap Ids(w)
  PROVE  Recorded(c, w, m)
<1>1. ASSUME NEW x \in Ids(c) \cup Ids(w), x # id PROVE SectionTold(c, w, m, x)
  <2>1. x \in Ids(w) <=> x \in Ids(v)
    BY <1>1 DEF Keeps
  <2>2. x \in Ids(w) => Of(w, x) = Of(v, x)
    BY <1>1, <2>1 DEF Keeps
  <2>3. \A o : SetLine(m, x, o) <=> SetLine(l, x, o)
    BY <1>1, LinesOfOthers
  <2>4. SectionTold(c, v, l, x)
    BY <1>1, <2>1 DEF Recorded
  <2> QED
    BY <2>1, <2>2, <2>3, <2>4 DEF SectionTold
<1>2. OrderTold(c, w, m)
  <2> SUFFICES ASSUME NEW x \in Ids(c) \cap Ids(w), ~MoveLine(m, x),
                      NEW y \in Ids(c) \cap Ids(w), ~MoveLine(m, y)
               PROVE  Pos(c, x) < Pos(c, y) <=> Pos(w, x) < Pos(w, y)
    BY DEF OrderTold, SameOrder
  <2>1. ASSUME x \in Ids(v), y \in Ids(v)
        PROVE  Pos(c, x) < Pos(c, y) <=> Pos(v, x) < Pos(v, y)
    <3>1. ~MoveLine(l, x) /\ ~MoveLine(l, y)
      BY LinesOfOthers
    <3> QED
      BY <2>1, <3>1 DEF Recorded, OrderTold, SameOrder
  <2>2. CASE x # id /\ y # id
    <3>1. x \in Ids(v) \ {id} /\ y \in Ids(v) \ {id}
      BY <2>2 DEF Keeps
    <3>2. Pos(v, x) < Pos(v, y) <=> Pos(w, x) < Pos(w, y)
      BY <3>1 DEF Keeps, SameOrder
    <3> QED
      BY <2>1, <3>1, <3>2
  <2>3. CASE x = id \/ y = id
    <3>1. SameOrder(v, w, Ids(v) \cap Ids(w))
      BY <2>3
    <3>2. CASE x = y
      <4>1. WellFormed(c) /\ WellFormed(w)
        BY DEF Recorded, Keeps
      <4>2. Pos(c, x) \in Int /\ Pos(w, x) \in Int
        BY <4>1, SectionAt
      <4> QED
        BY <3>2, <4>2
    <3>3. CASE id \in Ids(v)
      <4>1. x \in Ids(v) \cap Ids(w) /\ y \in Ids(v) \cap Ids(w)
        BY <3>3 DEF Keeps
      <4> QED
        BY <2>1, <3>1, <4>1 DEF SameOrder
    <3>4. CASE id \notin Ids(v) /\ x # y
      <4>1. id \in Ids(c) \cap Ids(w)
        BY <2>3
      <4>2. SetLine(l, id, "") /\ ~SetLine(m, id, "")
        BY <3>4, <4>1 DEF Recorded, SectionTold
      <4> QED
        BY <4>2, LinesOfOthers
    <3> QED
      BY <3>2, <3>3, <3>4
  <2> QED
    BY <2>2, <2>3
<1>3. \A i \in DOMAIN m : m[i].reorder => m[i].option = ""
  BY DEF Recorded, Longer, IsLineOf
<1> QED
  BY <1>1, <1>2, <1>3 DEF Recorded, Keeps, Longer

\* A draft nobody has touched.
LEMMA RecordedNone ==
  ASSUME NEW c, WellFormed(c)
  PROVE  Recorded(c, c, <<>>)
<1> DEFINE l == <<>>
<1>1. IsLog(l) /\ DOMAIN l = {}
  <2>1. l \in Seq({}) /\ DOMAIN l = {}
    OBVIOUS
  <2> QED
    BY <2>1 DEF IsLog
<1> HIDE DEF l
<1>2. \A x \in Ids(c) : SectionTold(c, c, l, x)
  BY <1>1 DEF SectionTold, SetLine
<1>3. OrderTold(c, c, l)
  BY DEF OrderTold, SameOrder
<1>4. Recorded(c, c, l)
  BY <1>1, <1>2, <1>3 DEF Recorded
<1> QED
  BY <1>4 DEF l

\* A batch, or a part of one: what it changes has a line.
LEMMA RecordedSet ==
  ASSUME NEW c, NEW v, NEW l, Recorded(c, v, l), NEW id \in Ids(v),
         NEW sets, IsLog(sets), NEW E, E \subseteq InBatch(sets),
         \A s \in E : s.key # ""
  PROVE  Recorded(c, Staged(v, id, E), l \o LinesOf(id, sets, E))
<1> DEFINE w == Staged(v, id, E)
           m == l \o LinesOf(id, sets, E)
           was == Of(v, id)
           o == Over(was.opt, Values(E))
<1>1. WellFormed(v) /\ IsLog(l)
  BY DEF Recorded
<1>2. /\ Keeps(v, w, id) /\ Ids(w) = Ids(v)
      /\ \A x \in Ids(v) : Pos(w, x) = Pos(v, x)
      /\ Of(w, id) = Section(id, was.kind, o)
  BY <1>1, StagedFile
<1>3. /\ Longer(l, m, id)
      /\ \A i \in DOMAIN m : i \notin DOMAIN l =>
           ~m[i].reorder /\ \E s \in E : m[i].option = s.key
      /\ \A s \in E : SetLine(m, id, s.key)
  BY <1>1, LongerByBatch
<1>5. /\ DOMAIN o = DOMAIN was.opt
      /\ \A k \in DOMAIN was.opt : o[k] # was.opt[k] => \E s \in E : s.key = k
  BY DEF Over, Values
<1> HIDE DEF w, m, was, o
<1>4. Of(w, id).kind = was.kind /\ Of(w, id).opt = o
  <2>1. Of(w, id) = Section(id, was.kind, o)
    BY <1>2
  <2> QED
    BY ONLY <2>1, SectionFields
<1>6. SectionTold(c, w, m, id)
  <2>1. SectionTold(c, v, l, id)
    BY DEF Recorded
  <2>2. CASE id \notin Ids(c)
    BY <1>3, <2>1, <2>2, LinesOfOthers DEF SectionTold
  <2>3. CASE id \in Ids(c)
    <3>1. /\ ~SetLine(l, id, "")
          /\ Of(c, id).kind = was.kind /\ DOMAIN Of(c, id).opt = DOMAIN was.opt
          /\ \A k \in DOMAIN Of(c, id).opt :
               Of(c, id).opt[k] # was.opt[k] => SetLine(l, id, k)
      BY <2>1, <2>3 DEF SectionTold, was
    <3>2. ~SetLine(m, id, "")
      <4> SUFFICES ASSUME NEW i \in DOMAIN m, m[i].id = id, m[i].option = "",
                          ~m[i].reorder
                   PROVE  FALSE
        BY DEF SetLine
      <4>1. i \in DOMAIN l
        BY <1>3
      <4> QED
        BY <1>3, <3>1, <4>1 DEF SetLine, Longer
    <3>3. ASSUME NEW k \in DOMAIN Of(c, id).opt, Of(c, id).opt[k] # o[k]
          PROVE  SetLine(m, id, k)
      <4>1. CASE o[k] # was.opt[k]
        BY <1>3, <1>5, <3>1, <4>1
      <4>2. CASE o[k] = was.opt[k]
        <5>1. SetLine(l, id, k)
          BY <3>1, <3>3, <4>2
        <5> QED
          BY <1>3, <5>1, LinesOfOthers
      <4> QED
        BY <4>1, <4>2
    <3> QED
      BY <1>2, <1>4, <1>5, <2>3, <3>1, <3>2, <3>3 DEF SectionTold
  <2> QED
    BY <2>2, <2>3
<1>7. SameOrder(v, w, Ids(v) \cap Ids(w))
  BY <1>2, SamePlaces
<1>8. Recorded(c, w, m)
  BY <1>2, <1>3, <1>6, <1>7, RecordedStep
<1> QED
  BY <1>8 DEF w, m

\* A new section.
LEMMA RecordedAdd ==
  ASSUME NEW c, NEW v, NEW l, Recorded(c, v, l), NEW kind, NEW opt,
         opt = [o \in DOMAIN opt |-> opt[o]], "" \notin DOMAIN opt
  PROVE  LET id == NewId(v, l)
             w  == Append(v, Section(id, kind, opt))
         IN  /\ Recorded(c, w, Append(l, Line(id, "", FALSE)))
             /\ id \notin Ids(c) /\ id \notin Ids(v) /\ id \in Ids(w)
<1> DEFINE id == NewId(v, l)
           s  == Section(id, kind, opt)
           w  == Append(v, s)
           e  == Line(id, "", FALSE)
           m  == Append(l, e)
<1>1. WellFormed(v) /\ IsLog(l) /\ IsLog(v)
  BY DEF Recorded, WellFormed
<1>2. id \in Nat \ {0} /\ id \notin Ids(v) /\ \A i \in DOMAIN l : l[i].id # id
  BY <1>1, NewIdIs
<1> HIDE DEF id
<1>3. Formed(s) /\ s.id = id
  <2>1. s.id = id /\ s.kind = kind /\ s.opt = opt
    BY DEF Section
  <2>2. id \in Int \ {0}
    BY ONLY <1>2
  <2> QED
    BY <2>1, <2>2 DEF Formed
<1> HIDE DEF s
<1>4. Keeps(v, w, id) /\ Ids(w) = Ids(v) \cup {id}
  BY <1>1, <1>2, <1>3, AddedFile
<1>5. e.id = id /\ e.option = "" /\ ~e.reorder
  BY DEF Line
<1> HIDE DEF e
<1>0. IsLineOf(e, id)
  BY <1>5 DEF IsLineOf
<1>6. Longer(l, m, id) /\ \E i \in DOMAIN m : m[i] = e
  BY <1>0, <1>1, LongerByOne
<1> HIDE DEF w, m
<1>7. id \notin Ids(c)
  <2> SUFFICES ASSUME id \in Ids(c) PROVE FALSE
    OBVIOUS
  <2>1. SectionTold(c, v, l, id)
    BY DEF Recorded
  <2> QED
    BY <1>2, <2>1 DEF SectionTold, SetLine
<1>8. SectionTold(c, w, m, id)
  BY <1>5, <1>6, <1>7 DEF SectionTold, SetLine
<1>9. Recorded(c, w, m)
  BY <1>4, <1>6, <1>7, <1>8, RecordedStep
<1> QED
  BY <1>2, <1>4, <1>7, <1>9 DEF id, s, w, e, m

\* A section less.
LEMMA RecordedDelete ==
  ASSUME NEW c, NEW v, NEW l, Recorded(c, v, l), NEW id \in Ids(v)
  PROVE  Recorded(c, UciDelete(v, id), Append(l, Line(id, "", FALSE)))
<1> DEFINE w == UciDelete(v, id)
           e == Line(id, "", FALSE)
           m == Append(l, e)
<1>1. WellFormed(v) /\ IsLog(l)
  BY DEF Recorded
<1>2. Keeps(v, w, id) /\ Ids(w) = Ids(v) \ {id}
  BY <1>1, DeletedFile
<1>3. e.id = id /\ e.option = "" /\ ~e.reorder
  BY DEF Line
<1> HIDE DEF e
<1>0. IsLineOf(e, id)
  BY <1>3 DEF IsLineOf
<1>4. Longer(l, m, id) /\ \E i \in DOMAIN m : m[i] = e
  BY <1>0, <1>1, LongerByOne
<1> HIDE DEF w, m
<1>5. SectionTold(c, w, m, id)
  BY <1>2, <1>3, <1>4 DEF SectionTold, SetLine
<1>6. Recorded(c, w, m)
  BY <1>2, <1>4, <1>5, RecordedStep
<1> QED
  BY <1>6 DEF w, e, m

\* A section on another place.
LEMMA RecordedMove ==
  ASSUME NEW c, NEW v, NEW l, Recorded(c, v, l), NEW id \in Ids(v),
         NEW place \in Nat
  PROVE  Recorded(c, UciReorder(v, id, place), Append(l, Line(id, "", TRUE)))
<1> DEFINE w == UciReorder(v, id, place)
           e == Line(id, "", TRUE)
           m == Append(l, e)
<1>1. WellFormed(v) /\ IsLog(l)
  BY DEF Recorded
<1>2. Keeps(v, w, id) /\ Ids(w) = Ids(v) /\ Of(w, id) = Of(v, id)
  BY <1>1, ReorderedFile
<1>3. e.id = id /\ e.option = "" /\ e.reorder
  BY DEF Line
<1> HIDE DEF e
<1>0. IsLineOf(e, id)
  BY <1>3 DEF IsLineOf
<1>4. /\ Longer(l, m, id) /\ \E i \in DOMAIN m : m[i] = e
      /\ \A i \in DOMAIN m : i \notin DOMAIN l => m[i] = e
  BY <1>0, <1>1, LongerByOne
<1> HIDE DEF w, m
<1>5. \A o : SetLine(m, id, o) <=> SetLine(l, id, o)
  <2>1. ASSUME NEW o, SetLine(m, id, o) PROVE SetLine(l, id, o)
    <3>1. PICK i \in DOMAIN m : m[i].id = id /\ m[i].option = o /\ ~m[i].reorder
      BY <2>1 DEF SetLine
    <3>2. i \in DOMAIN l
      BY <1>3, <1>4, <3>1
    <3> QED
      BY <1>4, <3>1, <3>2 DEF SetLine, Longer
  <2> QED
    BY <1>4, <2>1, LinesOfOthers
<1>6. SectionTold(c, w, m, id)
  <2>1. SectionTold(c, v, l, id)
    BY DEF Recorded
  <2> QED
    BY <1>2, <1>5, <2>1 DEF SectionTold
<1>7. MoveLine(m, id)
  BY <1>3, <1>4 DEF MoveLine
<1>8. Recorded(c, w, m)
  BY <1>2, <1>4, <1>6, <1>7, RecordedStep
<1> QED
  BY <1>8 DEF w, e, m

-----------------------------------------------------------------------------
(***************************************************************************)
(* The sections of one kind, and their numbers.                            *)
(***************************************************************************)

IdsOfKind(file, kind) == {x \in Ids(file) : Of(file, x).kind = kind}

\* They are a file of their own, in the order of the whole one.
LEMMA OfKindIs ==
  ASSUME NEW file, WellFormed(file), NEW kind
  PROVE  LET rs == OfKind(file, kind)
             K  == {i \in DOMAIN file : file[i].kind = kind}
         IN  /\ WellFormed(rs) /\ Ids(rs) = IdsOfKind(file, kind)
             /\ \A x \in Ids(rs) : /\ Of(rs, x) = Of(file, x)
                                   /\ Pos(rs, x) = Rank(K, Pos(file, x))
             /\ SameOrder(file, rs, Ids(rs))
<1> DEFINE rs == OfKind(file, kind)
           K  == {i \in DOMAIN file : file[i].kind = kind}
<1>1. IsLog(file) /\ Named(file)
  BY DEF WellFormed
<1>2. K \in SUBSET DOMAIN file /\ rs = Picked(file, K)
  BY DEF OfKind
<1>3. \A i \in DOMAIN file : i \in K <=> file[i].kind = kind
  OBVIOUS
<1> HIDE DEF K, rs
<1>4. /\ IsLog(rs)
      /\ \A i \in K : Rank(K, i) \in DOMAIN rs /\ rs[Rank(K, i)] = file[i]
      /\ \A n \in DOMAIN rs : /\ Nth(K, n) \in K /\ Rank(K, Nth(K, n)) = n
                              /\ rs[n] = file[Nth(K, n)]
  BY <1>1, <1>2, PickedIs
<1>5. Named(rs)
  <2> SUFFICES ASSUME NEW m \in DOMAIN rs, NEW n \in DOMAIN rs, rs[m].id = rs[n].id
               PROVE  m = n
    BY DEF Named
  <2>1. Nth(K, m) = Nth(K, n)
    BY <1>1, <1>2, <1>4 DEF Named
  <2> QED
    BY <1>4, <2>1
<1>6. WellFormed(rs)
  BY <1>2, <1>4, <1>5 DEF WellFormed
<1>7. ASSUME NEW x \in IdsOfKind(file, kind)
      PROVE  /\ x \in Ids(rs) /\ Of(rs, x) = Of(file, x)
             /\ Pos(file, x) \in K /\ Pos(rs, x) = Rank(K, Pos(file, x))
  <2>1. Pos(file, x) \in DOMAIN file /\ file[Pos(file, x)].id = x
    BY PosIn DEF IdsOfKind
  <2>2. Pos(file, x) \in K
    BY <1>3, <2>1 DEF IdsOfKind, Of
  <2>3. rs[Rank(K, Pos(file, x))].id = x /\ Rank(K, Pos(file, x)) \in DOMAIN rs
    BY <1>4, <2>1, <2>2
  <2>4. /\ x \in Ids(rs) /\ Pos(rs, x) = Rank(K, Pos(file, x))
        /\ Of(rs, x) = rs[Rank(K, Pos(file, x))]
    BY <1>5, <2>3, FoundAt
  <2> QED
    BY <1>4, <2>2, <2>4 DEF Of
<1>8. ASSUME NEW x \in Ids(rs) PROVE x \in IdsOfKind(file, kind)
  <2>1. PICK n \in DOMAIN rs : rs[n].id = x
    BY DEF Ids
  <2>2. Nth(K, n) \in DOMAIN file /\ file[Nth(K, n)].id = x /\ file[Nth(K, n)].kind = kind
    BY <1>2, <1>3, <1>4, <2>1
  <2>3. x \in Ids(file) /\ Of(file, x) = file[Nth(K, n)]
    BY <1>1, <2>2, FoundAt
  <2> QED
    BY <2>2, <2>3 DEF IdsOfKind
<1>9. Ids(rs) = IdsOfKind(file, kind)
  BY <1>7, <1>8
<1>10. SameOrder(file, rs, Ids(rs))
  <2> SUFFICES ASSUME NEW x \in Ids(rs), NEW y \in Ids(rs)
               PROVE  Pos(file, x) < Pos(file, y) <=> Pos(rs, x) < Pos(rs, y)
    BY DEF SameOrder
  <2>1. /\ Pos(file, x) \in K /\ Pos(rs, x) = Rank(K, Pos(file, x))
        /\ Pos(file, y) \in K /\ Pos(rs, y) = Rank(K, Pos(file, y))
    BY <1>7, <1>8
  <2>2. IsFiniteSet(K) /\ K \subseteq Int
    BY <1>1, <1>2, LogShape, FS_Subset
  <2>3. Pos(file, x) < Pos(file, y) <=> Rank(K, Pos(file, x)) < Rank(K, Pos(file, y))
    BY <2>1, <2>2, RankGrows
  <2> QED
    BY <2>1, <2>3
<1>11. \A x \in Ids(rs) : Of(rs, x) = Of(file, x) /\ Pos(rs, x) = Rank(K, Pos(file, x))
  BY <1>7, <1>8
<1> QED
  BY <1>6, <1>9, <1>10, <1>11 DEF rs, K

\* The number of a rule is its place in the list of rules.
LEMMA PlaceIs ==
  ASSUME NEW file, WellFormed(file), NEW id
  PROVE  Place(file, id) = IF id \in IdsOfKind(file, "rule")
                             THEN Pos(OfKind(file, "rule"), id) ELSE 0
<1>1. CASE id \in IdsOfKind(file, "rule")
  <2> DEFINE K == {i \in DOMAIN file : file[i].kind = "rule"}
             k == Pos(file, id)
  <2>1. Pos(OfKind(file, "rule"), id) = Rank(K, k)
    BY <1>1, OfKindIs
  <2>2. DOMAIN file = 1 .. Len(file) /\ Len(file) \in Nat /\ k \in DOMAIN file
    BY <1>1, LogShape, PosIn DEF WellFormed, IdsOfKind
  <2>3. {i \in K : i <= k} = {i \in 1 .. k : file[i].kind = "rule"}
    BY <2>2
  <2>4. Place(file, id) = Cardinality({i \in 1 .. k : file[i].kind = "rule"})
    BY <1>1 DEF Place, IdsOfKind
  <2> QED
    BY <1>1, <2>1, <2>3, <2>4 DEF Rank
<1>2. CASE id \notin IdsOfKind(file, "rule")
  BY <1>2 DEF Place, IdsOfKind
<1> QED
  BY <1>1, <1>2

\* A place counts the sections in front of it.
InFront(file, id) == {x \in Ids(file) : Pos(file, x) < Pos(file, id)}

LEMMA CountInFront ==
  ASSUME NEW file, WellFormed(file)
  PROVE  /\ IsFiniteSet(Ids(file)) /\ Cardinality(Ids(file)) = Len(file)
         /\ \A id \in Ids(file) :
              /\ IsFiniteSet(InFront(file, id))
              /\ Cardinality(InFront(file, id)) = Pos(file, id) - 1
<1>1. DOMAIN file = 1 .. Len(file) /\ Len(file) \in Nat /\ Named(file)
  BY LogShape DEF WellFormed
<1>2. ASSUME NEW n \in 0 .. Len(file), NEW T, T = {x \in Ids(file) : Pos(file, x) <= n}
      PROVE  IsFiniteSet(T) /\ Cardinality(T) = n
  <2> DEFINE f == [i \in 1 .. n |-> file[i].id]
  <2>1. \A i \in 1 .. n : file[i].id \in Ids(file) /\ Pos(file, file[i].id) = i
    BY <1>1, PosIs DEF Ids
  <2>2. \A x \in T : Pos(file, x) \in 1 .. n /\ file[Pos(file, x)].id = x
    BY <1>1, <1>2, PosIn
  <2>3. \A i \in 1 .. n : file[i].id \in T
    BY <1>1, <1>2, <2>1
  <2>4. f \in Bijection(1 .. n, T)
    <3>1. f \in [1 .. n -> T]
      BY <2>3
    <3>2. \A i, j \in 1 .. n : f[i] = f[j] => i = j
      BY <2>1
    <3>3. \A x \in T : \E i \in 1 .. n : f[i] = x
      BY <2>2
    <3> QED
      BY <3>1, <3>2, <3>3 DEF Bijection, Injection, IsInjective, Surjection
  <2>5. ExistsBijection(1 .. n, T)
    BY <2>4 DEF ExistsBijection
  <2>6. IsFiniteSet(1 .. n) /\ Cardinality(1 .. n) = n
    BY <1>1, FS_Interval
  <2> QED
    BY <2>5, <2>6, FS_Bijection
<1>3. \A x \in Ids(file) : Pos(file, x) \in 1 .. Len(file)
  BY <1>1, PosIn
<1>4. IsFiniteSet(Ids(file)) /\ Cardinality(Ids(file)) = Len(file)
  <2>1. Ids(file) = {x \in Ids(file) : Pos(file, x) <= Len(file)}
    BY <1>1, <1>3
  <2> QED
    BY <1>1, <1>2, <2>1
<1>5. ASSUME NEW id \in Ids(file)
      PROVE  IsFiniteSet(InFront(file, id))
             /\ Cardinality(InFront(file, id)) = Pos(file, id) - 1
  <2>1. Pos(file, id) - 1 \in 0 .. Len(file)
    BY <1>1, <1>3
  <2>2. InFront(file, id) = {x \in Ids(file) : Pos(file, x) <= Pos(file, id) - 1}
    BY <1>1, <1>3 DEF InFront
  <2> QED
    BY <1>2, <2>1, <2>2
<1> QED
  BY <1>4, <1>5

\* A section moved to the place of another is in front of it and of nothing
\* that was in front of it; moved to the end, it is behind everything.
LEMMA MovedInFrontOf ==
  ASSUME NEW file, WellFormed(file), NEW id \in Ids(file), NEW place \in Nat,
         NEW b \in Ids(file) \ {id}, place = Pos(UciDelete(file, id), b) - 1
  PROVE  InFront(UciReorder(file, id, place), id) = InFront(file, b) \ {id}
<1> DEFINE g == UciReorder(file, id, place)
           rest == UciDelete(file, id)
           n == IF place < Len(rest) THEN place ELSE Len(rest)
<1>1. /\ WellFormed(rest) /\ Ids(rest) = Ids(file) \ {id}
      /\ SameOrder(file, rest, Ids(file) \ {id})
  BY DeletedFile DEF Keeps
<1>2. /\ WellFormed(g) /\ Ids(g) = Ids(file) /\ Pos(g, id) = n + 1
      /\ \A x \in Ids(file) \ {id} : Pos(g, x) < Pos(g, id) <=> Pos(rest, x) <= n
  BY ReorderedFile DEF Keeps
<1> HIDE DEF g, rest
<1>3. \A x \in Ids(rest) : Pos(rest, x) \in 1 .. Len(rest) /\ Len(rest) \in Nat
  BY <1>1, SectionAt
<1>4. n = Pos(rest, b) - 1
  BY <1>1, <1>3 DEF rest
<1>5. ASSUME NEW x \in Ids(file) \ {id}
      PROVE  Pos(g, x) < Pos(g, id) <=> Pos(file, x) < Pos(file, b)
  <2>1. Pos(rest, x) <= n <=> Pos(rest, x) < Pos(rest, b)
    BY <1>1, <1>3, <1>4
  <2>2. Pos(file, x) < Pos(file, b) <=> Pos(rest, x) < Pos(rest, b)
    BY <1>1 DEF SameOrder
  <2> QED
    BY <1>2, <2>1, <2>2
<1>6. Pos(g, id) \in Int /\ ~(Pos(g, id) < Pos(g, id))
  BY <1>1, <1>2, <1>3, <1>4
<1>7. InFront(g, id) = InFront(file, b) \ {id}
  BY <1>2, <1>5, <1>6 DEF InFront
<1> QED
  BY <1>7 DEF g

LEMMA MovedToTheEnd ==
  ASSUME NEW file, WellFormed(file), NEW id \in Ids(file),
         NEW place \in Nat, place >= Len(file) - 1
  PROVE  InFront(UciReorder(file, id, place), id) = Ids(file) \ {id}
<1> DEFINE g == UciReorder(file, id, place)
           rest == UciDelete(file, id)
           n == IF place < Len(rest) THEN place ELSE Len(rest)
<1>1. /\ WellFormed(rest) /\ Ids(rest) = Ids(file) \ {id} /\ Len(rest) = Len(file) - 1
  BY DeletedFile DEF Keeps
<1>2. /\ WellFormed(g) /\ Ids(g) = Ids(file) /\ Pos(g, id) = n + 1
      /\ \A x \in Ids(file) \ {id} : Pos(g, x) < Pos(g, id) <=> Pos(rest, x) <= n
  BY ReorderedFile DEF Keeps
<1>3. Len(file) \in Nat /\ Len(rest) \in Nat
  BY <1>1, LogShape DEF WellFormed
<1> HIDE DEF g, rest
<1>4. n = Len(rest)
  BY <1>1, <1>3
<1>5. \A x \in Ids(rest) : Pos(rest, x) \in 1 .. Len(rest)
  BY <1>1, SectionAt
<1>6. ~(Pos(g, id) < Pos(g, id))
  BY <1>2, <1>3, <1>4
<1>7. InFront(g, id) = Ids(file) \ {id}
  BY <1>1, <1>2, <1>3, <1>4, <1>5, <1>6 DEF InFront
<1> QED
  BY <1>7 DEF g
-----------------------------------------------------------------------------
(* Batches of settings.                                                     *)

\* A batch has a key once, and no key without a name.
Keyed(sets) ==
  /\ IsLog(sets)
  /\ \A i \in DOMAIN sets : sets[i].key # ""
  /\ \A i, j \in DOMAIN sets : sets[i].key = sets[j].key => i = j

KeyIn(sets, k) == \E i \in DOMAIN sets : sets[i].key = k

LEMMA KeyedJoined ==
  ASSUME NEW s, NEW t, Keyed(s), Keyed(t), \A k : ~(KeyIn(s, k) /\ KeyIn(t, k))
  PROVE  /\ Keyed(s \o t)
         /\ \A k : KeyIn(s \o t, k) <=> KeyIn(s, k) \/ KeyIn(t, k)
         /\ InBatch(s \o t) = InBatch(s) \cup InBatch(t)
<1> DEFINE u == s \o t
<1>1. IsLog(s) /\ IsLog(t)
  BY DEF Keyed
<1>2. /\ Len(s) \in Nat /\ DOMAIN s = 1 .. Len(s)
      /\ Len(t) \in Nat /\ DOMAIN t = 1 .. Len(t)
  BY <1>1, LogShape
<1>3. /\ IsLog(u) /\ Len(u) = Len(s) + Len(t)
      /\ \A i \in 1 .. Len(s) : u[i] = s[i]
      /\ \A i \in 1 .. Len(t) : u[Len(s) + i] = t[i]
  BY <1>1, LogJoined
<1>4. DOMAIN u = 1 .. Len(u)
  BY <1>3, LogShape
<1> HIDE DEF u
<1>5. ASSUME NEW i \in DOMAIN u
      PROVE  \/ i \in DOMAIN s /\ u[i] = s[i]
             \/ \E j \in DOMAIN t : i = Len(s) + j /\ u[i] = t[j]
  <2>1. CASE i <= Len(s)
    BY <2>1, <1>2, <1>3, <1>4
  <2>2. CASE ~(i <= Len(s))
    <3>1. i - Len(s) \in DOMAIN t /\ i = Len(s) + (i - Len(s))
      BY <2>2, <1>2, <1>3, <1>4
    <3> QED
      BY <3>1, <1>2, <1>3
  <2> QED
    BY <2>1, <2>2
<1>6. /\ \A i \in DOMAIN s : i \in DOMAIN u /\ u[i] = s[i]
      /\ \A j \in DOMAIN t : Len(s) + j \in DOMAIN u /\ u[Len(s) + j] = t[j]
  BY <1>2, <1>3, <1>4
<1>7. \A k : KeyIn(u, k) <=> KeyIn(s, k) \/ KeyIn(t, k)
  BY <1>5, <1>6 DEF KeyIn
<1>8. InBatch(u) = InBatch(s) \cup InBatch(t)
  BY <1>5, <1>6 DEF InBatch
<1>9. \A i \in DOMAIN u : u[i].key # ""
  BY <1>5 DEF Keyed
<1>10. ASSUME NEW i \in DOMAIN u, NEW j \in DOMAIN u, u[i].key = u[j].key
       PROVE  i = j
  <2>1. CASE i \in DOMAIN s /\ u[i] = s[i] /\ j \in DOMAIN s /\ u[j] = s[j]
    BY <2>1, <1>10 DEF Keyed
  <2>2. CASE /\ \E m \in DOMAIN t : i = Len(s) + m /\ u[i] = t[m]
             /\ \E n \in DOMAIN t : j = Len(s) + n /\ u[j] = t[n]
    BY <2>2, <1>10, <1>2 DEF Keyed
  <2>3. CASE /\ i \in DOMAIN s /\ u[i] = s[i]
             /\ \E n \in DOMAIN t : j = Len(s) + n /\ u[j] = t[n]
    BY <2>3, <1>10 DEF KeyIn
  <2>4. CASE /\ \E m \in DOMAIN t : i = Len(s) + m /\ u[i] = t[m]
             /\ j \in DOMAIN s /\ u[j] = s[j]
    BY <2>4, <1>10 DEF KeyIn
  <2> QED
    BY <2>1, <2>2, <2>3, <2>4, <1>5
<1> QED
  BY <1>3, <1>7, <1>8, <1>9, <1>10 DEF Keyed, u

LEMMA LogOfOne ==
  ASSUME NEW e
  PROVE  IsLog(<<e>>) /\ Len(<<e>>) = 1 /\ DOMAIN <<e>> = {1} /\ <<e>>[1] = e
<1>1. <<e>> \in Seq({e})
  OBVIOUS
<1>2. IsLog(<<e>>)
  BY <1>1 DEF IsLog
<1>3. Len(<<e>>) = 1 /\ DOMAIN <<e>> = {1} /\ <<e>>[1] = e
  OBVIOUS
<1> QED
  BY <1>2, <1>3

LEMMA KeyedOne ==
  ASSUME NEW e, e.key # ""
  PROVE  /\ Keyed(<<e>>) /\ InBatch(<<e>>) = {e}
         /\ \A k : KeyIn(<<e>>, k) <=> k = e.key
<1>1. IsLog(<<e>>)
  BY LogOfOne
<1>2. DOMAIN <<e>> = {1} /\ <<e>>[1] = e
  BY LogOfOne, Zenon
<1> QED
  BY <1>1, <1>2 DEF Keyed, InBatch, KeyIn

LEMMA KeyedNone == Keyed(<<>>) /\ InBatch(<<>>) = {} /\ \A k : ~KeyIn(<<>>, k)
<1>1. IsLog(<<>>)
  <2>1. <<>> \in Seq({})
    OBVIOUS
  <2> QED
    BY <2>1 DEF IsLog
<1>2. DOMAIN <<>> = {}
  OBVIOUS
<1> QED
  BY <1>1, <1>2 DEF Keyed, InBatch, KeyIn

LEMMA KeyedPicked ==
  ASSUME NEW s, Keyed(s), NEW K \in SUBSET DOMAIN s
  PROVE  /\ Keyed(Picked(s, K)) /\ InBatch(Picked(s, K)) = {s[i] : i \in K}
<1> DEFINE p == Picked(s, K)
<1>1. IsLog(s)
  BY DEF Keyed
<1>2. /\ IsLog(p)
      /\ \A i \in K : Rank(K, i) \in DOMAIN p /\ p[Rank(K, i)] = s[i]
      /\ \A n \in DOMAIN p : /\ Nth(K, n) \in K /\ Rank(K, Nth(K, n)) = n
                             /\ p[n] = s[Nth(K, n)]
  BY <1>1, PickedIs
<1>0. /\ K \subseteq DOMAIN s /\ \A i \in K : s[i].key # ""
      /\ \A i, j \in K : s[i].key = s[j].key => i = j
  BY DEF Keyed
<1> HIDE DEF p
<1>3. \A n \in DOMAIN p : \E i \in K : p[n] = s[i] /\ Rank(K, i) = n
  BY <1>2
<1>4. /\ \A i \in DOMAIN p : p[i].key # ""
      /\ \A i, j \in DOMAIN p : p[i].key = p[j].key => i = j
  <2>1. ASSUME NEW i \in DOMAIN p PROVE p[i].key # ""
    <3>1. PICK m \in K : p[i] = s[m]
      BY <1>3
    <3>2. s[m].key # ""
      BY <1>0
    <3> QED
      BY ONLY <3>1, <3>2
  <2>2. ASSUME NEW i \in DOMAIN p, NEW j \in DOMAIN p, p[i].key = p[j].key
        PROVE  i = j
    <3>1. PICK m \in K : p[i] = s[m] /\ Rank(K, m) = i
      BY <1>3
    <3>2. PICK n \in K : p[j] = s[n] /\ Rank(K, n) = j
      BY <1>3
    <3>3. s[m].key = s[n].key
      BY <2>2, <3>1, <3>2
    <3>4. m = n
      BY <1>0, <3>3
    <3> QED
      BY <3>1, <3>2, <3>4
  <2> QED
    BY <2>1, <2>2
<1>5. InBatch(p) = {s[i] : i \in K}
  BY <1>2 DEF InBatch
<1> QED
  BY <1>2, <1>4, <1>5 DEF Keyed, p

\* The edits of such a batch: every one gives its own key its value, and the
\* lines are about a key once.
LEMMA KeyedValues ==
  ASSUME NEW sets, Keyed(sets), NEW E, E \subseteq InBatch(sets)
  PROVE  \A s \in E : s.key \in DOMAIN Values(E) /\ Values(E)[s.key] = s.value
<1> SUFFICES ASSUME NEW s \in E
             PROVE  s.key \in DOMAIN Values(E) /\ Values(E)[s.key] = s.value
  OBVIOUS
<1>1. \A t \in E : t.key = s.key => t = s
  BY DEF Keyed, InBatch
<1>2. (CHOOSE t \in E : t.key = s.key) = s
  BY <1>1
<1>3. s.key \in {t.key : t \in E}
  OBVIOUS
<1> QED
  BY <1>2, <1>3 DEF Values

LEMMA KeyedTurn ==
  ASSUME NEW sets, Keyed(sets), NEW E, E \subseteq InBatch(sets)
  PROVE  LET es == InTurn(sets, E)
         IN  /\ Keyed(es) /\ \A i \in DOMAIN es : es[i] \in E
             /\ \A s \in E : \E i \in DOMAIN es : es[i] = s
<1> DEFINE K == {i \in DOMAIN sets : sets[i] \in E}
<1>1. IsLog(sets)
  BY DEF Keyed
<1>2. Keyed(Picked(sets, K))
  BY KeyedPicked
<1>3. Picked(sets, K) = InTurn(sets, E)
  BY DEF InTurn
<1>4. /\ \A i \in DOMAIN InTurn(sets, E) : InTurn(sets, E)[i] \in E
      /\ \A s \in E : \E i \in DOMAIN InTurn(sets, E) : InTurn(sets, E)[i] = s
  BY <1>1, InTurnIs
<1> QED
  BY <1>2, <1>3, <1>4

\* Nothing set is nothing changed.
LEMMA StagedNone ==
  ASSUME NEW file, WellFormed(file), NEW id \in Ids(file)
  PROVE  Staged(file, id, {}) = file
<1> DEFINE k == Pos(file, id)
<1>1. /\ k \in DOMAIN file /\ IsLog(file) /\ Formed(file[k])
  BY PosIn DEF WellFormed
<1>2. Values({}) = [x \in {} |-> (CHOOSE s \in {} : s.key = x).value]
  BY DEF Values
<1>3. DOMAIN Values({}) = {}
  BY <1>2
<1>4. Over(file[k].opt, Values({})) = file[k].opt
  BY <1>1, <1>3 DEF Over, Formed
<1>5. Staged(file, id, {}) = [file EXCEPT ![k].opt = Over(@, Values({}))]
  BY DEF Staged, UciSet
<1>6. file[k] = Section(file[k].id, file[k].kind, file[k].opt)
  BY <1>1 DEF Formed
<1>7. [file[k] EXCEPT !.opt = file[k].opt] = file[k]
  BY <1>6 DEF Section
<1>8. Staged(file, id, {}) = [file EXCEPT ![k] = file[k]]
  BY <1>5, <1>4, <1>7
<1>9. PICK S : file \in Seq(S)
  BY <1>1 DEF IsLog
<1> QED
  BY <1>8, <1>9, <1>1

LEMMA EditsAre ==
  ASSUME NEW sets, NEW opt, NEW unread
  PROVE  /\ Edits(sets, opt, unread) \subseteq InBatch(sets)
         /\ \A s \in Edits(sets, opt, unread) :
              Effective(s, IF s.key \in unread THEN "" ELSE opt[s.key])
         /\ \A s \in InBatch(sets) :
              Effective(s, IF s.key \in unread THEN "" ELSE opt[s.key])
              => s \in Edits(sets, opt, unread)
BY DEF Edits, InBatch

\* Lines for every edit: none for none.
LEMMA NoLines ==
  ASSUME NEW id, NEW sets, IsLog(sets), NEW E, E \subseteq InBatch(sets),
         NEW l, IsLog(l)
  PROVE  l \o LinesOf(id, sets, E) = <<>> => l = <<>> /\ E = {}
<1> DEFINE m  == LinesOf(id, sets, E)
           es == InTurn(sets, E)
<1>1. IsLog(m) /\ Len(m) = Len(es)
  BY LinesAre
<1>2. IsLog(es) /\ \A s \in E : \E i \in DOMAIN es : es[i] = s
  BY InTurnIs
<1> HIDE DEF m, es
<1>3. Len(l) \in Nat /\ Len(m) \in Nat /\ DOMAIN es = 1 .. Len(es)
  BY <1>1, <1>2, LogShape
<1>4. Len(l \o m) = Len(l) + Len(m)
  BY <1>1, LogJoined
<1> SUFFICES ASSUME l \o m = <<>> PROVE l = <<>> /\ E = {}
  BY DEF m
<1>5. Len(l) = 0 /\ Len(m) = 0
  BY <1>3, <1>4
<1>6. l = <<>>
  BY <1>5 DEF IsLog
<1>7. DOMAIN es = {}
  BY <1>1, <1>3, <1>5
<1> QED
  BY <1>2, <1>6, <1>7

\* One more line is a line.
LEMMA OneMore == ASSUME NEW l, IsLog(l), NEW e PROVE Append(l, e) # <<>>
<1>1. Len(Append(l, e)) = Len(l) + 1 /\ Len(l) \in Nat
  BY LogAppended, LogShape
<1> QED
  BY <1>1

\* The draft is empty: what is written are all its lines.
LEMMA NothingJoined ==
  ASSUME NEW m, IsLog(m)
  PROVE  <<>> \o m = m
<1>1. PICK S : m \in Seq(S)
  BY DEF IsLog
<1> QED
  BY <1>1

LEMMA LongerStill ==
  ASSUME NEW l, NEW m, NEW n, NEW id, Longer(l, m, id), Longer(m, n, id)
  PROVE  Longer(l, n, id)
<1>1. ASSUME NEW i \in DOMAIN n, i \notin DOMAIN l PROVE IsLineOf(n[i], id)
  <2>1. CASE i \in DOMAIN m
    BY <1>1, <2>1 DEF Longer
  <2>2. CASE i \notin DOMAIN m
    BY <1>1, <2>2 DEF Longer
  <2> QED
    BY <2>1, <2>2
<1> QED
  BY <1>1 DEF Longer

\* Filling in a section that has nothing.
LEMMA FilledIn ==
  ASSUME NEW sets, Keyed(sets), NEW options, NEW i \in DOMAIN sets,
         sets[i].key \in options
  PROVE  Over(NoOptions(options), Values(Edits(sets, NoOptions(options), {})))[sets[i].key]
           = sets[i].value
<1> DEFINE E == Edits(sets, NoOptions(options), {})
           s == sets[i]
           f == Values(E)
<1>1. /\ E \subseteq InBatch(sets)
      /\ s \in E <=> s.value # ""
  BY DEF Edits, InBatch, Effective, NoOptions
<1> HIDE DEF E
<1>2. CASE s \in E
  <2>1. s.key \in DOMAIN f /\ f[s.key] = s.value
    BY <1>1, <1>2, KeyedValues
  <2> QED
    BY <2>1 DEF Over, NoOptions, E
<1>3. CASE s \notin E
  <2>1. \A t \in E : t.key # s.key
    BY <1>1, <1>3 DEF Keyed, InBatch
  <2>2. s.key \notin DOMAIN f
    BY <2>1 DEF Values
  <2> QED
    BY <1>1, <1>3, <2>2 DEF Over, NoOptions, E
<1> QED
  BY <1>2, <1>3

LEMMA NotFilledIn ==
  ASSUME NEW sets, NEW options, NEW k \in options, ~KeyIn(sets, k)
  PROVE  Over(NoOptions(options), Values(Edits(sets, NoOptions(options), {})))[k] = ""
<1> DEFINE E == Edits(sets, NoOptions(options), {})
<1>1. \A t \in E : t.key # k
  BY DEF Edits, KeyIn
<1>2. k \notin DOMAIN Values(E)
  BY <1>1 DEF Values
<1> QED
  BY <1>2 DEF Over, NoOptions

-----------------------------------------------------------------------------
(***************************************************************************)
(* The apply bar: a row for a key, where its first line is, whatever the   *)
(* row of a line is.                                                       *)
(***************************************************************************)
Shows(rows, r) == \E n \in DOMAIN rows : rows[n] = r

BarRows(l, row) == [i \in DOMAIN l |-> IF FirstAt(l, i) THEN row[i] ELSE NoRow]

LEMMA BarIs ==
  ASSUME NEW l, IsLog(l), NEW row
  PROVE  /\ Bar(l, row) = Picked(BarRows(l, row),
                                 {i \in DOMAIN l : BarRows(l, row)[i] # NoRow})
         /\ IsLog(BarRows(l, row)) /\ DOMAIN BarRows(l, row) = DOMAIN l
<1> DEFINE rows == BarRows(l, row)
<1>1. DOMAIN rows = DOMAIN l
  BY DEF BarRows
<1>2. Bar(l, row) = Picked(rows, {i \in DOMAIN rows : rows[i] # NoRow})
  BY DEF Bar, BarRows
<1>3. Len(l) \in Nat /\ DOMAIN l = 1 .. Len(l)
  BY LogShape
<1>4. rows = [i \in 1 .. Len(l) |-> rows[i]]
  BY <1>3 DEF BarRows
<1> HIDE DEF rows
<1>5. IsLog(rows)
  BY <1>3, <1>4, LogMade
<1> QED
  BY <1>1, <1>2, <1>5 DEF rows

\* What is not NoRow is shown, where the first line of its key is.
LEMMA BarShows ==
  ASSUME NEW l, IsLog(l), NEW row, NEW i \in DOMAIN l, FirstAt(l, i), row[i] # NoRow
  PROVE  Shows(Bar(l, row), row[i])
<1> DEFINE rows == BarRows(l, row)
           K    == {j \in DOMAIN l : rows[j] # NoRow}
<1>1. Bar(l, row) = Picked(rows, K) /\ IsLog(rows) /\ DOMAIN rows = DOMAIN l
  BY BarIs
<1>2. rows[i] = row[i]
  BY DEF BarRows
<1>3. i \in K
  BY <1>2
<1> HIDE DEF rows
<1>4. K \in SUBSET DOMAIN rows
  BY <1>1
<1> HIDE DEF K
<1>5. Rank(K, i) \in DOMAIN Picked(rows, K) /\ Picked(rows, K)[Rank(K, i)] = rows[i]
  BY <1>1, <1>3, <1>4, PickedIs
<1> QED
  BY <1>1, <1>2, <1>5 DEF Shows

\* One line with a row, and rows for every line.
LEMMA BarOne ==
  ASSUME NEW l, IsLog(l), NEW row, NEW k \in DOMAIN l, FirstAt(l, k), row[k] # NoRow,
         \A i \in DOMAIN l : i # k => ~FirstAt(l, i) \/ row[i] = NoRow
  PROVE  Bar(l, row) = <<row[k]>>
<1> DEFINE rows == BarRows(l, row)
           K    == {i \in DOMAIN l : rows[i] # NoRow}
<1>1. Bar(l, row) = Picked(rows, K) /\ IsLog(rows) /\ DOMAIN rows = DOMAIN l
  BY BarIs
<1>2. rows[k] = row[k] /\ \A i \in DOMAIN l : i # k => rows[i] = NoRow
  BY DEF BarRows
<1> HIDE DEF rows
<1>3. K = {k}
  BY <1>2
<1>4. Picked(rows, {k}) = <<rows[k]>>
  BY <1>1, PickedOne
<1> QED
  BY <1>1, <1>2, <1>3, <1>4

LEMMA BarAll ==
  ASSUME NEW l, IsLog(l), NEW row, row = [i \in DOMAIN l |-> row[i]],
         \A i \in DOMAIN l : FirstAt(l, i) /\ row[i] # NoRow
  PROVE  Bar(l, row) = row
<1> DEFINE rows == BarRows(l, row)
<1>1. /\ Bar(l, row) = Picked(rows, {i \in DOMAIN l : rows[i] # NoRow})
      /\ IsLog(rows) /\ DOMAIN rows = DOMAIN l
  BY BarIs
<1>2. rows = [i \in DOMAIN l |-> row[i]]
  BY DEF BarRows
<1>3. \A i \in DOMAIN l : rows[i] # NoRow
  BY <1>2
<1> HIDE DEF rows
<1>4. {i \in DOMAIN l : rows[i] # NoRow} = DOMAIN rows
  BY <1>1, <1>3
<1>5. Picked(rows, DOMAIN rows) = rows
  BY <1>1, PickedAll
<1> QED
  BY <1>1, <1>2, <1>4, <1>5

LEMMA FirstIsFirst == \A l : FirstAt(l, 1)
BY DEF FirstAt

LEMMA BarOfOne ==
  ASSUME NEW e, NEW row, row[1] # NoRow
  PROVE  Bar(<<e>>, row) = <<row[1]>>
<1> DEFINE l == <<e>>
<1>1. IsLog(l) /\ DOMAIN l = {1}
  BY LogOfOne, Zenon
<1> HIDE DEF l
<1>2. FirstAt(l, 1)
  BY FirstIsFirst
<1>3. \A i \in DOMAIN l : i # 1 => ~FirstAt(l, i) \/ row[i] = NoRow
  BY <1>1
<1>4. Bar(l, row) = <<row[1]>>
  BY <1>1, <1>2, <1>3, BarOne
<1> QED
  BY <1>4 DEF l

\* The first of some lines.
LEMMA FirstOf ==
  ASSUME NEW l, IsLog(l), NEW K \in SUBSET DOMAIN l, K # {}
  PROVE  \E f \in K : \A j \in 1 .. f - 1 : j \in DOMAIN l /\ j \notin K
<1> DEFINE f == Nth(K, 1)
<1>1. Len(l) \in Nat /\ DOMAIN l = 1 .. Len(l) /\ IsFiniteSet(DOMAIN l)
  BY LogShape
<1>2. IsFiniteSet(K) /\ K \subseteq Int
  BY <1>1, FS_Subset
<1>3. PICK i \in K : TRUE
  OBVIOUS
<1>4. /\ Cardinality(K) \in Nat
      /\ Rank(K, i) \in 1 .. Cardinality(K)
  BY <1>2, <1>3, NthIs
<1>5. 1 \in 1 .. Cardinality(K)
  BY <1>4
<1>6. f \in K /\ Rank(K, f) = 1
  BY <1>2, <1>5, NthIs
<1> HIDE DEF f
<1>7. ASSUME NEW j \in 1 .. f - 1 PROVE j \in DOMAIN l /\ j \notin K
  <2>1. j \in DOMAIN l /\ j < f
    BY <1>1, <1>6
  <2>2. SUFFICES ASSUME j \in K PROVE FALSE
    BY <2>1
  <2>3. Rank(K, j) \in 1 .. Cardinality(K) /\ Rank(K, j) < Rank(K, f)
    BY <1>2, <1>6, <2>1, <2>2, RankGrows
  <2> QED
    BY <1>4, <1>6, <2>3
<1> QED
  BY <1>6, <1>7

\* Every key has a first line.
LEMMA FirstLine ==
  ASSUME NEW l, IsLog(l), NEW i \in DOMAIN l
  PROVE  \E j \in DOMAIN l : /\ l[j].id = l[i].id /\ l[j].option = l[i].option
                             /\ FirstAt(l, j)
<1> DEFINE K == {j \in DOMAIN l : l[j].id = l[i].id /\ l[j].option = l[i].option}
<1>1. PICK f \in K : \A j \in 1 .. f - 1 : j \in DOMAIN l /\ j \notin K
  <2>1. K \in SUBSET DOMAIN l /\ K # {}
    OBVIOUS
  <2> HIDE DEF K
  <2> QED
    BY <2>1, FirstOf
<1>2. FirstAt(l, f)
  BY <1>1 DEF FirstAt
<1> QED
  BY <1>1, <1>2

\* The row of a line for a whole section, for an option and for a move.
IsSet(e, x, o) == e.id = x /\ e.option = o /\ ~e.reorder
IsMove(e, x) == e.id = x /\ e.reorder

LEMMA RowFields ==
  \A id, label, from, to, subject :
    LET r == Row(id, label, from, to, subject)
    IN  /\ r.id = id /\ r.label = label /\ r.from = from /\ r.to = to
        /\ r.subject = subject
BY DEF Row

Goes(c, v, x)  == x \in Ids(c) /\ x \notin Ids(v)
Comes(c, v, x) == x \notin Ids(c) /\ x \in Ids(v)
Turns(c, v, x, o) ==
  /\ o # "" /\ x \in Ids(c) /\ x \in Ids(v)
  /\ Of(c, x).opt[o] # Of(v, x).opt[o]

\* A row is about a section, so it is one.
LEMMA RowIsOne ==
  ASSUME NEW x, x # 0, NEW label, NEW from, NEW to, NEW subject
  PROVE  Row(x, label, from, to, subject) # NoRow
<1>1. Row(x, label, from, to, subject).id = x /\ NoRow.id = 0
  BY RowFields DEF NoRow
<1> QED
  BY <1>1

\* An entry that is new: its own line, and then others of its.
NewEntryLog(l, x) ==
  /\ IsLog(l) /\ 1 \in DOMAIN l /\ IsSet(l[1], x, "")
  /\ \A i \in DOMAIN l : IsLineOf(l[i], x)

LEMMA NewEntryStarts ==
  ASSUME NEW x
  PROVE  NewEntryLog(Append(<<>>, Line(x, "", FALSE)), x)
<1> DEFINE e == Line(x, "", FALSE)
<1>1. Append(<<>>, e) = <<e>>
  OBVIOUS
<1>2. IsSet(e, x, "") /\ IsLineOf(e, x)
  BY DEF IsSet, IsLineOf, Line
<1> HIDE DEF e
<1>3. IsLog(<<e>>) /\ DOMAIN <<e>> = {1} /\ <<e>>[1] = e
  BY LogOfOne
<1> QED
  BY <1>1, <1>2, <1>3 DEF NewEntryLog, e

LEMMA NewEntryGrows ==
  ASSUME NEW l, NEW m, NEW x, NewEntryLog(l, x), Longer(l, m, x)
  PROVE  NewEntryLog(m, x)
<1>1. IsLog(m) /\ 1 \in DOMAIN m /\ m[1] = l[1]
  BY DEF NewEntryLog, Longer
<1>2. \A i \in DOMAIN m : IsLineOf(m[i], x)
  BY DEF NewEntryLog, Longer
<1> QED
  BY <1>1, <1>2 DEF NewEntryLog

LEMMA BarOfNew ==
  ASSUME NEW l, NEW x, NewEntryLog(l, x), NEW row, row[1] # NoRow,
         \A i \in DOMAIN l : l[i].option # "" => row[i] = NoRow
  PROVE  Bar(l, row) = <<row[1]>>
<1>1. IsLog(l) /\ 1 \in DOMAIN l /\ IsSet(l[1], x, "")
  BY DEF NewEntryLog
<1>2. FirstAt(l, 1)
  BY ONLY FirstIsFirst
<1>3. Len(l) \in Nat /\ DOMAIN l = 1 .. Len(l)
  BY ONLY <1>1, LogShape
<1>4. \A i \in DOMAIN l : i # 1 => 1 \in 1 .. i - 1
  BY ONLY <1>3
<1>5. \A i \in DOMAIN l : l[i].option = "" => l[1].id = l[i].id /\ l[1].option = l[i].option
  BY <1>1 DEF IsSet, IsLineOf, NewEntryLog
<1>6. \A i \in DOMAIN l : i # 1 /\ l[i].option = "" => ~FirstAt(l, i)
  BY ONLY <1>4, <1>5 DEF FirstAt
<1> QED
  BY <1>1, <1>2, <1>6, BarOne

\* The lines of a batch for a section that is there: an option each, and each of
\* them turns.
BatchOf(c, v, l, id, es) ==
  /\ IsLog(l) /\ DOMAIN l = DOMAIN es /\ Ids(v) = Ids(c)
  /\ Of(v, id).kind = Of(c, id).kind /\ Of(v, id).id = id
  /\ \A kinds : id \notin WholeEntries(c, v, l, kinds)
  /\ \A i \in DOMAIN l : /\ FirstAt(l, i) /\ IsSet(l[i], id, es[i].key)
                          /\ Turns(c, v, id, es[i].key)
                          /\ Of(v, id).opt[es[i].key] = es[i].value

LEMMA BatchIs ==
  ASSUME NEW c, WellFormed(c), NEW id \in Ids(c), NEW sets, Keyed(sets),
         NEW E, E = Edits(sets, Of(c, id).opt, {}),
         \A e \in E : e.key \in DOMAIN Of(c, id).opt
  PROVE  BatchOf(c, Staged(c, id, E), LinesOf(id, sets, E), id, InTurn(sets, E))
<1> DEFINE s  == Of(c, id)
           v  == Staged(c, id, E)
           l  == LinesOf(id, sets, E)
           es == InTurn(sets, E)
<1>1. IsLog(sets)
  BY DEF Keyed
<1>2. E \subseteq InBatch(sets)
      /\ \A e \in E : Effective(e, IF e.key \in {} THEN "" ELSE s.opt[e.key])
  BY EditsAre
<1>3. Keyed(es) /\ \A i \in DOMAIN es : es[i] \in E
  BY <1>1, <1>2, KeyedTurn
<1>4. IsLog(l)
  BY <1>1, <1>2, LinesAre
<1>5. l = [i \in DOMAIN es |-> Line(id, es[i].key, FALSE)]
  BY DEF LinesOf
<1>6. DOMAIN l = DOMAIN es
      /\ \A i \in DOMAIN es : l[i].id = id /\ l[i].option = es[i].key
                              /\ IsSet(l[i], id, es[i].key)
  BY <1>5 DEF Line, IsSet
<1>7. /\ Ids(v) = Ids(c) /\ Of(v, id) = Section(id, s.kind, Over(s.opt, Values(E)))
  BY StagedFile
<1>8. Of(v, id).kind = s.kind /\ Of(v, id).opt = Over(s.opt, Values(E)) /\ Of(v, id).id = id
  BY ONLY <1>7, SectionFields
<1>9. \A e \in E : Values(E)[e.key] = e.value /\ e.key \in DOMAIN Values(E)
  BY <1>1, <1>2, KeyedValues
<1>10. \A e \in E : e.key \in DOMAIN s.opt
  OBVIOUS
<1> HIDE DEF s, v, l, es
<1>11. \A e \in E : Of(v, id).opt[e.key] = e.value
  BY <1>8, <1>9, <1>10 DEF Over
<1>12. \A e \in E : s.opt[e.key] # e.value
  BY <1>2 DEF Effective
<1>13. \A kinds : id \notin WholeEntries(c, v, l, kinds)
  BY <1>3, <1>6 DEF WholeEntries, Keyed
<1>14. ASSUME NEW i \in DOMAIN l
       PROVE  /\ FirstAt(l, i) /\ IsSet(l[i], id, es[i].key)
              /\ Turns(c, v, id, es[i].key) /\ Of(v, id).opt[es[i].key] = es[i].value
  <2>1. i \in DOMAIN es /\ es[i] \in E /\ IsSet(l[i], id, es[i].key)
    BY <1>3, <1>6
  <2>2. FirstAt(l, i)
    <3>1. \A j \in DOMAIN es : es[j].key = es[i].key => j = i
      BY <1>3, <2>1 DEF Keyed
    <3>2. Len(l) \in Nat /\ DOMAIN l = 1 .. Len(l)
      BY ONLY <1>4, LogShape
    <3>3. \A j \in 1 .. i - 1 : j \in DOMAIN es /\ j # i
      BY <1>6, <3>2
    <3> QED
      BY <1>6, <2>1, <3>1, <3>3 DEF FirstAt
  <2>3. es[i].key # ""
    BY <1>3, <2>1 DEF Keyed
  <2>4. Turns(c, v, id, es[i].key)
    BY <1>7, <1>11, <1>12, <2>1, <2>3 DEF Turns, s
  <2> QED
    BY <1>11, <2>1, <2>2, <2>4
<1>15. BatchOf(c, v, l, id, es)
  BY <1>4, <1>6, <1>7, <1>8, <1>13, <1>14 DEF BatchOf, s
<1> QED
  BY <1>15 DEF v, l, es

LEMMA BarOfBatch ==
  ASSUME NEW c, NEW v, NEW l, NEW id, NEW es, BatchOf(c, v, l, id, es),
         NEW row, row = [i \in DOMAIN l |-> row[i]],
         \A i \in DOMAIN l : row[i] # NoRow
  PROVE  Bar(l, row) = row
BY BarAll DEF BatchOf
=============================================================================
