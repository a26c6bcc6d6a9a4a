----------------------------- MODULE RouterProofs -----------------------------
(***************************************************************************)
(* What the search of the tries finds is what the rules say: the theorems  *)
(* about the router of Router.tla, for any rules, urls and number of       *)
(* rules.                                                                  *)
(*                                                                         *)
(* The way there: the readings of a path do not depend on the tries        *)
(* (ReadsOn, ReadsOne); the search of an optimised trie follows them from  *)
(* node to node (KeysOfChildren, ReadsOfChild) and so comes to the least   *)
(* index of a node whose path reads the whole url (FindIsRight); the tries *)
(* hold what the rules put in (IsTrieOf, TrieGrows), which is the          *)
(* inductive invariant; so an answer is a good one (FoundIs, Good), and    *)
(* the properties follow.                                                  *)
(*                                                                         *)
(* Every induction is one over the naturals, by SetInduction: over the     *)
(* length of the path that is read, over what is left of the url, and over *)
(* the length of what is searched.                                         *)
(***************************************************************************)
EXTENDS Router, FiniteSetTheorems, SequenceTheorems, TLAPS

(* What holds for zero and goes from each number to the next holds for all. *)
LEMMA SetInduction ==
    ASSUME NEW S, 0 \in S, \A n \in Nat : n \in S => n + 1 \in S
    PROVE  Nat \subseteq S
<1> DEFINE R == OpToRel(<, Nat)
           T == Nat \ S
<1>1. IsWellFoundedOn(R, Nat)
  BY NatLessThanWellFounded
<1>2. ASSUME T # {} PROVE FALSE
  <2> HIDE DEF R
  <2>1. PICK x \in T : \A y \in T : <<y, x>> \notin R
    BY <1>1, <1>2, WFMin
  <2>2. x \in Nat /\ x # 0 /\ x - 1 \in Nat
    BY <2>1
  <2>3. x - 1 \in T
    BY <2>2
  <2>4. <<x - 1, x>> \in R
    BY <2>2 DEF R, OpToRel
  <2> QED BY <2>1, <2>3, <2>4
<1> QED BY <1>2

(* A set of naturals that is not empty has a least element. *)
LEMMA Least ==
    ASSUME NEW S \in SUBSET Nat, S # {}
    PROVE  \E x \in S : \A y \in S : x <= y
<1> SUFFICES ASSUME \A x \in S : \E y \in S : y < x
             PROVE  FALSE
  OBVIOUS
<1> DEFINE T == {n \in Nat : \A x \in S : n < x}
<1>1. \A x \in S : x # 0
  OBVIOUS
<1>2. 0 \in T
  BY <1>1
<1>3. \A n \in Nat : n \in T => n + 1 \in T
  OBVIOUS
<1> HIDE DEF T
<1>4. Nat \subseteq T
  BY <1>2, <1>3, SetInduction
<1>5. PICK x \in S : TRUE
  OBVIOUS
<1>6. x \in T
  BY <1>4, <1>5
<1> QED BY <1>5, <1>6 DEF T

(* What a piece takes is at least one character, and there is one way. *)
LEMMA EndsRange ==
    ASSUME NEW label, NEW url, NEW pos
    PROVE  /\ Ends(label, url, pos) \subseteq (pos + 1)..Len(url)
           /\ \A e, f \in Ends(label, url, pos) : e <= f /\ f <= e
BY DEF Ends

(* One turn of the search, from what it finds further on. *)
Turn(trie, url, g, at) ==
    IF at[2] = Len(url) THEN [index |-> trie[at[1]], params |-> <<>>]
    ELSE Best({[g[next] EXCEPT !.params =
                    Taken(Label(at[1], next[1]), url, at[2], next[2]) \o @]
                  : next \in Onto(trie, url, at)})

TurnsBy(g, trie, url) ==
    \A at \in (DOMAIN trie) \X (0..Len(url)) : g[at] = Turn(trie, url, g, at)

(* A turn looks only at what is found further on. *)
LEMMA TurnLooksOn ==
    ASSUME NEW trie, NEW url, NEW at, NEW g, NEW h,
           \A next \in Onto(trie, url, at) : g[next] = h[next]
    PROVE  Turn(trie, url, g, at) = Turn(trie, url, h, at)
BY DEF Turn

(* The search is what its equation says. *)
LEMMA FindFn ==
    ASSUME NEW trie, NEW url, Len(url) \in Nat
    PROVE  \E g : TurnsBy(g, trie, url) /\ Find(trie, url) = g[<<<<>>, 0>>]
<1> DEFINE D == DOMAIN trie
           L == Len(url)
           T(g, at) == Turn(trie, url, g, at)
           Is(g, l) == g = [at \in D \X ((L - l)..L) |-> T(g, at)]
           S == {l \in Nat : l <= L => \E g : Is(g, l)}
<1>1. 0 \in S
  <2> DEFINE g == [at \in D \X ((L - 0)..L) |-> [index |-> trie[at[1]], params |-> <<>>]]
  <2>1. \A at \in D \X ((L - 0)..L) : T(g, at) = [index |-> trie[at[1]], params |-> <<>>]
    BY DEF Turn
  <2> HIDE DEF T
  <2>2. Is(g, 0)
    BY <2>1
  <2> QED BY <2>2
<1>2. ASSUME NEW l \in Nat, l \in S PROVE l + 1 \in S
  <2> SUFFICES ASSUME l + 1 <= L PROVE \E k : Is(k, l + 1)
    <3> HIDE DEF Is
    <3> QED OBVIOUS
  <2>0. PICK g : Is(g, l)
    <3> HIDE DEF Is
    <3> QED BY <1>2
  <2> DEFINE m == L - (l + 1)
             h == [at \in D \X (m..L) |-> IF at[2] = m THEN T(g, at) ELSE g[at]]
  <2>1. m \in Nat /\ L - l = m + 1 /\ L \in Nat
    OBVIOUS
  <2>2. \A at \in D \X ((m + 1)..L) : g[at] = T(g, at) /\ h[at] = g[at]
    <3>1. g = [at \in D \X ((m + 1)..L) |-> T(g, at)]
      BY <2>0, <2>1
    <3>2. \A at \in D \X ((m + 1)..L) : at \in D \X (m..L) /\ at[2] # m
      BY <2>1
    <3> HIDE DEF T, m
    <3> QED BY <3>1, <3>2
  <2>3. \A at \in D \X (m..L) : T(g, at) = T(h, at)
    <3> SUFFICES ASSUME NEW at \in D \X (m..L) PROVE T(g, at) = T(h, at)
      OBVIOUS
    <3>1. at[2] \in 0..L /\ at[2] \in m..L
      BY <2>1
    <3>2. \A next \in Onto(trie, url, at) : next \in D \X ((m + 1)..L)
      BY <2>1, <3>1 DEF Onto, Children
    <3>3. \A next \in Onto(trie, url, at) : g[next] = h[next]
      BY <2>2, <3>2
    <3> HIDE DEF h, m
    <3> QED BY <3>1, <3>3, TurnLooksOn
  <2>4. \A at \in D \X (m..L) : h[at] = T(h, at)
    <3> SUFFICES ASSUME NEW at \in D \X (m..L) PROVE h[at] = T(g, at)
      BY <2>3
    <3>1. CASE at[2] = m
      BY <3>1
    <3>2. CASE at[2] # m
      <4>1. at \in D \X ((m + 1)..L)
        BY <2>1, <3>2
      <4> QED BY <2>2, <4>1
    <3> QED BY <3>1, <3>2
  <2> HIDE DEF T, m
  <2>5. h = [at \in D \X (m..L) |-> T(h, at)]
    BY <2>4
  <2>6. Is(h, l + 1)
    BY <2>5 DEF m
  <2> HIDE DEF h, Is
  <2> QED BY <2>6
<1>3. Nat \subseteq S
  <2> HIDE DEF S
  <2> QED BY <1>1, <1>2, SetInduction
<1>4. \E g : g = [at \in D \X (0..L) |-> T(g, at)]
  <2>1. PICK g : Is(g, L)
    <3> HIDE DEF Is
    <3> QED BY <1>3
  <2>2. L - L = 0
    OBVIOUS
  <2> QED BY <2>1, <2>2
<1>5. PICK g : g = [at \in D \X (0..L) |-> T(g, at)] /\ Find(trie, url) = g[<<<<>>, 0>>]
  BY <1>4 DEF Find, Turn
<1>6. \A at \in D \X (0..L) : g[at] = T(g, at)
  <2> HIDE DEF T
  <2> QED BY <1>5
<1>7. TurnsBy(g, trie, url)
  BY <1>6 DEF TurnsBy
<1> QED BY <1>5, <1>7
-----------------------------------------------------------------------------
(* Paths and their beginnings. *)
Path == Seq(STRING)

Cut(path, n) == SubSeq(path, 1, n)

(* A beginning is as long as it is cut. *)
LEMMA CutFacts ==
    ASSUME NEW path \in Path, NEW n \in 0..Len(path)
    PROVE  /\ Cut(path, n) \in Path
           /\ Len(Cut(path, n)) = n
           /\ \A i \in 1..n : Cut(path, n)[i] = path[i]
BY DEF Path, Cut

(* The whole path and nothing of it are beginnings. *)
LEMMA CutAll ==
    ASSUME NEW path \in Path
    PROVE  Cut(path, Len(path)) = path /\ Cut(path, 0) = <<>>
BY DEF Path, Cut

(* A beginning of a beginning is one of the path. *)
LEMMA CutCut ==
    ASSUME NEW path \in Path, NEW n \in 0..Len(path), NEW m \in 0..n
    PROVE  Cut(Cut(path, n), m) = Cut(path, m)
<1>1. Cut(path, n) \in Path /\ Len(Cut(path, n)) = n /\ m \in 0..Len(path) /\ n \in Nat
  <2>1. Len(path) \in Nat
    BY DEF Path
  <2> QED BY <2>1, CutFacts
<1>2. /\ Cut(Cut(path, n), m) \in Path /\ Len(Cut(Cut(path, n), m)) = m
      /\ \A i \in 1..m : Cut(Cut(path, n), m)[i] = Cut(path, n)[i]
  BY <1>1, CutFacts
<1>3. /\ Cut(path, m) \in Path /\ Len(Cut(path, m)) = m
      /\ \A i \in 1..m : Cut(path, m)[i] = path[i]
  BY <1>1, CutFacts
<1>4. \A i \in 1..m : Cut(path, n)[i] = path[i]
  BY <1>1, CutFacts
<1> QED BY <1>2, <1>3, <1>4, SeqEqual DEF Path

(* IsStrictPrefix in terms of beginnings. *)
LEMMA StrictPrefix ==
    ASSUME NEW p \in Path, NEW q \in Path
    PROVE  IsStrictPrefix(p, q) <=> Len(p) < Len(q) /\ p = Cut(q, Len(p))
<1>1. Cut(p, Len(p)) = p /\ Cut(q, Len(q)) = q /\ Len(p) \in Nat /\ Len(q) \in Nat
  BY CutAll DEF Path
<1> QED BY <1>1 DEF IsStrictPrefix, IsPrefix, Cut
-----------------------------------------------------------------------------
(* Readings of a path: of one beginning after the other. *)
Start == [pos |-> 0, params |-> <<>>]

ReadsBy(g, path, url) ==
    \A n \in 0..Len(path) :
        g[n] = IF n = 0 THEN {Start} ELSE Onward(g[n - 1], path[n], url)

(* The reading function is what its equation says. *)
LEMMA ReadsFn ==
    ASSUME NEW path, NEW url, Len(path) \in Nat
    PROVE  \E g : ReadsBy(g, path, url) /\ Reads(path, url) = g[Len(path)]
<1> DEFINE c == {Start}
           H(R, n) == Onward(R, path[n], url)
           Is(g, l) == g = [n \in 0..l |-> IF n = 0 THEN c ELSE H(g[n - 1], n)]
           S == {l \in Nat : \E g : Is(g, l)}
<1>1. 0 \in S
  <2>1. Is([n \in 0..0 |-> c], 0)
    OBVIOUS
  <2> QED BY <2>1
<1>2. ASSUME NEW l \in Nat, l \in S PROVE l + 1 \in S
  <2>0. PICK g : Is(g, l)
    BY <1>2
  <2> HIDE DEF c, H
  <2> DEFINE h == [n \in 0..(l + 1) |-> IF n = l + 1 THEN H(g[l], l + 1) ELSE g[n]]
  <2>1. \A n \in 0..l : g[n] = IF n = 0 THEN c ELSE H(g[n - 1], n)
    BY <2>0
  <2>2. \A n \in 0..(l + 1) : h[n] = IF n = 0 THEN c ELSE H(h[n - 1], n)
    BY <2>1
  <2>3. Is(h, l + 1)
    BY <2>2
  <2> HIDE DEF h, Is
  <2>4. l + 1 \in Nat /\ \E k : Is(k, l + 1)
    BY <2>3
  <2> QED BY <2>4
<1>3. Nat \subseteq S
  <2> HIDE DEF S
  <2> QED BY <1>1, <1>2, SetInduction
<1>4. \E g : Is(g, Len(path))
  BY <1>3
<1>5. PICK g : Is(g, Len(path)) /\ Reads(path, url) = g[Len(path)]
  BY <1>4 DEF Reads, Start
<1>6. \A n \in 0..Len(path) : g[n] = IF n = 0 THEN c ELSE H(g[n - 1], n)
  <2> HIDE DEF c, H
  <2> QED BY <1>5
<1>7. ReadsBy(g, path, url)
  BY <1>6 DEF ReadsBy
<1> QED BY <1>5, <1>7

(* A reading, onward by one piece up to e. *)
ReadTo(r, piece, url, e) ==
    [pos |-> e, params |-> r.params \o Taken(<<piece>>, url, r.pos, e)]

(* The readings that one piece takes onward, one by one. *)
LEMMA OnwardIs ==
    ASSUME NEW R, NEW piece, NEW url
    PROVE  \A s : s \in Onward(R, piece, url) <=>
               \E r \in R : \E e \in Ends(<<piece>>, url, r.pos) : s = ReadTo(r, piece, url, e)
<1> DEFINE G(r, e) == ReadTo(r, piece, url, e)
           T(r) == {G(r, e) : e \in Ends(<<piece>>, url, r.pos)}
<1>1. Onward(R, piece, url) = UNION {T(r) : r \in R}
  BY DEF Onward, ReadTo
<1>2. \A s, r : s \in T(r) <=> \E e \in Ends(<<piece>>, url, r.pos) : s = G(r, e)
  OBVIOUS
<1>3. \A s : s \in UNION {T(r) : r \in R} <=> \E r \in R : s \in T(r)
  <2> HIDE DEF T
  <2> QED OBVIOUS
<1> HIDE DEF T, G
<1>4. \A s : s \in Onward(R, piece, url) <=>
         \E r \in R : \E e \in Ends(<<piece>>, url, r.pos) : s = G(r, e)
  BY <1>1, <1>2, <1>3
<1> QED BY <1>4 DEF G

(* One reading onward, as it is used. *)
LEMMA OnwardHas ==
    ASSUME NEW R, NEW piece, NEW url, NEW r \in R, NEW e \in Ends(<<piece>>, url, r.pos)
    PROVE  ReadTo(r, piece, url, e) \in Onward(R, piece, url)
BY OnwardIs

(* Where a reading comes from, as it is used. *)
LEMMA OnwardFrom ==
    ASSUME NEW R, NEW piece, NEW url, NEW s \in Onward(R, piece, url)
    PROVE  \E r \in R : \E e \in Ends(<<piece>>, url, r.pos) : s = ReadTo(r, piece, url, e)
BY OnwardIs

(* A beginning that is one piece longer reads on from the shorter one. *)
LEMMA ReadsOn ==
    ASSUME NEW path \in Path, NEW url
    PROVE  /\ Reads(<<>>, url) = {Start}
           /\ \A n \in 0..(Len(path) - 1) :
                 Reads(Cut(path, n + 1), url) = Onward(Reads(Cut(path, n), url), path[n + 1], url)
<1>1. Len(path) \in Nat
  BY DEF Path
<1>2. PICK g : ReadsBy(g, path, url)
  BY <1>1, ReadsFn
<1>3. ASSUME NEW m \in 0..Len(path) PROVE Reads(Cut(path, m), url) = g[m]
  <2>1. /\ Len(Cut(path, m)) = m /\ m \in Nat
        /\ \A i \in 1..m : Cut(path, m)[i] = path[i]
    BY <1>1, CutFacts
  <2>2. PICK h : ReadsBy(h, Cut(path, m), url) /\ Reads(Cut(path, m), url) = h[m]
    BY <2>1, ReadsFn
  <2> DEFINE S == {n \in Nat : n <= m => g[n] = h[n]}
  <2>3. 0 \in S
    <3>1. 0 \in 0..m /\ 0 \in 0..Len(path)
      BY <1>1, <2>1
    <3> QED BY <1>2, <2>1, <2>2, <3>1 DEF ReadsBy
  <2>4. ASSUME NEW n \in Nat, n \in S PROVE n + 1 \in S
    <3> SUFFICES ASSUME n + 1 <= m PROVE g[n + 1] = h[n + 1]
      OBVIOUS
    <3>1. /\ g[n] = h[n] /\ n + 1 \in 0..m /\ n + 1 \in 0..Len(path) /\ n + 1 # 0
          /\ n + 1 \in 1..m /\ (n + 1) - 1 = n
      BY <1>1, <2>1, <2>4
    <3>2. g[n + 1] = Onward(g[n], path[n + 1], url)
      BY <1>2, <3>1 DEF ReadsBy
    <3>3. h[n + 1] = Onward(h[n], Cut(path, m)[n + 1], url)
      BY <2>1, <2>2, <3>1 DEF ReadsBy
    <3> QED BY <2>1, <3>1, <3>2, <3>3
  <2> HIDE DEF S
  <2>5. Nat \subseteq S
    BY <2>3, <2>4, SetInduction
  <2> QED BY <2>1, <2>2, <2>5 DEF S
<1>4. 0 \in 0..Len(path)
  BY <1>1
<1>5. Cut(path, 0) = <<>> /\ g[0] = {Start} /\ Reads(Cut(path, 0), url) = g[0]
  BY <1>2, <1>3, <1>4, CutAll DEF ReadsBy
<1>6. ASSUME NEW n \in 0..(Len(path) - 1)
      PROVE  /\ n \in 0..Len(path) /\ n + 1 \in 0..Len(path)
             /\ g[n + 1] = Onward(g[n], path[n + 1], url)
  <2>1. n \in 0..Len(path) /\ n + 1 \in 0..Len(path) /\ n + 1 # 0 /\ (n + 1) - 1 = n
    BY <1>1
  <2> QED BY <1>2, <2>1 DEF ReadsBy
<1> QED BY <1>3, <1>5, <1>6

(* There is one reading at most, and each piece of it took something. *)
LEMMA ReadsOne ==
    ASSUME NEW path \in Path, NEW url \in Path, NEW n \in 0..Len(path)
    PROVE  /\ \A r, s \in Reads(Cut(path, n), url) : r = s
           /\ \A r \in Reads(Cut(path, n), url) :
                 r \in [pos : n..Len(url), params : Seq(Path)]
<1> DEFINE R(m) == Reads(Cut(path, m), url)
           P(m) == /\ \A r, s \in R(m) : r = s
                   /\ \A r \in R(m) : r \in [pos : m..Len(url), params : Seq(Path)]
           S == {m \in Nat : m <= Len(path) => P(m)}
<1>0. Len(path) \in Nat /\ Len(url) \in Nat
  BY DEF Path
<1>1. 0 \in S
  <2>1. R(0) = {Start}
    BY ReadsOn, CutAll
  <2>2. Start \in [pos : 0..Len(url), params : Seq(Path)]
    BY <1>0 DEF Start
  <2> QED BY <2>1, <2>2
<1>2. ASSUME NEW m \in Nat, m \in S PROVE m + 1 \in S
  <2> SUFFICES ASSUME m + 1 <= Len(path) PROVE P(m + 1)
    OBVIOUS
  <2>1. P(m) /\ m \in 0..(Len(path) - 1)
    BY <1>0, <1>2
  <2>2. R(m + 1) = Onward(R(m), path[m + 1], url)
    BY <2>1, ReadsOn
  <2> DEFINE E(r) == Ends(<<path[m + 1]>>, url, r.pos)
             G(r, e) == ReadTo(r, path[m + 1], url, e)
  <2>3. \A s : s \in R(m + 1) <=> \E r \in R(m) : \E e \in E(r) : s = G(r, e)
    <3> HIDE DEF R
    <3> QED BY <2>2, OnwardIs
  <2> HIDE DEF R
  <2>4. ASSUME NEW r \in R(m), NEW e \in E(r)
        PROVE  G(r, e) \in [pos : (m + 1)..Len(url), params : Seq(Path)]
    <3>1. r.pos \in m..Len(url) /\ r.params \in Seq(Path) /\ r.pos \in Nat
      BY <2>1
    <3>2. e \in (r.pos + 1)..Len(url)
      BY EndsRange
    <3>3. Taken(<<path[m + 1]>>, url, r.pos, e) \in Seq(Path)
      <4>1. SubSeq(url, r.pos + 1, e) \in Path
        BY <1>0, <3>1, <3>2 DEF Path
      <4> QED BY <4>1 DEF Taken
    <3>4. r.params \o Taken(<<path[m + 1]>>, url, r.pos, e) \in Seq(Path)
      BY <3>1, <3>3
    <3> QED BY <3>1, <3>2, <3>4 DEF ReadTo
  <2>5. \A r \in R(m) : \A e, f \in E(r) : e = f
    <3> SUFFICES ASSUME NEW r \in R(m), NEW e \in E(r), NEW f \in E(r) PROVE e = f
      OBVIOUS
    <3>1. e <= f /\ f <= e /\ e \in (r.pos + 1)..Len(url) /\ f \in (r.pos + 1)..Len(url)
      BY EndsRange
    <3> QED BY <3>1
  <2> HIDE DEF E, G
  <2> QED BY <2>1, <2>3, <2>4, <2>5
<1> HIDE DEF S
<1>3. Nat \subseteq S
  BY <1>1, <1>2, SetInduction
<1> QED BY <1>0, <1>3 DEF S
-----------------------------------------------------------------------------
(* What pieces take that are no parameters: themselves. *)
Literal(label) ==
    label \in Path /\ label # <<>> /\ \A i \in 1..Len(label) : label[i] \notin Params

(* A sequence of one element. *)
LEMMA Singleton ==
    ASSUME NEW S, NEW x \in S
    PROVE  <<x>> \in Seq(S) /\ Len(<<x>>) = 1 /\ <<x>>[1] = x
<1>1. Append(<<>>, x) \in Seq(S) /\ Append(<<>>, x) = <<x>>
  BY EmptySeq, AppendProperties
<1> QED BY <1>1

(* A character is a label that takes itself. *)
LEMMA OneLiteral ==
    ASSUME NEW x \in STRING, x \notin Params
    PROVE  Literal(<<x>>) /\ Len(<<x>>) = 1 /\ <<x>>[1] = x
<1>1. <<x>> \in Path /\ Len(<<x>>) = 1 /\ <<x>>[1] = x
  BY Singleton DEF Path
<1>2. \A i \in 1..Len(<<x>>) : i = 1
  BY <1>1
<1>3. \A i \in 1..Len(<<x>>) : <<x>>[i] = x
  BY <1>1, <1>2
<1>4. <<x>> # <<>>
  OBVIOUS
<1> QED BY <1>1, <1>3, <1>4 DEF Literal

Matches(label, url, pos) ==
    pos + Len(label) <= Len(url) /\ \A i \in 1..Len(label) : url[pos + i] = label[i]

(* A key of characters takes exactly these, and leaves no parameter. *)
LEMMA LiteralEnds ==
    ASSUME NEW label, Literal(label), NEW url \in Path, NEW pos \in 0..Len(url)
    PROVE  /\ \A e : e \in Ends(label, url, pos) <=>
                  e = pos + Len(label) /\ Matches(label, url, pos)
           /\ \A e : Taken(label, url, pos, e) = <<>>
<1>0. label \in Path /\ \A i \in 1..Len(label) : label[i] \notin Params
  BY DEF Literal
<1>1. Len(label) \in Nat \ {0} /\ Len(url) \in Nat /\ 1 \in 1..Len(label)
  BY <1>0 DEF Path, Literal
<1>2. label[1] \notin Params /\ label # <<"path">> /\ label # <<"string">>
  BY <1>0, <1>1 DEF Params
<1> DEFINE upTo == {e \in (pos + 1)..Len(url) : SubSeq(url, pos + 1, e) = label}
<1>3. Ends(label, url, pos) = {e \in upTo : \A other \in upTo : other <= e}
  BY <1>2 DEF Ends
<1>4. ASSUME NEW e \in (pos + 1)..Len(url)
      PROVE  SubSeq(url, pos + 1, e) = label <=>
                 /\ e = pos + Len(label)
                 /\ \A i \in 1..Len(label) : url[pos + i] = label[i]
  <2>1. /\ SubSeq(url, pos + 1, e) \in Path
        /\ Len(SubSeq(url, pos + 1, e)) = e - pos
        /\ \A i \in 1..(e - pos) : SubSeq(url, pos + 1, e)[i] = url[pos + i]
        /\ label \in Path
    BY <1>0, <1>1 DEF Path
  <2>2. CASE e = pos + Len(label)
    <3>1. e - pos = Len(label)
      BY <1>1, <2>2
    <3> QED BY <2>1, <2>2, <3>1, SeqEqual DEF Path
  <2>3. CASE e # pos + Len(label)
    BY <1>1, <2>1, <2>3
  <2> QED BY <2>2, <2>3
<1>5. \A e : e \in upTo <=> /\ e = pos + Len(label) /\ e <= Len(url)
                             /\ \A i \in 1..Len(label) : url[pos + i] = label[i]
  BY <1>1, <1>4
<1>6. \A e \in upTo : \A other \in upTo : other <= e
  <2> HIDE DEF upTo
  <2> QED BY <1>1, <1>5
<1> HIDE DEF upTo
<1>7. \A e : e \in Ends(label, url, pos) <=> e = pos + Len(label) /\ Matches(label, url, pos)
  BY <1>3, <1>5, <1>6 DEF Matches
<1>8. \A e : Taken(label, url, pos, e) = <<>>
  BY <1>2 DEF Taken
<1> QED BY <1>7, <1>8
-----------------------------------------------------------------------------
(* A trie: each node has those above it. *)
IsTree(t) ==
    /\ DOMAIN t \subseteq Path /\ <<>> \in DOMAIN t
    /\ \A q \in DOMAIN t : t[q] \in Nat /\ \A n \in 0..Len(q) : Cut(q, n) \in DOMAIN t

(* p is above q. *)
Above(p, q) == Len(p) < Len(q) /\ p = Cut(q, Len(p))

(* The children of a node: the next nodes below it. *)
LEMMA ChildrenAre ==
    ASSUME NEW t, DOMAIN t \subseteq Path, NEW p \in Path
    PROVE  \A c : c \in Children(t, p) <=>
               /\ c \in DOMAIN t /\ Above(p, c)
               /\ \A k \in DOMAIN t : ~(Above(p, k) /\ Above(k, c))
BY StrictPrefix DEF Children, Above

(* Optimizing leaves out no node with a rule. *)
LEMMA Kept ==
    ASSUME NEW t, IsTree(t)
    PROVE  /\ DOMAIN Optimized(t) \subseteq DOMAIN t
           /\ \A p \in DOMAIN Optimized(t) : Optimized(t)[p] = t[p]
           /\ <<>> \in DOMAIN Optimized(t)
           /\ \A q \in DOMAIN t : t[q] # 0 => q \in DOMAIN Optimized(t)
BY DEF Optimized, Simple, IsTree

(* Between a kept node and a node that it is joined with, no parameter. *)
LEMMA KeysOfChildren ==
    ASSUME NEW t, IsTree(t), NEW p \in DOMAIN Optimized(t), NEW c \in Children(Optimized(t), p),
           Len(c) # Len(p) + 1
    PROVE  \A j \in (Len(p) + 1)..Len(c) : c[j] \notin Params
<1> DEFINE o == Optimized(t)
<1>1. p \in Path /\ DOMAIN o \subseteq Path /\ DOMAIN t \subseteq Path
  BY Kept DEF IsTree
<1>2. /\ c \in DOMAIN o /\ c \in Path /\ Above(p, c)
      /\ \A k \in DOMAIN o : ~(Above(p, k) /\ Above(k, c))
  BY <1>1, ChildrenAre
<1>3. Len(p) \in Nat /\ Len(c) \in Nat /\ Len(p) + 1 < Len(c)
  BY <1>1, <1>2 DEF Above, Path
<1>4. ASSUME NEW j \in (Len(p) + 1)..(Len(c) - 1)
      PROVE  c[j] \notin Params /\ c[j + 1] \notin Params
  <2> DEFINE k == Cut(c, j)
             l == Cut(c, j + 1)
  <2>1. j \in 0..Len(c) /\ j + 1 \in 0..Len(c) /\ j \in 1..j /\ j + 1 \in 1..(j + 1)
    BY <1>3
  <2>2. /\ k \in DOMAIN t /\ k \in Path /\ Len(k) = j /\ k[j] = c[j]
        /\ l \in DOMAIN t /\ l \in Path /\ Len(l) = j + 1 /\ l[j + 1] = c[j + 1]
    BY <1>2, <2>1, CutFacts, Kept DEF IsTree
  <2>3. Above(k, c) /\ Above(p, k)
    <3>1. Cut(c, Len(p)) = p /\ Len(p) \in 0..j
      BY <1>2, <1>3 DEF Above
    <3>2. Cut(k, Len(p)) = p
      BY <1>2, <2>1, <3>1, CutCut
    <3> QED BY <1>3, <2>2, <3>2 DEF Above
  <2>4. k \notin DOMAIN o
    BY <1>2, <2>3
  <2>5. l \in Children(t, k)
    <3>1. Cut(l, j) = k
      BY <1>2, <2>1, CutCut
    <3>2. Above(k, l)
      BY <2>2, <3>1 DEF Above
    <3>3. \A m \in DOMAIN t : ~(Above(k, m) /\ Above(m, l))
      <4>1. \A m \in DOMAIN t : Len(m) \in Nat
        BY <1>1 DEF Path
      <4> QED BY <2>2, <4>1 DEF Above
    <3> QED BY <1>1, <2>2, <3>2, <3>3, ChildrenAre
  <2>6. Simple(t, k)
    BY <2>2, <2>4, <2>5 DEF Optimized
  <2>7. Last(k) = c[j] /\ Last(l) = c[j + 1] /\ k # <<>>
    BY <2>2, <1>3 DEF Last
  <2> QED BY <2>5, <2>6, <2>7 DEF Simple
<1>5. ASSUME NEW j \in (Len(p) + 1)..Len(c) PROVE c[j] \notin Params
  <2>1. CASE j < Len(c)
    BY <1>3, <1>4, <2>1
  <2>2. CASE j = Len(c)
    <3>1. Len(c) - 1 \in (Len(p) + 1)..(Len(c) - 1) /\ (Len(c) - 1) + 1 = Len(c)
      BY <1>3
    <3> QED BY <1>4, <2>2, <3>1
  <2> QED BY <1>3, <2>1, <2>2
<1> QED BY <1>5

(* Whoever is below a node is below one of its children, or is one. *)
LEMMA ChildTowards ==
    ASSUME NEW o, DOMAIN o \subseteq Path, NEW p \in DOMAIN o, NEW q \in DOMAIN o, Above(p, q)
    PROVE  \E n \in (Len(p) + 1)..Len(q) : Cut(q, n) \in Children(o, p)
<1> DEFINE S == {n \in (Len(p) + 1)..Len(q) : Cut(q, n) \in DOMAIN o}
<1>1. p \in Path /\ q \in Path /\ Len(p) \in Nat /\ Len(q) \in Nat /\ Len(p) < Len(q)
      /\ p = Cut(q, Len(p))
  BY DEF Path, Above
<1>2. Len(q) \in S
  BY <1>1, CutAll
<1>3. S \in SUBSET Nat
  BY <1>1
<1>4. PICK n \in S : \A m \in S : n <= m
  <2> HIDE DEF S
  <2> QED BY <1>2, <1>3, Least
<1>5. n \in (Len(p) + 1)..Len(q) /\ n \in 0..Len(q) /\ Cut(q, n) \in DOMAIN o
  BY <1>1, <1>4
<1>6. Len(Cut(q, n)) = n /\ Cut(q, n) \in Path
  BY <1>1, <1>5, CutFacts
<1>7. Above(p, Cut(q, n))
  <2>1. Cut(Cut(q, n), Len(p)) = Cut(q, Len(p))
    BY <1>1, <1>5, CutCut
  <2> QED BY <1>1, <1>5, <1>6, <2>1 DEF Above
<1>8. ASSUME NEW k \in DOMAIN o, Above(p, k), Above(k, Cut(q, n)) PROVE FALSE
  <2>1. Len(k) \in Nat /\ Len(p) < Len(k) /\ Len(k) < n /\ k = Cut(Cut(q, n), Len(k))
    BY <1>6, <1>8 DEF Above, Path
  <2>2. k = Cut(q, Len(k))
    BY <1>1, <1>5, <2>1, CutCut
  <2>3. Len(k) \in S
    BY <1>1, <1>5, <2>1, <2>2
  <2> QED BY <1>4, <1>5, <2>1, <2>3
<1>9. Cut(q, n) \in Children(o, p)
  BY <1>1, <1>5, <1>7, <1>8, ChildrenAre
<1> QED BY <1>5, <1>9
-----------------------------------------------------------------------------
(* A path is read as far as its beginnings are, and not past the url. *)
LEMMA ReadsEnd ==
    ASSUME NEW path \in Path, NEW url \in Path, NEW m \in 0..Len(path), NEW n \in m..Len(path),
           Reads(Cut(path, n), url) # {}
    PROVE  \E r \in Reads(Cut(path, m), url) : n # m => r.pos < Len(url)
<1> DEFINE R(k) == Reads(Cut(path, k), url)
           S == {k \in Nat : m + k <= Len(path) /\ R(m + k) # {} =>
                                 \E r \in R(m) : k # 0 => r.pos < Len(url)}
<1>0. Len(path) \in Nat /\ Len(url) \in Nat
  BY DEF Path
<1>1. 0 \in S
  OBVIOUS
<1>2. ASSUME NEW k \in Nat, k \in S PROVE k + 1 \in S
  <2> SUFFICES ASSUME m + (k + 1) <= Len(path), R(m + (k + 1)) # {}
               PROVE  \E r \in R(m) : r.pos < Len(url)
    OBVIOUS
  <2>1. m + k \in 0..(Len(path) - 1) /\ m + (k + 1) = (m + k) + 1 /\ m + k \in 0..Len(path)
    BY <1>0
  <2>2. R(m + (k + 1)) = Onward(R(m + k), path[(m + k) + 1], url)
    BY <2>1, ReadsOn
  <2>3. PICK s : s \in R(m + (k + 1))
    OBVIOUS
  <2>4. PICK r \in R(m + k) : \E e \in Ends(<<path[(m + k) + 1]>>, url, r.pos) : TRUE
    <3> HIDE DEF R
    <3>1. s \in Onward(R(m + k), path[(m + k) + 1], url)
      BY <2>2, <2>3
    <3> QED BY <3>1, OnwardFrom
  <2>5. r.pos < Len(url)
    <3>1. r.pos \in Nat
      BY <1>0, <2>1, <2>4, ReadsOne
    <3>2. PICK e : e \in (r.pos + 1)..Len(url)
      BY <2>4, EndsRange
    <3> QED BY <1>0, <3>1, <3>2
  <2>6. PICK q \in R(m) : k # 0 => q.pos < Len(url)
    <3>1. m + k <= Len(path) /\ R(m + k) # {}
      BY <1>0, <2>4
    <3> HIDE DEF R
    <3> QED BY <1>2, <3>1
  <2>7. CASE k = 0
    BY <2>4, <2>5, <2>7
  <2>8. CASE k # 0
    BY <2>6, <2>8
  <2> QED BY <2>7, <2>8
<1> HIDE DEF S
<1>3. Nat \subseteq S
  BY <1>1, <1>2, SetInduction
<1>4. n - m \in Nat /\ m + (n - m) = n
  BY <1>0
<1>5. n - m \in S
  BY <1>3, <1>4
<1> QED BY <1>0, <1>4, <1>5 DEF S

(* To read on by several pieces that are no parameters is to find them next. *)
LEMMA LiteralReads ==
    ASSUME NEW path \in Path, NEW url \in Path, NEW m \in 0..Len(path),
           NEW r \in Reads(Cut(path, m), url),
           \A j \in (m + 1)..Len(path) : path[j] \notin Params
    PROVE  \A k \in 0..(Len(path) - m) : \A s :
               s \in Reads(Cut(path, m + k), url) <=>
                   /\ s = [pos |-> r.pos + k, params |-> r.params]
                   /\ r.pos + k <= Len(url)
                   /\ \A i \in 1..k : url[r.pos + i] = path[m + i]
<1> DEFINE R(k) == Reads(Cut(path, m + k), url)
           Here(k) == /\ r.pos + k <= Len(url)
                      /\ \A i \in 1..k : url[r.pos + i] = path[m + i]
           P(k) == \A s : s \in R(k) <=> s = [pos |-> r.pos + k, params |-> r.params] /\ Here(k)
           S == {k \in Nat : k <= Len(path) - m => P(k)}
<1>0. /\ Len(path) \in Nat /\ Len(url) \in Nat /\ m \in Nat
      /\ r \in [pos : m..Len(url), params : Seq(Path)] /\ r.pos \in Nat
      /\ \A s \in Reads(Cut(path, m), url) : s = r
  <2>1. Len(path) \in Nat /\ Len(url) \in Nat
    BY DEF Path
  <2> QED BY <2>1, ReadsOne
<1>1. 0 \in S
  <2>1. m + 0 = m /\ r.pos + 0 = r.pos /\ r = [pos |-> r.pos, params |-> r.params]
    BY <1>0
  <2> QED BY <1>0, <2>1
<1>2. ASSUME NEW k \in Nat, k \in S PROVE k + 1 \in S
  <2> SUFFICES ASSUME k + 1 <= Len(path) - m PROVE P(k + 1)
    OBVIOUS
  <2>1. P(k)
    BY <1>0, <1>2
  <2> DEFINE x == path[(m + k) + 1]
             at == [pos |-> r.pos + k, params |-> r.params]
  <2>2. /\ m + k \in 0..(Len(path) - 1) /\ m + (k + 1) = (m + k) + 1
        /\ (m + k) + 1 \in (m + 1)..Len(path) /\ (m + k) + 1 \in 1..Len(path)
        /\ m + k \in 0..Len(path)
    BY <1>0
  <2>3. R(k + 1) = Onward(R(k), x, url)
    BY <2>2, ReadsOn
  <2>4. x \notin Params /\ x \in STRING
    BY <2>2 DEF Path
  <2>5. ASSUME Here(k)
        PROVE  \A e : e \in Ends(<<x>>, url, r.pos + k) <=>
                   e = r.pos + (k + 1) /\ e <= Len(url) /\ url[r.pos + (k + 1)] = x
    <3>1. r.pos + k \in 0..Len(url) /\ (r.pos + k) + 1 = r.pos + (k + 1)
      BY <1>0, <2>5
    <3> HIDE DEF x
    <3>2. Literal(<<x>>) /\ Len(<<x>>) = 1 /\ <<x>>[1] = x
      BY <2>4, OneLiteral
    <3>3. Matches(<<x>>, url, r.pos + k) <=>
              r.pos + (k + 1) <= Len(url) /\ url[r.pos + (k + 1)] = x
      BY <3>1, <3>2 DEF Matches
    <3>4. \A e : e \in Ends(<<x>>, url, r.pos + k) <=>
             e = (r.pos + k) + Len(<<x>>) /\ Matches(<<x>>, url, r.pos + k)
      BY <3>1, <3>2, LiteralEnds
    <3> QED BY <3>1, <3>2, <3>3, <3>4
  <2>6. ASSUME Here(k) PROVE \A e : ReadTo(at, x, url, e) = [pos |-> e, params |-> r.params]
    <3>1. <<x>>[1] \notin Params
      BY <2>4
    <3>2. r.params \o <<>> = r.params
      BY <1>0
    <3> QED BY <3>1, <3>2 DEF ReadTo, Taken
  <2>7. \A s : s \in R(k + 1) <=> \E q \in R(k) : \E e \in Ends(<<x>>, url, q.pos) :
                                       s = ReadTo(q, x, url, e)
    <3> HIDE DEF R, x
    <3>1. \A s : s \in Onward(R(k), x, url) <=>
             \E q \in R(k) : \E e \in Ends(<<x>>, url, q.pos) : s = ReadTo(q, x, url, e)
      BY OnwardIs
    <3> QED BY <2>3, <3>1
  <2>8. Here(k + 1) <=> /\ Here(k) /\ r.pos + (k + 1) <= Len(url)
                        /\ url[r.pos + (k + 1)] = x
    <3>1. 1..(k + 1) = (1..k) \cup {k + 1} /\ m + (k + 1) = (m + k) + 1
      BY <1>0
    <3>2. r.pos + (k + 1) <= Len(url) => r.pos + k <= Len(url)
      BY <1>0
    <3> QED BY <3>1, <3>2
  <2>9. CASE Here(k)
    <3>1. \A s : s \in R(k + 1) <=> \E e \in Ends(<<x>>, url, r.pos + k) : s = ReadTo(at, x, url, e)
      <4> HIDE DEF R, x
      <4> QED BY <2>1, <2>7, <2>9
    <3> HIDE DEF R, Here, at, x
    <3> QED BY <2>5, <2>6, <2>8, <2>9, <3>1
  <2>10. CASE ~Here(k)
    <3> HIDE DEF R, Here, at, x
    <3> QED BY <2>1, <2>7, <2>8, <2>10
  <2> QED BY <2>9, <2>10
<1> HIDE DEF S
<1>3. Nat \subseteq S
  BY <1>1, <1>2, SetInduction
<1>4. \A k \in 0..(Len(path) - m) : k \in S /\ k <= Len(path) - m
  BY <1>0, <1>3
<1> QED BY <1>4 DEF S

(* A reading, onward by a key up to e. *)
ReadOn(r, label, url, e) == [pos |-> e, params |-> r.params \o Taken(label, url, r.pos, e)]

(* The readings of a child go on from that of its parent as its key says. *)
LEMMA ReadsOfChild ==
    ASSUME NEW t, IsTree(t), NEW p \in DOMAIN Optimized(t), NEW c \in Children(Optimized(t), p),
           NEW url \in Path, NEW r \in Reads(p, url)
    PROVE  \A s : s \in Reads(c, url) <=>
               \E e \in Ends(Label(p, c), url, r.pos) : s = ReadOn(r, Label(p, c), url, e)
<1>1. p \in Path /\ DOMAIN Optimized(t) \subseteq Path
  BY Kept DEF IsTree
<1>2. PICK n : n = Len(p)
  OBVIOUS
<1>3. c \in Path /\ n < Len(c) /\ p = Cut(c, n)
  BY <1>1, <1>2, ChildrenAre DEF Above
<1>4. n \in Nat /\ Len(c) \in Nat /\ n \in 0..Len(c) /\ Len(url) \in Nat
  BY <1>1, <1>2, <1>3 DEF Path
<1> DEFINE label == Label(p, c)
<1>5. /\ label \in Path /\ Len(label) = Len(c) - n
      /\ \A i \in 1..(Len(c) - n) : label[i] = c[n + i]
  BY <1>2, <1>3, <1>4 DEF Label, Path
<1>6. r \in Reads(Cut(c, n), url)
  BY <1>3
<1>7. /\ r \in [pos : n..Len(url), params : Seq(Path)] /\ r.pos \in 0..Len(url)
      /\ \A q \in Reads(Cut(c, n), url) : q = r
      /\ Cut(c, Len(c)) = c
  BY <1>3, <1>4, <1>6, ReadsOne, CutAll
<1> HIDE DEF label
<1>8. CASE Len(c) = n + 1
  <2>1. label = <<c[n + 1]>>
    BY <1>4, <1>5, <1>8 DEF Path
  <2>2. Reads(c, url) = Onward(Reads(Cut(c, n), url), c[n + 1], url)
    <3>1. n \in 0..(Len(c) - 1)
      BY <1>4, <1>8
    <3>2. Reads(Cut(c, n + 1), url) = Onward(Reads(Cut(c, n), url), c[n + 1], url)
      BY <1>3, <3>1, ReadsOn
    <3>3. Cut(c, n + 1) = c
      BY <1>7, <1>8
    <3> QED BY <3>2, <3>3
  <2>3. \A s : s \in Reads(c, url) <=>
             \E e \in Ends(<<c[n + 1]>>, url, r.pos) : s = ReadTo(r, c[n + 1], url, e)
    <3> DEFINE R == Reads(Cut(c, n), url)
               x == c[n + 1]
    <3>1. r \in R /\ (\A q \in R : q = r) /\ Reads(c, url) = Onward(R, x, url)
      BY <1>6, <1>7, <2>2
    <3> HIDE DEF R, x
    <3>2. \A s : s \in Onward(R, x, url) <=>
             \E q \in R : \E e \in Ends(<<x>>, url, q.pos) : s = ReadTo(q, x, url, e)
      BY OnwardIs
    <3>3. \A s : s \in Reads(c, url) <=>
             \E e \in Ends(<<x>>, url, r.pos) : s = ReadTo(r, x, url, e)
      BY <3>1, <3>2
    <3> QED BY <3>3 DEF x
  <2> QED BY <2>1, <2>3 DEF ReadTo, ReadOn, label
<1>9. CASE Len(c) # n + 1
  <2>1. \A j \in (n + 1)..Len(c) : c[j] \notin Params
    BY <1>2, <1>9, KeysOfChildren
  <2>2. PICK k : k = Len(c) - n
    OBVIOUS
  <2>3. k \in 0..(Len(c) - n) /\ n + k = Len(c) /\ k \in Nat
    BY <1>3, <1>4, <2>2
  <2>4. \A s : s \in Reads(c, url) <=>
             /\ s = [pos |-> r.pos + k, params |-> r.params]
             /\ r.pos + k <= Len(url)
             /\ \A i \in 1..k : url[r.pos + i] = c[n + i]
    <3>1. \A j \in 0..(Len(c) - n) : \A s :
             s \in Reads(Cut(c, n + j), url) <=>
                 /\ s = [pos |-> r.pos + j, params |-> r.params]
                 /\ r.pos + j <= Len(url)
                 /\ \A i \in 1..j : url[r.pos + i] = c[n + i]
      BY <1>3, <1>4, <1>6, <2>1, LiteralReads
    <3> QED BY <1>7, <2>3, <3>1
  <2>5. Literal(label)
    BY <1>3, <1>4, <1>5, <2>1 DEF Literal
  <2>6. /\ \A e : e \in Ends(label, url, r.pos) <=>
                e = r.pos + Len(label) /\ Matches(label, url, r.pos)
        /\ \A e : Taken(label, url, r.pos, e) = <<>>
    BY <1>7, <2>5, LiteralEnds
  <2>7. Matches(label, url, r.pos) <=>
            r.pos + k <= Len(url) /\ \A i \in 1..k : url[r.pos + i] = c[n + i]
    BY <1>5, <2>2 DEF Matches
  <2>8. \A s : s \in Reads(c, url) <=>
             s = [pos |-> r.pos + k, params |-> r.params] /\ Matches(label, url, r.pos)
    BY <2>4, <2>7
  <2>9. r.params \o <<>> = r.params /\ Len(label) = k
    BY <1>5, <1>7, <2>2
  <2>10. \A s : s \in Reads(c, url) <=>
             \E e \in Ends(label, url, r.pos) : s = ReadOn(r, label, url, e)
    <3> DEFINE f(e) == ReadOn(r, label, url, e)
    <3>1. \A e : f(e) = [pos |-> e, params |-> r.params]
      BY <2>6, <2>9 DEF ReadOn
    <3>2. \A e : e \in Ends(label, url, r.pos) <=> e = r.pos + k /\ Matches(label, url, r.pos)
      BY <2>6, <2>9
    <3> HIDE DEF f
    <3>3. \A s : s \in Reads(c, url) <=> \E e \in Ends(label, url, r.pos) : s = f(e)
      BY <2>8, <3>1, <3>2
    <3> QED BY <3>3 DEF f
  <2> QED BY <2>10 DEF label
<1> QED BY <1>8, <1>9
-----------------------------------------------------------------------------
(* The search. *)
Result == [index : Nat, params : Seq(Path)]

(* The best of several results is the one with the least index. *)
LEMMA BestIs ==
    ASSUME NEW R \in SUBSET Result
    PROVE  /\ Best(R) \in Result
           /\ \A r \in R : r.index # 0 => Best(R).index # 0 /\ Best(R).index <= r.index
           /\ Best(R).index # 0 => Best(R) \in R
<1> DEFINE found == {r \in R : r.index # 0}
           S == {r.index : r \in found}
<1>1. CASE found = {}
  <2>1. Best(R) = NotFound
    BY <1>1 DEF Best
  <2>2. NotFound \in Result /\ NotFound.index = 0
    BY DEF NotFound, Result
  <2> QED BY <1>1, <2>1, <2>2
<1>2. CASE found # {}
  <2>1. \A r \in R : r.index \in Nat
    BY DEF Result
  <2>2. S \in SUBSET Nat /\ S # {}
    BY <1>2, <2>1
  <2>3. PICK n \in S : \A m \in S : n <= m
    <3> HIDE DEF S
    <3> QED BY <2>2, Least
  <2>4. \E r \in found : \A q \in found : r.index <= q.index
    BY <2>3
  <2>5. Best(R) = CHOOSE r \in found : \A q \in found : r.index <= q.index
    BY <1>2 DEF Best
  <2> HIDE DEF found
  <2>6. Best(R) \in found /\ \A q \in found : Best(R).index <= q.index
    BY <2>4, <2>5
  <2> QED BY <2>6 DEF found
<1> QED BY <1>1, <1>2

(* Concatenating parameters is associative. *)
LEMMA ParamsTogether ==
    ASSUME NEW a \in Seq(Path), NEW b \in Seq(Path), NEW c \in Seq(Path)
    PROVE  (a \o b) \o c = a \o (b \o c)
BY ConcatAssociative

Under(p, q) == q = p \/ Above(p, q)

(* What is under a node is under all above it. *)
LEMMA UnderAbove ==
    ASSUME NEW p \in Path, NEW c \in Path, NEW q \in Path, Above(p, c), Under(c, q)
    PROVE  Above(p, q)
<1>1. CASE q = c
  BY <1>1
<1>2. CASE Above(c, q)
  <2>1. /\ Len(p) \in Nat /\ Len(c) \in Nat /\ Len(q) \in Nat
        /\ Len(p) < Len(c) /\ Len(c) < Len(q)
    BY <1>2 DEF Above, Path
  <2>2. PICK n : n = Len(p)
    OBVIOUS
  <2>3. PICK m : m = Len(c)
    OBVIOUS
  <2>4. p = Cut(c, n) /\ c = Cut(q, m) /\ m \in 0..Len(q) /\ n \in 0..m
    BY <1>2, <2>1, <2>2, <2>3 DEF Above
  <2>5. Cut(Cut(q, m), n) = Cut(q, n)
    BY <2>4, CutCut
  <2>6. p = Cut(q, n)
    BY <2>4, <2>5
  <2> QED BY <2>1, <2>2, <2>6 DEF Above
<1> QED BY <1>1, <1>2 DEF Under

(* A path is under its beginnings. *)
LEMMA UnderCut ==
    ASSUME NEW q \in Path, NEW n \in 0..Len(q)
    PROVE  Under(Cut(q, n), q)
<1>1. Len(q) \in Nat /\ Len(Cut(q, n)) = n /\ Cut(q, Len(q)) = q
  BY CutFacts, CutAll DEF Path
<1>2. CASE n = Len(q)
  BY <1>1, <1>2 DEF Under
<1>3. CASE n # Len(q)
  BY <1>1, <1>3 DEF Under, Above
<1> QED BY <1>2, <1>3

(* What the search from node p, reached with reading r, must come to: the    *)
(* least index that a node under p has whose path reads the whole url, and *)
(* the rest of its parameters.                                             *)
IsRight(t, url, p, r, b) ==
    /\ b \in Result
    /\ \A q \in DOMAIN t : Under(p, q) /\ t[q] # 0 /\ Readings(q, url) # {} =>
                               b.index # 0 /\ b.index <= t[q]
    /\ b.index # 0 =>
           \E q \in DOMAIN t : /\ Under(p, q) /\ t[q] = b.index
                               /\ [pos |-> Len(url), params |-> r.params \o b.params]
                                     \in Reads(q, url)

(* At the end of the url the node itself answers. *)
LEMMA RightAtEnd ==
    ASSUME NEW t, IsTree(t), NEW url \in Path, NEW p \in DOMAIN t, NEW r \in Reads(p, url),
           r.pos = Len(url)
    PROVE  IsRight(t, url, p, r, [index |-> t[p], params |-> <<>>])
<1> DEFINE b == [index |-> t[p], params |-> <<>>]
<1>1. p \in Path /\ t[p] \in Nat /\ Len(p) \in Nat /\ Cut(p, Len(p)) = p /\ Len(url) \in Nat
  BY CutAll DEF IsTree, Path
<1>2. r \in [pos : Len(p)..Len(url), params : Seq(Path)] /\ \A q \in Reads(p, url) : q = r
  <2>1. Len(p) \in 0..Len(p) /\ r \in Reads(Cut(p, Len(p)), url)
    BY <1>1
  <2>2. /\ \A q, s \in Reads(Cut(p, Len(p)), url) : q = s
        /\ \A q \in Reads(Cut(p, Len(p)), url) : q \in [pos : Len(p)..Len(url), params : Seq(Path)]
    BY <1>1, <2>1, ReadsOne
  <2> QED BY <1>1, <2>2
<1>3. b \in Result
  BY <1>1 DEF Result
<1>4. ASSUME NEW q \in DOMAIN t, Under(p, q), Readings(q, url) # {} PROVE q = p
  <2> SUFFICES ASSUME Above(p, q) PROVE FALSE
    BY <1>4 DEF Under
  <2>1. q \in Path /\ Len(q) \in Nat /\ Cut(q, Len(q)) = q /\ Len(p) < Len(q)
    BY CutAll DEF IsTree, Path, Above
  <2>2. PICK n : n = Len(p)
    OBVIOUS
  <2>3. p = Cut(q, n) /\ n \in 0..Len(q) /\ n < Len(q)
    BY <1>1, <2>1, <2>2 DEF Above
  <2>4. PICK m : m = Len(q)
    OBVIOUS
  <2>5. m \in n..Len(q) /\ m # n /\ Cut(q, m) = q
    BY <1>1, <2>1, <2>3, <2>4
  <2>6. Reads(Cut(q, m), url) # {}
    BY <1>4, <2>5 DEF Readings
  <2>7. PICK s \in Reads(Cut(q, n), url) : s.pos < Len(url)
    BY <2>1, <2>3, <2>5, <2>6, ReadsEnd
  <2> QED BY <1>1, <1>2, <2>3, <2>7
<1>5. r.params \o <<>> = r.params /\ r = [pos |-> r.pos, params |-> r.params]
  BY <1>2
<1>6. [pos |-> Len(url), params |-> r.params \o b.params] \in Reads(p, url)
  BY <1>5
<1>7. Under(p, p)
  BY DEF Under
<1>8. \A q \in DOMAIN t : Under(p, q) /\ t[q] # 0 /\ Readings(q, url) # {} =>
                               b.index # 0 /\ b.index <= t[q]
  BY <1>1, <1>4
<1>9. b.index = t[p]
  OBVIOUS
<1> HIDE DEF b
<1>10. IsRight(t, url, p, r, b)
  BY <1>3, <1>6, <1>7, <1>8, <1>9 DEF IsRight
<1> QED BY <1>10 DEF b

(* One turn comes to what is right if the turns further on do. *)
LEMMA RightFurther ==
    ASSUME NEW t, IsTree(t), NEW url \in Path, NEW p \in DOMAIN Optimized(t),
           NEW r \in Reads(p, url), r.pos # Len(url), NEW g,
           \A c \in DOMAIN Optimized(t) : \A s \in Reads(c, url) :
               s.pos > r.pos => IsRight(t, url, c, s, g[<<c, s.pos>>])
    PROVE  IsRight(t, url, p, r, Turn(Optimized(t), url, g, <<p, r.pos>>))
<1> DEFINE o == Optimized(t)
           at == <<p, r.pos>>
           key(next) == Taken(Label(p, next[1]), url, r.pos, next[2])
           from(next) == ReadOn(r, Label(p, next[1]), url, next[2])
           G(next) == [g[next] EXCEPT !.params = key(next) \o @]
           R == {G(next) : next \in Onto(o, url, at)}
           b == Best(R)
<1>1. /\ p \in Path /\ Len(p) \in Nat /\ Cut(p, Len(p)) = p /\ Len(url) \in Nat
      /\ DOMAIN o \subseteq DOMAIN t /\ DOMAIN t \subseteq Path /\ p \in DOMAIN t
      /\ \A q \in DOMAIN t : t[q] # 0 => q \in DOMAIN o
  BY Kept, CutAll DEF IsTree, Path
<1>2. r \in [pos : 0..Len(url), params : Seq(Path)] /\ \A q \in Reads(p, url) : q = r
  <2>1. Len(p) \in 0..Len(p) /\ r \in Reads(Cut(p, Len(p)), url)
    BY <1>1
  <2>2. /\ \A q, s \in Reads(Cut(p, Len(p)), url) : q = s
        /\ \A q \in Reads(Cut(p, Len(p)), url) : q \in [pos : Len(p)..Len(url), params : Seq(Path)]
    BY <1>1, <2>1, ReadsOne
  <2> QED BY <1>1, <2>2
<1>3. \A next : next \in Onto(o, url, at) <=>
          /\ next \in Children(o, p) \X ((r.pos + 1)..Len(url))
          /\ next[2] \in Ends(Label(p, next[1]), url, r.pos)
  BY DEF Onto
<1>4. ASSUME NEW next \in Onto(o, url, at)
      PROVE  /\ next[1] \in DOMAIN o /\ Above(p, next[1])
             /\ from(next) \in Reads(next[1], url)
             /\ key(next) \in Seq(Path)
             /\ IsRight(t, url, next[1], from(next), g[next])
  <2>1. /\ next[1] \in Children(o, p) /\ next[2] \in (r.pos + 1)..Len(url)
        /\ next[2] \in Ends(Label(p, next[1]), url, r.pos) /\ next = <<next[1], next[2]>>
    BY <1>3
  <2>2. next[1] \in DOMAIN o /\ Above(p, next[1])
    BY <1>1, <2>1, ChildrenAre
  <2>3. \A s : s \in Reads(next[1], url) <=>
            \E e \in Ends(Label(p, next[1]), url, r.pos) : s = ReadOn(r, Label(p, next[1]), url, e)
    BY <2>1, ReadsOfChild
  <2>4. from(next) \in Reads(next[1], url)
    BY <2>1, <2>3
  <2>5. key(next) \in Seq(Path)
    <3>1. SubSeq(url, r.pos + 1, next[2]) \in Path
      BY <1>1, <1>2, <2>1 DEF Path
    <3>2. <<SubSeq(url, r.pos + 1, next[2])>> \in Seq(Path) /\ <<>> \in Seq(Path)
      BY <3>1, Singleton, EmptySeq
    <3> QED BY <3>2 DEF Taken
  <2>6. from(next).pos = next[2] /\ next[2] > r.pos /\ <<next[1], from(next).pos>> = next
    BY <1>2, <2>1 DEF ReadOn
  <2> HIDE DEF from
  <2>7. IsRight(t, url, next[1], from(next), g[<<next[1], from(next).pos>>])
    BY <2>2, <2>4, <2>6
  <2> QED BY <2>2, <2>4, <2>5, <2>6, <2>7
<1>5. ASSUME NEW next \in Onto(o, url, at)
      PROVE  /\ G(next) \in Result /\ G(next).index = g[next].index
             /\ G(next).params = key(next) \o g[next].params
             /\ g[next] \in Result
  <2>1. g[next] \in Result /\ key(next) \in Seq(Path)
    BY <1>4 DEF IsRight
  <2> HIDE DEF key
  <2>2. key(next) \o g[next].params \in Seq(Path)
    BY <2>1, ConcatProperties DEF Result
  <2> QED BY <2>1, <2>2 DEF Result
<1>6. R \in SUBSET Result
  BY <1>5
<1>7. /\ b \in Result
      /\ \A s \in R : s.index # 0 => b.index # 0 /\ b.index <= s.index
      /\ b.index # 0 => b \in R
  <2> HIDE DEF R
  <2> QED BY <1>6, BestIs
<1>8. Turn(o, url, g, at) = b
  BY <1>2 DEF Turn
<1>9. ASSUME NEW q \in DOMAIN t, Under(p, q), t[q] # 0, Readings(q, url) # {}
      PROVE  b.index # 0 /\ b.index <= t[q]
  <2>1. q \in Path /\ q \in DOMAIN o /\ Cut(q, Len(q)) = q /\ Len(q) \in Nat
    BY <1>1, <1>9, CutAll DEF Path
  <2>2. PICK z \in Reads(q, url) : z.pos = Len(url)
    BY <1>9 DEF Readings
  <2>3. Above(p, q)
    <3>1. q # p
      BY <1>2, <2>2
    <3> QED BY <1>9, <3>1 DEF Under
  <2>4. PICK n \in (Len(p) + 1)..Len(q) : Cut(q, n) \in Children(o, p)
    BY <1>1, <2>1, <2>3, ChildTowards
  <2>5. n \in 0..Len(q) /\ Cut(q, n) \in Path
    <3>1. n \in 0..Len(q)
      BY <1>1, <2>1, <2>4
    <3> QED BY <2>1, <3>1, CutFacts
  <2>6. PICK m : m = Len(q)
    OBVIOUS
  <2>7. m \in n..Len(q) /\ Reads(Cut(q, m), url) # {}
    BY <2>1, <2>2, <2>5, <2>6
  <2>8. PICK w \in Reads(Cut(q, n), url) : TRUE
    BY <2>1, <2>5, <2>7, ReadsEnd
  <2> DEFINE c == Cut(q, n)
  <2>9. c \in Children(o, p) /\ w \in Reads(c, url) /\ Under(c, q)
    BY <2>1, <2>4, <2>5, <2>8, UnderCut
  <2> HIDE DEF c
  <2>10. PICK e \in Ends(Label(p, c), url, r.pos) : TRUE
    <3>1. \A s : s \in Reads(c, url) <=>
            \E e \in Ends(Label(p, c), url, r.pos) : s = ReadOn(r, Label(p, c), url, e)
      BY <2>9, ReadsOfChild
    <3> QED BY <2>9, <3>1
  <2>11. e \in (r.pos + 1)..Len(url)
    BY EndsRange
  <2>12. <<c, e>> \in Onto(o, url, at)
    BY <1>3, <2>9, <2>11
  <2>13. IsRight(t, url, c, from(<<c, e>>), g[<<c, e>>])
    BY <1>4, <2>12
  <2> HIDE DEF from, G, b, key
  <2>14. g[<<c, e>>].index # 0 /\ g[<<c, e>>].index <= t[q]
    BY <1>9, <2>9, <2>13 DEF IsRight
  <2>15. G(<<c, e>>) \in R /\ G(<<c, e>>).index = g[<<c, e>>].index /\ g[<<c, e>>] \in Result
    BY <1>5, <2>12
  <2>16. b.index # 0 /\ b.index <= g[<<c, e>>].index
    <3> HIDE DEF R
    <3> QED BY <1>7, <2>14, <2>15
  <2>17. b.index \in Nat /\ g[<<c, e>>].index \in Nat /\ t[q] \in Nat
    BY <1>7, <2>15 DEF Result, IsTree
  <2> QED BY <2>14, <2>16, <2>17
<1>10. ASSUME b.index # 0
       PROVE  \E q \in DOMAIN t : /\ Under(p, q) /\ t[q] = b.index
                                  /\ [pos |-> Len(url), params |-> r.params \o b.params]
                                        \in Reads(q, url)
  <2>1. b \in R
    BY <1>7, <1>10
  <2> HIDE DEF b
  <2>2. PICK next \in Onto(o, url, at) : b = G(next)
    BY <2>1
  <2>3. IsRight(t, url, next[1], from(next), g[next]) /\ Above(p, next[1]) /\ next[1] \in DOMAIN o
    BY <1>4, <2>2
  <2>4. b.index = g[next].index /\ b.params = key(next) \o g[next].params
    BY <1>5, <2>2
  <2>5. PICK q \in DOMAIN t : /\ Under(next[1], q) /\ t[q] = g[next].index
                              /\ [pos |-> Len(url), params |-> from(next).params \o g[next].params]
                                    \in Reads(q, url)
    <3> HIDE DEF G, from
    <3> QED BY <1>10, <2>3, <2>4 DEF IsRight
  <2>6. from(next).params \o g[next].params = r.params \o b.params
    <3>1. r.params \in Seq(Path) /\ key(next) \in Seq(Path) /\ g[next].params \in Seq(Path)
      BY <1>2, <1>4, <1>5 DEF Result
    <3>2. from(next).params = r.params \o key(next)
      BY DEF ReadOn
    <3> HIDE DEF from, key
    <3>3. (r.params \o key(next)) \o g[next].params = r.params \o (key(next) \o g[next].params)
      BY <3>1, ParamsTogether
    <3> QED BY <2>4, <3>2, <3>3
  <2>7. Under(p, q)
    <3>1. next[1] \in Path /\ q \in Path
      BY <1>1, <2>3, <2>5
    <3> QED BY <1>1, <2>3, <2>5, <3>1, UnderAbove DEF Under
  <2> QED BY <2>4, <2>5, <2>6, <2>7
<1> HIDE DEF b
<1>11. IsRight(t, url, p, r, b)
  BY <1>7, <1>9, <1>10 DEF IsRight
<1> QED BY <1>8, <1>11

(* So the search is right from everywhere, by induction on what of the url   *)
(* is left, and what Find returns is right for the whole trie.             *)
LEMMA FindIsRight ==
    ASSUME NEW t, IsTree(t), NEW url \in Path
    PROVE  IsRight(t, url, <<>>, Start, Find(Optimized(t), url))
<1> DEFINE o == Optimized(t)
<1>1. /\ DOMAIN o \subseteq DOMAIN t /\ <<>> \in DOMAIN o /\ DOMAIN t \subseteq Path
      /\ \A p \in DOMAIN o : o[p] = t[p]
      /\ Len(url) \in Nat
  BY Kept DEF IsTree, Path
<1>2. PICK g : TurnsBy(g, o, url) /\ Find(o, url) = g[<<<<>>, 0>>]
  BY <1>1, FindFn
<1>3. ASSUME NEW p \in DOMAIN o, NEW r \in Reads(p, url)
      PROVE  r.pos \in 0..Len(url) /\ g[<<p, r.pos>>] = Turn(o, url, g, <<p, r.pos>>)
  <2>1. p \in Path /\ Cut(p, Len(p)) = p /\ Len(p) \in Nat
    BY <1>1, CutAll DEF Path
  <2>2. r \in Reads(Cut(p, Len(p)), url) /\ Len(p) \in 0..Len(p)
    BY <2>1
  <2>3. r \in [pos : Len(p)..Len(url), params : Seq(Path)]
    BY <2>1, <2>2, ReadsOne
  <2>4. r.pos \in 0..Len(url)
    BY <2>1, <2>3
  <2> HIDE DEF o
  <2> QED BY <1>2, <2>4 DEF TurnsBy
<1> DEFINE P(k) == \A p \in DOMAIN o : \A r \in Reads(p, url) :
                      Len(url) - r.pos <= k => IsRight(t, url, p, r, g[<<p, r.pos>>])
           S == {k \in Nat : P(k)}
<1>4. ASSUME NEW p \in DOMAIN o, NEW r \in Reads(p, url), r.pos = Len(url)
      PROVE  IsRight(t, url, p, r, g[<<p, r.pos>>])
  <2>1. g[<<p, r.pos>>] = [index |-> t[p], params |-> <<>>]
    <3>1. Turn(o, url, g, <<p, r.pos>>) = [index |-> o[p], params |-> <<>>]
      BY <1>4 DEF Turn
    <3> QED BY <1>1, <1>3, <3>1
  <2> QED BY <1>1, <1>4, <2>1, RightAtEnd
<1>5. 0 \in S
  <2>1. ASSUME NEW p \in DOMAIN o, NEW r \in Reads(p, url), Len(url) - r.pos <= 0
        PROVE  r.pos = Len(url)
    <3>1. r.pos \in 0..Len(url)
      BY <1>3
    <3> QED BY <1>1, <2>1, <3>1
  <2> QED BY <1>4, <2>1
<1>6. ASSUME NEW k \in Nat, k \in S PROVE k + 1 \in S
  <2> SUFFICES ASSUME NEW p \in DOMAIN o, NEW r \in Reads(p, url), Len(url) - r.pos <= k + 1
               PROVE  IsRight(t, url, p, r, g[<<p, r.pos>>])
    OBVIOUS
  <2>1. r.pos \in 0..Len(url) /\ g[<<p, r.pos>>] = Turn(o, url, g, <<p, r.pos>>)
    BY <1>3
  <2>2. CASE r.pos = Len(url)
    BY <1>4, <2>2
  <2>3. CASE r.pos # Len(url)
    <3>1. \A c \in DOMAIN o : \A s \in Reads(c, url) :
              s.pos > r.pos => IsRight(t, url, c, s, g[<<c, s.pos>>])
      <4> SUFFICES ASSUME NEW c \in DOMAIN o, NEW s \in Reads(c, url), s.pos > r.pos
                   PROVE  IsRight(t, url, c, s, g[<<c, s.pos>>])
        OBVIOUS
      <4>1. s.pos \in 0..Len(url)
        BY <1>3
      <4>2. Len(url) - s.pos <= k
        BY <1>1, <2>1, <4>1
      <4> QED BY <1>6, <4>2
    <3>2. IsRight(t, url, p, r, Turn(o, url, g, <<p, r.pos>>))
      BY <2>3, <3>1, RightFurther
    <3> QED BY <2>1, <3>2
  <2> QED BY <2>2, <2>3
<1>7. Nat \subseteq S
  <2> HIDE DEF S
  <2> QED BY <1>5, <1>6, SetInduction
<1>8. P(Len(url))
  BY <1>1, <1>7
<1>9. Start \in Reads(<<>>, url) /\ Start.pos = 0 /\ Len(url) - 0 <= Len(url)
  BY <1>1, ReadsOn DEF Start
<1>10. IsRight(t, url, <<>>, Start, g[<<<<>>, Start.pos>>])
  BY <1>1, <1>8, <1>9
<1> QED BY <1>2, <1>9, <1>10
-----------------------------------------------------------------------------
(* What the tries hold when the rules of the list are in: each its index at  *)
(* its path and the redirection at the path without the slash, and nothing *)
(* else.                                                                   *)
IsTrieOf(rs, list, t) ==
    /\ IsTree(t)
    /\ \A i \in 1..Len(list) :
          /\ rs[list[i]].path \in DOMAIN t /\ t[rs[list[i]].path] = i + 1
          /\ Slashed(rs[list[i]].path) =>
                 Front(rs[list[i]].path) \in DOMAIN t /\ t[Front(rs[list[i]].path)] = 1
    /\ \A q \in DOMAIN t : t[q] # 0 =>
          \E i \in 1..Len(list) :
              \/ q = rs[list[i]].path /\ t[q] = i + 1
              \/ Slashed(rs[list[i]].path) /\ q = Front(rs[list[i]].path) /\ t[q] = 1

(* A path joins the nodes of a trie, and what is above it with no index. *)
Joins(a, t, path, index) ==
    /\ IsTree(a)
    /\ path \in DOMAIN a /\ a[path] = index
    /\ DOMAIN t \subseteq DOMAIN a
    /\ \A q \in DOMAIN t : q # path => a[q] = t[q]
    /\ \A q \in DOMAIN a : q # path /\ q \notin DOMAIN t => a[q] = 0

(* Trie::add does that. *)
LEMMA AddIs ==
    ASSUME NEW t, IsTree(t), NEW path \in Path, NEW index \in Nat
    PROVE  Joins(Add(t, path, index), t, path, index)
<1> DEFINE a == Add(t, path, index)
           D == DOMAIN t \cup Prefixes(path)
<1>1. /\ a = [q \in D |-> CASE q = path -> index
                          [] q # path /\ q \in DOMAIN t -> t[q]
                          [] OTHER -> 0]
  BY DEF Add
<1>2. \A q : q \in Prefixes(path) <=> \E l \in 0..Len(path) : q = Cut(path, l)
  BY DEF Prefixes, Cut
<1>3. Len(path) \in Nat /\ Cut(path, Len(path)) = path /\ Len(path) \in 0..Len(path)
  BY CutAll DEF Path
<1>4. path \in D
  BY <1>2, <1>3
<1>5. D \subseteq Path /\ <<>> \in D
  <2>1. \A q \in Prefixes(path) : q \in Path
    BY <1>2, CutFacts
  <2> QED BY <2>1 DEF IsTree
<1>6. ASSUME NEW q \in D, NEW n \in 0..Len(q) PROVE Cut(q, n) \in D
  <2>1. CASE q \in DOMAIN t
    BY <2>1 DEF IsTree
  <2>2. CASE q \in Prefixes(path)
    <3>1. PICK l \in 0..Len(path) : q = Cut(path, l)
      BY <1>2, <2>2
    <3>2. Len(q) = l
      BY <3>1, CutFacts
    <3>3. Cut(q, n) = Cut(path, n) /\ n \in 0..Len(path)
      BY <1>3, <3>1, <3>2, CutCut
    <3> QED BY <1>2, <3>3
  <2> QED BY <2>1, <2>2
<1> HIDE DEF D
<1>7. DOMAIN a = D
  BY <1>1
<1>8. \A q \in D : a[q] = IF q = path THEN index ELSE IF q \in DOMAIN t THEN t[q] ELSE 0
  BY <1>1
<1>9. DOMAIN t \subseteq D
  BY DEF D
<1>10. \A q \in D : a[q] \in Nat
  BY <1>8 DEF IsTree
<1> HIDE DEF a
<1>11. IsTree(a)
  BY <1>5, <1>6, <1>7, <1>10 DEF IsTree
<1> QED BY <1>4, <1>7, <1>8, <1>9, <1>11 DEF a, Joins

(* A path with a slash at its end, and what is before it. *)
LEMMA FrontIs ==
    ASSUME NEW path \in Path, Slashed(path)
    PROVE  /\ Front(path) \in Path /\ Front(path) # path /\ Front(path) # <<>>
           /\ Len(Front(path)) = Len(path) - 1 /\ Len(path) \in Nat /\ Len(path) > 1
           /\ Front(path) = Cut(path, Len(path) - 1)
           /\ path[Len(path)] = "/"
<1>1. Len(path) \in Nat /\ Len(path) > 1 /\ Len(path) - 1 \in 0..Len(path)
  BY DEF Path, Slashed
<1>2. Front(path) = Cut(path, Len(path) - 1)
  BY DEF Front, Cut
<1>3. Front(path) \in Path /\ Len(Front(path)) = Len(path) - 1
  BY <1>1, <1>2, CutFacts
<1> QED BY <1>1, <1>2, <1>3 DEF Slashed, Last

(* A new rule joins the others. *)
LEMMA TrieGrows ==
    ASSUME NEW rs, NEW list \in Seq(Nat), NEW t, IsTrieOf(rs, list, t), NEW k \in Nat,
           rs[k].path \in Path, ~Exists(t, rs[k].path),
           Slashed(rs[k].path) =>
               ~Exists(Add(t, rs[k].path, Len(list) + 2), Front(rs[k].path))
    PROVE  LET own == Add(t, rs[k].path, Len(list) + 2) IN
           IsTrieOf(rs, Append(list, k),
                    IF Slashed(rs[k].path) THEN Add(own, Front(rs[k].path), RedirectSlash) ELSE own)
<1> DEFINE new == rs[k].path
           n == Len(list)
           own == Add(t, new, n + 2)
           u == IF Slashed(new) THEN Add(own, Front(new), RedirectSlash) ELSE own
           more == Append(list, k)
<1>1. n \in Nat /\ Len(more) = n + 1 /\ more[n + 1] = k /\ \A i \in 1..n : more[i] = list[i]
  OBVIOUS
<1>2. /\ IsTree(own) /\ new \in DOMAIN own /\ own[new] = n + 2 /\ DOMAIN t \subseteq DOMAIN own
      /\ \A q \in DOMAIN t : q # new => own[q] = t[q]
      /\ \A q \in DOMAIN own : q # new /\ q \notin DOMAIN t => own[q] = 0
  <2>1. IsTree(t) /\ n + 2 \in Nat
    BY <1>1 DEF IsTrieOf
  <2> HIDE DEF new
  <2>2. new \in Path
    BY DEF new
  <2>3. Joins(Add(t, new, n + 2), t, new, n + 2)
    BY <2>1, <2>2, AddIs
  <2> HIDE DEF own
  <2> QED BY <2>3 DEF Joins, own
<1>3. \A q \in DOMAIN t : t[q] # 0 => q # new
  BY DEF Exists
<1> HIDE DEF new
<1>4. new \in Path
  BY DEF new
<1> HIDE DEF own
<1>5. /\ IsTree(u) /\ DOMAIN t \subseteq DOMAIN u
      /\ new \in DOMAIN u /\ u[new] = n + 2
      /\ Slashed(new) => Front(new) \in DOMAIN u /\ u[Front(new)] = 1
      /\ \A q \in DOMAIN t : t[q] # 0 => u[q] = t[q]
      /\ \A q \in DOMAIN u : u[q] # 0 =>
             \/ q = new
             \/ Slashed(new) /\ q = Front(new)
             \/ q \in DOMAIN t /\ u[q] = t[q]
  <2>1. CASE Slashed(new)
    <3>1. PICK f : f = Front(new)
      OBVIOUS
    <3>2. PICK one : one = RedirectSlash
      OBVIOUS
    <3>3. f \in Path /\ f # new /\ one \in Nat
      BY <1>4, <2>1, <3>1, <3>2, FrontIs DEF RedirectSlash
    <3>4. ~Exists(own, f)
      BY <2>1, <3>1 DEF new, own
    <3>5. u = Add(own, f, one)
      BY <2>1, <3>1, <3>2
    <3> HIDE DEF u
    <3>6. Joins(u, own, f, one)
      BY <1>2, <3>3, <3>5, AddIs
    <3>7. /\ IsTree(u) /\ f \in DOMAIN u /\ u[f] = 1
          /\ DOMAIN own \subseteq DOMAIN u
          /\ \A q \in DOMAIN own : q # f => u[q] = own[q]
          /\ \A q \in DOMAIN u : q # f /\ q \notin DOMAIN own => u[q] = 0
      BY <3>2, <3>6 DEF RedirectSlash, Joins
    <3>8. \A q \in DOMAIN t : t[q] # 0 => own[q] = t[q] /\ q # f
      BY <1>2, <1>3, <3>4 DEF Exists
    <3>9. \A q \in DOMAIN u : u[q] # 0 =>
              q = new \/ q = f \/ (q \in DOMAIN t /\ u[q] = t[q])
      BY <1>2, <3>7
    <3>10. \A q \in DOMAIN t : t[q] # 0 => u[q] = t[q]
      BY <1>2, <3>7, <3>8
    <3>11. DOMAIN t \subseteq DOMAIN u /\ new \in DOMAIN u /\ u[new] = n + 2
      BY <1>2, <3>3, <3>7
    <3> QED BY <2>1, <3>1, <3>7, <3>9, <3>10, <3>11
  <2>2. CASE ~Slashed(new)
    <3>1. u = own
      BY <2>2
    <3> HIDE DEF u
    <3>2. \A q \in DOMAIN t : t[q] # 0 => own[q] = t[q]
      BY <1>2, <1>3
    <3>3. \A q \in DOMAIN own : own[q] # 0 => q = new \/ (q \in DOMAIN t /\ own[q] = t[q])
      BY <1>2
    <3> QED BY <1>2, <2>2, <3>1, <3>2, <3>3
  <2> QED BY <2>1, <2>2
<1> HIDE DEF u, more
<1>6. ASSUME NEW i \in 1..Len(more)
      PROVE  /\ rs[more[i]].path \in DOMAIN u /\ u[rs[more[i]].path] = i + 1
             /\ Slashed(rs[more[i]].path) =>
                    Front(rs[more[i]].path) \in DOMAIN u /\ u[Front(rs[more[i]].path)] = 1
  <2>1. CASE i = n + 1
    <3>1. rs[more[i]].path = new /\ i + 1 = n + 2
      BY <1>1, <2>1 DEF new
    <3> QED BY <1>5, <3>1
  <2>2. CASE i # n + 1
    <3>1. i \in 1..n /\ more[i] = list[i] /\ i + 1 # 0
      BY <1>1, <2>2
    <3>2. /\ rs[list[i]].path \in DOMAIN t /\ t[rs[list[i]].path] = i + 1
          /\ Slashed(rs[list[i]].path) =>
                 Front(rs[list[i]].path) \in DOMAIN t /\ t[Front(rs[list[i]].path)] = 1
      BY <3>1 DEF IsTrieOf
    <3> QED BY <1>5, <3>1, <3>2
  <2> QED BY <2>1, <2>2
<1>7. ASSUME NEW q \in DOMAIN u, u[q] # 0
      PROVE  \E i \in 1..Len(more) :
                \/ q = rs[more[i]].path /\ u[q] = i + 1
                \/ Slashed(rs[more[i]].path) /\ q = Front(rs[more[i]].path) /\ u[q] = 1
  <2>1. CASE q = new \/ (Slashed(new) /\ q = Front(new))
    <3>1. n + 1 \in 1..Len(more) /\ rs[more[n + 1]].path = new /\ (n + 1) + 1 = n + 2
      BY <1>1 DEF new
    <3> QED BY <1>5, <2>1, <3>1
  <2>2. CASE q \in DOMAIN t /\ u[q] = t[q]
    <3>1. PICK i \in 1..n :
              \/ q = rs[list[i]].path /\ t[q] = i + 1
              \/ Slashed(rs[list[i]].path) /\ q = Front(rs[list[i]].path) /\ t[q] = 1
      BY <1>7, <2>2 DEF IsTrieOf
    <3>2. i \in 1..Len(more) /\ more[i] = list[i]
      BY <1>1
    <3> QED BY <2>2, <3>1, <3>2
  <2>3. \/ q = new \/ (Slashed(new) /\ q = Front(new))
        \/ q \in DOMAIN t /\ u[q] = t[q]
    BY <1>5, <1>7
  <2> QED BY <2>1, <2>2, <2>3
<1>8. IsTrieOf(rs, more, u)
  BY <1>5, <1>6, <1>7 DEF IsTrieOf
<1> QED BY <1>8 DEF u, more, own, new
-----------------------------------------------------------------------------
(* The invariant. *)
IsListOf(m, list, n) ==
    /\ list \in Seq(Nat)
    /\ \A i \in 1..Len(list) : list[i] \in 1..n /\ m \in rules[list[i]].methods
    /\ \A k \in 1..n : m \in rules[k].methods => \E i \in 1..Len(list) : list[i] = k
    /\ \A i, j \in 1..Len(list) : i < j => list[i] < list[j]

ListsAre == \A m \in Methods : IsListOf(m, lists[m], added)

TrieIs(m) ==
    IF phase = "serving" THEN \E t : IsTrieOf(rules, lists[m], t) /\ tries[m] = Optimized(t)
                         ELSE IsTrieOf(rules, lists[m], tries[m])

Inv ==
    /\ rules \in Seq(Rules) /\ added \in 0..Len(rules)
    /\ phase \in {"declared", "serving", "failed"}
    /\ phase = "serving" => added = Len(rules)
    /\ phase # "serving" => answer = NoAnswer
    /\ ListsAre
    /\ \A m \in Methods : TrieIs(m)

(* The rules are of their type. *)
LEMMA RulesAre ==
    ASSUME NEW r \in Rules
    PROVE  r.path \in Path /\ r.methods \subseteq Methods
BY RouterAssumption DEF Path

(* A trie is of the rules in the list: others do not matter. *)
LEMMA TrieOfSame ==
    ASSUME NEW rs, NEW qs, NEW list, NEW t, IsTrieOf(rs, list, t),
           \A i \in 1..Len(list) : rs[list[i]] = qs[list[i]]
    PROVE  IsTrieOf(qs, list, t)
<1>1. \A i \in 1..Len(list) :
          /\ qs[list[i]].path \in DOMAIN t /\ t[qs[list[i]].path] = i + 1
          /\ Slashed(qs[list[i]].path) =>
                 Front(qs[list[i]].path) \in DOMAIN t /\ t[Front(qs[list[i]].path)] = 1
  BY DEF IsTrieOf
<1>2. ASSUME NEW q \in DOMAIN t, t[q] # 0
      PROVE  \E i \in 1..Len(list) :
                \/ q = qs[list[i]].path /\ t[q] = i + 1
                \/ Slashed(qs[list[i]].path) /\ q = Front(qs[list[i]].path) /\ t[q] = 1
  <2>1. PICK i \in 1..Len(list) :
              \/ q = rs[list[i]].path /\ t[q] = i + 1
              \/ Slashed(rs[list[i]].path) /\ q = Front(rs[list[i]].path) /\ t[q] = 1
    BY <1>2 DEF IsTrieOf
  <2> QED BY <2>1
<1> QED BY <1>1, <1>2 DEF IsTrieOf

(* The empty tries are those of no rules. *)
LEMMA InvInit ==
    ASSUME Init PROVE Inv
<1>1. rules \in Seq(Rules) /\ Len(rules) = 0
  BY DEF Init
<1>2. ASSUME NEW m \in Methods PROVE IsTrieOf(rules, lists[m], tries[m])
  <2>1. tries[m] = [p \in {<<>>} |-> 0] /\ lists[m] = <<>>
    BY DEF Init
  <2>2. \A n \in 0..Len(<<>>) : Cut(<<>>, n) = <<>>
    BY DEF Cut
  <2>3. <<>> \in Path
    BY DEF Path
  <2> QED BY <2>1, <2>2, <2>3 DEF IsTrieOf, IsTree
<1>3. ListsAre
  BY DEF ListsAre, IsListOf, Init
<1> QED BY <1>1, <1>2, <1>3 DEF Inv, Init, TrieIs

(* Rules are declared before any is added, so no list names the new one. *)
LEMMA DeclareKeeps ==
    ASSUME Inv, NEW r \in Rules, Declare(r) PROVE Inv'
<1>1. added = 0 /\ added' = 0 /\ phase = "declared" /\ phase' = "declared"
      /\ lists' = lists /\ tries' = tries /\ answer' = answer /\ rules' = Append(rules, r)
  BY DEF Declare
<1>2. rules' \in Seq(Rules) /\ added' \in 0..Len(rules')
  BY <1>1 DEF Inv
<1>3. ASSUME NEW m \in Methods PROVE Len(lists[m]) = 0
  <2>1. lists[m] \in Seq(Nat) /\ \A i \in 1..Len(lists[m]) : lists[m][i] \in 1..0
    BY <1>1 DEF Inv, ListsAre, IsListOf
  <2>2. Len(lists[m]) \in Nat /\ (Len(lists[m]) # 0 => 1 \in 1..Len(lists[m]))
    BY <2>1
  <2> QED BY <2>1, <2>2
<1>4. ListsAre'
  BY <1>1, <1>3 DEF Inv, ListsAre, IsListOf
<1>5. ASSUME NEW m \in Methods PROVE TrieIs(m)'
  <2>1. IsTrieOf(rules, lists[m], tries[m])
    BY <1>1 DEF Inv, TrieIs
  <2>2. IsTrieOf(rules', lists[m], tries[m])
    BY <1>3, <2>1, TrieOfSame
  <2> QED BY <1>1, <2>2 DEF TrieIs
<1>6. (\A m \in Methods : TrieIs(m))'
  BY <1>5
<1> QED BY <1>1, <1>2, <1>4, <1>6 DEF Inv

(* Adding a rule extends the lists and tries of its methods, or fails and  *)
(* changes none.                                                           *)
LEMMA AddRuleKeeps ==
    ASSUME Inv, AddRule PROVE Inv'
<1> DEFINE r == rules[added + 1]
<1>1. /\ phase = "declared" /\ added < Len(rules) /\ rules' = rules /\ answer' = answer
      /\ added \in Nat /\ Len(rules) \in Nat /\ rules \in Seq(Rules) /\ answer = NoAnswer
      /\ ListsAre /\ \A m \in Methods : IsTrieOf(rules, lists[m], tries[m])
  BY DEF AddRule, Inv, TrieIs
<1>2. r \in Rules /\ r.path \in Path /\ r.methods \subseteq Methods
  BY <1>1, RulesAre
<1>3. CASE phase' = "failed" /\ UNCHANGED <<added, lists, tries>>
  BY <1>1, <1>3 DEF Inv, ListsAre, IsListOf, TrieIs
<1>4. CASE /\ lists' = [m \in Methods |-> IF m \in r.methods THEN Append(lists[m], added + 1)
                                           ELSE lists[m]]
           /\ tries' = [m \in Methods |->
                LET own == Add(tries[m], r.path, NewIndex(lists[m])) IN
                CASE m \notin r.methods -> tries[m]
                  [] m \in r.methods /\ Slashed(r.path) ->
                        Add(own, Front(r.path), RedirectSlash)
                  [] m \in r.methods /\ ~Slashed(r.path) -> own]
           /\ \A m \in r.methods :
                 /\ ~Exists(tries[m], r.path)
                 /\ Slashed(r.path) =>
                       ~Exists(Add(tries[m], r.path, NewIndex(lists[m])), Front(r.path))
           /\ added' = added + 1 /\ phase' = phase
  <2>1. added' \in 0..Len(rules') /\ phase' = "declared" /\ added + 1 \in 1..Len(rules)
    BY <1>1, <1>4
  <2>2. ASSUME NEW m \in Methods
        PROVE  /\ IsTrieOf(rules, lists'[m], tries'[m])
               /\ IsListOf(m, lists'[m], added + 1)
    <3>1. PICK l : l = lists[m]
      OBVIOUS
    <3>2. /\ l \in Seq(Nat) /\ Len(l) \in Nat
          /\ \A i \in 1..Len(l) : l[i] \in 1..added /\ m \in rules[l[i]].methods
          /\ \A k \in 1..added : m \in rules[k].methods => \E i \in 1..Len(l) : l[i] = k
          /\ \A i, j \in 1..Len(l) : i < j => l[i] < l[j]
          /\ IsTrieOf(rules, l, tries[m])
      <4>1. IsListOf(m, l, added) /\ IsTrieOf(rules, l, tries[m])
        BY <1>1, <3>1 DEF ListsAre
      <4> QED BY <4>1 DEF IsListOf
    <3>3. CASE m \notin r.methods
      <4>1. lists'[m] = l /\ tries'[m] = tries[m]
        BY <1>4, <3>1, <3>3
      <4>2. \A k \in 1..(added + 1) : k \in 1..added \/ k = added + 1
        BY <1>1
      <4>3. IsListOf(m, l, added + 1)
        BY <1>1, <3>2, <3>3, <4>2 DEF IsListOf
      <4> QED BY <3>2, <4>1, <4>3
    <3>4. CASE m \in r.methods
      <4>1. PICK h : h = Append(l, added + 1)
        OBVIOUS
      <4>2. lists'[m] = h
        BY <1>4, <3>1, <3>4, <4>1
      <4>3. /\ h \in Seq(Nat) /\ Len(h) = Len(l) + 1 /\ h[Len(l) + 1] = added + 1
            /\ \A i \in 1..Len(l) : h[i] = l[i]
        BY <1>1, <3>2, <4>1
      <4>4. tries'[m] = LET own == Add(tries[m], r.path, Len(l) + 2) IN
                        IF Slashed(r.path) THEN Add(own, Front(r.path), RedirectSlash) ELSE own
        BY <1>4, <3>1, <3>4 DEF NewIndex
      <4>5. /\ ~Exists(tries[m], r.path)
            /\ Slashed(r.path) => ~Exists(Add(tries[m], r.path, Len(l) + 2), Front(r.path))
        BY <1>4, <3>1, <3>4 DEF NewIndex
      <4>6. IsTrieOf(rules, h, tries'[m])
        <5>1. PICK k \in Nat : k = added + 1
          BY <1>1
        <5>2. /\ rules[k].path \in Path /\ ~Exists(tries[m], rules[k].path)
              /\ Slashed(rules[k].path) =>
                    ~Exists(Add(tries[m], rules[k].path, Len(l) + 2), Front(rules[k].path))
          BY <1>2, <4>5, <5>1
        <5>3. LET own == Add(tries[m], rules[k].path, Len(l) + 2) IN
              IsTrieOf(rules, Append(l, k), IF Slashed(rules[k].path)
                  THEN Add(own, Front(rules[k].path), RedirectSlash) ELSE own)
          BY <3>2, <5>2, TrieGrows
        <5> QED BY <4>1, <4>4, <5>1, <5>3
      <4>7. \A i \in 1..Len(h) : h[i] \in 1..(added + 1) /\ m \in rules[h[i]].methods
        <5> SUFFICES ASSUME NEW i \in 1..Len(h)
                     PROVE  h[i] \in 1..(added + 1) /\ m \in rules[h[i]].methods
          OBVIOUS
        <5>1. CASE i = Len(l) + 1
          BY <1>1, <3>4, <4>3, <5>1
        <5>2. CASE i # Len(l) + 1
          <6>1. i \in 1..Len(l) /\ h[i] = l[i]
            BY <3>2, <4>3, <5>2
          <6> QED BY <1>1, <3>2, <6>1
        <5> QED BY <5>1, <5>2
      <4>8. \A k \in 1..(added + 1) : m \in rules[k].methods => \E i \in 1..Len(h) : h[i] = k
        <5> SUFFICES ASSUME NEW k \in 1..(added + 1), m \in rules[k].methods
                     PROVE  \E i \in 1..Len(h) : h[i] = k
          OBVIOUS
        <5>1. CASE k = added + 1
          <6>1. Len(l) + 1 \in 1..Len(h)
            BY <3>2, <4>3
          <6> QED BY <4>3, <5>1, <6>1
        <5>2. CASE k # added + 1
          <6>1. k \in 1..added
            BY <1>1, <5>2
          <6>2. PICK i \in 1..Len(l) : l[i] = k
            BY <3>2, <6>1
          <6>3. i \in 1..Len(h) /\ h[i] = k
            BY <3>2, <4>3, <6>2
          <6> QED BY <6>3
        <5> QED BY <5>1, <5>2
      <4>9. \A i, j \in 1..Len(h) : i < j => h[i] < h[j]
        <5> SUFFICES ASSUME NEW i \in 1..Len(h), NEW j \in 1..Len(h), i < j PROVE h[i] < h[j]
          OBVIOUS
        <5>1. i \in 1..Len(l) /\ h[i] = l[i] /\ l[i] \in 1..added
          BY <3>2, <4>3
        <5>2. CASE j = Len(l) + 1
          BY <1>1, <4>3, <5>1, <5>2
        <5>3. CASE j # Len(l) + 1
          <6>1. Len(h) = Len(l) + 1 /\ Len(l) \in Nat
            BY <3>2, <4>3
          <6>2. j \in 1..Len(l)
            BY <5>3, <6>1
          <6>3. h[j] = l[j]
            BY <4>3, <6>2
          <6> QED BY <3>2, <5>1, <6>2, <6>3
        <5> QED BY <5>2, <5>3
      <4>10. IsListOf(m, h, added + 1)
        BY <4>3, <4>7, <4>8, <4>9 DEF IsListOf
      <4> QED BY <4>2, <4>6, <4>10
    <3> QED BY <3>3, <3>4
  <2>3. ListsAre'
    <3>1. rules' = rules /\ added' = added + 1
      BY <1>1, <1>4
    <3>2. ASSUME NEW m \in Methods PROVE IsListOf(m, lists[m], added)'
      <4>1. IsListOf(m, lists'[m], added + 1)
        BY <2>2
      <4> QED BY <3>1, <4>1 DEF IsListOf
    <3> QED BY <3>2 DEF ListsAre
  <2>4. (\A m \in Methods : TrieIs(m))'
    BY <1>1, <2>1, <2>2 DEF TrieIs
  <2> QED BY <1>1, <2>1, <2>3, <2>4 DEF Inv
<1> QED BY <1>3, <1>4 DEF AddRule

(* Optimising keeps what the tries were made of. *)
LEMMA ValidateKeeps ==
    ASSUME Inv, Validate PROVE Inv'
<1>1. /\ phase = "declared" /\ added = Len(rules) /\ phase' = "serving"
      /\ tries' = [m \in Methods |-> Optimized(tries[m])]
      /\ rules' = rules /\ added' = added /\ lists' = lists /\ answer' = answer
  BY DEF Validate
<1>2. ASSUME NEW m \in Methods
      PROVE  IsTrieOf(rules, lists[m], tries[m]) /\ tries'[m] = Optimized(tries[m])
  BY <1>1 DEF Inv, TrieIs
<1>3. (\A m \in Methods : TrieIs(m))'
  BY <1>1, <1>2 DEF TrieIs
<1>4. ListsAre'
  BY <1>1 DEF Inv, ListsAre, IsListOf
<1> QED BY <1>1, <1>3, <1>4 DEF Inv

(* An answer changes no trie. *)
LEMMA AnswerKeeps ==
    ASSUME Inv, NEW a, Answer(a) PROVE Inv'
BY DEF Inv, Answer, ListsAre, IsListOf, TrieIs
-----------------------------------------------------------------------------
(* What the search of the trie of a method finds is what its rules say. *)
FirstOf(m, url, k, params) ==
    /\ k \in Serving(m, url)
    /\ \A j \in Serving(m, url) : k <= j
    /\ Redirecting(m, url) = {}
    /\ params \in {r.params : r \in Readings(rules[k].path, url)}

IsFound(m, url, b) ==
    /\ b.index \in 0..(Len(lists[m]) + 1)
    /\ b.index = 0 <=> ~Known(m, url)
    /\ b.index = 1 => Redirecting(m, url) # {}
    /\ b.index > 1 => /\ lists[m][b.index - 1] \in 1..added
                      /\ FirstOf(m, url, lists[m][b.index - 1], b.params)

(* The rule found is the first of those that serve, a redirection goes     *)
(* before them, and nothing is found only if no rule is known.             *)
LEMMA FoundIs ==
    ASSUME Inv, phase = "serving", NEW m \in Methods, NEW url \in Path
    PROVE  IsFound(m, url, Find(tries[m], url))
<1>1. PICK t : IsTrieOf(rules, lists[m], t) /\ tries[m] = Optimized(t)
  BY DEF Inv, TrieIs
<1>2. PICK l : l = lists[m]
  OBVIOUS
<1>3. PICK b : b = Find(Optimized(t), url)
  OBVIOUS
<1>4. /\ l \in Seq(Nat) /\ Len(l) \in Nat
      /\ \A i \in 1..Len(l) : l[i] \in 1..added /\ m \in rules[l[i]].methods
      /\ \A k \in 1..added : m \in rules[k].methods => \E i \in 1..Len(l) : l[i] = k
      /\ \A i, j \in 1..Len(l) : i < j => l[i] < l[j]
  <2>1. IsListOf(m, l, added)
    BY <1>2 DEF Inv, ListsAre
  <2> QED BY <2>1 DEF IsListOf
<1>5. IsTree(t) /\ IsTrieOf(rules, l, t)
  BY <1>1, <1>2 DEF IsTrieOf
<1>6. DOMAIN rules = 1..added /\ added \in Nat
  BY DEF Inv
<1>7. IsRight(t, url, <<>>, Start, b)
  BY <1>3, <1>5, FindIsRight
<1>8. \A q \in DOMAIN t : Under(<<>>, q)
  <2>1. ASSUME NEW q \in Path PROVE Under(<<>>, q)
    <3>1. Len(q) \in Nat /\ Cut(q, 0) = <<>> /\ (Len(q) = 0 => q = <<>>)
      BY <2>1, CutAll DEF Path
    <3> QED BY <3>1 DEF Under, Above
  <2> QED BY <1>5, <2>1 DEF IsTree
<1>9. b.index \in Nat /\ b.params \in Seq(Path)
  BY <1>7 DEF IsRight, Result
<1>10. ASSUME NEW q \in DOMAIN t, t[q] # 0, Fits(q, url)
       PROVE  b.index # 0 /\ b.index <= t[q]
  BY <1>7, <1>8, <1>10 DEF IsRight, Fits
<1>11. ASSUME NEW k \in Serving(m, url)
       PROVE  k \in 1..added /\ \E i \in 1..Len(l) : l[i] = k /\ b.index # 0 /\ b.index <= i + 1
  <2>1. k \in 1..added /\ m \in rules[k].methods /\ Fits(rules[k].path, url)
    BY <1>6 DEF Serving
  <2>2. PICK i \in 1..Len(l) : l[i] = k
    BY <1>4, <2>1
  <2>3. rules[k].path \in DOMAIN t /\ t[rules[k].path] = i + 1 /\ i + 1 # 0
    BY <1>4, <1>5, <2>2 DEF IsTrieOf
  <2>4. b.index # 0 /\ b.index <= i + 1
    BY <1>10, <2>1, <2>3
  <2> QED BY <2>1, <2>2, <2>4
<1>12. ASSUME NEW k \in Redirecting(m, url) PROVE b.index = 1
  <2>1. /\ k \in 1..added /\ m \in rules[k].methods
        /\ Slashed(rules[k].path) /\ Fits(Front(rules[k].path), url)
    BY <1>6 DEF Redirecting
  <2>2. PICK i \in 1..Len(l) : l[i] = k
    BY <1>4, <2>1
  <2>3. Front(rules[k].path) \in DOMAIN t /\ t[Front(rules[k].path)] = 1
    BY <1>5, <2>1, <2>2 DEF IsTrieOf
  <2>4. b.index # 0 /\ b.index <= 1
    BY <1>10, <2>1, <2>3
  <2> QED BY <1>9, <2>4
<1>13. ASSUME b.index # 0
       PROVE  \E i \in 1..Len(l) :
                 \/ /\ b.index = i + 1 /\ l[i] \in Serving(m, url)
                    /\ b.params \in {r.params : r \in Readings(rules[l[i]].path, url)}
                 \/ b.index = 1 /\ l[i] \in Redirecting(m, url)
  <2>1. PICK q \in DOMAIN t : /\ t[q] = b.index
                              /\ [pos |-> Len(url), params |-> Start.params \o b.params]
                                    \in Reads(q, url)
    BY <1>7, <1>13 DEF IsRight
  <2>2. Start.params \o b.params = b.params
    BY <1>9 DEF Start
  <2>3. PICK w : w = [pos |-> Len(url), params |-> b.params]
    OBVIOUS
  <2>4. w \in Readings(q, url) /\ w.params = b.params
    BY <2>1, <2>2, <2>3 DEF Readings
  <2>5. Fits(q, url)
    BY <2>4 DEF Fits
  <2>6. PICK i \in 1..Len(l) :
              \/ q = rules[l[i]].path /\ t[q] = i + 1
              \/ Slashed(rules[l[i]].path) /\ q = Front(rules[l[i]].path) /\ t[q] = 1
    BY <1>5, <1>13, <2>1 DEF IsTrieOf
  <2>7. l[i] \in DOMAIN rules /\ m \in rules[l[i]].methods
    BY <1>4, <1>6
  <2>8. CASE q = rules[l[i]].path /\ t[q] = i + 1
    <3>1. l[i] \in Serving(m, url)
      BY <2>5, <2>7, <2>8 DEF Serving
    <3>2. b.params \in {r.params : r \in Readings(rules[l[i]].path, url)}
      BY <2>4, <2>8
    <3> QED BY <2>1, <2>8, <3>1, <3>2
  <2>9. CASE Slashed(rules[l[i]].path) /\ q = Front(rules[l[i]].path) /\ t[q] = 1
    <3>1. l[i] \in Redirecting(m, url)
      BY <2>5, <2>7, <2>9 DEF Redirecting
    <3> QED BY <2>1, <2>9, <3>1
  <2> QED BY <2>6, <2>8, <2>9
<1>14. b.index = 0 <=> ~Known(m, url)
  <2>1. Known(m, url) => b.index # 0
    BY <1>11, <1>12 DEF Known
  <2>2. b.index # 0 => Known(m, url)
    BY <1>13 DEF Known
  <2> QED BY <2>1, <2>2
<1>15. b.index = 1 => Redirecting(m, url) # {}
  <2>1. \A i \in 1..Len(l) : i + 1 # 1
    BY <1>4
  <2> QED BY <1>13, <2>1
<1>16. ASSUME b.index > 1
       PROVE  /\ b.index \in 0..(Len(l) + 1) /\ l[b.index - 1] \in 1..added
              /\ FirstOf(m, url, l[b.index - 1], b.params)
  <2>1. PICK i \in 1..Len(l) :
            /\ b.index = i + 1 /\ l[i] \in Serving(m, url)
            /\ b.params \in {r.params : r \in Readings(rules[l[i]].path, url)}
    BY <1>9, <1>13, <1>16
  <2>2. b.index - 1 = i /\ b.index \in 0..(Len(l) + 1) /\ l[i] \in 1..added
    BY <1>4, <2>1
  <2>3. Redirecting(m, url) = {}
    BY <1>12, <1>16
  <2>4. ASSUME NEW k \in Serving(m, url) PROVE l[i] <= k
    <3>1. PICK j \in 1..Len(l) : l[j] = k /\ b.index <= j + 1
      BY <1>11
    <3>2. i <= j /\ l[i] \in 1..added /\ l[j] \in 1..added
      BY <1>4, <2>1, <3>1
    <3>3. i < j => l[i] < l[j]
      BY <1>4
    <3> QED BY <1>6, <3>1, <3>2, <3>3
  <2> QED BY <2>1, <2>2, <2>3, <2>4 DEF FirstOf
<1>17. b.index \in 0..(Len(l) + 1)
  BY <1>4, <1>9, <1>16
<1>18. IsFound(m, url, b)
  BY <1>2, <1>14, <1>15, <1>16, <1>17 DEF IsFound
<1> QED BY <1>1, <1>3, <1>18
-----------------------------------------------------------------------------
(* What an answer may be, in the terms of the rules. *)
Good(a) ==
    LET m == Asked(a.method, a.url) IN
    /\ a.method \in Methods /\ a.url \in Path /\ a.rule \in 0..added
    /\ \/ a.code = 200 /\ FirstOf(m, a.url, a.rule, a.params)
       \/ a.code = 301 /\ Redirecting(m, a.url) # {}
       \/ /\ a.code = 204
          /\ a.url # <<"/", "*">> =>
                 a.allow = {"OPTIONS", "HEAD"} \cup {n \in Methods : Known(n, a.url)}
       \/ /\ a.code = 404 /\ ~Known(m, a.url)
          /\ a.method # "HEAD" => \A n \in Methods : ~Known(n, a.url)
       \/ a.code = 405 /\ ~Known(m, a.url) /\ \E n \in Methods : Known(n, a.url)

(* A method finds something if and only if it has a rule for the url. *)
LEMMA FindsKnown ==
    ASSUME Inv, phase = "serving", NEW m \in Methods, NEW url \in Path
    PROVE  Finds(m, url) <=> Known(m, url)
<1>1. IsFound(m, url, Find(tries[m], url))
  BY FoundIs
<1> QED BY <1>1 DEF IsFound, Finds

(* What Router::handle makes of a rule found. *)
LEMMA HandledIsGood ==
    ASSUME Inv, phase = "serving", NEW method \in Methods, NEW m \in Methods, NEW url \in Path,
           m = Asked(method, url), Finds(m, url)
    PROVE  Good(Handled(method, m, url))
<1>1. PICK b : b = Find(tries[m], url)
  OBVIOUS
<1>2. IsFound(m, url, b)
  BY <1>1, FoundIs
<1>3. b.index # 0
  BY <1>1 DEF Finds
<1>4. PICK a : a = Handled(method, m, url)
  OBVIOUS
<1>5. a.method = method /\ a.url = url
  BY <1>4 DEF Handled, NoAnswer
<1>6. CASE b.index = 1
  <2>1. a.code = 301 /\ a.rule = 0
    BY <1>1, <1>4, <1>6 DEF Handled, NoAnswer, RedirectSlash
  <2>2. Redirecting(m, url) # {}
    BY <1>2, <1>6 DEF IsFound
  <2>3. 0 \in 0..added
    BY DEF Inv
  <2>4. Good(a)
    BY <1>5, <2>1, <2>2, <2>3 DEF Good
  <2> QED BY <1>4, <2>4
<1>7. CASE b.index # 1
  <2>1. a.code = 200 /\ a.rule = lists[m][b.index - 1] /\ a.params = b.params
    BY <1>1, <1>4, <1>7 DEF Handled, NoAnswer, RedirectSlash
  <2>2. b.index > 1
    <3>1. lists[m] \in Seq(Nat)
      BY DEF Inv, ListsAre, IsListOf
    <3> QED BY <1>2, <1>3, <1>7, <3>1 DEF IsFound
  <2>3. a.rule \in 1..added /\ FirstOf(m, url, a.rule, a.params)
    BY <1>2, <2>1, <2>2 DEF IsFound
  <2>4. Good(a)
    BY <1>5, <2>1, <2>3 DEF Good, Inv
  <2> QED BY <1>4, <2>4
<1> QED BY <1>6, <1>7

(* A refusal names its request and no rule. *)
LEMMA RefusedIs ==
    ASSUME NEW method, NEW url, NEW code
    PROVE  LET a == Refused(method, url, code) IN
           a.method = method /\ a.url = url /\ a.code = code /\ a.rule = 0
BY DEF Refused, NoAnswer

(* HEAD falls back to the rules for GET. *)
LEMMA HeadIsGood ==
    ASSUME Inv, NEW url \in Path, RequestHead(url)
    PROVE  \E a : Answer(a) /\ Good(a)
<1>1. phase = "serving" /\ "HEAD" \in Methods /\ "GET" \in Methods /\ 0 \in 0..added
  BY DEF RequestHead, Answer, Methods, Inv
<1>2. \A m \in Methods : Finds(m, url) <=> Known(m, url)
  BY <1>1, FindsKnown
<1>3. CASE Finds("HEAD", url)
  <2>1. Asked("HEAD", url) = "HEAD"
    BY <1>1, <1>2, <1>3 DEF Asked
  <2>2. Good(Handled("HEAD", "HEAD", url))
    BY <1>1, <1>3, <2>1, HandledIsGood
  <2>3. Answer(Handled("HEAD", "HEAD", url))
    BY <1>3 DEF RequestHead
  <2> QED BY <2>2, <2>3
<1>4. CASE ~Finds("HEAD", url) /\ Finds("GET", url)
  <2>1. Asked("HEAD", url) = "GET"
    BY <1>1, <1>2, <1>4 DEF Asked
  <2>2. Good(Handled("HEAD", "GET", url))
    BY <1>1, <1>4, <2>1, HandledIsGood
  <2>3. Answer(Handled("HEAD", "GET", url))
    BY <1>4 DEF RequestHead
  <2> QED BY <2>2, <2>3
<1>5. CASE ~Finds("HEAD", url) /\ ~Finds("GET", url)
  <2>1. Asked("HEAD", url) = "GET" /\ ~Known("GET", url)
    BY <1>1, <1>2, <1>5 DEF Asked
  <2>2. PICK a : a = Refused("HEAD", url, 404)
    OBVIOUS
  <2>3. a.method = "HEAD" /\ a.url = url /\ a.code = 404 /\ a.rule = 0
    BY <2>2, RefusedIs
  <2>4. Good(a)
    BY <1>1, <2>1, <2>3 DEF Good
  <2>5. Answer(a)
    BY <1>5, <2>2 DEF RequestHead
  <2> QED BY <2>4, <2>5
<1> QED BY <1>3, <1>4, <1>5

(* OPTIONS lists the methods that find something. *)
LEMMA OptionsIsGood ==
    ASSUME Inv, NEW url \in Path, RequestOptions(url)
    PROVE  \E a : Answer(a) /\ Good(a)
<1>1. phase = "serving" /\ "OPTIONS" \in Methods /\ 0 \in 0..added
  BY DEF RequestOptions, Answer, Methods, Inv
<1>2. \A m \in Methods : Finds(m, url) <=> Known(m, url)
  BY <1>1, FindsKnown
<1>3. Asked("OPTIONS", url) = "OPTIONS"
  BY DEF Asked
<1>4. CASE url = <<"/", "*">> \/ \E m \in Methods : Finds(m, url)
  <2>1. PICK a : a = [Refused("OPTIONS", url, 204) EXCEPT !.allow = Allowed(url)]
    OBVIOUS
  <2>2. Answer(a)
    BY <1>4, <2>1 DEF RequestOptions
  <2>3. a.method = "OPTIONS" /\ a.url = url /\ a.code = 204 /\ a.rule = 0 /\ a.allow = Allowed(url)
    BY <2>1 DEF Refused, NoAnswer
  <2>4. url # <<"/", "*">> =>
            Allowed(url) = {"OPTIONS", "HEAD"} \cup {n \in Methods : Known(n, url)}
    <3> DEFINE F == {m \in Methods \ {"HEAD"} : Finds(m, url)}
               K == {n \in Methods : Known(n, url)}
    <3>1. url # <<"/", "*">> => Allowed(url) = {"OPTIONS", "HEAD"} \cup F
      BY DEF Allowed
    <3>2. {"OPTIONS", "HEAD"} \cup F = {"OPTIONS", "HEAD"} \cup K
      BY <1>2
    <3> HIDE DEF F
    <3> QED BY <3>1, <3>2
  <2>5. Good(a)
    BY <1>1, <2>3, <2>4 DEF Good
  <2> QED BY <2>2, <2>5
<1>5. CASE ~(url = <<"/", "*">> \/ \E m \in Methods : Finds(m, url))
  <2>1. PICK a : a = Refused("OPTIONS", url, 404)
    OBVIOUS
  <2>2. a.method = "OPTIONS" /\ a.url = url /\ a.code = 404 /\ a.rule = 0
    BY <2>1, RefusedIs
  <2>3. Answer(a)
    BY <1>5, <2>1 DEF RequestOptions
  <2>4. Good(a)
    BY <1>1, <1>2, <1>3, <1>5, <2>2 DEF Good
  <2> QED BY <2>3, <2>4
<1> QED BY <1>4, <1>5

(* GET and POST ask the rules of their own method. *)
LEMMA OtherIsGood ==
    ASSUME Inv, NEW url \in Path, NEW method \in {"GET", "POST"}, RequestOther(method, url)
    PROVE  \E a : Answer(a) /\ Good(a)
<1>1. phase = "serving" /\ method \in Methods /\ 0 \in 0..added
  BY DEF RequestOther, Answer, Methods, Inv
<1>2. \A m \in Methods : Finds(m, url) <=> Known(m, url)
  BY <1>1, FindsKnown
<1>3. Asked(method, url) = method
  BY DEF Asked
<1>4. CASE Finds(method, url)
  <2>1. Good(Handled(method, method, url))
    BY <1>1, <1>3, <1>4, HandledIsGood
  <2>2. Answer(Handled(method, method, url))
    BY <1>4 DEF RequestOther
  <2> QED BY <2>1, <2>2
<1>5. CASE ~Finds(method, url) /\ (\E m \in Methods : Finds(m, url))
  <2>1. PICK a : a = Refused(method, url, 405)
    OBVIOUS
  <2>2. a.method = method /\ a.url = url /\ a.code = 405 /\ a.rule = 0
    BY <2>1, RefusedIs
  <2>3. Answer(a)
    BY <1>5, <2>1 DEF RequestOther
  <2>4. ~Known(method, url) /\ \E n \in Methods : Known(n, url)
    BY <1>1, <1>2, <1>5
  <2>5. Good(a)
    BY <1>1, <1>3, <2>2, <2>4 DEF Good
  <2> QED BY <2>3, <2>5
<1>6. CASE \A m \in Methods : ~Finds(m, url)
  <2>1. PICK a : a = Refused(method, url, 404)
    OBVIOUS
  <2>2. a.method = method /\ a.url = url /\ a.code = 404 /\ a.rule = 0
    BY <2>1, RefusedIs
  <2>3. Answer(a)
    BY <1>1, <1>6, <2>1 DEF RequestOther
  <2>4. Good(a)
    BY <1>1, <1>2, <1>3, <1>6, <2>2 DEF Good
  <2> QED BY <2>3, <2>4
<1> QED BY <1>4, <1>5, <1>6
-----------------------------------------------------------------------------
(* The invariant holds, with an answer that is a good one. *)
Answered == Inv /\ (answer # NoAnswer => Good(answer))

(* Every step keeps it: none but the answers touches the answer, and after *)
(* one the rules stay as they are.                                         *)
LEMMA AnsweredStep ==
    ASSUME Answered, [Next]_vars PROVE Answered'
<1>1. Inv
  BY DEF Answered
<1>2. ASSUME NEW a, Answer(a), Good(a) PROVE Answered'
  <2>1. Inv'
    BY <1>1, <1>2, AnswerKeeps
  <2>2. rules' = rules /\ added' = added /\ answer' = a
    BY <1>2 DEF Answer
  <2>3. /\ \A m, url : Serving(m, url)' = Serving(m, url)
        /\ \A m, url : Redirecting(m, url)' = Redirecting(m, url)
    BY <2>2 DEF Serving, Redirecting
  <2>4. \A m, url : Known(m, url)' <=> Known(m, url)
    BY <2>3 DEF Known
  <2>5. \A m, url : Asked(m, url)' = Asked(m, url)
    BY <2>4 DEF Asked
  <2>6. Good(answer)'
    BY <1>2, <2>2, <2>3, <2>4, <2>5 DEF Good, FirstOf
  <2> QED BY <2>1, <2>6 DEF Answered
<1>3. ASSUME NEW r \in Rules, Declare(r) PROVE Answered'
  <2>1. Inv' /\ answer' = answer /\ phase = "declared"
    BY <1>1, <1>3, DeclareKeeps DEF Declare
  <2> QED BY <1>1, <2>1 DEF Answered, Inv
<1>4. CASE AddRule
  <2>1. Inv' /\ answer' = answer /\ phase = "declared"
    BY <1>1, <1>4, AddRuleKeeps DEF AddRule
  <2> QED BY <1>1, <2>1 DEF Answered, Inv
<1>5. CASE Validate
  <2>1. Inv' /\ answer' = answer /\ phase = "declared"
    BY <1>1, <1>5, ValidateKeeps DEF Validate
  <2> QED BY <1>1, <2>1 DEF Answered, Inv
<1>6. ASSUME NEW url \in Urls PROVE url \in Path
  BY RouterAssumption DEF Path
<1>7. ASSUME NEW url \in Urls,
             \/ RequestHead(url)
             \/ RequestOptions(url)
             \/ \E method \in {"GET", "POST"} : RequestOther(method, url)
      PROVE  Answered'
  <2>1. url \in Path
    BY <1>6
  <2>2. CASE RequestHead(url)
    <3>1. \E a : Answer(a) /\ Good(a)
      BY <1>1, <2>1, <2>2, HeadIsGood
    <3> QED BY <1>2, <3>1
  <2>3. CASE RequestOptions(url)
    <3>1. \E a : Answer(a) /\ Good(a)
      BY <1>1, <2>1, <2>3, OptionsIsGood
    <3> QED BY <1>2, <3>1
  <2>4. ASSUME NEW method \in {"GET", "POST"}, RequestOther(method, url) PROVE Answered'
    <3>1. \E a : Answer(a) /\ Good(a)
      BY <1>1, <2>1, <2>4, OtherIsGood
    <3> QED BY <1>2, <3>1
  <2> QED BY <1>7, <2>2, <2>3, <2>4
<1>8. CASE UNCHANGED vars
  <2>1. /\ rules' = rules /\ phase' = phase /\ added' = added /\ lists' = lists
        /\ tries' = tries /\ answer' = answer
    BY <1>8 DEF vars
  <2>2. Inv'
    <3>1. ListsAre'
      BY <1>1, <2>1 DEF Inv, ListsAre, IsListOf
    <3>2. (\A m \in Methods : TrieIs(m))'
      BY <1>1, <2>1 DEF Inv, TrieIs
    <3> QED BY <1>1, <2>1, <3>1, <3>2 DEF Inv
  <2>3. Good(answer)' <=> Good(answer)
    BY <2>1 DEF Good, FirstOf, Asked, Known, Serving, Redirecting
  <2> QED BY <2>1, <2>2, <2>3 DEF Answered
<1> QED BY <1>3, <1>4, <1>5, <1>7, <1>8 DEF Next

(* The strengthened invariant of the router: the lists and tries are those *)
(* of the rules added, and whoever was answered got what the rules say.    *)
THEOREM AlwaysAnswered == Spec => []Answered
<1>1. Init => Answered
  BY InvInit DEF Answered, Init
<1>2. Answered /\ [Next]_vars => Answered'
  BY AnsweredStep
<1> QED BY <1>1, <1>2, PTL DEF Spec

(* What the rules are is of its type: every index in a trie is that of a     *)
(* rule in the list of its method or of a redirection, and the rule that   *)
(* an answer names has been added.                                         *)
THEOREM RouterTypes == Spec => []TypeOK
<1>1. ASSUME Answered PROVE TypeOK
  <2>1. /\ rules \in Seq(Rules) /\ added \in 0..Len(rules) /\ added \in Nat
        /\ phase \in {"declared", "serving", "failed"}
    BY <1>1 DEF Answered, Inv
  <2>2. ASSUME NEW m \in Methods
        PROVE  /\ \A k \in DOMAIN lists[m] : lists[m][k] \in 1..added
               /\ \A p \in DOMAIN tries[m] : tries[m][p] \in 0..(Len(lists[m]) + 1)
    <3>1. PICK l : l = lists[m]
      OBVIOUS
    <3>2. l \in Seq(Nat) /\ Len(l) \in Nat /\ \A i \in 1..Len(l) : l[i] \in 1..added
      <4>1. IsListOf(m, l, added)
        BY <1>1, <3>1 DEF Answered, Inv, ListsAre
      <4> QED BY <4>1 DEF IsListOf
    <3>3. ASSUME NEW t, IsTrieOf(rules, l, t), NEW p \in DOMAIN t PROVE t[p] \in 0..(Len(l) + 1)
      <4>1. t[p] \in Nat
        BY <3>3 DEF IsTrieOf, IsTree
      <4>2. CASE t[p] = 0
        BY <3>2, <4>2
      <4>3. CASE t[p] # 0
        <5>1. PICK i \in 1..Len(l) : t[p] = i + 1 \/ t[p] = 1
          BY <3>3, <4>3 DEF IsTrieOf
        <5> QED BY <3>2, <5>1
      <4> QED BY <4>2, <4>3
    <3>4. PICK t : IsTrieOf(rules, l, t) /\ (tries[m] = t \/ tries[m] = Optimized(t))
      BY <1>1, <3>1 DEF Answered, Inv, TrieIs
    <3>5. \A p \in DOMAIN tries[m] : p \in DOMAIN t /\ tries[m][p] = t[p]
      BY <3>4, Kept DEF IsTrieOf
    <3>6. \A p \in DOMAIN tries[m] : tries[m][p] \in 0..(Len(l) + 1)
      BY <3>3, <3>4, <3>5
    <3> QED BY <3>1, <3>2, <3>6
  <2>3. answer.code \in {0, 200, 204, 301, 404, 405} /\ answer.rule \in 0..added
    <3>1. NoAnswer.code = 0 /\ NoAnswer.rule = 0 /\ 0 \in 0..added
      BY <2>1 DEF NoAnswer
    <3> QED BY <1>1, <3>1 DEF Answered, Good
  <2> QED BY <2>1, <2>2, <2>3 DEF TypeOK
<1> QED BY <1>1, AlwaysAnswered, PTL

(* The first rule declared that fits is the one that answers. *)
THEOREM TheFirstRuleAnswers == Spec => []FirstRuleAnswers
<1>1. ASSUME Answered PROVE FirstRuleAnswers
  <2>1. NoAnswer.code # 200
    BY DEF NoAnswer
  <2> QED BY <1>1, <2>1 DEF Answered, Good, FirstOf, FirstRuleAnswers
<1> QED BY <1>1, AlwaysAnswered, PTL

(* Nobody is refused whom a rule would serve. *)
THEOREM RefusalsAreJust == Spec => []RefusalIsJust
<1>1. ASSUME Answered PROVE RefusalIsJust
  <2>1. NoAnswer.code \notin {404, 405}
    BY DEF NoAnswer
  <2> QED BY <1>1, <2>1 DEF Answered, Good, RefusalIsJust
<1> QED BY <1>1, AlwaysAnswered, PTL

(* OPTIONS lists the methods that are served. *)
THEOREM AllowedAreServed == Spec => []AllowIsServed
<1>1. ASSUME Answered PROVE AllowIsServed
  <2>1. NoAnswer.code # 204
    BY DEF NoAnswer
  <2> QED BY <1>1, <2>1 DEF Answered, Good, AllowIsServed
<1> QED BY <1>1, AlwaysAnswered, PTL
-----------------------------------------------------------------------------
(* A redirection adds a slash to the url.  What a piece may take of the url  *)
(* up to e, without looking whether more would do:                         *)
EndAt(label, url, pos, e) ==
    CASE label = <<"path">> -> e = Len(url)
      [] label = <<"string">> -> \A i \in (pos + 1)..e : url[i] # "/"
      [] label[1] \in Params \ {"path", "string"} ->
            Numeral(label[1], SubSeq(url, pos + 1, e))
      [] OTHER -> SubSeq(url, pos + 1, e) = label

(* The end of a match is the last of those possible. *)
LEMMA EndsAre ==
    ASSUME NEW label, NEW url, NEW pos
    PROVE  \A e : e \in Ends(label, url, pos) <=>
               /\ e \in (pos + 1)..Len(url) /\ EndAt(label, url, pos, e)
               /\ \A o \in (pos + 1)..Len(url) : EndAt(label, url, pos, o) => o <= e
BY DEF Ends, EndAt

(* No number ends in a slash. *)
LEMMA NumeralEnd ==
    ASSUME NEW type, NEW s \in Path, Len(s) # 0, Numeral(type, s)
    PROVE  s[Len(s)] # "/"
<1> DEFINE signs == IF type = "uint" THEN {"+"} ELSE {"+", "-"}
           body == IF s # <<>> /\ s[1] \in signs THEN Tail(s) ELSE s
<1>1. \A i \in DOMAIN body : body[i] \in Digits \/ body[i] = "."
  BY DEF Numeral
<1>2. Len(s) \in Nat /\ s # <<>> /\ Len(s) \in DOMAIN s
  BY DEF Path
<1>3. "/" \notin Digits /\ "/" # "."
  BY DEF Digits
<1>4. CASE s[1] \in signs
  <2>1. body = Tail(s)
    BY <1>2, <1>4
  <2>2. CASE Len(s) = 1
    BY <1>4, <2>2
  <2>3. CASE Len(s) # 1
    <3>1. PICK n : n = Len(s) - 1
      OBVIOUS
    <3>2. /\ Tail(s) \in Path /\ Len(Tail(s)) = n /\ n \in 1..n /\ n + 1 = Len(s)
          /\ \A i \in 1..n : Tail(s)[i] = s[i + 1]
      BY <1>2, <2>3, <3>1, HeadTailProperties DEF Path
    <3>3. n \in DOMAIN Tail(s) /\ Tail(s)[n] = s[Len(s)]
      BY <3>2 DEF Path
    <3> HIDE DEF body
    <3> QED BY <1>1, <1>3, <2>1, <3>3
  <2> QED BY <2>2, <2>3
<1>5. CASE s[1] \notin signs
  <2>1. body = s
    BY <1>5
  <2> HIDE DEF body
  <2> QED BY <1>1, <1>2, <1>3, <2>1
<1> QED BY <1>4, <1>5

(* (That "/" is a string the provers do not know of themselves: it is, as a  *)
(* piece of a rule.)                                                       *)
LEMMA SlashAdded ==
    ASSUME NEW url \in Path, "/" \in STRING
    PROVE  LET target == Append(url, "/") IN
           /\ target \in Path /\ Len(target) = Len(url) + 1 /\ Len(url) \in Nat
           /\ target[Len(url) + 1] = "/"
           /\ \A i \in 1..Len(url) : target[i] = url[i]
<1>1. url \in Seq(STRING) /\ Len(url) \in Nat
  BY DEF Path
<1> QED BY <1>1, AppendProperties DEF Path

(* Only the path parameter and a slash of a rule take the slash added, and   *)
(* what other pieces take does not depend on it.                           *)
LEMMA SlashTaken ==
    ASSUME "/" \in STRING, NEW url \in Path, NEW target, target = Append(url, "/"),
           NEW x \in STRING, x # "path", NEW pos \in 0..Len(url)
    PROVE  /\ \A e \in (pos + 1)..Len(url) :
                  EndAt(<<x>>, target, pos, e) <=> EndAt(<<x>>, url, pos, e)
           /\ EndAt(<<x>>, target, pos, Len(target)) => x = "/" /\ pos = Len(url)
<1>1. /\ target \in Path /\ Len(target) = Len(url) + 1 /\ Len(url) \in Nat
      /\ target[Len(url) + 1] = "/"
      /\ \A i \in 1..Len(url) : target[i] = url[i]
  BY SlashAdded
<1>2. /\ <<x>>[1] = x /\ Len(<<x>>) = 1 /\ <<x>> # <<"path">>
      /\ <<x>> = <<"string">> <=> x = "string"
  OBVIOUS
<1>3. ASSUME NEW e \in (pos + 1)..Len(url)
      PROVE  SubSeq(target, pos + 1, e) = SubSeq(url, pos + 1, e)
             /\ \A i \in (pos + 1)..e : target[i] = url[i]
  <2>1. pos \in Nat /\ pos < e /\ e <= Len(url) /\ e \in Nat
    BY <1>1, <1>3
  <2>2. \A i \in (pos + 1)..e : target[i] = url[i]
    BY <1>1, <2>1
  <2>3. /\ SubSeq(target, pos + 1, e) \in Path /\ Len(SubSeq(target, pos + 1, e)) = e - pos
        /\ SubSeq(url, pos + 1, e) \in Path /\ Len(SubSeq(url, pos + 1, e)) = e - pos
        /\ \A i \in 1..(e - pos) : SubSeq(url, pos + 1, e)[i] = url[pos + i]
        /\ \A i \in 1..(e - pos) : SubSeq(target, pos + 1, e)[i] = target[pos + i]
    BY <1>1, <2>1 DEF Path
  <2>4. \A i \in 1..(e - pos) : target[pos + i] = url[pos + i]
    BY <1>1, <2>1
  <2> QED BY <2>2, <2>3, <2>4, SeqEqual DEF Path
<1>4. ASSUME NEW e \in (pos + 1)..Len(url)
      PROVE  EndAt(<<x>>, target, pos, e) <=> EndAt(<<x>>, url, pos, e)
  <2>1. /\ SubSeq(target, pos + 1, e) = SubSeq(url, pos + 1, e)
        /\ \A i \in (pos + 1)..e : target[i] = url[i]
    BY <1>3
  <2> QED BY <1>2, <2>1 DEF EndAt
<1>5. ASSUME EndAt(<<x>>, target, pos, Len(target))
      PROVE  x = "/" /\ pos = Len(url)
  <2> DEFINE s == SubSeq(target, pos + 1, Len(target))
  <2>1. pos \in Nat /\ pos < Len(target) /\ Len(target) \in (pos + 1)..Len(target)
    BY <1>1
  <2>2. s \in Path /\ Len(s) = Len(target) - pos /\ s[Len(s)] = "/" /\ Len(s) # 0
    BY <1>1, <2>1 DEF Path
  <2> HIDE DEF s
  <2>3. x # "string"
    BY <1>1, <1>2, <1>5, <2>1 DEF EndAt
  <2>4. x \notin Params \ {"path", "string"}
    <3>1. ASSUME x \in Params \ {"path", "string"} PROVE Numeral(x, s)
      BY <1>2, <1>5, <3>1 DEF EndAt, s, Params
    <3> QED BY <2>2, <3>1, NumeralEnd
  <2>5. s = <<x>>
    BY <1>2, <1>5, <2>3, <2>4 DEF EndAt, s
  <2>6. Len(s) = 1 /\ s[1] = x
    BY <1>2, <2>5
  <2>7. x = "/"
    BY <2>2, <2>6
  <2>8. Len(target) - pos = 1 /\ Len(target) = Len(url) + 1 /\ Len(url) \in Nat
    BY <1>1, <2>2, <2>6
  <2> QED BY <2>1, <2>7, <2>8
<1> QED BY <1>4, <1>5

(* The second part of SlashTaken, as it is used. *)
LEMMA LastTaken ==
    ASSUME "/" \in STRING, NEW url \in Path, NEW x \in STRING, x # "path",
           NEW pos \in 0..Len(url), EndAt(<<x>>, Append(url, "/"), pos, Len(Append(url, "/")))
    PROVE  x = "/"
BY SlashTaken

(* So a piece takes of the longer url what it took. *)
LEMMA EndsStay ==
    ASSUME "/" \in STRING, NEW url \in Path, NEW x \in STRING, x # "path", NEW pos \in 0..Len(url),
           NEW e \in Ends(<<x>>, url, pos)
    PROVE  e \in Ends(<<x>>, Append(url, "/"), pos)
<1>1. PICK target : target = Append(url, "/")
  OBVIOUS
<1>2. Len(target) = Len(url) + 1 /\ Len(url) \in Nat
  BY <1>1, SlashAdded
<1>3. /\ e \in (pos + 1)..Len(url) /\ EndAt(<<x>>, url, pos, e)
      /\ \A o \in (pos + 1)..Len(url) : EndAt(<<x>>, url, pos, o) => o <= e
  BY EndsAre
<1>4. /\ \A o \in (pos + 1)..Len(url) :
            EndAt(<<x>>, target, pos, o) <=> EndAt(<<x>>, url, pos, o)
      /\ ~EndAt(<<x>>, target, pos, Len(target))
  <2>1. pos # Len(url)
    BY <1>2, <1>3
  <2> QED BY <1>1, <2>1, SlashTaken
<1>5. \A o \in (pos + 1)..Len(target) : o \in (pos + 1)..Len(url) \/ o = Len(target)
  BY <1>2
<1>6. e \in (pos + 1)..Len(target)
  BY <1>2, <1>3
<1> QED BY <1>1, <1>3, <1>4, <1>5, <1>6, EndsAre

(* In a path that fits, the parameter that takes everything is last. *)
LEMMA PathIsLast ==
    ASSUME NEW path \in Path, NEW url \in Path, Fits(path, url), NEW j \in 1..Len(path),
           path[j] = "path"
    PROVE  j = Len(path)
<1>1. Len(path) \in Nat /\ Len(url) \in Nat /\ Cut(path, Len(path)) = path
  BY CutAll DEF Path
<1>2. j \in 0..Len(path) /\ j - 1 \in 0..(Len(path) - 1) /\ (j - 1) + 1 = j /\ Len(path) \in j..Len(path)
  BY <1>1
<1>3. Reads(Cut(path, Len(path)), url) # {}
  BY <1>1 DEF Fits, Readings
<1>4. PICK n : n = Len(path)
  OBVIOUS
<1>5. PICK r \in Reads(Cut(path, j), url) : n # j => r.pos < Len(url)
  BY <1>2, <1>3, <1>4, ReadsEnd
<1>6. PICK R : Reads(Cut(path, j), url) = Onward(R, path[j], url)
  BY <1>2, ReadsOn
<1>7. r \in Onward(R, path[j], url)
  BY <1>5, <1>6
<1>8. PICK q \in R : \E e \in Ends(<<path[j]>>, url, q.pos) : r = ReadTo(q, path[j], url, e)
  BY <1>7, OnwardFrom
<1>9. PICK e : e \in Ends(<<"path">>, url, q.pos) /\ r = ReadTo(q, path[j], url, e)
  BY <1>8
<1>10. e = Len(url)
  BY <1>9, EndsAre DEF EndAt
<1>11. r.pos = Len(url)
  BY <1>9, <1>10 DEF ReadTo
<1> QED BY <1>1, <1>4, <1>5, <1>11

(* A path without it reads as far when the slash is added. *)
LEMMA ReadsStay ==
    ASSUME "/" \in STRING, NEW path \in Path, NEW url \in Path, \A j \in 1..Len(path) : path[j] # "path",
           NEW r \in Reads(path, url)
    PROVE  \E s \in Reads(path, Append(url, "/")) : s.pos = r.pos
<1>1. PICK target : target = Append(url, "/")
  OBVIOUS
<1>2. Len(path) \in Nat /\ Cut(path, Len(path)) = path
  BY CutAll DEF Path
<1> DEFINE P(n) == \A q \in Reads(Cut(path, n), url) :
                      \E s \in Reads(Cut(path, n), target) : s.pos = q.pos
           S == {n \in Nat : n <= Len(path) => P(n)}
<1>3. 0 \in S
  BY ReadsOn, CutAll
<1>4. ASSUME NEW n \in Nat, n \in S PROVE n + 1 \in S
  <2> SUFFICES ASSUME n + 1 <= Len(path), NEW q \in Reads(Cut(path, n + 1), url)
               PROVE  \E s \in Reads(Cut(path, n + 1), target) : s.pos = q.pos
    OBVIOUS
  <2>1. PICK x : x = path[n + 1]
    OBVIOUS
  <2>2. n \in 0..(Len(path) - 1) /\ n + 1 \in 1..Len(path) /\ n \in 0..Len(path) /\ P(n)
    BY <1>2, <1>4
  <2>3. x \in STRING /\ x # "path"
    BY <2>1, <2>2 DEF Path
  <2>4. /\ Reads(Cut(path, n + 1), url) = Onward(Reads(Cut(path, n), url), x, url)
        /\ Reads(Cut(path, n + 1), target) = Onward(Reads(Cut(path, n), target), x, target)
    BY <2>1, <2>2, ReadsOn
  <2>5. PICK p \in Reads(Cut(path, n), url) :
            \E e \in Ends(<<x>>, url, p.pos) : q = ReadTo(p, x, url, e)
    <3>1. q \in Onward(Reads(Cut(path, n), url), x, url)
      BY <2>4
    <3> QED BY <3>1, OnwardFrom
  <2>6. PICK e \in Ends(<<x>>, url, p.pos) : q = ReadTo(p, x, url, e)
    BY <2>5
  <2>7. p.pos \in 0..Len(url)
    <3>1. p \in [pos : n..Len(url), params : Seq(Path)] /\ Len(url) \in Nat
      BY <2>2, ReadsOne DEF Path
    <3> QED BY <3>1
  <2>8. e \in Ends(<<x>>, target, p.pos)
    BY <1>1, <2>3, <2>7, EndsStay
  <2>9. PICK s \in Reads(Cut(path, n), target) : s.pos = p.pos
    BY <2>2
  <2>10. PICK w : w = ReadTo(s, x, target, e)
    OBVIOUS
  <2>11. w \in Reads(Cut(path, n + 1), target)
    <3>1. w \in Onward(Reads(Cut(path, n), target), x, target)
      BY <2>8, <2>9, <2>10, OnwardHas
    <3> QED BY <2>4, <3>1
  <2>12. w.pos = e /\ q.pos = e
    BY <2>6, <2>10 DEF ReadTo
  <2> QED BY <2>11, <2>12
<1> HIDE DEF S
<1>5. Nat \subseteq S
  BY <1>3, <1>4, SetInduction
<1> QED BY <1>1, <1>2, <1>5 DEF S

(* What fits but for its slash, fits the url with the slash. *)
LEMMA RedirectedFits ==
    ASSUME NEW path \in Path, NEW url \in Path, Slashed(path), Fits(Front(path), url),
           Last(Front(path)) # "path"
    PROVE  Fits(path, Append(url, "/"))
<1>1. PICK f : f = Front(path)
  OBVIOUS
<1>2. "/" \in STRING
  <2>1. Len(path) \in 1..Len(path) /\ path[Len(path)] = "/"
    BY FrontIs
  <2> QED BY <2>1 DEF Path
<1>3. PICK target : target = Append(url, "/")
  OBVIOUS
<1>4. PICK n : n = Len(path) - 1
  OBVIOUS
<1>5. /\ f \in Path /\ Len(f) = n /\ f = Cut(path, n) /\ path[n + 1] = "/"
      /\ n \in Nat /\ n # 0 /\ Len(path) = n + 1 /\ Cut(path, n + 1) = path
  BY <1>1, <1>4, FrontIs, CutAll
<1>6. /\ target \in Path /\ Len(target) = Len(url) + 1 /\ Len(url) \in Nat
      /\ target[Len(url) + 1] = "/"
  BY <1>2, <1>3, SlashAdded
<1>7. \A j \in 1..Len(f) : f[j] # "path"
  <2>1. f[Len(f)] # "path" /\ Fits(f, url)
    BY <1>1 DEF Last
  <2> QED BY <1>5, <2>1, PathIsLast
<1>8. PICK r \in Reads(f, url) : r.pos = Len(url)
  BY <1>1 DEF Fits, Readings
<1>9. PICK s \in Reads(f, target) : s.pos = Len(url)
  BY <1>2, <1>3, <1>5, <1>7, <1>8, ReadsStay
<1>10. Len(target) \in Ends(<<"/">>, target, s.pos)
  <2>1. PICK x \in STRING : x = "/" /\ x \notin Params
    BY <1>2 DEF Params
  <2>2. Literal(<<x>>) /\ Len(<<x>>) = 1 /\ <<x>>[1] = x
    BY <2>1, OneLiteral
  <2>3. Len(url) \in 0..Len(target) /\ Len(target) = Len(url) + Len(<<x>>)
    BY <1>6, <2>2
  <2>4. Matches(<<x>>, target, Len(url))
    BY <1>6, <2>1, <2>2 DEF Matches
  <2>5. Len(target) \in Ends(<<x>>, target, Len(url))
    BY <1>6, <2>2, <2>3, <2>4, LiteralEnds
  <2> QED BY <1>9, <2>1, <2>5
<1>11. Reads(path, target) = Onward(Reads(f, target), "/", target)
  <2>1. n \in 0..(Len(path) - 1)
    BY <1>5
  <2>2. Reads(Cut(path, n + 1), target) = Onward(Reads(Cut(path, n), target), path[n + 1], target)
    BY <2>1, ReadsOn
  <2> QED BY <1>5, <2>2
<1>12. PICK w : w = ReadTo(s, "/", target, Len(target))
  OBVIOUS
<1>13. w \in Reads(path, target) /\ w.pos = Len(target)
  <2>1. w \in Onward(Reads(f, target), "/", target)
    BY <1>9, <1>10, <1>12, OnwardHas
  <2> QED BY <1>11, <1>12, <2>1 DEF ReadTo
<1> QED BY <1>3, <1>13 DEF Fits, Readings

(* What ends neither in a slash nor in the parameter that takes everything   *)
(* does not fit the url with the slash.                                    *)
LEMMA SlashUnfits ==
    ASSUME "/" \in STRING, NEW path \in Path, NEW url \in Path, path # <<>>, Last(path) \notin {"path", "/"}
    PROVE  ~Fits(path, Append(url, "/"))
<1>1. PICK target : target = Append(url, "/")
  OBVIOUS
<1>2. PICK n : n = Len(path) - 1
  OBVIOUS
<1>3. PICK x : x = Last(path)
  OBVIOUS
<1>4. /\ n \in Nat /\ Len(path) = n + 1 /\ Cut(path, n + 1) = path
      /\ x = path[n + 1] /\ x \in STRING /\ x # "path" /\ x # "/"
      /\ n \in 0..(Len(path) - 1) /\ n \in 0..Len(path)
  <2>1. Len(path) \in Nat /\ Len(path) # 0
    BY DEF Path
  <2>2. n \in Nat /\ Len(path) = n + 1
    BY <1>2, <2>1
  <2>3. x = path[n + 1]
    BY <1>3, <2>2 DEF Last
  <2>4. n + 1 \in 1..Len(path) /\ n \in 0..(Len(path) - 1) /\ n \in 0..Len(path)
    BY <2>2
  <2> QED BY <1>3, <2>2, <2>3, <2>4, CutAll DEF Path
<1>5. Len(target) = Len(url) + 1 /\ Len(url) \in Nat /\ target \in Path
  BY <1>1, SlashAdded
<1>6. ASSUME NEW w \in Reads(path, target), w.pos = Len(target) PROVE FALSE
  <2>1. Reads(path, target) = Onward(Reads(Cut(path, n), target), x, target)
    <3>1. Reads(Cut(path, n + 1), target) = Onward(Reads(Cut(path, n), target), path[n + 1], target)
      BY <1>4, ReadsOn
    <3> QED BY <1>4, <3>1
  <2>2. PICK r \in Reads(Cut(path, n), target) :
            \E e \in Ends(<<x>>, target, r.pos) : w = ReadTo(r, x, target, e)
    BY <1>6, <2>1, OnwardFrom
  <2>3. PICK e \in Ends(<<x>>, target, r.pos) : w = ReadTo(r, x, target, e)
    BY <2>2
  <2>4. e = Len(target)
    BY <1>6, <2>3 DEF ReadTo
  <2>5. e \in (r.pos + 1)..Len(target) /\ EndAt(<<x>>, target, r.pos, e)
    BY EndsAre
  <2>6. r.pos \in 0..Len(url)
    <3>1. r \in [pos : n..Len(target), params : Seq(Path)]
      BY <1>4, <1>5, ReadsOne
    <3> QED BY <1>4, <1>5, <2>5, <3>1
  <2>7. PICK pos \in 0..Len(url) : pos = r.pos
    BY <2>6
  <2>8. EndAt(<<x>>, target, pos, Len(target))
    BY <2>4, <2>5, <2>7
  <2>9. EndAt(<<x>>, target, pos, Len(target)) => x = "/"
    BY <1>1, <1>4, LastTaken
  <2> QED BY <1>4, <2>8, <2>9
<1> QED BY <1>1, <1>6 DEF Fits, Readings

(* What ends in the parameter that takes everything, fits both urls. *)
LEMMA PathFits ==
    ASSUME "/" \in STRING, NEW path \in Path, NEW url \in Path, Fits(path, url), path # <<>>,
           Last(path) = "path"
    PROVE  Fits(path, Append(url, "/"))
<1>1. PICK target : target = Append(url, "/")
  OBVIOUS
<1>2. PICK n : n = Len(path) - 1
  OBVIOUS
<1>3. PICK pre : pre = Cut(path, n)
  OBVIOUS
<1>4. /\ n \in Nat /\ Len(path) = n + 1 /\ Cut(path, n + 1) = path /\ path[n + 1] = "path"
      /\ n \in 0..(Len(path) - 1) /\ n \in 0..Len(path) /\ n + 1 \in n..Len(path)
      /\ pre \in Path /\ Len(pre) = n /\ \A i \in 1..n : pre[i] = path[i]
  <2>1. Len(path) \in Nat /\ Len(path) # 0
    BY DEF Path
  <2>2. n \in Nat /\ Len(path) = n + 1
    BY <1>2, <2>1
  <2>3. path[n + 1] = "path"
    BY <2>2 DEF Last
  <2>4. n \in 0..(Len(path) - 1) /\ n \in 0..Len(path) /\ n + 1 \in n..Len(path)
    BY <2>2
  <2> QED BY <1>3, <2>2, <2>3, <2>4, CutAll, CutFacts
<1>5. Len(target) = Len(url) + 1 /\ Len(url) \in Nat /\ target \in Path
  BY <1>1, SlashAdded
<1>6. \A j \in 1..Len(pre) : pre[j] # "path"
  <2> SUFFICES ASSUME NEW j \in 1..n, path[j] = "path" PROVE FALSE
    BY <1>4
  <2>1. j \in 1..Len(path)
    BY <1>4
  <2>2. j = Len(path)
    BY <2>1, PathIsLast
  <2> QED BY <1>4, <2>2
<1>7. Reads(Cut(path, n + 1), url) # {}
  BY <1>4 DEF Fits, Readings
<1>8. PICK r \in Reads(Cut(path, n), url) : n + 1 # n => r.pos < Len(url)
  <2>1. PICK k \in n..Len(path) : k = n + 1
    BY <1>4
  <2>2. Reads(Cut(path, k), url) # {}
    BY <1>7, <2>1
  <2> QED BY <1>4, <2>1, <2>2, ReadsEnd
<1>9. PICK s \in Reads(pre, target) : s.pos = r.pos
  BY <1>1, <1>3, <1>4, <1>6, ReadsStay
<1>10. s.pos \in Nat /\ s.pos < Len(url)
  <2>1. r \in [pos : n..Len(url), params : Seq(Path)]
    BY <1>4, ReadsOne
  <2> QED BY <1>4, <1>5, <1>8, <1>9, <2>1
<1>11. Len(target) \in Ends(<<"path">>, target, s.pos)
  <2>1. Len(target) \in (s.pos + 1)..Len(target)
    BY <1>5, <1>10
  <2>2. \A o \in (s.pos + 1)..Len(target) : o <= Len(target)
    BY <1>5
  <2>3. EndAt(<<"path">>, target, s.pos, Len(target))
    BY DEF EndAt
  <2> QED BY <2>1, <2>2, <2>3, EndsAre
<1>12. Reads(path, target) = Onward(Reads(pre, target), "path", target)
  <2>1. Reads(Cut(path, n + 1), target) = Onward(Reads(Cut(path, n), target), path[n + 1], target)
    BY <1>4, ReadsOn
  <2> QED BY <1>3, <1>4, <2>1
<1>13. PICK w : w = ReadTo(s, "path", target, Len(target))
  OBVIOUS
<1>14. w \in Reads(path, target) /\ w.pos = Len(target)
  <2>1. w \in Onward(Reads(pre, target), "path", target)
    BY <1>9, <1>11, <1>13, OnwardHas
  <2> QED BY <1>12, <1>13, <2>1 DEF ReadTo
<1> QED BY <1>1, <1>14 DEF Fits, Readings

(* One redirection: the url with the slash is known, under the method that is *)
(* asked then, and who redirects it again is one of the two exceptions.    *)
LEMMA RedirectedIsServed ==
    ASSUME Inv, NEW method \in Methods, NEW url \in Path,
           Redirecting(Asked(method, url), url) # {}
    PROVE  LET target == Append(url, "/")
               m == Asked(method, target)
           IN  /\ Known(m, target)
               /\ \A k \in Redirecting(m, target) : Last(Front(rules[k].path)) \in {"path", "/"}
<1>1. PICK target : target = Append(url, "/")
  OBVIOUS
<1>2. \A k \in DOMAIN rules : rules[k].path \in Path
  <2>1. \A k \in DOMAIN rules : rules[k] \in Rules
    BY DEF Inv
  <2> QED BY <2>1, RulesAre
<1>3. ASSUME NEW path \in Path, Slashed(path)
      PROVE  Front(path) \in Path /\ Front(path) # <<>> /\ "/" \in STRING
  <2>1. Len(path) \in 1..Len(path) /\ path[Len(path)] = "/"
    BY <1>3, FrontIs
  <2> QED BY <1>3, <2>1, FrontIs DEF Path
<1>4. ASSUME NEW m, NEW k \in Redirecting(m, url) PROVE Known(m, target)
  <2>1. PICK path \in Path : path = rules[k].path
    BY <1>2 DEF Redirecting
  <2>2. /\ k \in DOMAIN rules /\ m \in rules[k].methods
        /\ Slashed(path) /\ Fits(Front(path), url)
    BY <2>1 DEF Redirecting
  <2>3. CASE Last(Front(path)) = "path"
    <3>1. Fits(Front(path), target)
      BY <1>1, <1>3, <2>2, <2>3, PathFits
    <3>2. k \in Redirecting(m, target)
      BY <2>1, <2>2, <3>1 DEF Redirecting
    <3> QED BY <3>2 DEF Known
  <2>4. CASE Last(Front(path)) # "path"
    <3>1. Fits(path, target)
      BY <1>1, <2>2, <2>4, RedirectedFits
    <3>2. k \in Serving(m, target)
      BY <2>1, <2>2, <3>1 DEF Serving
    <3> QED BY <3>2 DEF Known
  <2> QED BY <2>3, <2>4
<1>5. ASSUME NEW m, NEW k \in Redirecting(m, target)
      PROVE  Last(Front(rules[k].path)) \in {"path", "/"}
  <2>1. PICK path \in Path : path = rules[k].path
    BY <1>2 DEF Redirecting
  <2>2. Slashed(path) /\ Fits(Front(path), target)
    BY <2>1 DEF Redirecting
  <2> QED BY <1>1, <1>3, <2>1, <2>2, SlashUnfits
<1>6. Known(Asked(method, url), target)
  BY <1>4
<1>7. Known(Asked(method, target), target)
  <2>1. CASE method # "HEAD"
    BY <1>6, <2>1 DEF Asked
  <2>2. CASE method = "HEAD"
    BY <1>6, <2>2 DEF Asked
  <2> QED BY <2>1, <2>2
<1> QED BY <1>1, <1>5, <1>7

(* Who follows a redirection meets a rule, and is redirected again only by   *)
(* the two kinds of rule that RedirectIsServed names.                      *)
THEOREM RedirectsAreServed == Spec => []RedirectIsServed
<1>1. ASSUME Answered PROVE RedirectIsServed
  <2> SUFFICES ASSUME answer.code = 301 PROVE RedirectIsServed
    BY DEF RedirectIsServed
  <2>1. Good(answer)
    <3>1. NoAnswer.code # 301
      BY DEF NoAnswer
    <3> QED BY <1>1, <3>1 DEF Answered
  <2>2. /\ answer.method \in Methods /\ answer.url \in Path
        /\ Redirecting(Asked(answer.method, answer.url), answer.url) # {}
    BY <2>1 DEF Good
  <2> QED BY <1>1, <2>2, RedirectedIsServed DEF Answered, RedirectIsServed
<1> QED BY <1>1, AlwaysAnswered, PTL
=============================================================================
