-------------------------- MODULE DomainInputProofs --------------------------
(***************************************************************************)
(* Proofs about DomainInput, for paths and queries of any length, any      *)
(* number of items and every CID in Cids.                                  *)
(*                                                                         *)
(* What the recursive function Segments keeps of a path is shown by a      *)
(* least counterexample: the library's induction theorem takes an          *)
(* operator, while "a set of naturals that is not empty has a least        *)
(* element" takes a set.  The words of a path are PICKed as values that    *)
(* differ, since no backend tells string literals apart where a segment    *)
(* may be anything.                                                        *)
(***************************************************************************)
EXTENDS DomainInput, FiniteSetTheorems, SequenceTheorems, WellFoundedInduction, TLAPS

\* A set of naturals that is not empty has a least element.
LEMMA Least ==
    ASSUME NEW S \in SUBSET Nat, S # {}
    PROVE \E x \in S : \A y \in S : x <= y
  <1>1. IsWellFoundedOn(OpToRel(<, Nat), Nat)
    BY NatLessThanWellFounded, Zenon
  <1>2. PICK x \in S : \A y \in S : ~(<<y, x>> \in OpToRel(<, Nat))
    BY <1>1, WFMin, Zenon
  <1>3. \A y \in S : y < x => <<y, x>> \in OpToRel(<, Nat)
    BY <1>2 DEF OpToRel
  <1>4. \A y \in S : ~(y < x)
    BY <1>2, <1>3, Zenon
  <1> QED
    BY <1>4

\* The loop over the segments breaks at the first match, and the first value of a
\* key counts: the least place.
LEMMA FirstIs ==
    ASSUME NEW places \in SUBSET Nat, places # {}
    PROVE First(places) \in places /\ \A j \in places : First(places) <= j
  BY Least DEF First

\* A path has one prefix of no segments.
LEMMA NoPrefix ==
    ASSUME NEW s PROVE SubSeq(s, 1, 0) = <<>>
  <1>1. 0 < 1
    OBVIOUS
  <1> QED
    BY <1>1, SubSeqEmpty

\* A prefix of a path is the one before it and one segment more.
LEMMA Prefix ==
    ASSUME NEW U, NEW s \in Seq(U), NEW n \in 1..Len(s)
    PROVE SubSeq(s, 1, n) = Append(SubSeq(s, 1, n - 1), s[n])
  <1>1. SubSeq(s, 1, n) = SubSeq(s, 1, n - 1) \o <<s[n]>>
    BY SubSeqRecursiveSecond
  <1>2. SubSeq(s, 1, n - 1) \in Seq(U) /\ s[n] \in U
    BY SubSeqProperties
  <1> QED
    BY <1>1, <1>2, AppendIsConcat

\* One step of the filter in parse_download_target, as a function of the steps
\* before.
Filter(s, e, kept) ==
    [n \in 0..Len(s) |->
        IF n = 0 THEN <<>>
        ELSE IF s[n] = e THEN kept[n - 1] ELSE Append(kept[n - 1], s[n])]

\* On a path without empty segments every step of the filter keeps its segment.
LEMMA FilterAt ==
    ASSUME NEW U, NEW s \in Seq(U), NEW e, \A k \in 1..Len(s) : s[k] # e, NEW f
    PROVE /\ Filter(s, e, f)[0] = <<>>
          /\ \A n \in 1..Len(s) : Filter(s, e, f)[n] = Append(f[n - 1], s[n])
  <1>1. 0 \in 0..Len(s) /\ \A n \in 1..Len(s) : n \in 0..Len(s) /\ n # 0
    OBVIOUS
  <1> QED
    BY <1>1 DEF Filter

\* The prefixes of a path without empty segments are what the filter keeps.
LEMMA FilterFits ==
    ASSUME NEW U, NEW s \in Seq(U), NEW e, \A k \in 1..Len(s) : s[k] # e
    PROVE \E f : f = Filter(s, e, f)
  <1> DEFINE g == [n \in 0..Len(s) |-> SubSeq(s, 1, n)]
  <1>1. \A n \in 1..Len(s) : n - 1 \in 0..Len(s)
    OBVIOUS
  <1>2. \A n \in 1..Len(s) : Filter(s, e, g)[n] = SubSeq(s, 1, n)
    <2> TAKE n \in 1..Len(s)
    <2>1. g[n - 1] = SubSeq(s, 1, n - 1)
      BY <1>1
    <2>2. SubSeq(s, 1, n) = Append(SubSeq(s, 1, n - 1), s[n])
      BY Prefix
    <2> HIDE DEF g
    <2>3. Filter(s, e, g)[n] = Append(g[n - 1], s[n])
      BY FilterAt
    <2> QED
      BY <2>1, <2>2, <2>3
  <1>3. Filter(s, e, g)[0] = SubSeq(s, 1, 0)
    <2> HIDE DEF g
    <2> QED
      BY FilterAt, NoPrefix
  <1>4. \A n \in 0..Len(s) : n = 0 \/ n \in 1..Len(s)
    OBVIOUS
  <1>5. Filter(s, e, g) = [n \in 0..Len(s) |-> Filter(s, e, g)[n]]
    BY DEF Filter
  <1>6. \A n \in 0..Len(s) : Filter(s, e, g)[n] = SubSeq(s, 1, n)
    BY <1>2, <1>3, <1>4
  <1>7. Filter(s, e, g) = g
    BY <1>5, <1>6
  <1> QED
    BY <1>7

\* Nothing else is, by induction on the length of the prefix.
LEMMA FilterKeeps ==
    ASSUME NEW U, NEW s \in Seq(U), NEW e, \A k \in 1..Len(s) : s[k] # e,
           NEW f, f = Filter(s, e, f)
    PROVE f[Len(s)] = s
  <1> DEFINE Wrong == {n \in 0..Len(s) : f[n] # SubSeq(s, 1, n)}
  <1>1. SUFFICES Wrong = {}
    <2>1. Len(s) \in 0..Len(s) /\ SubSeq(s, 1, Len(s)) = s
      BY SubSeqFull
    <2> QED
      BY <2>1
  <1>2. SUFFICES ASSUME Wrong # {} PROVE FALSE
    OBVIOUS
  <1>3. Wrong \in SUBSET Nat
    OBVIOUS
  <1>4. PICK n \in Wrong : \A k \in Wrong : n <= k
    <2> HIDE DEF Wrong
    <2> QED
      BY <1>2, <1>3, Least
  <1>5. CASE n = 0
    <2>1. Filter(s, e, f)[0] = <<>>
      BY FilterAt
    <2>2. f[0] = SubSeq(s, 1, 0)
      BY <2>1, NoPrefix
    <2> QED
      BY <1>5, <2>2
  <1>6. CASE n # 0
    <2>1. n \in 1..Len(s) /\ n - 1 \in 0..Len(s) /\ ~(n <= n - 1)
      BY <1>6
    <2>2. f[n - 1] = SubSeq(s, 1, n - 1)
      BY <1>4, <2>1
    <2>3. Append(f[n - 1], s[n]) = SubSeq(s, 1, n)
      BY <2>1, <2>2, Prefix
    <2>4. f[n] = Append(f[n - 1], s[n])
      BY <2>1, FilterAt
    <2> QED
      BY <2>3, <2>4
  <1> QED
    BY <1>5, <1>6

\* A path without empty segments is the sequence of its segments.
LEMMA WholePath ==
    ASSUME NEW url, NEW U, url.path \in Seq(U), \A k \in 1..Len(url.path) : url.path[k] # ""
    PROVE Segments(url) = url.path
  <1> DEFINE kept == CHOOSE f : f = Filter(url.path, "", f)
  <1>1. kept = Filter(url.path, "", kept)
    BY FilterFits, Zenon
  <1>2. Segments(url) = kept[Len(url.path)]
    BY DEF Segments, Filter, Zenon
  <1> HIDE DEF kept
  <1>3. kept[Len(url.path)] = url.path
    BY <1>1, FilterKeeps, Zenon
  <1> QED
    BY <1>2, <1>3, Zenon

-----------------------------------------------------------------------------
(* parse_download_target on a path that ends like a documented form.       *)

\* What a path ends with, segment by segment.
LEMMA TailAt ==
    ASSUME NEW U, NEW s \in Seq(U), NEW n \in 1..Len(s), NEW t, SubSeq(s, n, Len(s)) = t
    PROVE \A j \in 1..(Len(s) - n + 1) : t[j] = s[n + j - 1]
  <1>1. \A i \in n..Len(s) : s[i] \in U
    OBVIOUS
  <1>2. n \in Int /\ Len(s) \in Int
    OBVIOUS
  <1> QED
    BY <1>1, <1>2, SubSeqProperties

\* Its last three segments, or the first three of its last four.
LEMMA LastThree ==
    ASSUME NEW U, NEW s \in Seq(U), NEW n \in 1..Len(s), NEW t, SubSeq(s, n, Len(s)) = t,
           n + 2 <= Len(s)
    PROVE s[n] = t[1] /\ s[n + 1] = t[2] /\ s[n + 2] = t[3]
  <1>1. \A j \in 1..(Len(s) - n + 1) : t[j] = s[n + j - 1]
    BY TailAt
  <1>2. {1, 2, 3} \subseteq 1..(Len(s) - n + 1)
    OBVIOUS
  <1>3. t[1] = s[n + 1 - 1] /\ t[2] = s[n + 2 - 1] /\ t[3] = s[n + 3 - 1]
    BY <1>1, <1>2, Zenon
  <1>4. n + 1 - 1 = n /\ n + 2 - 1 = n + 1 /\ n + 3 - 1 = n + 2
    OBVIOUS
  <1> QED
    BY <1>3, <1>4, Zenon

\* The last of its last four segments.
LEMMA LastFour ==
    ASSUME NEW U, NEW s \in Seq(U), NEW n \in 1..Len(s), NEW t, SubSeq(s, n, Len(s)) = t,
           n + 3 <= Len(s)
    PROVE s[n + 3] = t[4]
  <1>1. \A j \in 1..(Len(s) - n + 1) : t[j] = s[n + j - 1]
    BY TailAt
  <1>2. 4 \in 1..(Len(s) - n + 1) /\ n + 4 - 1 = n + 3
    OBVIOUS
  <1> QED
    BY <1>1, <1>2, Zenon

\* The one place where ".../domains/{domain}/data" can begin.
LEMMA OneHead ==
    ASSUME NEW U, NEW s \in Seq(U), NEW dom, NEW dat, NEW n \in 1..Len(s), n + 2 <= Len(s),
           s[n] = dom, s[n + 2] = dat, \A k \in 1..Len(s) : k # n => s[k] # dom
    PROVE {k \in 1..Len(s) : s[k] = dom /\ k + 2 <= Len(s) /\ s[k + 2] = dat} = {n}
  OBVIOUS

\* Of one place only, that is the first.
LEMMA FirstOfOne == ASSUME NEW n \in Nat PROVE First({n}) = n
  <1>1. {n} \in SUBSET Nat /\ {n} # {}
    OBVIOUS
  <1>2. First({n}) \in {n}
    BY <1>1, FirstIs
  <1> QED
    BY <1>2

\* A path with its words as parameters: its only ".../domains/{domain}/data"
\* begins at n, with at most one segment behind it, and no segment is empty.
EndsAt(s, n, e, dom, dat) ==
    /\ dom # dat /\ dom # e /\ dat # e
    /\ n \in 1..Len(s) /\ (n + 2 = Len(s) \/ n + 3 = Len(s))
    /\ \A k \in 1..(n - 1) : s[k] \notin {e, dom, dat}
    /\ s[n] = dom /\ s[n + 1] \notin {e, dom, dat} /\ s[n + 2] = dat
    /\ n + 3 = Len(s) => s[n + 3] \notin {e, dom, dat}

\* Such a path loses nothing to the filter, and the loop has one place to find.
LEMMA Ending ==
    ASSUME NEW U, NEW s \in Seq(U), NEW n, NEW e, NEW dom, NEW dat, EndsAt(s, n, e, dom, dat)
    PROVE /\ \A k \in 1..Len(s) : s[k] # e
          /\ {k \in 1..Len(s) : s[k] = dom /\ k + 2 <= Len(s) /\ s[k + 2] = dat} = {n}
  <1>1. \A k \in 1..Len(s) :
            k \in 1..(n - 1) \/ k = n \/ k = n + 1 \/ k = n + 2 \/ (k = n + 3 /\ n + 3 = Len(s))
    BY DEF EndsAt
  <1>2. (\A k \in 1..Len(s) : s[k] # e) /\ (\A k \in 1..Len(s) : k # n => s[k] # dom)
    BY <1>1 DEF EndsAt
  <1>3. n \in 1..Len(s) /\ n + 2 <= Len(s) /\ s[n] = dom /\ s[n + 2] = dat
    BY DEF EndsAt
  <1> QED
    BY <1>2, <1>3, OneHead

\* What the code makes of such a path.
LEMMA Parsed ==
    ASSUME NEW c, NEW U, c.path \in Seq(U), NEW n \in Nat,
           \A k \in 1..Len(c.path) : c.path[k] # "",
           {k \in 1..Len(c.path) : c.path[k] = "domains" /\ k + 2 <= Len(c.path)
                                   /\ c.path[k + 2] = "data"} = {n}
    PROVE /\ DataId(Segments(c)) = IF n + 3 > Len(c.path) THEN None ELSE c.path[n + 3]
          /\ DomainIn(Segments(c)) = c.path[n + 1]
  <1>1. Segments(c) = c.path
    BY WholePath, Zenon
  <1>2. Heads(c.path) = {n}
    BY Zenon DEF Heads
  <1>3. First({n}) = n /\ {n} # {}
    BY FirstOfOne, Zenon
  <1> QED
    BY <1>1, <1>2, <1>3, Zenon DEF DataId, DomainIn

\* A path that ends like the documented form of an item's URL.
LEMMA ItemPath ==
    ASSUME NEW c, IsSequence(c.path), NEW d \in Uuids, NEW i \in Uuids,
           EndsWith(c, <<"domains", d, "data", i>>)
    PROVE /\ DataId(Segments(c)) = i /\ DomainIn(Segments(c)) = d
          /\ c.path[Len(c.path)] = i
  <1>1. PICK e, dom, dat : e = "" /\ dom = "domains" /\ dat = "data"
    OBVIOUS
  <1>2. dom # dat /\ dom # e /\ dat # e /\ d \notin {e, dom, dat} /\ i \notin {e, dom, dat}
    BY <1>1, InputAssumption
  <1> DEFINE s == c.path
             t == <<dom, d, dat, i>>
             n == Len(s) - 3
  <1>3. /\ Len(s) >= Len(t) /\ SubSeq(s, Len(s) - Len(t) + 1, Len(s)) = t
        /\ \A k \in 1..(Len(s) - Len(t)) : s[k] \notin {e, dom, dat}
    BY <1>1, Zenon DEF EndsWith
  <1>4. PICK U : s \in Seq(U)
    BY DEF IsSequence
  <1> HIDE DEF s
  <1>5. Len(t) = 4 /\ t[1] = dom /\ t[2] = d /\ t[3] = dat /\ t[4] = i
    OBVIOUS
  <1> HIDE DEF t
  <1>6. /\ n \in Nat /\ n \in 1..Len(s) /\ n + 2 <= Len(s) /\ n + 3 <= Len(s)
        /\ n + 3 = Len(s) /\ ~(n + 3 > Len(s))
    BY <1>3, <1>4, <1>5
  <1>7. n = Len(s) - Len(t) + 1 /\ n - 1 = Len(s) - Len(t)
    BY <1>3, <1>4, <1>5
  <1> HIDE DEF n
  <1>8. SubSeq(s, n, Len(s)) = t /\ \A k \in 1..(n - 1) : s[k] \notin {e, dom, dat}
    BY <1>3, <1>7, Zenon
  <1>9. s[n] = dom /\ s[n + 1] = d /\ s[n + 2] = dat /\ s[n + 3] = i
    <2>1. s[n] = t[1] /\ s[n + 1] = t[2] /\ s[n + 2] = t[3] /\ s[n + 3] = t[4]
      BY <1>4, <1>6, <1>8, LastThree, LastFour
    <2> QED
      BY <1>5, <2>1
  <1>10. /\ \A k \in 1..Len(s) : s[k] # e
         /\ {k \in 1..Len(s) : s[k] = dom /\ k + 2 <= Len(s) /\ s[k + 2] = dat} = {n}
    <2>1. n \in 1..Len(s) /\ (n + 2 = Len(s) \/ n + 3 = Len(s))
      BY <1>6, Zenon
    <2>2. /\ s[n + 1] \notin {e, dom, dat}
          /\ n + 3 = Len(s) => s[n + 3] \notin {e, dom, dat}
      BY <1>2, <1>6, <1>9, Zenon
    <2>3. EndsAt(s, n, e, dom, dat)
      BY <1>2, <1>8, <1>9, <2>1, <2>2, Zenon DEF EndsAt
    <2> QED
      BY <1>4, <2>3, Ending
  <1>11. /\ DataId(Segments(c)) = IF n + 3 > Len(s) THEN None ELSE s[n + 3]
         /\ DomainIn(Segments(c)) = s[n + 1]
    BY <1>1, <1>4, <1>6, <1>10, Parsed, Zenon DEF s
  <1> QED
    BY <1>6, <1>9, <1>11, Zenon DEF s

\* A path that ends like the documented form of a query's URL.
LEMMA QueryPath ==
    ASSUME NEW c, IsSequence(c.path), NEW d \in Uuids,
           EndsWith(c, <<"domains", d, "data">>)
    PROVE /\ DataId(Segments(c)) = None /\ DomainIn(Segments(c)) = d
          /\ c.path[Len(c.path)] = "data"
  <1>1. PICK e, dom, dat : e = "" /\ dom = "domains" /\ dat = "data"
    OBVIOUS
  <1>2. dom # dat /\ dom # e /\ dat # e /\ d \notin {e, dom, dat}
    BY <1>1, InputAssumption
  <1> DEFINE s == c.path
             t == <<dom, d, dat>>
             n == Len(s) - 2
  <1>3. /\ Len(s) >= Len(t) /\ SubSeq(s, Len(s) - Len(t) + 1, Len(s)) = t
        /\ \A k \in 1..(Len(s) - Len(t)) : s[k] \notin {e, dom, dat}
    BY <1>1, Zenon DEF EndsWith
  <1>4. PICK U : s \in Seq(U)
    BY DEF IsSequence
  <1> HIDE DEF s
  <1>5. Len(t) = 3 /\ t[1] = dom /\ t[2] = d /\ t[3] = dat
    OBVIOUS
  <1> HIDE DEF t
  <1>6. /\ n \in Nat /\ n \in 1..Len(s) /\ n + 2 <= Len(s)
        /\ n + 2 = Len(s) /\ n + 3 # Len(s) /\ n + 3 > Len(s)
    BY <1>3, <1>4, <1>5
  <1>7. n = Len(s) - Len(t) + 1 /\ n - 1 = Len(s) - Len(t)
    BY <1>3, <1>4, <1>5
  <1> HIDE DEF n
  <1>8. SubSeq(s, n, Len(s)) = t /\ \A k \in 1..(n - 1) : s[k] \notin {e, dom, dat}
    BY <1>3, <1>7, Zenon
  <1>9. s[n] = dom /\ s[n + 1] = d /\ s[n + 2] = dat
    <2>1. s[n] = t[1] /\ s[n + 1] = t[2] /\ s[n + 2] = t[3]
      BY <1>4, <1>6, <1>8, LastThree
    <2> QED
      BY <1>5, <2>1
  <1>10. /\ \A k \in 1..Len(s) : s[k] # e
         /\ {k \in 1..Len(s) : s[k] = dom /\ k + 2 <= Len(s) /\ s[k + 2] = dat} = {n}
    <2>1. n \in 1..Len(s) /\ (n + 2 = Len(s) \/ n + 3 = Len(s))
      BY <1>6, Zenon
    <2>2. /\ s[n + 1] \notin {e, dom, dat}
          /\ n + 3 = Len(s) => s[n + 3] \notin {e, dom, dat}
      BY <1>2, <1>6, <1>9, Zenon
    <2>3. EndsAt(s, n, e, dom, dat)
      BY <1>2, <1>8, <1>9, <2>1, <2>2, Zenon DEF EndsAt
    <2> QED
      BY <1>4, <2>3, Ending
  <1>11. /\ DataId(Segments(c)) = IF n + 3 > Len(s) THEN None ELSE s[n + 3]
         /\ DomainIn(Segments(c)) = s[n + 1]
    BY <1>1, <1>4, <1>6, <1>10, Parsed, Zenon DEF s
  <1> QED
    BY <1>1, <1>6, <1>9, <1>11, Zenon DEF s

-----------------------------------------------------------------------------
(* parse_download_target on the pairs of a query.                          *)

\* `get_or_insert_with` keeps the first value of a key.
LEMMA ValueIs ==
    ASSUME NEW pairs, IsSequence(pairs), NEW key, NEW x,
           \A k \in 1..Len(pairs) : pairs[k].value # None
    PROVE Value(pairs, key) \in {None, x} <=>
              \A k \in 1..Len(pairs) :
                  (pairs[k].key = key /\ \A j \in 1..(k - 1) : pairs[j].key # key)
                      => pairs[k].value = x
  <1> DEFINE at == {k \in 1..Len(pairs) : pairs[k].key = key}
  <1>1. Len(pairs) \in Nat
    BY DEF IsSequence
  <1>2. CASE at = {}
    <2>1. Value(pairs, key) = None
      BY <1>2, Zenon DEF Value
    <2> QED
      BY <1>2, <2>1
  <1>3. CASE at # {}
    <2> DEFINE f == First(at)
    <2>1. at \in SUBSET Nat
      BY <1>1
    <2>2. f \in at /\ \A k \in at : f <= k
      <3> HIDE DEF at
      <3> QED
        BY <1>3, <2>1, FirstIs
    <2>3. Value(pairs, key) = pairs[f].value
      BY <1>3, Zenon DEF Value
    <2> HIDE DEF f
    <2>4. f \in 1..Len(pairs) /\ pairs[f].key = key /\ \A j \in 1..(f - 1) : pairs[j].key # key
      BY <1>1, <2>2
    <2>5. ASSUME NEW k \in 1..Len(pairs), pairs[k].key = key,
                 \A j \in 1..(k - 1) : pairs[j].key # key
          PROVE k = f
      <3>1. k \in at /\ f <= k
        BY <2>2, <2>5
      <3>2. ~(f \in 1..(k - 1))
        BY <2>4, <2>5
      <3> QED
        BY <1>1, <2>4, <3>1, <3>2
    <2> QED
      BY <2>3, <2>4, <2>5
  <1> QED
    BY <1>2, <1>3

\* What `ids` lists, token by token, without the empty ones.
LEMMA ListedIs ==
    ASSUME NEW pairs, IsSequence(pairs), NEW x
    PROVE x \in ListedIds(pairs) <=>
              x # "" /\ \E p \in ToSet(pairs) : p.key = "ids" /\ x \in ToSet(p.value)
  <1>1. DOMAIN pairs = 1..Len(pairs)
    BY DEF IsSequence
  <1>2. \A p : p \in ToSet(pairs) <=> \E k \in 1..Len(pairs) : p = pairs[k]
    BY <1>1, Zenon DEF ToSet
  <1>3. x \in ListedIds(pairs) <=>
            x # "" /\ \E k \in 1..Len(pairs) : pairs[k].key = "ids" /\ x \in ToSet(pairs[k].value)
    BY Zenon DEF ListedIds
  <1> QED
    BY <1>2, <1>3, Zenon

\* An item is one that a query selects exactly if the Domain is asked for it.
LEMMA SelectedIs ==
    ASSUME NEW pairs, IsSequence(pairs), NEW i \in Items,
           \A k \in 1..Len(pairs) : pairs[k].value # None
    PROVE Selected(pairs, i) <=>
              /\ ListedIds(pairs) \subseteq Uuids
              /\ ListedIds(pairs) = {} \/ i \in ListedIds(pairs)
              /\ Value(pairs, "name") \in {None, NameOf[i]}
              /\ Value(pairs, "data_type") \in {None, TypeOf[i]}
  <1>1. ListedIds(pairs) \subseteq Uuids <=>
            \A p \in ToSet(pairs) : p.key = "ids" => ToSet(p.value) \subseteq Uuids \cup {""}
    BY ListedIs, Zenon
  <1>2. ListedIds(pairs) = {} <=>
            \A p \in ToSet(pairs) : p.key = "ids" => ToSet(p.value) \subseteq {""}
    <2>1. ListedIds(pairs) = {} <=> \A x : x \notin ListedIds(pairs)
      BY Zenon
    <2>2. (\A x : x \notin ListedIds(pairs)) <=>
              \A p \in ToSet(pairs) : p.key = "ids" => \A x \in ToSet(p.value) : x = ""
      BY ListedIs, Zenon
    <2> QED
      BY <2>1, <2>2, Zenon
  <1>3. i \in ListedIds(pairs) <=> \E p \in ToSet(pairs) : p.key = "ids" /\ i \in ToSet(p.value)
    <2>1. i # ""
      BY InputAssumption
    <2> QED
      BY <2>1, ListedIs, Zenon
  <1>4. Value(pairs, "name") \in {None, NameOf[i]} <=>
            \A k \in 1..Len(pairs) :
                (pairs[k].key = "name" /\ \A j \in 1..(k - 1) : pairs[j].key # "name")
                    => pairs[k].value = NameOf[i]
    BY ValueIs, Zenon
  <1>5. Value(pairs, "data_type") \in {None, TypeOf[i]} <=>
            \A k \in 1..Len(pairs) :
                (pairs[k].key = "data_type" /\ \A j \in 1..(k - 1) : pairs[j].key # "data_type")
                    => pairs[k].value = TypeOf[i]
    BY ValueIs, Zenon
  <1> QED
    BY <1>1, <1>2, <1>3, <1>4, <1>5, Zenon DEF Selected

-----------------------------------------------------------------------------
(* What a CID names.                                                       *)

\* What is assumed of the URLs.
LEMMA UrlParts ==
    ASSUME NEW c \in Cids, c.form = "url"
    PROVE /\ IsSequence(c.path) /\ IsSequence(c.query)
          /\ \A k \in 1..Len(c.query) : c.query[k].value # None
  BY InputAssumption, Zenon

\* A URL of an item that is not refused is of the task's Domain, asks for that
\* item, and names it alone.
LEMMA ItemUrlIs ==
    ASSUME NEW c \in Cids, NEW d \in Uuids, NEW i \in Uuids, ItemUrl(c, d, i)
    PROVE /\ Ids(c) = {i} /\ DomainIn(Segments(c)) = d
          /\ Value(c.query, "name") = None /\ Value(c.query, "data_type") = None
          /\ d = Own => \A j \in Items : Named(c, j) <=> j = i
  <1>1. c.form = "url" /\ EndsWith(c, <<"domains", d, "data", i>>) /\ c.query = <<>>
    BY Zenon DEF ItemUrl
  <1>2. IsSequence(c.path)
    BY <1>1, UrlParts, Zenon
  <1>3. /\ DataId(Segments(c)) = i /\ DomainIn(Segments(c)) = d
        /\ c.path[Len(c.path)] = i
    BY <1>1, <1>2, ItemPath, Zenon
  <1>4. i # None /\ i # "data"
    BY InputAssumption
  <1>5. Ids(c) = {i}
    BY <1>3, <1>4, Zenon DEF Ids
  <1>6. Value(c.query, "name") = None /\ Value(c.query, "data_type") = None
    <2>1. \A key : {k \in 1..Len(<<>>) : <<>>[k].key = key} = {}
      <3>1. 1..Len(<<>>) = {}
        OBVIOUS
      <3> QED
        BY <3>1, Zenon
    <2> QED
      BY <1>1, <2>1, Zenon DEF Value
  <1>7. ASSUME NEW j \in Items, d = Own PROVE Named(c, j) <=> j = i
    <2>1. Own \in Uuids /\ j \in Uuids
      BY InputAssumption
    <2>2. ASSUME ItemUrl(c, Own, j) PROVE j = i
      <3>1. EndsWith(c, <<"domains", Own, "data", j>>)
        BY <2>2, Zenon DEF ItemUrl
      <3>2. c.path[Len(c.path)] = j
        BY <1>2, <2>1, <3>1, ItemPath, Zenon
      <3> QED
        BY <1>3, <3>2, Zenon
    <2>3. ~QueryUrl(c, Own)
      <3>1. SUFFICES ASSUME QueryUrl(c, Own) PROVE FALSE
        OBVIOUS
      <3>2. EndsWith(c, <<"domains", Own, "data">>)
        BY <3>1, Zenon DEF QueryUrl
      <3>3. c.path[Len(c.path)] = "data"
        BY <1>2, <2>1, <3>2, QueryPath, Zenon
      <3> QED
        BY <1>3, <1>4, <3>3, Zenon
    <2>4. c.form # "id"
      BY <1>1
    <2>5. ASSUME j = i PROVE ItemUrl(c, Own, j)
      BY <1>7, <2>5, Zenon
    <2> QED
      BY <2>2, <2>3, <2>4, <2>5, Zenon DEF Named
  <1> QED
    BY <1>3, <1>5, <1>6, <1>7, Zenon

\* The same for a URL of a query.
LEMMA QueryUrlIs ==
    ASSUME NEW c \in Cids, NEW d \in Uuids, QueryUrl(c, d)
    PROVE /\ Ids(c) = ListedIds(c.query) /\ DomainIn(Segments(c)) = d
          /\ d = Own => \A j \in Items : Named(c, j) <=> Selected(c.query, j)
  <1>1. c.form = "url" /\ EndsWith(c, <<"domains", d, "data">>)
    BY Zenon DEF QueryUrl
  <1>2. IsSequence(c.path)
    BY <1>1, UrlParts, Zenon
  <1>3. /\ DataId(Segments(c)) = None /\ DomainIn(Segments(c)) = d
        /\ c.path[Len(c.path)] = "data"
    BY <1>1, <1>2, QueryPath, Zenon
  <1>4. Ids(c) = ListedIds(c.query)
    BY <1>3, Zenon DEF Ids
  <1>5. ASSUME NEW j \in Items, d = Own PROVE Named(c, j) <=> Selected(c.query, j)
    <2>1. Own \in Uuids /\ j \in Uuids /\ j # "data"
      BY InputAssumption
    <2>2. ~ItemUrl(c, Own, j)
      <3>1. SUFFICES ASSUME ItemUrl(c, Own, j) PROVE FALSE
        OBVIOUS
      <3>2. EndsWith(c, <<"domains", Own, "data", j>>)
        BY <3>1, Zenon DEF ItemUrl
      <3>3. c.path[Len(c.path)] = j
        BY <1>2, <2>1, <3>2, ItemPath, Zenon
      <3> QED
        BY <1>3, <2>1, <3>3, Zenon
    <2>3. c.form # "id"
      BY <1>1
    <2>4. QueryUrl(c, Own)
      BY <1>5, Zenon
    <2> QED
      BY <2>2, <2>3, <2>4, Zenon DEF Named
  <1> QED
    BY <1>3, <1>4, <1>5, Zenon

\* parse_cid on a CID of a documented form that it does not refuse: the query
\* matches the items the CID names.
LEMMA Asked ==
    ASSUME NEW c \in Cids, Documented(c), ~Refused(c), query = QueryOf(c), NEW j \in Items
    PROVE Matches(j) <=> Named(c, j)
  <1>0. Own \in Uuids /\ j \in Uuids /\ None \notin Uuids
    BY InputAssumption
  <1>1. CASE c.form = "id"
    <2>1. query.ids = {c.id} /\ query.name = None /\ query.data_type = None
      BY <1>1 DEF QueryOf, NoQuery
    <2>2. Matches(j) <=> j = c.id
      BY <2>1, Zenon DEF Matches
    <2>3. c.form # "url"
      BY <1>1
    <2> QED
      BY <1>1, <2>2, <2>3, Zenon DEF Named, ItemUrl, QueryUrl
  <1>2. ASSUME c.form = "url"
        PROVE /\ query.ids = Ids(c) /\ query.name = Value(c.query, "name")
              /\ query.data_type = Value(c.query, "data_type")
              /\ Ids(c) \subseteq Uuids /\ DomainIn(Segments(c)) \in {None, Own}
    <2>1. c.form # "id"
      BY <1>2
    <2> QED
      BY <1>2, <2>1 DEF QueryOf, Refused
  <1>3. ASSUME NEW d \in Uuids, NEW i \in Uuids, ItemUrl(c, d, i) PROVE Matches(j) <=> Named(c, j)
    <2>1. c.form = "url"
      BY <1>3, Zenon DEF ItemUrl
    <2>2. d = Own
      BY <1>0, <1>2, <1>3, <2>1, ItemUrlIs, Zenon
    <2>3. query.ids = {i} /\ query.name = None /\ query.data_type = None
      BY <1>2, <1>3, <2>1, ItemUrlIs, Zenon
    <2>4. Matches(j) <=> j = i
      BY <2>3, Zenon DEF Matches
    <2>5. Named(c, j) <=> j = i
      BY <1>3, <2>2, ItemUrlIs, Zenon
    <2> QED
      BY <2>4, <2>5, Zenon
  <1>4. ASSUME NEW d \in Uuids, QueryUrl(c, d) PROVE Matches(j) <=> Named(c, j)
    <2>1. c.form = "url"
      BY <1>4, Zenon DEF QueryUrl
    <2>2. Ids(c) = ListedIds(c.query) /\ DomainIn(Segments(c)) = d
      BY <1>4, QueryUrlIs, Zenon
    <2>3. d = Own
      BY <1>0, <1>2, <2>1, <2>2, Zenon
    <2>4. Named(c, j) <=> Selected(c.query, j)
      BY <1>4, <2>3, QueryUrlIs, Zenon
    <2>5. IsSequence(c.query) /\ \A k \in 1..Len(c.query) : c.query[k].value # None
      BY <2>1, UrlParts, Zenon
    <2>6. Selected(c.query, j) <=>
              /\ ListedIds(c.query) \subseteq Uuids
              /\ ListedIds(c.query) = {} \/ j \in ListedIds(c.query)
              /\ Value(c.query, "name") \in {None, NameOf[j]}
              /\ Value(c.query, "data_type") \in {None, TypeOf[j]}
      BY <2>5, SelectedIs, Zenon
    <2>7. /\ query.ids = ListedIds(c.query) /\ ListedIds(c.query) \subseteq Uuids
          /\ query.name = Value(c.query, "name") /\ query.data_type = Value(c.query, "data_type")
      BY <1>2, <2>1, <2>2, Zenon
    <2>8. Matches(j) <=> Selected(c.query, j)
      BY <2>6, <2>7, Zenon DEF Matches
    <2> QED
      BY <2>4, <2>8, Zenon
  <1> QED
    BY <1>1, <1>3, <1>4, Zenon DEF Documented

\* parse_cid refuses no CID that names an item, but for a missing server.
LEMMA Accepted ==
    ASSUME NEW c \in Cids, NEW i \in Items, Named(c, i), Refused(c)
    PROVE c.form = "url" /\ c.relative /\ ~base
  <1>0. Own \in Uuids /\ i \in Uuids
    BY InputAssumption
  <1>1. CASE c.form = "id" /\ c.id = i
    BY <1>0, <1>1 DEF Refused
  <1>2. ASSUME c.form = "url", Ids(c) \subseteq Uuids, DomainIn(Segments(c)) = Own
        PROVE c.relative /\ ~base
    <2>1. c.form # "malformed" /\ c.form # "id"
      BY <1>2
    <2> QED
      BY <1>2, <2>1, Zenon DEF Refused
  <1>3. CASE ItemUrl(c, Own, i)
    <2>1. c.form = "url"
      BY <1>3, Zenon DEF ItemUrl
    <2>2. Ids(c) = {i} /\ DomainIn(Segments(c)) = Own
      BY <1>0, <1>3, ItemUrlIs, Zenon
    <2> QED
      BY <1>0, <1>2, <2>1, <2>2, Zenon
  <1>4. CASE QueryUrl(c, Own) /\ Selected(c.query, i)
    <2>1. c.form = "url"
      BY <1>4, Zenon DEF QueryUrl
    <2>2. Ids(c) = ListedIds(c.query) /\ DomainIn(Segments(c)) = Own
      BY <1>0, <1>4, QueryUrlIs, Zenon
    <2>3. IsSequence(c.query) /\ \A k \in 1..Len(c.query) : c.query[k].value # None
      BY <2>1, UrlParts, Zenon
    <2>4. ListedIds(c.query) \subseteq Uuids
      BY <1>4, <2>3, SelectedIs, Zenon
    <2> QED
      BY <1>2, <2>1, <2>2, <2>4, Zenon
  <1> QED
    BY <1>1, <1>3, <1>4, Zenon DEF Named

-----------------------------------------------------------------------------
(* The steps.                                                              *)

\* The files a failed or finished download leaves: all of them, or none.
LEMMA RootType ==
    ASSUME TypeOK, RemoveRoot
    PROVE /\ root' \in {"none", "there", "removed"}
          /\ files' \in [{PathOf(i) : i \in Items} -> Files]
          /\ left' \subseteq {"dropped", "removal", "unreadable"}
          /\ root' = "there" => left' # {}
  <1>1. CASE root' = "removed" /\ UNCHANGED left /\ files' = [p \in DOMAIN files |-> NoFile]
    <2>1. DOMAIN files = {PathOf(i) : i \in Items}
      BY DEF TypeOK
    <2>2. NoFile \in Files
      BY DEF NoFile, Files
    <2> QED
      BY <1>1, <2>1, <2>2 DEF TypeOK
  <1>2. CASE left' = left \cup {"removal"} /\ UNCHANGED <<root, files>>
    BY <1>2 DEF TypeOK
  <1> QED
    BY <1>1, <1>2 DEF RemoveRoot

\* A query is made of what Refused has looked at.
LEMMA QueryType ==
    ASSUME NEW c \in Cids, ~Refused(c) PROVE QueryOf(c).ids \subseteq Uuids
  <1>1. CASE c.form = "id"
    BY <1>1 DEF QueryOf, Refused, NoQuery
  <1>2. CASE c.form = "url"
    BY <1>2 DEF QueryOf, Refused
  <1> QED
    BY <1>1, <1>2, InputAssumption DEF Refused

\* Every handler of io.rs and every step of the runner keeps the types.
LEMMA TypeStep ==
    ASSUME TypeOK, QueryInv, FilesInv, Next PROVE TypeOK'
  <1>0. /\ NoFile \in Files /\ \A i \in Items : PathOf(i) \in {PathOf(j) : j \in Items}
        /\ \A i \in Items, w \in BOOLEAN : [of |-> i, whole |-> w] \in Files
    BY DEF NoFile, Files
  <1>1. CASE Parse
    <2>1. ~Refused(cid) => QueryOf(cid).ids \subseteq Uuids
      BY QueryType DEF TypeOK
    <2> QED
      BY <1>1, <2>1 DEF TypeOK, Parse, End
  <1>2. CASE List
    <2>1. PICK found \in SUBSET Items : todo' \in SetToSeqs(found)
      BY <1>2 DEF List, TypeOK
    <2>2. IsFiniteSet(found)
      BY <2>1, FS_Subset, InputAssumption
    <2>3. Cardinality(found) \in Nat
      BY <2>2, FS_CardinalityType
    <2>4. todo' \in [1..Cardinality(found) -> found]
      BY <2>1 DEF SetToSeqs
    <2>5. todo' \in Seq(Items)
      BY <2>1, <2>3, <2>4
    <2> QED
      BY <1>2, <2>5 DEF TypeOK, List
  <1>3. CASE ListFails \/ MakeRoot \/ StepFails
    BY <1>3 DEF TypeOK, ListFails, MakeRoot, StepFails, End
  <1>4. CASE Create
    <2>1. Head(todo) \in Items
      BY <1>4 DEF TypeOK, FilesInv, Create
    <2>2. files' \in [{PathOf(i) : i \in Items} -> Files]
      <3>1. [of |-> Head(todo), whole |-> FALSE] \in Files
        BY <1>0, <2>1
      <3> QED
        BY <1>4, <3>1 DEF TypeOK, Create
    <2> QED
      BY <1>4, <2>2 DEF TypeOK, Create
  <1>5. CASE Read
    <2>1. Head(todo) \in Items /\ Tail(todo) \in Seq(Items)
      BY <1>5 DEF TypeOK, FilesInv, Read
    <2>2. files' \in [{PathOf(i) : i \in Items} -> Files]
      <3> DEFINE p == PathOf(Head(todo))
      <3>1. files[p] \in Files
        BY <1>0, <2>1 DEF TypeOK
      <3>2. [files[p] EXCEPT !.whole = TRUE] \in Files
        BY <3>1 DEF Files
      <3>3. files' = [files EXCEPT ![p] = [files[p] EXCEPT !.whole = TRUE]]
        BY <1>5 DEF Read
      <3> HIDE DEF p
      <3> QED
        BY <3>2, <3>3 DEF TypeOK
    <2>3. parts' \in Seq(Items) /\ todo' \in Seq(Items)
      BY <1>5, <2>1 DEF TypeOK, Read
    <2> QED
      BY <1>5, <2>2, <2>3 DEF TypeOK, Read
  <1>6. CASE Undo \/ Discard
    <2>1. RemoveRoot
      BY <1>6 DEF Undo, Discard
    <2> QED
      BY <1>6, <2>1, RootType DEF TypeOK, Undo, Discard, End
  <1>7. CASE Take
    <2>1. Head(parts) \in Items
      BY <1>7 DEF TypeOK, FilesInv, Take
    <2>2. files[PathOf(Primary)] \in Files
      BY <1>0, <2>1 DEF TypeOK, Primary
    <2> QED
      BY <1>7, <2>2 DEF TypeOK, Take, End
  <1>8. CASE Drop \/ DomainChanges
    BY <1>8 DEF TypeOK, Drop, DomainChanges, End
  <1> QED
    BY <1>1, <1>2, <1>3, <1>4, <1>5, <1>6, <1>7, <1>8 DEF Next

\* Only parse_cid makes a query or refuses a CID, and nothing changes the CID.
LEMMA QueryStep ==
    ASSUME TypeOK, QueryInv, Next PROVE QueryInv'
  <1>1. /\ UNCHANGED <<cid, base>>
        /\ (Refused(cid)' <=> Refused(cid)) /\ QueryOf(cid)' = QueryOf(cid)
    <2>1. UNCHANGED <<cid, base>>
      BY DEF Next, Parse, List, ListFails, MakeRoot, Create, StepFails, Read, Undo, Take, Discard,
             Drop, DomainChanges
    <2> QED
      BY <2>1 DEF Refused, QueryOf
  <1>2. CASE Parse
    BY <1>1, <1>2 DEF QueryInv, Parse, End, TypeOK
  <1>3. CASE ~Parse
    <2>1. query' = query
      BY <1>3 DEF Next, List, ListFails, MakeRoot, Create, StepFails, Read, Undo, Take, Discard,
                  Drop, DomainChanges
    <2>2. outcome' = "refused" => outcome = "refused"
      BY <1>3 DEF Next, List, ListFails, MakeRoot, Create, StepFails, Read, Undo, Take, Discard,
                  Drop, DomainChanges, End
    <2>3. pc' \in {"list", "root", "create", "read", "undo", "take", "discard"} =>
             pc \in {"list", "root", "create", "read", "undo", "take", "discard"}
      BY <1>3 DEF Next, List, ListFails, MakeRoot, Create, StepFails, Read, Undo, Take, Discard,
                  Drop, DomainChanges, End
    <2> QED
      BY <1>1, <2>1, <2>2, <2>3 DEF QueryInv
  <1> QED
    BY <1>2, <1>3

\* A root that is there is there for a reason when the run ends: it is removed
\* by materialize or the runner unless they are dropped or fail to.
LEMMA RootStep ==
    ASSUME TypeOK, RootInv, RootIsRemoved, Next PROVE RootInv' /\ RootIsRemoved'
  <1>1. CASE Undo \/ Discard
    BY <1>1, RootType DEF Undo, Discard, End, RootInv, RootIsRemoved
  <1>2. CASE ~(Undo \/ Discard)
    BY <1>2 DEF Next, Parse, List, ListFails, MakeRoot, Create, StepFails, Read, Take, Drop,
                DomainChanges, End, RootInv, RootIsRemoved
  <1> QED
    BY <1>1, <1>2

\* While neither the files nor the downloaded items change, all stay landed.
LEMMA FilesFrame ==
    ASSUME FilesInv, UNCHANGED <<parts, files, manifest>>,
           pc' \in {"root", "create", "read"} => todo' # <<>>,
           pc' \in {"parse", "list", "root"} => parts = <<>>,
           pc' = "create" => pc = "create" \/ parts = <<>>,
           pc' = "read" => pc = "read" /\ todo' = todo,
           pc' = "take" => pc = "take",
           pc' \notin {"discard", "ended"} => pc \notin {"discard", "ended"}
    PROVE FilesInv'
  <1>1. \A k \in 1..Len(parts) : Landed(k)' <=> Landed(k)
    BY DEF Landed
  <1>2. pc' \in {"create", "read", "take"} =>
            \A k \in 1..Len(parts) :
               Landed(k)' \/ (pc' = "read" /\ PathOf(parts[k]) = PathOf(Head(todo')))
    <2>1. CASE parts = <<>>
      BY <2>1
    <2>2. CASE parts # <<>>
      BY <1>1, <2>2 DEF FilesInv
    <2> QED
      BY <2>1, <2>2
  <1> QED
    BY <1>2 DEF FilesInv

\* Creating an item's file tears the files of the items with its path and no
\* other.
LEMMA CreateFiles ==
    ASSUME TypeOK, FilesInv, Create PROVE FilesInv'
  <1> DEFINE h == Head(todo)
             p == PathOf(h)
  <1>1. h \in Items /\ p \in {PathOf(i) : i \in Items}
    BY DEF TypeOK, FilesInv, Create
  <1>2. \A k \in 1..Len(parts) : PathOf(parts[k]) # p => Landed(k)
    BY DEF FilesInv, Create
  <1>3. /\ files' = [files EXCEPT ![p] = [of |-> h, whole |-> FALSE]]
        /\ UNCHANGED <<parts, todo, manifest>>
    BY DEF Create
  <1>4. files'[p].of = h
    BY <1>1, <1>3 DEF TypeOK
  <1>5. \A q : q # p => files'[q] = files[q]
    BY <1>3 DEF TypeOK
  <1>6. ASSUME NEW k \in 1..Len(parts), PathOf(parts[k]) # p PROVE Landed(k)'
    BY <1>2, <1>3, <1>5, <1>6 DEF Landed
  <1> QED
    BY <1>3, <1>4, <1>6 DEF FilesInv, Create

\* A file that is read becomes whole.
LEMMA Whole ==
    ASSUME NEW h, NEW w, NEW t
    PROVE [[of |-> h, whole |-> w] EXCEPT !.whole = t] = [of |-> h, whole |-> t]
  OBVIOUS

\* The item read lands, and those with its path land by it.
LEMMA ReadFiles ==
    ASSUME TypeOK, FilesInv, Read PROVE FilesInv'
  <1> DEFINE h == Head(todo)
             p == PathOf(h)
             n == Len(parts) + 1
  <1>1. h \in Items /\ p \in {PathOf(i) : i \in Items} /\ Tail(todo) \in Seq(Items)
    BY DEF TypeOK, FilesInv, Read
  <1>2. /\ parts' = Append(parts, h) /\ todo' = Tail(todo) /\ UNCHANGED manifest
        /\ files' = [files EXCEPT ![p] = [files[p] EXCEPT !.whole = TRUE]]
    BY DEF Read
  <1>3. /\ Len(parts') = n /\ n \in 1..n /\ parts'[n] = h
        /\ \A k \in 1..Len(parts) : parts'[k] = parts[k]
    BY <1>1, <1>2 DEF TypeOK
  <1>4. files'[p] = [of |-> h, whole |-> TRUE]
    <2>1. files[p] \in Files /\ files[p].of = h
      BY <1>1 DEF TypeOK, FilesInv, Read
    <2>2. PICK w \in BOOLEAN : files[p] = [of |-> h, whole |-> w]
      BY <2>1 DEF Files
    <2>3. [[of |-> h, whole |-> w] EXCEPT !.whole = TRUE] = [of |-> h, whole |-> TRUE]
      BY Whole, Zenon
    <2> QED
      BY <1>1, <1>2, <2>2, <2>3 DEF TypeOK
  <1>5. \A q : q # p => files'[q] = files[q]
    BY <1>2 DEF TypeOK
  <1>6. ASSUME NEW k \in 1..n PROVE Landed(k)'
    <2>1. CASE PathOf(parts'[k]) = p
      <3>1. n \in k..Len(parts')
        BY <1>3
      <3> QED
        BY <1>3, <1>4, <2>1, <3>1 DEF Landed
    <2>2. CASE PathOf(parts'[k]) # p
      <3>1. k \in 1..Len(parts) /\ parts'[k] = parts[k]
        BY <1>3, <2>2 DEF TypeOK
      <3>2. Landed(k)
        BY <2>2, <3>1 DEF FilesInv, Read
      <3>3. PICK j \in k..Len(parts) : /\ PathOf(parts[j]) = PathOf(parts[k])
                                       /\ files[PathOf(parts[k])] = [of |-> parts[j], whole |-> TRUE]
        BY <3>2 DEF Landed
      <3>4. j \in k..Len(parts') /\ parts'[j] = parts[j]
        BY <1>3, <3>1 DEF TypeOK
      <3>5. files'[PathOf(parts'[k])] = files[PathOf(parts[k])]
        BY <1>5, <2>2, <3>1
      <3> QED
        BY <3>1, <3>3, <3>4, <3>5 DEF Landed
    <2> QED
      BY <2>1, <2>2
  <1>7. parts' # <<>>
    BY <1>2, <1>3 DEF TypeOK
  <1>8. pc = "read" /\ pc' \in {"take", "create"} /\ (pc' = "create" => todo' # <<>>)
    BY DEF Read
  <1>9. manifest' = NoFile
    BY <1>2, <1>8 DEF FilesInv
  <1>10. \A k \in 1..Len(parts') : Landed(k)'
    BY <1>3, <1>6
  <1> QED
    BY <1>7, <1>8, <1>9, <1>10 DEF FilesInv

\* The first item has landed when the runner reads its manifest.
LEMMA TakeManifest ==
    ASSUME TypeOK, FilesInv, ManifestIsPrimary, Take PROVE FilesInv' /\ ManifestIsPrimary'
  <1>1. UNCHANGED <<parts, files>> /\ pc' \in {"discard", "ended"}
    BY DEF Take, End
  <1>2. FilesInv'
    BY <1>1 DEF FilesInv
  <1>3. CASE UNCHANGED manifest
    BY <1>1, <1>2, <1>3 DEF ManifestIsPrimary
  <1>4. CASE manifest' = files[PathOf(Primary)]
    <2>1. Len(parts) \in Nat /\ 1 \in 1..Len(parts) /\ Primary = parts[1]
      BY DEF TypeOK, FilesInv, Take, Primary
    <2>2. Landed(1)
      BY <2>1 DEF FilesInv, Take
    <2>3. PICK j \in 1..Len(parts) : /\ PathOf(parts[j]) = PathOf(parts[1])
                                     /\ files[PathOf(parts[1])] = [of |-> parts[j], whole |-> TRUE]
      BY <2>2 DEF Landed
    <2>4. manifest'.whole /\ manifest'.of = parts[j]
      BY <1>4, <2>1, <2>3
    <2>5. j = 1 \/ j \in 2..Len(parts)
      BY <2>1
    <2> QED
      BY <1>1, <1>2, <2>3, <2>4, <2>5 DEF ManifestIsPrimary
  <1> QED
    BY <1>2, <1>3, <1>4 DEF Take

\* The downloaded items stay on the disk until the runner has its manifest.
LEMMA FilesStep ==
    ASSUME TypeOK, FilesInv, ManifestIsPrimary, Next PROVE FilesInv' /\ ManifestIsPrimary'
  <1>1. ASSUME UNCHANGED <<parts, manifest>> PROVE ManifestIsPrimary'
    BY <1>1 DEF ManifestIsPrimary
  <1>2. CASE Parse \/ ListFails \/ MakeRoot \/ StepFails
    BY <1>1, <1>2, FilesFrame DEF Parse, ListFails, MakeRoot, StepFails, End, FilesInv
  <1>3. CASE List
    <2>1. PICK found \in SUBSET Items : found # {} /\ todo' \in SetToSeqs(found)
      BY <1>3 DEF List, TypeOK
    <2>2. IsFiniteSet(found)
      BY <2>1, FS_Subset, InputAssumption
    <2>3. Cardinality(found) \in Nat /\ Cardinality(found) # 0
      BY <2>1, <2>2, FS_CardinalityType, FS_EmptySet
    <2>4. todo' \in [1..Cardinality(found) -> found]
      BY <2>1 DEF SetToSeqs
    <2>5. todo' # <<>>
      BY <2>3, <2>4
    <2> QED
      BY <1>1, <1>3, <2>5, FilesFrame DEF List, FilesInv
  <1>4. CASE Create
    BY <1>1, <1>4, CreateFiles DEF Create
  <1>5. CASE Read
    BY <1>5, ReadFiles DEF Read, FilesInv, ManifestIsPrimary
  <1>6. CASE Take
    BY <1>6, TakeManifest
  <1>7. CASE Undo \/ Discard
    <2>1. UNCHANGED <<parts, manifest>> /\ pc' = "ended"
      BY <1>7 DEF Undo, Discard, End
    <2> QED
      BY <1>1, <2>1 DEF FilesInv
  <1>8. CASE Drop
    BY <1>1, <1>8 DEF Drop, End, FilesInv
  <1>9. CASE DomainChanges
    BY <1>1, <1>9, FilesFrame DEF DomainChanges, FilesInv
  <1> QED
    BY <1>2, <1>3, <1>4, <1>5, <1>6, <1>7, <1>8, <1>9 DEF Next

\* The Domain's answer matches the query, and what is downloaded and taken for the
\* manifest is out of it.
LEMMA FoundStep ==
    ASSUME TypeOK, QueryInv, FilesInv, FoundInv, Next PROVE FoundInv'
  <1>1. ASSUME query' = query, NEW i PROVE Matches(i)' <=> Matches(i)
    BY <1>1 DEF Matches
  <1>2. ASSUME UNCHANGED cid, UNCHANGED base PROVE Refused(cid)' <=> Refused(cid)
    BY <1>2 DEF Refused
  <1>3. QueryOf(cid') = QueryOf(cid)'
    BY DEF QueryOf
  <1>4. CASE /\ UNCHANGED <<cid, base, query, todo, parts, manifest>>
             /\ pc' = "parse" => pc = "parse"
    BY <1>1, <1>2, <1>4 DEF FoundInv
  <1>5. CASE Parse
    <2>1. todo' = <<>> /\ parts' = <<>> /\ manifest' = NoFile
      BY <1>5 DEF Parse, FoundInv, FilesInv
    <2> QED
      BY <2>1 DEF FoundInv
  <1>6. CASE List
    <2>1. PICK found : /\ found = {i \in present : Matches(i)} /\ todo' \in SetToSeqs(found)
      BY <1>6 DEF List
    <2>2. IsFiniteSet(found)
      BY <2>1, FS_Subset, InputAssumption DEF TypeOK
    <2>3. Cardinality(found) \in Nat
      BY <2>2, FS_CardinalityType
    <2>4. todo' \in [1..Cardinality(found) -> found]
      BY <2>1 DEF SetToSeqs
    <2>5. \A k \in 1..Len(todo') : todo'[k] \in found
      BY <2>3, <2>4
    <2>6. UNCHANGED <<cid, base, query, parts, manifest>> /\ pc' = "root"
      BY <1>6 DEF List
    <2> QED
      BY <1>1, <1>2, <2>1, <2>5, <2>6 DEF FoundInv
  <1>7. CASE Read
    <2>1. todo \in Seq(Items) /\ todo # <<>> /\ parts \in Seq(Items)
      BY <1>7 DEF TypeOK, FilesInv, Read
    <2>2. todo' = Tail(todo) /\ parts' = Append(parts, Head(todo)) /\ pc' # "parse"
      BY <1>7 DEF Read
    <2>3. \A k \in 1..Len(todo') : todo'[k] = todo[k + 1] /\ k + 1 \in 1..Len(todo)
      BY <2>1, <2>2
    <2>4. Head(todo) = todo[1] /\ 1 \in 1..Len(todo)
      BY <2>1
    <2>5. \A k \in 1..Len(parts') :
              parts'[k] = Head(todo) \/ (k \in 1..Len(parts) /\ parts'[k] = parts[k])
      BY <2>1, <2>2, <2>4
    <2>6. UNCHANGED <<cid, base, query, manifest>>
      BY <1>7 DEF Read
    <2> QED
      BY <1>1, <1>2, <2>2, <2>3, <2>4, <2>5, <2>6 DEF FoundInv
  <1>8. CASE Take
    <2>1. UNCHANGED <<cid, base, query, todo, parts>> /\ pc = "take" /\ pc' # "parse"
      BY <1>8 DEF Take, End
    <2>2. manifest' = manifest \/ manifest' = files[PathOf(Primary)]
      BY <1>8 DEF Take
    <2>3. Len(parts) \in Nat /\ 1 \in 1..Len(parts) /\ Primary = parts[1]
      BY <2>1 DEF TypeOK, FilesInv, Primary
    <2>4. Landed(1)
      BY <2>1, <2>3 DEF FilesInv
    <2>5. PICK j \in 1..Len(parts) : files[PathOf(parts[1])] = [of |-> parts[j], whole |-> TRUE]
      BY <2>4 DEF Landed
    <2>6. parts[j] \in Items /\ Matches(parts[j])
      BY <2>5 DEF TypeOK, FoundInv
    <2>7. ~Refused(cid) /\ query = QueryOf(cid)
      BY <2>1 DEF QueryInv
    <2> QED
      BY <1>1, <1>2, <2>1, <2>2, <2>3, <2>5, <2>6, <2>7 DEF FoundInv
  <1>9. CASE \/ ListFails \/ MakeRoot \/ Create \/ StepFails \/ Undo \/ Discard \/ Drop
             \/ DomainChanges
    <2>1. /\ UNCHANGED <<cid, base, query, todo, parts, manifest>>
          /\ pc' = "parse" => pc = "parse"
      BY <1>9 DEF ListFails, MakeRoot, Create, StepFails, Undo, Discard, Drop, DomainChanges, End
    <2> QED
      BY <1>4, <2>1
  <1> QED
    BY <1>5, <1>6, <1>7, <1>8, <1>9 DEF Next

-----------------------------------------------------------------------------
(* The theorems.                                                           *)

\* The invariant holds before parse_cid.
LEMMA Start == Init => IInv
  <1> SUFFICES ASSUME Init PROVE IInv
    OBVIOUS
  <1>1. TypeOK
    <2>1. query.ids \subseteq Uuids
      BY DEF Init, NoQuery
    <2>2. NoFile \in Files
      BY DEF NoFile, Files
    <2>3. files \in [{PathOf(i) : i \in Items} -> Files] /\ manifest \in Files
      BY <2>2 DEF Init
    <2>4. todo \in Seq(Items) /\ parts \in Seq(Items)
      BY DEF Init
    <2> QED
      BY <2>1, <2>3, <2>4 DEF Init, TypeOK
  <1>2. QueryInv /\ ManifestIsPrimary /\ RootInv /\ RootIsRemoved
    BY DEF Init, QueryInv, ManifestIsPrimary, RootInv, RootIsRemoved
  <1>3. FilesInv /\ FoundInv
    BY DEF Init, FilesInv, FoundInv
  <1> QED
    BY <1>1, <1>2, <1>3 DEF IInv

\* It holds while nothing happens.
LEMMA Stutter == ASSUME IInv, UNCHANGED vars PROVE IInv'
  <1>1. TypeOK'
    BY DEF IInv, vars, TypeOK
  <1>2. QueryInv'
    BY DEF IInv, vars, QueryInv, Refused, QueryOf
  <1>3. FilesInv'
    BY DEF IInv, vars, FilesInv, Landed
  <1>4. FoundInv'
    BY DEF IInv, vars, FoundInv, Matches, Refused, QueryOf
  <1>5. ManifestIsPrimary' /\ RootInv' /\ RootIsRemoved'
    BY DEF IInv, vars, ManifestIsPrimary, RootInv, RootIsRemoved
  <1> QED
    BY <1>1, <1>2, <1>3, <1>4, <1>5 DEF IInv

\* The inductive invariant, for every sequence of downloads, failures, drops and
\* changes of the Domain.
THEOREM Invariance == Spec => []IInv
  <1>1. IInv /\ [Next]_vars => IInv'
    <2>1. ASSUME IInv, Next PROVE IInv'
      <3>1. /\ TypeOK /\ QueryInv /\ FilesInv /\ FoundInv /\ ManifestIsPrimary
            /\ RootInv /\ RootIsRemoved
        BY <2>1 DEF IInv
      <3>2. TypeOK' /\ QueryInv'
        BY <2>1, <3>1, TypeStep, QueryStep
      <3>3. FilesInv' /\ FoundInv' /\ ManifestIsPrimary'
        BY <2>1, <3>1, FilesStep, FoundStep
      <3>4. RootInv' /\ RootIsRemoved'
        BY <2>1, <3>1, RootStep
      <3> QED
        BY <3>2, <3>3, <3>4 DEF IInv
    <2> QED
      BY <2>1, Stutter
  <1> QED
    BY <1>1, Start, PTL DEF Spec

\* Type correctness: no handler of materialize leaves a file, a query or an item
\* of another kind.
THEOREM Typed == Spec => []TypeOK
  <1>1. IInv => TypeOK
    BY DEF IInv
  <1> QED
    BY <1>1, Invariance, PTL

\* For every CID of a documented form, whatever its length, parse_cid and
\* parse_download_target make a query that matches the items the CID names and no
\* others.
THEOREM Asks == Spec => []AsksWhatIsNamed
  <1>1. IInv => AsksWhatIsNamed
    <2> SUFFICES ASSUME IInv, pc \in {"list", "root", "create", "read", "take", "discard"},
                        Documented(cid), NEW i \in Items
                 PROVE Matches(i) <=> Named(cid, i)
      BY Zenon DEF AsksWhatIsNamed
    <2>1. cid \in Cids /\ ~Refused(cid) /\ query = QueryOf(cid)
      BY DEF IInv, TypeOK, QueryInv
    <2> QED
      BY <2>1, Asked, Zenon
  <1> QED
    BY <1>1, Invariance, PTL

\* parse_cid refuses no CID that names an item of the task's Domain, but a
\* relative one when the lease names no server.
THEOREM Accepts == Spec => []NamedIsNotRefused
  <1>1. IInv => NamedIsNotRefused
    <2> SUFFICES ASSUME IInv, outcome = "refused", NEW i \in Items, Named(cid, i)
                 PROVE cid.form = "url" /\ cid.relative /\ ~base
      BY Zenon DEF NamedIsNotRefused
    <2>1. cid \in Cids /\ Refused(cid)
      BY DEF IInv, TypeOK, QueryInv
    <2> QED
      BY <2>1, Accepted, Zenon
  <1> QED
    BY <1>1, Invariance, PTL

\* The runner's manifest is a whole item, and the first one downloaded unless
\* download_path gives another of them the same path, however many are downloaded
\* and whatever becomes of the Domain meanwhile.
THEOREM Manifest == Spec => []ManifestIsPrimary
  <1>1. IInv => ManifestIsPrimary
    BY DEF IInv
  <1> QED
    BY <1>1, Invariance, PTL

\* A download root outlives its run only if the run was dropped, its removal
\* failed, or the manifest could not be read (materialize and Runner::run).
THEOREM Cleaned == Spec => []RootIsRemoved
  <1>1. IInv => RootIsRemoved
    BY DEF IInv
  <1> QED
    BY <1>1, Invariance, PTL

\* From the CID to the file: for a CID of a documented form, the manifest the runner
\* reads is an item that this CID names, of the task's own Domain (parse_cid to
\* Runner::run).
THEOREM ManifestIsNamed ==
    Spec => [](manifest # NoFile /\ Documented(cid) => Named(cid, manifest.of))
  <1>1. IInv => (manifest # NoFile /\ Documented(cid) => Named(cid, manifest.of))
    <2> SUFFICES ASSUME IInv, manifest # NoFile, Documented(cid) PROVE Named(cid, manifest.of)
      OBVIOUS
    <2>1. /\ cid \in Cids /\ ~Refused(cid) /\ query = QueryOf(cid)
          /\ manifest.of \in Items /\ Matches(manifest.of)
      BY DEF IInv, TypeOK, FoundInv
    <2> QED
      BY <2>1, Asked, Zenon
  <1> QED
    BY <1>1, Invariance, PTL
=============================================================================
