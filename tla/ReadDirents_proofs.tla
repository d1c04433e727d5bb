------------------------- MODULE ReadDirents_proofs -------------------------
(***************************************************************************)
(* A listing gives the entries of a directory, for every tree, every order *)
(* of the keys, and every size of libs3's buffers and of the array.        *)
(***************************************************************************)
EXTENDS ReadDirents, TLAPS, SequenceTheorems, FiniteSetTheorems

IsSequence(s) == s \in Seq(ToSet(s))

\* The answer begins with the directory's own object.
OwnFirst == answer.contents # <<>> /\ Head(answer.contents) = dir

Basenames ==
  {basename(answer.contents[i]) : i \in 1 .. Len(answer.contents)}
    \cup {basename(answer.prefixes[i]) : i \in 1 .. Len(answer.prefixes)}

\* The i-th entry of a listing of the keys C and the common prefixes Q, the
\* first key left out, which is the entry 0.
EntryOf(C, Q, i) ==
  IF i < Len(C) THEN basename(C[i + 1]) ELSE basename(Q[i - Len(C) + 1])
EntryAt(i) == EntryOf(answer.contents, answer.prefixes, i)

\* What S3 answers is a pair of sequences.  A beginning of each arrives, and
\* of that a beginning is handed over: no common prefix before the last key.
AnswerOK ==
  /\ IsFiniteSet(bucket) /\ bucket \subseteq Oid /\ dir \in Oid
  /\ IsSequence(answer.contents) /\ IsSequence(answer.prefixes)
  /\ arrived.contents \in 0 .. Len(answer.contents)
  /\ arrived.prefixes \in 0 .. Len(answer.prefixes)
  /\ arrived.prefixes > 0 => arrived.contents = Len(answer.contents)
  /\ handed.contents \in 0 .. arrived.contents
  /\ handed.prefixes \in 0 .. arrived.prefixes
  /\ handed.prefixes > 0 => handed.contents = arrived.contents

\* What was handed over, without the directory, fills the array; if that is
\* nothing, either no batch came yet or none is to come.
Written ==
  /\ object_count =
       IF handed.contents = 0 THEN 0 ELSE handed.contents + handed.prefixes - 1
  /\ objects \in Seq(Basenames)
  /\ Len(objects) = object_count
  /\ \A i \in 1 .. object_count : objects[i] = EntryAt(i)
  /\ handed.contents = 1 /\ handed.prefixes = 0 => AllHanded

\* Whether or not the answer has the directory: what is in the array are names of
\* what was handed over, in its order.  g gives the place of each in the answer,
\* counted from 0.
PlacedAt(g, s, C, Q, n) ==
  /\ g \in [1 .. Len(s) -> 0 .. n - 1]
  /\ \A i, j \in 1 .. Len(s) : i < j => g[i] < g[j]
  /\ \A i \in 1 .. Len(s) : s[i] = EntryOf(C, Q, g[i])

Picked ==
  /\ objects \in Seq(Basenames)
  /\ object_count \in 0 .. Len(objects)
  /\ \E g : PlacedAt(g, objects, answer.contents, answer.prefixes, handed.contents + handed.prefixes)

Given ==
  /\ passed \in Seq(Basenames)
  /\ Len(passed) <= object_count
  /\ \A i \in 1 .. Len(passed) : passed[i] = objects[i]

ReadInv ==
  /\ pc \in {"idle", "request", "parse", "loop", "returned", "undefined"}
  /\ AnswerOK
  /\ Listed => OwnFirst
  /\ pc = "request" =>
       /\ answer = Empty /\ arrived = None /\ handed = None
       /\ objects = <<>> /\ object_count = 0 /\ passed = <<>>
  /\ pc = "parse" => passed = <<>>
  /\ pc \in {"loop", "returned"} => AllHanded
  /\ pc \in {"parse", "loop", "returned"} => Picked /\ Given
  /\ OwnFirst /\ pc \in {"parse", "loop", "returned"} => Written
  /\ OwnFirst /\ pc = "undefined" =>
       Len(answer.contents) + Len(answer.prefixes) - 1 > Capacity

-----------------------------------------------------------------------------
LEMMA InOrderIsSequence ==
  ASSUME NEW S, IsFiniteSet(S), NEW s \in InOrder(S)
  PROVE  IsSequence(s)
<1>. DEFINE n == Cardinality(S)
<1>1. n \in Nat
  BY FS_CardinalityType
<1>2. s \in [1 .. n -> S]
  BY DEF InOrder, SetToSeqs
<1>3. s \in [1 .. n -> ToSet(s)]
  BY <1>2 DEF ToSet
<1>. QED
  BY <1>1, <1>3, SeqDef DEF IsSequence

\* A sequence in S3's order has each id of the set once.
LEMMA InOrderOnce ==
  ASSUME NEW S, IsFiniteSet(S), NEW s \in InOrder(S)
  PROVE  /\ Len(s) \in Nat
         /\ \A i \in 1 .. Len(s) : s[i] \in S
         /\ \A i, j \in 1 .. Len(s) : s[i] = s[j] => i = j
         /\ \A x \in S : \E i \in 1 .. Len(s) : s[i] = x
<1> DEFINE n == Cardinality(S)
<1>1. n \in Nat
  BY FS_CardinalityType
<1>2. s \in Injection(1 .. n, S)
  BY DEF InOrder, SetToSeqs, Injection, IsInjective
<1>3. s \in Surjection(1 .. n, S)
  <2>1. IsFiniteSet(1 .. n) /\ Cardinality(1 .. n) = n
    BY <1>1, FS_Interval
  <2> QED
    BY <1>1, <1>2, <2>1, FS_Injection
<1>4. s \in [1 .. n -> S] /\ IsSequence(s)
  BY <1>2, InOrderIsSequence DEF Injection
<1> HIDE DEF n
<1>5. Len(s) = n
  BY <1>1, <1>4 DEF IsSequence
<1>6. \A i, j \in 1 .. n : s[i] = s[j] => i = j
  BY <1>2 DEF Injection, IsInjective
<1>7. \A x \in S : \E i \in 1 .. n : s[i] = x
  BY <1>3 DEF Surjection
<1> QED
  BY <1>1, <1>4, <1>5, <1>6, <1>7

\* The sets a listing is made of are finite.
LEMMA ListingFinite ==
  ASSUME IsFiniteSet(bucket), NEW p
  PROVE  IsFiniteSet(DirectKeys(p)) /\ IsFiniteSet(Subdirectories(p))
<1>1. IsFiniteSet(DirectKeys(p)) /\ IsFiniteSet(Under(p) \ DirectKeys(p))
  BY FS_Subset DEF DirectKeys, Under
<1>. DEFINE cut(oid) == SubSeq(oid, 1, Len(p) + FirstSlash(Rest(oid, p)))
<1>. HIDE DEF cut
<1>2. IsFiniteSet({cut(oid) : oid \in Under(p) \ DirectKeys(p)})
  <2>. DEFINE f == [oid \in Under(p) \ DirectKeys(p) |-> cut(oid)]
              T == {cut(oid) : oid \in Under(p) \ DirectKeys(p)}
  <2>1. f \in Surjection(Under(p) \ DirectKeys(p), T)
    BY DEF Surjection
  <2>. QED
    BY <1>1, <2>1, FS_Surjection
<1>. QED
  BY <1>1, <1>2 DEF Subdirectories, cut

\* An id comes before any other that begins with it, so the directory's own
\* object is the first of the keys under it.
LEMMA DirectoryFirst ==
  ASSUME IsFiniteSet(bucket), bucket \subseteq Oid, dir \in bucket, EndsInSlash(dir),
         NEW c \in InOrder(DirectKeys(prefix(dir)))
  PROVE  c # <<>> /\ Head(c) = dir
<1>. DEFINE S == DirectKeys(prefix(dir))
            n == Cardinality(S)
<1>1. prefix(dir) = dir /\ dir \in Seq(Token)
  BY DEF prefix, Oid
<1>2. dir \in S
  <2>1. IsPrefix(dir, dir)
    BY <1>1, LenProperties DEF IsPrefix
  <2>2. Rest(dir, dir) = <<>>
    BY <1>1, LenProperties, SubSeqEmpty DEF Rest
  <2>3. ToSet(<<>>) = {}
    BY DEF ToSet
  <2>. QED
    BY <1>1, <2>1, <2>2, <2>3 DEF DirectKeys, Under
<1>3. IsFiniteSet(S) /\ n \in Nat
  BY ListingFinite, FS_CardinalityType
<1>4. PICK j \in 1 .. n : c[j] = dir
  <2>1. c \in Injection(1 .. n, S)
    BY DEF InOrder, SetToSeqs, Injection, IsInjective
  <2>2. IsFiniteSet(1 .. n) /\ Cardinality(1 .. n) = n
    BY <1>3, FS_Interval
  <2>3. c \in Surjection(1 .. n, S)
    BY <1>3, <2>1, <2>2, FS_Injection
  <2>. QED
    BY <1>2, <2>3 DEF Surjection
<1>5. /\ c \in [1 .. n -> S]
      /\ \A i, k \in 1 .. n : i < k => Before(c[i], c[k])
  BY DEF InOrder, SetToSeqs
<1>. HIDE DEF S, n
<1>6. IsSequence(c) /\ Len(c) = n
  BY <1>3, <1>5, InOrderIsSequence DEF S, n
<1>7. j = 1
  <2>. SUFFICES ASSUME 1 < j PROVE FALSE
    BY <1>3
  <2>. DEFINE a == c[1]
  <2>1. Before(a, dir)
    BY <1>3, <1>4, <1>5
  <2>2. a \in Seq(Token) /\ IsPrefix(dir, a)
    BY <1>1, <1>3, <1>4, <1>5 DEF S, DirectKeys, Under, Oid
  <2>. HIDE DEF a
  <2>3. Len(a) \in Nat /\ Len(dir) \in Nat /\ Len(dir) <= Len(a)
    BY <1>1, <2>2, LenProperties DEF IsPrefix
  <2>4. ASSUME NEW i \in DOMAIN dir PROVE a[i] = dir[i] /\ dir[i] \in Token
    <3>1. i \in 1 .. Len(dir)
      BY <1>1, <2>4
    <3>2. SubSeq(dir, 1, Len(dir))[i] = dir[i] /\ SubSeq(a, 1, Len(dir))[i] = a[i]
      BY <1>1, <2>2, <2>3, <3>1
    <3>. QED
      BY <1>1, <2>2, <3>1, <3>2 DEF IsPrefix
  <2>5. CASE IsStrictPrefix(a, dir)
    <3>1. Len(a) = Len(dir)
      BY <2>3, <2>5 DEF IsStrictPrefix, IsPrefix
    <3>. QED
      BY <1>1, <2>2, <2>3, <2>4, <2>5, <3>1, SeqEqual DEF IsStrictPrefix
  <2>6. ASSUME NEW i \in DOMAIN a \cap DOMAIN dir, Rank[a[i]] < Rank[dir[i]]
        PROVE  FALSE
    <3>1. Rank[dir[i]] \in Nat /\ a[i] = dir[i]
      BY <2>4, RankAssumption
    <3>. QED
      BY <2>6, <3>1
  <2>. QED
    BY <2>1, <2>5, <2>6 DEF Before
<1>. QED
  BY <1>3, <1>4, <1>6, <1>7, HeadTailProperties, EmptySeq DEF IsSequence

LEMMA NoSequence == IsSequence(<<>>) /\ Len(<<>>) = 0
BY EmptySeq DEF IsSequence

\* t holds the names of the ids m to n of s.
NamesPart(t, s, m, n, T) ==
  /\ t \in Seq(T)
  /\ Len(t) = n - m + 1
  /\ \A i \in 1 .. n - m + 1 : t[i] = basename(s[m + i - 1])

LEMMA NamesOfPart ==
  ASSUME NEW s, IsSequence(s), NEW m \in Nat \ {0}, NEW n \in Nat,
         n <= Len(s), m <= n + 1,
         NEW T, \A i \in 1 .. Len(s) : basename(s[i]) \in T
  PROVE  NamesPart(names(SubSeq(s, m, n)), s, m, n, T)
<1>. DEFINE part == SubSeq(s, m, n)
            k    == n - m + 1
<1>1. Len(s) \in Nat /\ DOMAIN s = 1 .. Len(s)
  BY LenProperties DEF IsSequence
<1>2. /\ part \in Seq(ToSet(s))
      /\ Len(part) = k
      /\ \A i \in 1 .. k : part[i] = s[m + i - 1]
  BY <1>1 DEF IsSequence
<1>3. k \in Nat /\ DOMAIN part = 1 .. k
  BY <1>2, LenProperties
<1>. HIDE DEF part, k
<1>4. names(part) = [i \in 1 .. k |-> basename(part[i])]
  BY <1>3 DEF names
<1>5. \A i \in 1 .. k : names(part)[i] = basename(s[m + i - 1])
  BY <1>2, <1>4
<1>6. \A i \in 1 .. k : basename(s[m + i - 1]) \in T
  <2>1. \A i \in 1 .. k : m + i - 1 \in 1 .. Len(s)
    BY <1>1 DEF k
  <2>. QED
    BY <2>1
<1>7. names(part) \in [1 .. k -> T]
  BY <1>4, <1>5, <1>6
<1>8. names(part) \in Seq(T)
  BY <1>3, <1>7, SeqDef
<1>9. Len(names(part)) = k
  BY <1>3, <1>4, <1>8
<1>. QED
  BY <1>5, <1>8, <1>9 DEF part, k, NamesPart

\* u is s and then t.
Concatenated(u, s, t, T) ==
  /\ u \in Seq(T)
  /\ Len(u) = Len(s) + Len(t)
  /\ \A i \in 1 .. Len(s) : u[i] = s[i]
  /\ \A i \in 1 .. Len(t) : u[Len(s) + i] = t[i]

LEMMA Concatenation ==
  ASSUME NEW T, NEW s \in Seq(T), NEW t \in Seq(T)
  PROVE  Concatenated(s \o t, s, t, T)
BY DEF Concatenated

\* What is left of a sequence C without its first element, with Q after it,
\* has the entries of the listing.
LEMMA EntriesOf ==
  ASSUME NEW C, NEW Q, IsSequence(C), IsSequence(Q), C # <<>>, NEW T,
         \A i \in 1 .. Len(C) : basename(C[i]) \in T,
         \A i \in 1 .. Len(Q) : basename(Q[i]) \in T
  PROVE  LET all == names(Tail(C)) \o names(Q)
         IN  /\ all \in Seq(T)
             /\ Len(all) = Len(C) + Len(Q) - 1
             /\ \A i \in 1 .. Len(all) : all[i] = EntryOf(C, Q, i)
<1>1. /\ Len(C) \in Nat \ {0} /\ Len(Q) \in Nat
      /\ Tail(C) = SubSeq(C, 2, Len(C))
      /\ SubSeq(Q, 1, Len(Q)) = Q
  BY EmptySeq, LenProperties, TailIsSubSeq, SubSeqFull DEF IsSequence
<1>. PICK lc, lq, nc, nq :
        /\ lc = Len(C) /\ lq = Len(Q)
        /\ nc = names(Tail(C)) /\ nq = names(Q)
  OBVIOUS
<1>2. lc \in Nat /\ lq \in Nat /\ lc > 0
  BY <1>1
<1>3. NamesPart(nc, C, 2, lc, T)
  <2>1. 2 \in Nat \ {0} /\ lc <= Len(C) /\ 2 <= lc + 1
    BY <1>2
  <2>2. NamesPart(names(SubSeq(C, 2, lc)), C, 2, lc, T)
    BY <1>2, <2>1, NamesOfPart, Zenon
  <2>. QED
    BY <1>1, <1>2, <2>2
<1>4. NamesPart(nq, Q, 1, lq, T)
  <2>1. 1 \in Nat \ {0} /\ lq <= Len(Q) /\ 1 <= lq + 1
    BY <1>2
  <2>2. NamesPart(names(SubSeq(Q, 1, lq)), Q, 1, lq, T)
    BY <1>2, <2>1, NamesOfPart, Zenon
  <2>. QED
    BY <1>1, <1>2, <2>2
<1>5. Concatenated(nc \o nq, nc, nq, T)
  <2>1. nc \in Seq(T) /\ nq \in Seq(T)
    BY <1>3, <1>4 DEF NamesPart
  <2>. QED
    BY <2>1, Concatenation, Zenon
<1>6. Len(nc) = lc - 1 /\ Len(nq) = lq
  BY <1>2, <1>3, <1>4 DEF NamesPart
<1>7. Len(nc \o nq) = lc + lq - 1
  <2>1. Len(nc \o nq) = Len(nc) + Len(nq)
    BY <1>5 DEF Concatenated
  <2>. QED
    BY <1>2, <1>6, <2>1
<1>8. ASSUME NEW i \in 1 .. lc + lq - 1 PROVE (nc \o nq)[i] = EntryOf(C, Q, i)
  <2>1. CASE i < lc
    <3>1. i \in 1 .. Len(nc) /\ i \in 1 .. lc - 2 + 1 /\ 2 + i - 1 = i + 1
      BY <1>2, <1>6, <2>1
    <3>2. (nc \o nq)[i] = nc[i] /\ nc[i] = basename(C[i + 1])
      BY <1>3, <1>5, <3>1 DEF Concatenated, NamesPart
    <3>. QED
      BY <1>2, <2>1, <3>2 DEF EntryOf
  <2>2. CASE ~(i < lc)
    <3>1. PICK j \in 1 .. lq : i = lc - 1 + j /\ j = i - lc + 1
      <4>1. i - lc + 1 \in 1 .. lq /\ i = lc - 1 + (i - lc + 1)
        BY <1>2, <2>2
      <4>. QED
        BY <4>1
    <3>2. (nc \o nq)[i] = nq[j]
      BY <1>2, <1>5, <1>6, <3>1 DEF Concatenated
    <3>3. nq[j] = basename(Q[j])
      <4>1. j \in 1 .. lq - 1 + 1 /\ 1 + j - 1 = j
        BY <1>2
      <4>. QED
        BY <1>4, <4>1 DEF NamesPart
    <3>. QED
      BY <1>2, <2>2, <3>1, <3>2, <3>3 DEF EntryOf
  <2>. QED
    BY <2>1, <2>2
<1>9. nc \o nq \in Seq(T)
  BY <1>5 DEF Concatenated
<1>. QED
  BY <1>2, <1>7, <1>8, <1>9

LEMMA EntriesOfAnswer ==
  ASSUME AnswerOK, OwnFirst
  PROVE  /\ Entries \in Seq(Basenames)
         /\ Len(Entries) = Len(answer.contents) + Len(answer.prefixes) - 1
         /\ \A i \in 1 .. Len(Entries) : Entries[i] = EntryAt(i)
         /\ Len(answer.contents) \in Nat \ {0} /\ Len(answer.prefixes) \in Nat
<1>. DEFINE C == answer.contents
            Q == answer.prefixes
<1>1. /\ IsSequence(C) /\ IsSequence(Q) /\ C # <<>>
      /\ \A i \in 1 .. Len(C) : basename(C[i]) \in Basenames
      /\ \A i \in 1 .. Len(Q) : basename(Q[i]) \in Basenames
  BY DEF AnswerOK, OwnFirst, Basenames
<1>2. Len(C) \in Nat \ {0} /\ Len(Q) \in Nat
  BY <1>1, EmptySeq, LenProperties DEF IsSequence
<1>3. Entries = names(Tail(C)) \o names(Q) /\ \A i : EntryAt(i) = EntryOf(C, Q, i)
  BY DEF Entries, EntryAt
<1>. HIDE DEF C, Q
<1>4. /\ Entries \in Seq(Basenames)
      /\ Len(Entries) = Len(C) + Len(Q) - 1
      /\ \A i \in 1 .. Len(Entries) : Entries[i] = EntryOf(C, Q, i)
  BY <1>1, <1>3, EntriesOf
<1>. QED
  BY <1>2, <1>3, <1>4 DEF C, Q

-----------------------------------------------------------------------------
\* s is the first n entries of a listing.
EntriesUpTo(s, C, Q, n, T) ==
  /\ s \in Seq(T)
  /\ Len(s) = n
  /\ \A i \in 1 .. n : s[i] = EntryOf(C, Q, i)

Batch(C, Q, hc, hp, c, p, k) ==
  names(SubSeq(C, hc + 1 + k, hc + c)) \o names(SubSeq(Q, hp + 1, hp + p))

\* s is the n entries of a listing from the place m on.
EntriesFrom(s, C, Q, m, n, T) ==
  /\ s \in Seq(T)
  /\ Len(s) = n
  /\ \A i \in 1 .. n : s[i] = EntryOf(C, Q, m + i - 1)

\* A batch of c keys and p common prefixes, the first k of them left out, has the
\* entries that follow those handed over before it.
LEMMA BatchEntries ==
  ASSUME NEW C, NEW Q, IsSequence(C), IsSequence(Q), NEW T,
         \A i \in 1 .. Len(C) : basename(C[i]) \in T,
         \A i \in 1 .. Len(Q) : basename(Q[i]) \in T,
         NEW hc \in Nat, NEW hp \in Nat, NEW c \in Nat, NEW p \in Nat,
         NEW k \in 0 .. 1,
         hc + c <= Len(C), hp + p <= Len(Q), k <= c,
         hp > 0 => c = 0, p > 0 => hc + c = Len(C)
  PROVE  EntriesFrom(Batch(C, Q, hc, hp, c, p, k), C, Q, hc + hp + k, c + p - k, T)
<1>. PICK new : new = Batch(C, Q, hc, hp, c, p, k)
  OBVIOUS
<1>. PICK lc, m, e, nc, nq :
        /\ lc = Len(C) /\ m = hc + 1 + k /\ e = hc + c
        /\ nc = names(SubSeq(C, m, e))
        /\ nq = names(SubSeq(Q, hp + 1, hp + p))
  OBVIOUS
<1>1. lc \in Nat /\ m \in Nat /\ e \in Nat
  BY LenProperties DEF IsSequence
<1>2. NamesPart(nc, C, m, e, T)
  <2>1. m \in Nat \ {0} /\ e <= Len(C) /\ m <= e + 1
    BY <1>1
  <2>2. NamesPart(names(SubSeq(C, m, e)), C, m, e, T)
    BY <1>1, <2>1, NamesOfPart, Zenon
  <2>. QED
    BY <1>1, <2>2
<1>3. NamesPart(nq, Q, hp + 1, hp + p, T)
  <2>1. hp + 1 \in Nat \ {0} /\ hp + p \in Nat /\ hp + 1 <= hp + p + 1
    OBVIOUS
  <2>2. NamesPart(names(SubSeq(Q, hp + 1, hp + p)), Q, hp + 1, hp + p, T)
    BY <2>1, NamesOfPart, Zenon
  <2>. QED
    BY <1>1, <2>2
<1>4. Concatenated(new, nc, nq, T)
  <2>1. nc \in Seq(T) /\ nq \in Seq(T)
    BY <1>2, <1>3 DEF NamesPart
  <2>2. Concatenated(nc \o nq, nc, nq, T)
    BY <2>1, Concatenation, Zenon
  <2>. QED
    BY <1>1, <2>2 DEF Batch
<1>5. Len(nc) = c - k /\ Len(nq) = p
  BY <1>1, <1>2, <1>3 DEF NamesPart
<1>6. Len(new) = c + p - k
  <2>1. Len(new) = Len(nc) + Len(nq)
    BY <1>4 DEF Concatenated
  <2>. QED
    BY <1>5, <2>1
<1>7. ASSUME NEW i \in 1 .. c + p - k
      PROVE  new[i] = EntryOf(C, Q, hc + hp + k + i - 1)
  <2>1. CASE i <= c - k
    <3>1. i \in 1 .. e - m + 1 /\ i \in 1 .. Len(nc) /\ hp = 0
      BY <1>1, <1>5, <2>1
    <3>2. new[i] = nc[i] /\ nc[i] = basename(C[m + i - 1])
      BY <1>2, <1>4, <3>1 DEF NamesPart, Concatenated
    <3>3. hc + hp + k + i - 1 < lc /\ m + i - 1 = hc + hp + k + i - 1 + 1
      BY <1>1, <2>1, <3>1
    <3>. QED
      BY <1>1, <3>2, <3>3 DEF EntryOf
  <2>2. CASE ~(i <= c - k)
    <3>1. PICK j \in 1 .. p : i = c - k + j
      <4>1. i - (c - k) \in 1 .. p /\ i = c - k + (i - (c - k))
        BY <2>2
      <4>. QED
        BY <4>1
    <3>2. lc = hc + c
      BY <1>1, <3>1
    <3>3. j \in 1 .. Len(nq) /\ j \in 1 .. (hp + p) - (hp + 1) + 1
      BY <1>5
    <3>4. new[c - k + j] = nq[j] /\ nq[j] = basename(Q[hp + 1 + j - 1])
      BY <1>3, <1>4, <1>5, <3>3 DEF NamesPart, Concatenated
    <3>5. /\ hp + 1 + j - 1 = hc + hp + k + i - 1 - lc + 1
          /\ ~(hc + hp + k + i - 1 < lc)
      BY <1>1, <3>1, <3>2
    <3>6. EntryOf(C, Q, hc + hp + k + i - 1) = basename(Q[hc + hp + k + i - 1 - lc + 1])
      <4>1. PICK x : x = hc + hp + k + i - 1
        OBVIOUS
      <4>2. ~(x < Len(C)) /\ Len(C) = lc
        BY <1>1, <3>5, <4>1
      <4>3. EntryOf(C, Q, x) = basename(Q[x - lc + 1])
        BY <4>2 DEF EntryOf
      <4>. QED
        BY <4>1, <4>3
    <3>. QED
      BY <3>1, <3>4, <3>5, <3>6, Zenon
  <2>. QED
    BY <2>1, <2>2
<1>. QED
  BY <1>4, <1>6, <1>7 DEF EntriesFrom, Concatenated

\* They continue the list of the first n entries.
LEMMA BatchContinues ==
  ASSUME NEW C, NEW Q, NEW T, NEW n \in Nat, NEW m \in Nat,
         NEW old, EntriesUpTo(old, C, Q, n, T),
         NEW new, EntriesFrom(new, C, Q, n + 1, m, T)
  PROVE  EntriesUpTo(old \o new, C, Q, n + m, T)
<1>1. Concatenated(old \o new, old, new, T)
  BY Concatenation, Zenon DEF EntriesUpTo, EntriesFrom
<1>2. old \o new \in Seq(T) /\ Len(old \o new) = n + m
  BY <1>1 DEF Concatenated, EntriesUpTo, EntriesFrom
<1>3. ASSUME NEW i \in 1 .. n + m PROVE (old \o new)[i] = EntryOf(C, Q, i)
  <2>1. CASE i <= n
    <3>1. i \in 1 .. n
      BY <2>1
    <3>. QED
      BY <1>1, <3>1 DEF Concatenated, EntriesUpTo
  <2>2. CASE ~(i <= n)
    <3>1. PICK j \in 1 .. m : i = n + j
      <4>1. i - n \in 1 .. m /\ i = n + (i - n)
        BY <2>2
      <4>. QED
        BY <4>1
    <3>2. (old \o new)[n + j] = new[j] /\ new[j] = EntryOf(C, Q, n + 1 + j - 1)
      BY <1>1, <3>1, Zenon DEF Concatenated, EntriesUpTo, EntriesFrom
    <3>3. n + 1 + j - 1 = i
      BY <3>1
    <3>. QED
      BY <3>1, <3>2, <3>3, Zenon
  <2>. QED
    BY <2>1, <2>2
<1>. QED
  BY <1>2, <1>3 DEF EntriesUpTo

\* Whatever the array has kept, they come after it in the answer.
LEMMA BatchPicks ==
  ASSUME NEW C, NEW Q, NEW T, NEW n \in Nat, NEW m \in Nat, NEW h \in Nat, NEW k \in Nat,
         NEW old \in Seq(T), n <= Len(old), NEW g, PlacedAt(g, old, C, Q, h),
         NEW new, EntriesFrom(new, C, Q, h + k, m, T)
  PROVE  LET all == SubSeq(old, 1, n) \o new
         IN  all \in Seq(T) /\ Len(all) = n + m /\ \E f : PlacedAt(f, all, C, Q, h + k + m)
<1>. DEFINE part == SubSeq(old, 1, n)
            all  == part \o new
            f    == [i \in 1 .. n + m |-> IF i <= n THEN g[i] ELSE h + k + (i - n) - 1]
<1>1. part \in Seq(T) /\ Len(part) = n /\ \A i \in 1 .. n : part[i] = old[i]
  OBVIOUS
<1>. HIDE DEF part
<1>2. Concatenated(all, part, new, T)
  BY <1>1, Concatenation, Zenon DEF EntriesFrom
<1>. HIDE DEF all
<1>3. all \in Seq(T) /\ Len(all) = n + m
  BY <1>1, <1>2 DEF Concatenated, EntriesFrom
<1>4. ASSUME NEW i \in 1 .. n PROVE i \in 1 .. Len(old) /\ g[i] \in 0 .. h - 1 /\ f[i] = g[i]
  <2>1. i \in 1 .. Len(old) /\ i \in 1 .. n + m
    BY LenProperties
  <2>. QED
    BY <2>1 DEF PlacedAt
<1>5. \A i \in 1 .. m : n + i \in 1 .. n + m /\ f[n + i] = h + k + i - 1
  OBVIOUS
<1>6. \A i \in 1 .. n + m : i \in 1 .. n \/ \E j \in 1 .. m : i = n + j
  <2>1. ASSUME NEW i \in 1 .. n + m, i \notin 1 .. n PROVE i - n \in 1 .. m /\ i = n + (i - n)
    BY <2>1
  <2>. QED
    BY <2>1
<1>7. f \in [1 .. n + m -> 0 .. h + k + m - 1]
  <2>1. ASSUME NEW i \in 1 .. n + m PROVE f[i] \in 0 .. h + k + m - 1
    <3>1. CASE i \in 1 .. n
      <4>1. f[i] = g[i] /\ g[i] \in 0 .. h - 1
        BY <1>4, <3>1
      <4>2. g[i] \in 0 .. h + k + m - 1
        BY <4>1
      <4>. QED
        BY <4>1, <4>2
    <3>2. CASE i \notin 1 .. n
      BY <3>2
    <3>. QED
      BY <3>1, <3>2
  <2>. QED
    BY <2>1
<1>8. ASSUME NEW i \in 1 .. n + m, NEW j \in 1 .. n + m, i < j PROVE f[i] < f[j]
  <2>1. CASE j \in 1 .. n
    BY <1>4, <1>8, <2>1 DEF PlacedAt
  <2>2. CASE i \in 1 .. n /\ j \notin 1 .. n
    <3>1. f[i] \in 0 .. h - 1
      BY <1>4, <2>2
    <3>2. f[j] = h + k + (j - n) - 1 /\ j - n \in 1 .. m
      BY <2>2
    <3>. QED
      BY <3>1, <3>2
  <2>3. CASE i \notin 1 .. n /\ j \notin 1 .. n
    BY <1>8, <2>3
  <2>. QED
    BY <1>8, <2>1, <2>2, <2>3
<1>9. ASSUME NEW i \in 1 .. n + m PROVE all[i] = EntryOf(C, Q, f[i])
  <2>1. CASE i \in 1 .. n
    BY <1>1, <1>2, <1>4, <2>1 DEF Concatenated, PlacedAt
  <2>2. ASSUME NEW j \in 1 .. m, i = n + j PROVE all[i] = EntryOf(C, Q, f[i])
    <3>1. all[n + j] = new[j] /\ new[j] = EntryOf(C, Q, h + k + j - 1)
      BY <1>1, <1>2 DEF Concatenated, EntriesFrom
    <3>. QED
      BY <1>5, <2>2, <3>1, Zenon
  <2>. QED
    BY <1>6, <2>1, <2>2
<1>. HIDE DEF f
<1>10. PlacedAt(f, all, C, Q, h + k + m)
  BY <1>3, <1>7, <1>8, <1>9 DEF PlacedAt
<1>. QED
  BY <1>3, <1>10 DEF all, part

LEMMA BatchInv ==
  ASSUME ReadInv, listBucketCallback
  PROVE  ReadInv'
<1>. DEFINE C  == answer.contents
            Q  == answer.prefixes
<1>1. /\ pc = "parse" /\ ~AllHanded /\ AnswerOK /\ passed = <<>> /\ Picked
      /\ UNCHANGED <<bucket, dir, answer, arrived, passed, eof>>
  BY DEF listBucketCallback, ReadInv
<1>2. PICK lc, lq, ac, ap, hc, hp, c, p :
        /\ lc = Len(C) /\ lq = Len(Q)
        /\ ac = arrived.contents /\ ap = arrived.prefixes
        /\ hc = handed.contents /\ hp = handed.prefixes
        /\ c = BatchContents /\ p = BatchPrefixes
  OBVIOUS
<1>3. /\ lc \in Nat /\ lq \in Nat
      /\ ac \in 0 .. lc /\ ap \in 0 .. lq
      /\ hc \in 0 .. ac /\ hp \in 0 .. ap
      /\ ap > 0 => ac = lc
      /\ hp > 0 => hc = ac
      /\ ~(hc = ac /\ hp = ap)
  <2>1. ~(hc = ac /\ hp = ap)
    BY <1>1, <1>2 DEF AllHanded
  <2>. QED
    BY <1>1, <1>2, <2>1, LenProperties DEF AnswerOK, IsSequence
<1>4. /\ c \in Nat /\ hc + c <= ac
      /\ p \in Nat /\ hp + p <= ap
      /\ p > 0 => hc + c = ac
      /\ hc < ac => c > 0
      /\ c + p > 0
      /\ c = 1 => hc + 1 = ac /\ (p = 0 => hp = ap)
  <2>1. /\ c = Least(MaxContents, ac - hc)
        /\ p = IF c = MaxContents THEN 0 ELSE Least(MaxPrefixes, ap - hp)
    BY <1>2 DEF BatchContents, BatchPrefixes
  <2>. QED
    BY <1>3, <2>1, BufferAssumption DEF Least
<1>5. /\ handed'.contents = hc + c /\ handed'.prefixes = hp + p
      /\ pc' \in {"parse", "undefined"}
  BY <1>1, <1>2 DEF listBucketCallback
<1>6. AnswerOK'
  <2>1. bucket' = bucket /\ answer' = answer /\ arrived' = arrived /\ dir' = dir
    BY <1>1
  <2>2. /\ handed'.contents \in 0 .. ac /\ handed'.prefixes \in 0 .. ap
        /\ handed'.prefixes > 0 => handed'.contents = ac
    BY <1>3, <1>4, <1>5
  <2>. QED
    BY <1>1, <1>2, <2>1, <2>2 DEF AnswerOK
<1>7. PICK n \in Nat, s \in 0 .. 1 :
        /\ n = object_count /\ s = start_index
        /\ s = IF n = 0 THEN 1 ELSE 0
  BY <1>1 DEF Picked, start_index
\* A batch without keys has none to leave out.
<1>8. PICK k \in 0 .. 1 : k = (IF c > 0 THEN s ELSE 0)
  OBVIOUS
<1>9. PICK new : new = Batch(C, Q, hc, hp, c, p, k)
  OBVIOUS
<1>10. EntriesFrom(new, C, Q, hc + hp + k, c + p - k, Basenames)
  <2>1. /\ \A i \in 1 .. Len(C) : basename(C[i]) \in Basenames
        /\ \A i \in 1 .. Len(Q) : basename(Q[i]) \in Basenames
        /\ IsSequence(C) /\ IsSequence(Q)
    BY <1>1 DEF Basenames, AnswerOK
  <2>2. /\ hc \in Nat /\ hp \in Nat /\ c \in Nat /\ p \in Nat
        /\ hc + c <= Len(C) /\ hp + p <= Len(Q) /\ k <= c
        /\ hp > 0 => c = 0
        /\ p > 0 => hc + c = Len(C)
    BY <1>2, <1>3, <1>4, <1>8
  <2>3. EntriesFrom(Batch(C, Q, hc, hp, c, p, k), C, Q, hc + hp + k, c + p - k, Basenames)
    BY <2>1, <2>2, BatchEntries, Zenon
  <2>. QED
    BY <1>9, <2>3
<1>11. new = names(SubSeq(C, hc + 1 + s, hc + c)) \o names(SubSeq(Q, hp + 1, hp + p))
  <2>1. CASE c > 0
    BY <1>8, <1>9, <2>1 DEF Batch
  <2>2. CASE c = 0
    <3>1. hc + 1 + s > hc + c /\ hc + 1 + k > hc + c /\ hc + 1 + s \in Int /\ hc + 1 + k \in Int /\ hc + c \in Int
      BY <1>3, <1>8, <2>2
    <3>2. SubSeq(C, hc + 1 + s, hc + c) = <<>> /\ SubSeq(C, hc + 1 + k, hc + c) = <<>>
      BY <3>1, SubSeqEmpty
    <3>. QED
      BY <1>9, <3>2 DEF Batch
  <2>. QED
    BY <1>4, <2>1, <2>2
<1>12. /\ n + Len(new) > Capacity => pc' = "undefined"
       /\ ~(n + Len(new) > Capacity) =>
            /\ pc' = "parse"
            /\ objects' = SubSeq(objects, 1, n) \o new
            /\ object_count' = n + c + p - s
  BY <1>1, <1>2, <1>7, <1>11 DEF listBucketCallback
<1>13. Basenames' = Basenames /\ (\A i : EntryAt(i)' = EntryOf(C, Q, i))
  BY <1>1 DEF Basenames, EntryAt
<1>14. ASSUME pc' = "parse" PROVE Picked' /\ Given'
  <2>1. objects' = SubSeq(objects, 1, n) \o new /\ object_count' = n + c + p - s
    BY <1>12, <1>14
  <2>2. PICK g : PlacedAt(g, objects, C, Q, hc + hp)
    BY <1>1, <1>2 DEF Picked
  <2>3. objects \in Seq(Basenames) /\ n <= Len(objects)
    BY <1>1, <1>7 DEF Picked
  <2>4. /\ objects' \in Seq(Basenames) /\ Len(objects') = n + (c + p - k)
        /\ \E f : PlacedAt(f, objects', C, Q, hc + hp + k + (c + p - k))
    <3>1. hc + hp \in Nat /\ k \in Nat /\ c + p - k \in Nat /\ n \in Nat
      BY <1>3, <1>4, <1>8
    <3>2. LET all == SubSeq(objects, 1, n) \o new
          IN  /\ all \in Seq(Basenames) /\ Len(all) = n + (c + p - k)
              /\ \E f : PlacedAt(f, all, C, Q, hc + hp + k + (c + p - k))
      BY <1>10, <2>2, <2>3, <3>1, BatchPicks, Zenon
    <3>. QED
      BY <2>1, <3>2, Zenon
  <2>5. hc + hp + k + (c + p - k) = hc + c + (hp + p)
    BY <1>3, <1>4
  <2>6. object_count' \in 0 .. Len(objects')
    <3>1. Len(objects') = n + (c + p - k) /\ object_count' = n + c + p - s
      BY <2>1, <2>4
    <3>. QED
      BY <1>4, <1>7, <1>8, <3>1
  <2>7. \E f : PlacedAt(f, objects', C, Q, hc + c + (hp + p))
    BY <2>4, <2>5
  <2>8. Picked'
    BY <1>1, <1>5, <1>13, <2>4, <2>6, <2>7 DEF Picked
  <2>9. passed' \in Seq(Basenames') /\ Len(passed') = 0
    BY <1>1, EmptySeq
  <2>. QED
    BY <2>6, <2>8, <2>9 DEF Given
<1>15. ASSUME OwnFirst
       PROVE  /\ pc' = "undefined" => lc + lq - 1 > Capacity
              /\ pc' = "parse" => Written'
  <2>1. Written /\ lc > 0
    BY <1>1, <1>2, <1>3, <1>15, EmptySeq DEF ReadInv, OwnFirst, AnswerOK, IsSequence
  <2>2. n + 1 = hc + hp + s /\ (s = 1 => hc = 0)
    <3>1. CASE hc = 0
      BY <1>2, <1>3, <1>7, <2>1, <3>1 DEF Written
    <3>2. CASE hc > 0
      <4>1. ~(hc = 1 /\ hp = 0)
        BY <1>1, <1>2, <2>1 DEF Written
      <4>2. n = hc + hp - 1
        BY <1>2, <1>3, <1>7, <2>1, <3>2 DEF Written
      <4>3. hc + hp - 1 \in Nat /\ hc + hp - 1 # 0
        BY <1>3, <3>2, <4>1
      <4>4. s = 0
        BY <1>7, <4>2, <4>3
      <4>. QED
        BY <1>3, <4>2, <4>4
    <3>. QED
      BY <1>3, <3>1, <3>2
  <2>3. s = k /\ hc + c > 0
    BY <1>3, <1>4, <1>8, <2>1, <2>2
  <2>4. EntriesUpTo(objects, C, Q, n, Basenames)
    BY <1>7, <2>1 DEF Written, EntriesUpTo, EntryAt
  <2>5. EntriesUpTo(objects \o new, C, Q, hc + c + hp + p - 1, Basenames)
    <3>1. EntriesFrom(new, C, Q, n + 1, c + p - k, Basenames)
      BY <1>10, <2>2, <2>3
    <3>2. c + p - k \in Nat /\ n + (c + p - k) = hc + c + hp + p - 1
      BY <1>3, <1>4, <1>8, <2>2, <2>3
    <3>3. EntriesUpTo(objects \o new, C, Q, n + (c + p - k), Basenames)
      BY <2>4, <3>1, <3>2, BatchContinues, Zenon
    <3>. QED
      BY <3>2, <3>3
  <2>6. ~(hc = 1 /\ hp = 0)
    BY <1>2, <1>3, <2>1 DEF Written, AllHanded
  <2>7. CASE n + Len(new) > Capacity
    <3>1. pc' = "undefined"
      BY <1>12, <2>7
    <3>2. Len(new) = c + p - k
      BY <1>10 DEF EntriesFrom
    <3>3. n + (c + p - k) > Capacity
      BY <2>7, <3>2
    <3>4. lc + lq - 1 > Capacity
      BY <1>3, <1>4, <2>2, <2>3, <3>3, CapacityAssumption
    <3>. QED
      BY <3>1, <3>4
  <2>8. CASE ~(n + Len(new) > Capacity)
    <3>1. objects' = objects \o new /\ pc' = "parse"
      BY <1>12, <2>4, <2>8, SubSeqFull DEF EntriesUpTo
    <3>2. object_count' = hc + c + hp + p - 1
      BY <1>3, <1>4, <1>12, <2>2, <2>8
    <3>3. hc + c = 1 /\ hp + p = 0 => AllHanded'
      <4>. HAVE hc + c = 1 /\ hp + p = 0
      <4>1. hc + c = ac /\ hp + p = ap
        BY <1>3, <1>4, <2>6
      <4>. QED
        BY <1>1, <1>2, <1>5, <4>1 DEF AllHanded
    <3>4. Written'
      BY <1>3, <1>4, <1>5, <1>13, <2>3, <2>5, <3>1, <3>2, <3>3 DEF Written, EntriesUpTo
    <3>. QED
      BY <3>1, <3>4
  <2>. QED
    BY <2>7, <2>8
<1>16. (OwnFirst' <=> OwnFirst) /\ (Listed' <=> Listed)
  BY <1>1 DEF OwnFirst, Listed
<1>. QED
  BY <1>1, <1>2, <1>5, <1>6, <1>14, <1>15, <1>16 DEF ReadInv

\* The loop takes the next entry of the array.
LEMMA CallbackInv ==
  ASSUME ReadInv, Callback
  PROVE  ReadInv'
<1>1. pc = "loop" /\ UNCHANGED <<bucket, pc, dir, answer, arrived, handed, objects, object_count>>
  BY DEF Callback
<1>2. Given'
  <2>1. /\ Picked /\ Given /\ Len(passed) < object_count
        /\ passed' = Append(passed, objects[Len(passed) + 1])
    BY <1>1 DEF ReadInv, Callback
  <2>2. Len(passed) \in Nat /\ Len(objects) \in Nat /\ objects[Len(passed) + 1] \in Basenames
    BY <2>1 DEF Picked, Given
  <2>3. /\ passed' \in Seq(Basenames)
        /\ Len(passed') = Len(passed) + 1
        /\ \A i \in 1 .. Len(passed') : passed'[i] = objects[i]
    BY <2>1, <2>2 DEF Given
  <2>4. object_count \in Int
    BY <2>1, <2>2 DEF Picked
  <2>. QED
    BY <1>1, <2>1, <2>2, <2>3, <2>4 DEF Given, Basenames
<1>. QED
  BY <1>1, <1>2 DEF ReadInv, AnswerOK, OwnFirst, Listed, Picked, Written, Basenames, EntryAt, AllHanded

LEMMA ReadDirentsInvariant == Spec => []ReadInv
<1>. USE DEF Empty, None
<1>1. Init => ReadInv
  <2>. SUFFICES ASSUME Init PROVE ReadInv
    OBVIOUS
  <2>1. ROOTOID \in Oid
    BY DEF ROOTOID, Oid, Token
  <2>2. bucket = {ROOTOID} /\ IsFiniteSet(bucket)
    BY FS_Singleton DEF Init
  <2>3. ToSet(<<>>) = {}
    BY DEF ToSet
  <2>. QED
    BY <2>1, <2>2, <2>3, NoSequence DEF Init, ReadInv, AnswerOK, OwnFirst, Listed
<1>2. ReadInv /\ [Next]_vars => ReadInv'
  <2>. SUFFICES ASSUME ReadInv, [Next]_vars PROVE ReadInv'
    OBVIOUS
  <2>. USE DEF ReadInv, OwnFirst, Listed
  <2>1. ASSUME NEW oid \in Directories, ReadDir(oid) PROVE ReadInv'
    <3>1. ToSet(<<>>) = {}
      BY DEF ToSet
    <3>2. oid \in Oid
      BY DirectoriesAssumption
    <3>. QED
      BY <2>1, <3>1, <3>2, NoSequence DEF ReadDir, AnswerOK
  <2>2. CASE ListBucket
    <3>1. ASSUME NEW c \in InOrder(DirectKeys(prefix(dir))),
                 NEW p \in InOrder(Subdirectories(prefix(dir))),
                 NEW m \in 0 .. Len(c), NEW n \in 0 .. Len(p),
                 answer' = [contents |-> c, prefixes |-> p],
                 arrived' = [contents |-> m, prefixes |-> n],
                 n > 0 => m = Len(c)
          PROVE  ReadInv'
      <4>1. IsSequence(c) /\ IsSequence(p)
        BY InOrderIsSequence, ListingFinite DEF AnswerOK
      <4>2. Len(c) \in Nat /\ Len(p) \in Nat
        BY <4>1, LenProperties DEF IsSequence
      <4>3. /\ pc = "request" /\ pc' = "parse" /\ handed = None /\ objects = <<>> /\ object_count = 0 /\ passed = <<>>
            /\ UNCHANGED <<bucket, dir, handed, objects, object_count, passed>>
        BY <2>2 DEF ListBucket
      <4>4. AnswerOK'
        BY <3>1, <4>1, <4>2, <4>3 DEF AnswerOK
      <4>5. <<>> \in Seq(Basenames') /\ Len(<<>>) = 0
        BY EmptySeq
      <4>6. Listed' => OwnFirst'
        <5>. HAVE Listed'
        <5>1. dir \in bucket /\ EndsInSlash(dir)
          <6>1. dir \in ToSet(c) /\ EndsInSlash(dir)
            BY <3>1, <4>3
          <6>2. IsFiniteSet(DirectKeys(prefix(dir)))
            BY ListingFinite DEF AnswerOK
          <6>3. dir \in DirectKeys(prefix(dir))
            BY <4>1, <6>1, <6>2, InOrderOnce DEF ToSet, IsSequence
          <6>. QED
            BY <6>1, <6>3 DEF DirectKeys, Under
        <5>2. c # <<>> /\ Head(c) = dir
          BY <5>1, DirectoryFirst DEF AnswerOK
        <5>. QED
          BY <3>1, <4>3, <5>2
      <4>7. Picked' /\ Given'
        <5>1. PlacedAt(<<>>, <<>>, c, p, 0)
          BY <4>5 DEF PlacedAt
        <5>. QED
          BY <3>1, <4>3, <4>5, <5>1 DEF Picked, Given
      <4>. QED
        BY <3>1, <4>3, <4>4, <4>5, <4>6, <4>7 DEF Written
    <3>. QED
      BY <2>2, <3>1 DEF ListBucket
  <2>3. CASE listBucketCallback
    BY <2>3, BatchInv
  <2>4. CASE ListComplete \/ Return \/ UNCHANGED vars
    BY <2>4 DEF ListComplete, Return, vars, AnswerOK, Picked, Written, Given, Basenames, EntryAt, AllHanded
  <2>5. CASE Callback
    BY <2>5, CallbackInv
  <2>6. ASSUME NEW oid \in Keys, Put(oid) PROVE ReadInv'
    <3>1. IsFiniteSet(bucket') /\ bucket' \subseteq Oid
      BY <2>6, FS_AddElement, KeysAssumption DEF Put, AnswerOK
    <3>. QED
      BY <2>6, <3>1 DEF Put, AnswerOK, Picked, Written, Given, Basenames, EntryAt, AllHanded
  <2>7. CASE Restart
    BY <2>7 DEF Restart, AnswerOK
  <2>. QED
    BY <2>1, <2>2, <2>3, <2>4, <2>5, <2>6, <2>7 DEF Next
<1>. QED
  BY <1>1, <1>2, PTL DEF Spec

\* A reader of a directory is given its entries in order, none left out and
\* none repeated, over any number of batches.
THEOREM DirectoriesAreListed == Spec => []ListsDirectory
<1>1. ReadInv => ListsDirectory
  <2>. SUFFICES ASSUME ReadInv, Listed, OwnFirst, pc \in {"loop", "returned"}
                PROVE  /\ IsPrefix(passed, Entries)
                       /\ Arrived /\ Len(passed) = object_count => passed = Entries
    BY DEF ListsDirectory, ReadInv
  <2>1. AnswerOK /\ Written /\ Given
    BY DEF ReadInv
  <2>2. PICK lc, lq : lc = Len(answer.contents) /\ lq = Len(answer.prefixes)
    OBVIOUS
  <2>3. /\ Entries \in Seq(Basenames)
        /\ Len(Entries) = lc + lq - 1
        /\ \A i \in 1 .. Len(Entries) : Entries[i] = EntryAt(i)
        /\ lc \in Nat \ {0} /\ lq \in Nat
    BY <2>1, <2>2, EntriesOfAnswer
  <2>4. /\ Len(passed) \in Nat /\ Len(passed) <= Len(Entries)
        /\ Arrived /\ Len(passed) = object_count => Len(passed) = Len(Entries)
    <3>1. Len(passed) \in Nat /\ Len(passed) <= object_count
      BY <2>1, LenProperties DEF Given
    <3>2. PICK hc \in 0 .. lc, hp \in 0 .. lq :
            /\ hc = handed.contents /\ hp = handed.prefixes
      BY <2>1, <2>2 DEF AnswerOK
    <3>3. object_count = IF hc = 0 THEN 0 ELSE hc + hp - 1
      BY <2>1, <3>2 DEF Written
    <3>4. Arrived => hc = lc /\ hp = lq
      BY <2>2, <3>2 DEF ReadInv, AllHanded, Arrived
    <3>. QED
      BY <2>3, <3>1, <3>3, <3>4
  <2>5. \A i \in 1 .. Len(passed) : passed[i] = Entries[i]
    <3>1. object_count \in Nat
      BY <2>1, LenProperties DEF Written
    <3>. QED
      BY <2>1, <2>3, <2>4, <3>1 DEF Written, Given
  <2>6. IsPrefix(passed, Entries)
    <3>1. /\ SubSeq(passed, 1, Len(passed)) \in Seq(Basenames)
          /\ SubSeq(Entries, 1, Len(passed)) \in Seq(Basenames)
          /\ Len(SubSeq(passed, 1, Len(passed))) = Len(passed)
          /\ Len(SubSeq(Entries, 1, Len(passed))) = Len(passed)
          /\ \A i \in 1 .. Len(passed) :
               SubSeq(passed, 1, Len(passed))[i] = SubSeq(Entries, 1, Len(passed))[i]
      BY <2>1, <2>3, <2>4, <2>5 DEF Given
    <3>2. SubSeq(passed, 1, Len(passed)) = SubSeq(Entries, 1, Len(passed))
      BY <3>1, SeqEqual
    <3>. QED
      BY <2>4, <3>2 DEF IsPrefix
  <2>7. ASSUME Arrived, Len(passed) = object_count
        PROVE  passed = Entries
    BY <2>1, <2>3, <2>4, <2>5, <2>7, SeqEqual DEF Given
  <2>. QED
    BY <2>6, <2>7
<1>. QED
  BY <1>1, ReadDirentsInvariant, PTL

\* The array overflows only for a directory with more entries than it holds.
THEOREM OverflowNeedsEntries == Spec => []OverflowsOnlyIfFull
<1>1. ReadInv => OverflowsOnlyIfFull
  BY EntriesOfAnswer DEF ReadInv, OverflowsOnlyIfFull
<1>. QED
  BY <1>1, ReadDirentsInvariant, PTL

-----------------------------------------------------------------------------
(***************************************************************************)
(* The entries are names of what is in the directory.                      *)
(***************************************************************************)
NoSlash(s) == \A i \in 1 .. Len(s) : s[i] # Slash

LEMMA LeastNatural ==
  ASSUME NEW S, S \subseteq Nat, S # {} PROVE \E x \in S : \A y \in S : x <= y
<1> DEFINE R == OpToRel(<, Nat)
<1>1. IsWellFoundedOn(R, Nat)
  BY NatLessThanWellFounded
<1>2. \A x, y \in Nat : y < x => <<y, x>> \in R
  BY DEF OpToRel
<1> HIDE DEF R
<1>3. PICK x \in S : \A y \in S : ~(<<y, x>> \in R)
  BY <1>1, WFMin
<1>4. ASSUME NEW y \in S PROVE x <= y
  <2>1. x \in Nat /\ y \in Nat /\ ~(<<y, x>> \in R)
    BY <1>3
  <2>2. ~(y < x)
    BY <1>2, <2>1
  <2> QED
    BY <2>1, <2>2
<1> QED
  BY <1>4

LEMMA LastIs ==
  ASSUME NEW S \in SUBSET Int, NEW m \in S, \A y \in S : m >= y PROVE Max(S) = m
<1>1. \E x \in S : \A y \in S : x >= y
  OBVIOUS
<1> DEFINE x == Max(S)
<1>2. x \in S /\ \A y \in S : x >= y
  BY <1>1, Zenon DEF Max
<1> HIDE DEF x
<1>3. x = m
  BY <1>2
<1> QED
  BY <1>3 DEF x

\* In a directory's id and a text without slashes the last slash is the id's own.
LEMMA BasenameOfText ==
  ASSUME NEW d \in Oid, EndsInSlash(d), NEW r \in Oid, NoSlash(r), NEW oid,
         (IF EndsInSlash(oid) THEN Front(oid) ELSE oid) = d \o r
  PROVE  basename(oid) = r
<1> DEFINE text == d \o r
           I    == {i \in 1 .. Len(text) : text[i] = Slash}
<1>1. /\ Len(d) \in Nat /\ Len(r) \in Nat /\ Len(d) > 0 /\ d[Len(d)] = Slash
      /\ Len(text) = Len(d) + Len(r)
      /\ \A i \in 1 .. Len(d) : text[i] = d[i]
      /\ \A i \in 1 .. Len(r) : text[Len(d) + i] = r[i]
  BY DEF Oid, EndsInSlash
<1>2. text \in Seq(Token) /\ SubSeq(text, Len(d) + 1, Len(text)) = r
  BY <1>1 DEF Oid
<1> HIDE DEF text
<1>3. Len(d) \in I
  BY <1>1
<1>4. ASSUME NEW i \in I PROVE Len(d) >= i
  <2> SUFFICES ASSUME i > Len(d) PROVE FALSE
    BY <1>1
  <2>1. i - Len(d) \in 1 .. Len(r) /\ i = Len(d) + (i - Len(d))
    BY <1>1, <1>4
  <2> QED
    BY <1>1, <1>4, <2>1 DEF NoSlash
<1>5. I \in SUBSET Int
  BY <1>1
<1>6. SelectLastInSeq(text, LAMBDA token : token = Slash) = IF I # {} THEN Max(I) ELSE 0
  BY DEF SelectLastInSeq
<1> HIDE DEF I
<1>7. Max(I) = Len(d)
  BY <1>3, <1>4, <1>5, LastIs
<1>8. SelectLastInSeq(text, LAMBDA token : token = Slash) = Len(d)
  BY <1>3, <1>6, <1>7
<1> QED
  BY <1>2, <1>8 DEF basename, text

\* An id under another is that one and the rest.
LEMMA RestOf ==
  ASSUME NEW d \in Oid, NEW oid \in Oid, IsPrefix(d, oid)
  PROVE  Rest(oid, d) \in Oid /\ oid = d \o Rest(oid, d) /\ Len(oid) = Len(d) + Len(Rest(oid, d))
<1>1. Len(d) \in Nat /\ Len(oid) \in Nat /\ Len(d) <= Len(oid)
  BY DEF Oid, IsPrefix
<1>2. Rest(oid, d) \in Oid /\ Len(Rest(oid, d)) = Len(oid) - Len(d)
  BY <1>1 DEF Rest, Oid
<1>3. \A i \in 1 .. Len(oid) - Len(d) : Rest(oid, d)[i] = oid[Len(d) + i]
  BY <1>1 DEF Rest, Oid
<1>4. \A i \in 1 .. Len(d) : d[i] = oid[i]
  <2>1. SubSeq(d, 1, Len(d)) = SubSeq(oid, 1, Len(d))
    BY DEF IsPrefix
  <2> QED
    BY <1>1, <2>1 DEF Oid
<1> DEFINE r == Rest(oid, d)
<1> HIDE DEF r
<1>5. r \in Seq(Token) /\ Len(r) = Len(oid) - Len(d) /\ \A i \in 1 .. Len(oid) - Len(d) : r[i] = oid[Len(d) + i]
  BY <1>2, <1>3 DEF r, Oid
<1>6. d \o r \in Seq(Token) /\ Len(d \o r) = Len(oid)
  BY <1>1, <1>5 DEF Oid
<1>7. ASSUME NEW i \in 1 .. Len(oid) PROVE (d \o r)[i] = oid[i]
  <2>1. CASE i <= Len(d)
    BY <1>1, <1>4, <1>5, <2>1 DEF Oid
  <2>2. CASE i > Len(d)
    <3>1. i - Len(d) \in 1 .. Len(r) /\ i = Len(d) + (i - Len(d))
      BY <1>1, <1>5, <2>2
    <3>2. (d \o r)[i] = r[i - Len(d)]
      BY <1>1, <1>5, <2>2 DEF Oid
    <3> QED
      BY <1>5, <3>1, <3>2
  <2>3. i \in Int /\ (i <= Len(d) \/ i > Len(d))
    BY <1>1
  <2> QED
    BY <2>1, <2>2, <2>3
<1>8. oid = d \o r
  BY <1>6, <1>7, SeqEqual DEF Oid
<1> QED
  BY <1>1, <1>2, <1>8 DEF r

LEMMA FileEntry ==
  ASSUME NEW d \in Oid, EndsInSlash(d), bucket \subseteq Oid, NEW oid \in DirectKeys(d), oid # d
  PROVE  file_key(d, basename(oid)) = oid
<1> DEFINE r == Rest(oid, d)
<1>1. oid \in Oid /\ IsPrefix(d, oid) /\ Slash \notin ToSet(r)
  BY DEF DirectKeys, Under
<1>2. r \in Oid /\ oid = d \o r /\ Len(oid) = Len(d) + Len(r)
  BY <1>1, RestOf
<1> HIDE DEF r
<1>3. NoSlash(r)
  BY <1>1, <1>2 DEF ToSet, NoSlash, Oid
<1>4. Len(r) \in Nat \ {0} /\ Len(d) \in Nat
  <2>1. r # <<>>
    <3> SUFFICES ASSUME r = <<>> PROVE FALSE
      OBVIOUS
    <3> QED
      BY <1>2, ConcatEmptySeq DEF Oid
  <2> QED
    BY <1>2, <2>1, EmptySeq DEF Oid
<1>5. ~EndsInSlash(oid)
  <2>1. (d \o r)[Len(d) + Len(r)] = r[Len(r)]
    BY <1>2, <1>4 DEF Oid
  <2> QED
    BY <1>2, <1>3, <1>4, <2>1 DEF EndsInSlash, NoSlash
<1>6. basename(oid) = r
  BY <1>2, <1>3, <1>5, BasenameOfText
<1> QED
  BY <1>2, <1>6 DEF file_key

\* What a listing with prefix d has of an object in a directory of it.
Cut(oid, d) == SubSeq(oid, 1, Len(d) + FirstSlash(Rest(oid, d)))

\* A common prefix is the id mkdir gives its last component in the directory,
\* and the beginning of the objects it stands for.
LEMMA CommonPrefix ==
  ASSUME NEW d \in Oid, EndsInSlash(d), bucket \subseteq Oid,
         NEW oid \in Under(d) \ DirectKeys(d), NEW q, q = Cut(oid, d)
  PROVE  q = dir_key(d, basename(q)) /\ IsPrefix(q, oid)
<1> DEFINE r == Rest(oid, d)
           I == {i \in 1 .. Len(r) : r[i] = Slash}
           k == Min(I)
           s == SubSeq(r, 1, k - 1)
<1>2. oid \in bucket /\ oid \in Oid /\ IsPrefix(d, oid) /\ Slash \in ToSet(r)
  BY DEF DirectKeys, Under
<1>3. r \in Oid /\ oid = d \o r /\ Len(oid) = Len(d) + Len(r)
  BY <1>2, RestOf
<1>4. FirstSlash(r) = IF I # {} THEN Min(I) ELSE 0
  BY DEF FirstSlash, SelectInSeq
<1>5. q = SubSeq(oid, 1, Len(d) + FirstSlash(r))
  BY DEF Cut
<1> HIDE DEF r
<1>6. I # {} /\ I \in SUBSET Nat
  BY <1>2, <1>3 DEF ToSet, Oid
<1>7. k \in I /\ \A i \in I : k <= i
  <2>1. \E x \in I : \A y \in I : x <= y
    BY <1>6, LeastNatural
  <2> HIDE DEF I
  <2> QED
    BY <2>1, Zenon DEF Min
<1>8. k \in 1 .. Len(r) /\ r[k] = Slash /\ \A i \in 1 .. Len(r) : r[i] = Slash => k <= i
  BY <1>7
<1>9. q = SubSeq(oid, 1, Len(d) + k)
  BY <1>4, <1>5, <1>6
<1> HIDE DEF I, k
<1>10. Len(d) \in Nat /\ Len(r) \in Nat /\ k \in Nat \ {0} /\ k <= Len(r) /\ d \in Seq(Token) /\ r \in Seq(Token)
  BY <1>3, <1>8 DEF Oid
<1>11. s \in Seq(Token) /\ Len(s) = k - 1 /\ \A i \in 1 .. k - 1 : s[i] = r[i]
  BY <1>10
<1> HIDE DEF s
<1>12. NoSlash(s)
  <2> SUFFICES ASSUME NEW i \in 1 .. Len(s), s[i] = Slash PROVE FALSE
    BY DEF NoSlash
  <2>1. i \in 1 .. Len(r) /\ i < k /\ r[i] = Slash
    BY <1>10, <1>11
  <2> QED
    BY <1>8, <1>10, <2>1
<1>13. q = dir_key(d, s)
  <2> DEFINE t == d \o s
             u == t \o <<Slash>>
             v == d \o r
  <2>1. t \in Seq(Token) /\ Len(t) = Len(d) + k - 1 /\ \A i \in 1 .. Len(d) + k - 1 : t[i] = IF i <= Len(d) THEN d[i] ELSE s[i - Len(d)]
    <3>1. Len(d) + Len(s) = Len(d) + k - 1
      BY <1>10, <1>11
    <3>2. /\ t \in Seq(Token) /\ Len(t) = Len(d) + Len(s)
          /\ \A i \in 1 .. Len(d) + Len(s) : t[i] = IF i <= Len(d) THEN d[i] ELSE s[i - Len(d)]
      BY <1>10, <1>11, ConcatProperties, Zenon
    <3> HIDE DEF t
    <3> QED
      BY <3>1, <3>2, Zenon
  <2>2. v \in Seq(Token) /\ Len(v) = Len(d) + Len(r) /\ \A i \in 1 .. Len(d) + Len(r) : v[i] = IF i <= Len(d) THEN d[i] ELSE r[i - Len(d)]
    BY <1>10
  <2> HIDE DEF t, v
  <2>3. Slash \in Token
    BY DEF Token
  <2>4. u \in Seq(Token) /\ Len(u) = Len(d) + k /\ u[Len(d) + k] = Slash /\ \A i \in 1 .. Len(d) + k - 1 : u[i] = t[i]
    <3>1. Len(d) + k - 1 \in Nat /\ Len(t) + 1 = Len(d) + k
      BY <1>10, <2>1
    <3>2. Len(t) \in Nat /\ u = Append(t, Slash)
      BY <2>1, <2>3, <3>1
    <3> QED
      BY <2>1, <2>3, <3>1, <3>2
  <2> HIDE DEF u
  <2>5. q \in Seq(Token) /\ Len(q) = Len(d) + k /\ \A i \in 1 .. Len(d) + k : q[i] = v[i]
    <3>1. q = SubSeq(v, 1, Len(d) + k)
      BY <1>3, <1>9 DEF v
    <3> QED
      BY <1>10, <2>2, <3>1
  <2>6. ASSUME NEW i \in 1 .. Len(d) + k PROVE q[i] = u[i]
    <3>0. i \in Nat
      BY <1>10
    <3>1. CASE i = Len(d) + k
      <4>1. v[i] = r[k]
        BY <1>10, <2>2, <3>1
      <4> QED
        BY <1>8, <2>4, <2>5, <3>1, <4>1
    <3>2. CASE i <= Len(d)
      <4>1. i \in 1 .. Len(d) + k - 1 /\ i \in 1 .. Len(d) + Len(r)
        BY <1>10, <3>0, <3>2
      <4>2. v[i] = d[i] /\ u[i] = t[i] /\ t[i] = d[i]
        BY <2>1, <2>2, <2>4, <3>2, <4>1
      <4> QED
        BY <2>5, <4>2
    <3>3. CASE i > Len(d) /\ i < Len(d) + k
      <4>1. i - Len(d) \in 1 .. k - 1 /\ ~(i <= Len(d)) /\ i \in 1 .. Len(d) + k - 1 /\ i \in 1 .. Len(d) + Len(r)
        BY <1>10, <3>0, <3>3
      <4>2. v[i] = r[i - Len(d)] /\ u[i] = t[i] /\ t[i] = s[i - Len(d)]
        BY <2>1, <2>2, <2>4, <4>1
      <4> QED
        BY <1>11, <2>5, <4>1, <4>2
    <3>4. i <= Len(d) + k
      BY <1>10
    <3> QED
      BY <1>10, <3>0, <3>1, <3>2, <3>3, <3>4
  <2>7. q = u
    BY <1>10, <2>4, <2>5, <2>6, SeqEqual
  <2> QED
    BY <2>7 DEF dir_key, t, u
<1>14. EndsInSlash(q) /\ Front(q) = d \o s
  <2> DEFINE t == d \o s
  <2>1. t \in Seq(Token) /\ Len(t) \in Nat
    BY <1>10, <1>11
  <2>2. q = t \o <<Slash>> /\ Slash \in Token
    BY <1>13 DEF dir_key, Token
  <2> HIDE DEF t
  <2>3. q \in Seq(Token) /\ Len(q) = Len(t) + 1 /\ q[Len(t) + 1] = Slash
    BY <2>1, <2>2
  <2>4. SubSeq(q, 1, Len(q) - 1) = t
    BY <2>1, <2>2, <2>3
  <2>5. q # <<>>
    BY <2>1, <2>3, EmptySeq
  <2> QED
    BY <2>1, <2>3, <2>4, <2>5 DEF EndsInSlash, Front, t
<1>15. basename(q) = s
  BY <1>11, <1>12, <1>14, BasenameOfText DEF Oid
<1>16. IsPrefix(q, oid)
  <2>1. Len(q) = Len(d) + k /\ oid \in Seq(Token) /\ Len(d) + k <= Len(oid)
    BY <1>2, <1>3, <1>9, <1>10 DEF Oid
  <2>2. SubSeq(q, 1, Len(q)) = q
    BY <1>2, <1>9, <1>10, <2>1
  <2> QED
    BY <1>2, <1>3, <1>9, <1>10, <2>1, <2>2 DEF IsPrefix
<1> QED
  BY <1>13, <1>15, <1>16

LEMMA DirectoryEntry ==
  ASSUME NEW d \in Oid, EndsInSlash(d), bucket \subseteq Oid, NEW q \in Subdirectories(d)
  PROVE  /\ q = dir_key(d, basename(q))
         /\ \E oid \in bucket : IsPrefix(q, oid)
<1>1. PICK oid \in Under(d) \ DirectKeys(d) :
        q = Cut(oid, d)
  BY DEF Subdirectories, Cut
<1>2. q = dir_key(d, basename(q)) /\ IsPrefix(q, oid)
  BY <1>1, CommonPrefix
<1> QED
  BY <1>2 DEF Under

Exists(name) ==
  \/ file_key(dir, name) \in bucket
  \/ \E oid \in bucket : IsPrefix(dir_key(dir, name), oid)

\* What a listing is: the files of the directory, itself among them if it has an
\* object, and its directories.
Listing(c, q) ==
  /\ IsFiniteSet(bucket) /\ bucket \subseteq Oid
  /\ dir \in Oid /\ EndsInSlash(dir)
  /\ c \in InOrder(DirectKeys(prefix(dir)))
  /\ q \in InOrder(Subdirectories(prefix(dir)))

\* The places in a listing, from 0 on, but for that of the directory itself.
Places(c, q) == {i \in 0 .. Len(c) + Len(q) - 1 : ~(i < Len(c) /\ c[i + 1] = dir)}

\* The keys of a listing are different ones, and so are its common prefixes.
LEMMA ListingOf ==
  ASSUME NEW c, NEW q, Listing(c, q)
  PROVE  /\ Len(c) \in Nat /\ Len(q) \in Nat
         /\ \A i \in 1 .. Len(c) : c[i] \in DirectKeys(dir)
         /\ \A i, j \in 1 .. Len(c) : c[i] = c[j] => i = j
         /\ \A x \in DirectKeys(dir) : \E i \in 1 .. Len(c) : c[i] = x
         /\ \A i \in 1 .. Len(q) : q[i] \in Subdirectories(dir)
         /\ \A i, j \in 1 .. Len(q) : q[i] = q[j] => i = j
         /\ \A x \in Subdirectories(dir) : \E i \in 1 .. Len(q) : q[i] = x
<1>1. prefix(dir) = dir
  BY DEF prefix, Listing
<1>2. /\ IsFiniteSet(DirectKeys(dir)) /\ c \in InOrder(DirectKeys(dir))
      /\ IsFiniteSet(Subdirectories(dir)) /\ q \in InOrder(Subdirectories(dir))
  BY <1>1, ListingFinite DEF Listing
<1> QED
  BY <1>2, InOrderOnce

\* The entry at each place spells the id it is the name of.
LEMMA ListingSpells ==
  ASSUME NEW c, NEW q, Listing(c, q), NEW i \in Places(c, q)
  PROVE  /\ i < Len(c) =>
              /\ i + 1 \in 1 .. Len(c)
              /\ EntryOf(c, q, i) = basename(c[i + 1])
              /\ file_key(dir, basename(c[i + 1])) = c[i + 1]
              /\ c[i + 1] \in bucket
         /\ ~(i < Len(c)) =>
              /\ i - Len(c) + 1 \in 1 .. Len(q)
              /\ EntryOf(c, q, i) = basename(q[i - Len(c) + 1])
              /\ dir_key(dir, basename(q[i - Len(c) + 1])) = q[i - Len(c) + 1]
              /\ \E oid \in bucket : IsPrefix(q[i - Len(c) + 1], oid)
<1>1. dir \in Oid /\ bucket \subseteq Oid /\ EndsInSlash(dir)
  BY DEF Listing
<1>2. /\ Len(c) \in Nat /\ Len(q) \in Nat
      /\ i \in 0 .. Len(c) + Len(q) - 1 /\ ~(i < Len(c) /\ c[i + 1] = dir)
  BY ListingOf DEF Places
<1>3. ASSUME i < Len(c)
      PROVE  /\ i + 1 \in 1 .. Len(c)
             /\ EntryOf(c, q, i) = basename(c[i + 1])
             /\ file_key(dir, basename(c[i + 1])) = c[i + 1]
             /\ c[i + 1] \in bucket
  <2>1. i + 1 \in 1 .. Len(c) /\ c[i + 1] # dir
    BY <1>2, <1>3
  <2>2. c[i + 1] \in DirectKeys(dir)
    BY <2>1, ListingOf
  <2> QED
    BY <1>1, <1>3, <2>1, <2>2, FileEntry DEF EntryOf, DirectKeys, Under
<1>4. ASSUME ~(i < Len(c))
      PROVE  /\ i - Len(c) + 1 \in 1 .. Len(q)
             /\ EntryOf(c, q, i) = basename(q[i - Len(c) + 1])
             /\ dir_key(dir, basename(q[i - Len(c) + 1])) = q[i - Len(c) + 1]
             /\ \E oid \in bucket : IsPrefix(q[i - Len(c) + 1], oid)
  <2>1. i - Len(c) + 1 \in 1 .. Len(q)
    BY <1>2, <1>4
  <2>2. q[i - Len(c) + 1] \in Subdirectories(dir)
    BY <2>1, ListingOf
  <2> QED
    BY <1>1, <1>4, <2>1, <2>2, DirectoryEntry DEF EntryOf
<1> QED
  BY <1>3, <1>4

\* Every entry of a listing but the directory itself is in the directory.
LEMMA ListingExists ==
  ASSUME NEW c, NEW q, Listing(c, q), NEW i \in Places(c, q)
  PROVE  Exists(EntryOf(c, q, i))
BY ListingSpells DEF Exists

ExistInv ==
  /\ pc \notin {"loop", "returned"} => passed = <<>>
  /\ \A i, j \in 1 .. Len(answer.contents) : answer.contents[i] = answer.contents[j] => i = j
  /\ EndsInSlash(dir) =>
       \A i \in Places(answer.contents, answer.prefixes) : Exists(EntryAt(i))

LEMMA ExistInvariant == Spec => []ExistInv
<1>1. Init => ExistInv
  BY NoSequence DEF Init, ExistInv, Empty, Places
<1>2. ReadInv /\ ExistInv /\ [Next]_vars => ExistInv'
  <2> SUFFICES ASSUME ReadInv, ExistInv, [Next]_vars PROVE ExistInv'
    OBVIOUS
  <2>1. ASSUME NEW oid \in Directories, ReadDir(oid) PROVE ExistInv'
    BY <2>1, NoSequence DEF ReadDir, ExistInv, Empty, Places
  <2>2. CASE ListBucket
    <3>1. /\ pc = "request" /\ pc' = "parse" /\ passed = <<>>
          /\ UNCHANGED <<bucket, dir, passed>>
      BY <2>2 DEF ListBucket, ReadInv
    <3>2. PICK c \in InOrder(DirectKeys(prefix(dir))),
               q \in InOrder(Subdirectories(prefix(dir))) :
            answer' = [contents |-> c, prefixes |-> q]
      BY <2>2 DEF ListBucket
    <3>3. \A i, j \in 1 .. Len(c) : c[i] = c[j] => i = j
      <4>1. IsFiniteSet(DirectKeys(prefix(dir)))
        BY ListingFinite DEF ReadInv, AnswerOK
      <4> QED
        BY <4>1, InOrderOnce
    <3>4. ASSUME EndsInSlash(dir) PROVE \A i \in Places(c, q) : Exists(EntryOf(c, q, i))
      <4>1. Listing(c, q)
        BY <3>4 DEF Listing, ReadInv, AnswerOK
      <4> QED
        BY <4>1, ListingExists
    <3>5. /\ Places(c, q)' = Places(c, q)
          /\ \A i : EntryAt(i)' = EntryOf(c, q, i)
          /\ \A name : Exists(name)' <=> Exists(name)
      BY <3>1, <3>2 DEF Places, EntryAt, Exists
    <3>6. answer'.contents = c /\ answer'.prefixes = q
      BY <3>2
    <3>7. EndsInSlash(dir') =>
            \A i \in Places(answer.contents, answer.prefixes)' : Exists(EntryAt(i))'
      BY <3>1, <3>4, <3>5, <3>6 DEF Places, Exists
    <3> QED
      BY <3>1, <3>3, <3>6, <3>7 DEF ExistInv
  <2>3. CASE listBucketCallback
    BY <2>3 DEF listBucketCallback, ExistInv, EntryAt, Exists, Places
  <2>4. CASE ListComplete \/ Return \/ Restart \/ UNCHANGED vars
    BY <2>4 DEF ListComplete, Return, Restart, vars, ExistInv, EntryAt, Exists, Places
  <2>5. CASE Callback
    BY <2>5 DEF Callback, ExistInv, EntryAt, Exists, Places
  <2>6. ASSUME NEW oid \in Keys, Put(oid) PROVE ExistInv'
    <3>1. ASSUME NEW name, Exists(name) PROVE Exists(name)'
      BY <2>6, <3>1 DEF Put, Exists
    <3> QED
      BY <2>6, <3>1 DEF Put, ExistInv, EntryAt, Places
  <2> QED
    BY <2>1, <2>2, <2>3, <2>4, <2>5, <2>6 DEF Next
<1> QED
  BY <1>1, <1>2, ReadDirentsInvariant, PTL DEF Spec

\* What the server has been given are entries of the answer, each at a place of
\* its own, and none of them the directory itself.
PassedFrom(g) ==
  /\ g \in [1 .. Len(passed) -> Places(answer.contents, answer.prefixes)]
  /\ \A i, j \in 1 .. Len(passed) : g[i] = g[j] => i = j
  /\ \A i \in 1 .. Len(passed) : passed[i] = EntryAt(g[i])

\* How many keys and common prefixes were handed over.
LEMMA HandedUpTo ==
  ASSUME AnswerOK
  PROVE  /\ Len(answer.contents) \in Nat /\ Len(answer.prefixes) \in Nat
         /\ handed.contents \in 0 .. Len(answer.contents)
         /\ handed.prefixes \in 0 .. Len(answer.prefixes)
<1>1. PICK ac, ap, hc, hp :
        /\ ac = arrived.contents /\ ap = arrived.prefixes
        /\ hc = handed.contents /\ hp = handed.prefixes
  OBVIOUS
<1>2. /\ Len(answer.contents) \in Nat /\ Len(answer.prefixes) \in Nat
      /\ ac \in 0 .. Len(answer.contents) /\ ap \in 0 .. Len(answer.prefixes)
      /\ hc \in 0 .. ac /\ hp \in 0 .. ap
  BY <1>1 DEF AnswerOK, IsSequence
<1>3. hc \in 0 .. Len(answer.contents) /\ hp \in 0 .. Len(answer.prefixes)
  BY <1>2
<1> QED
  BY <1>1, <1>2, <1>3

\* The places of what was handed over are places of the answer, ...
LEMMA PlaceOfAnswer ==
  ASSUME NEW lc \in Nat, NEW lq \in Nat, NEW hc \in 0 .. lc, NEW hp \in 0 .. lq,
         NEW x \in 0 .. hc + hp - 1
  PROVE  x \in 0 .. lc + lq - 1
OBVIOUS

\* ... those of the entries after the first are, ...
LEMMA EntryOfAnswer ==
  ASSUME NEW lc \in Nat, NEW lq \in Nat, NEW hc \in 0 .. lc, NEW hp \in 0 .. lq,
         NEW n \in Nat, n <= IF hc = 0 THEN 0 ELSE hc + hp - 1, NEW i \in 1 .. n
  PROVE  i \in 0 .. lc + lq - 1 /\ i + 1 # 1
OBVIOUS

\* ... and those but for 0 are of entries after the first.
LEMMA PlaceAfterFirst ==
  ASSUME NEW lc \in Nat \ {0}, NEW lq \in Nat, NEW i \in 0 .. lc + lq - 1, i # 0
  PROVE  i \in 1 .. lc + lq - 1
OBVIOUS

LEMMA PassedPlaced ==
  ASSUME ReadInv, ExistInv, EndsInSlash(dir)
  PROVE  \E g : PassedFrom(g)
<1> DEFINE C == answer.contents
           Q == answer.prefixes
<1>1. CASE pc \notin {"loop", "returned"}
  <2>1. passed = <<>> /\ Len(passed) = 0
    BY <1>1, EmptySeq DEF ExistInv
  <2>2. PassedFrom(<<>>)
    BY <2>1 DEF PassedFrom
  <2> QED
    BY <2>2
<1>2. CASE pc \in {"loop", "returned"} /\ dir \in ToSet(C)
  <2>1. AnswerOK /\ Written /\ Given /\ OwnFirst
    BY <1>2 DEF ReadInv, Listed
  <2>2. PICK hc \in 0 .. Len(C), hp \in 0 .. Len(Q) :
          /\ hc = handed.contents /\ hp = handed.prefixes
          /\ Len(C) \in Nat /\ Len(Q) \in Nat
    BY <2>1, HandedUpTo
  <2>3. Len(C) > 0 /\ C[1] = dir
    BY <2>1, HeadTailProperties, EmptySeq DEF OwnFirst, AnswerOK, IsSequence
  <2>4. object_count = IF hc = 0 THEN 0 ELSE hc + hp - 1
    BY <2>1, <2>2 DEF Written
  <2>5. Len(passed) \in Nat /\ Len(passed) <= object_count
    BY <2>1 DEF Given
  <2>6. ASSUME NEW i \in 1 .. Len(passed)
        PROVE  i \in Places(C, Q) /\ passed[i] = EntryAt(i)
    <3>1. i \in 0 .. Len(C) + Len(Q) - 1 /\ i + 1 # 1
      <4>1. Len(passed) <= IF hc = 0 THEN 0 ELSE hc + hp - 1
        BY <2>4, <2>5
      <4> QED
        BY <2>2, <2>5, <4>1, EntryOfAnswer, Zenon
    <3>2. passed[i] = EntryAt(i)
      <4>1. object_count \in Int /\ i \in 1 .. object_count
        BY <2>1, <2>5, LenProperties DEF Written
      <4> QED
        BY <2>1, <4>1 DEF Written, Given
    <3>3. ~(i < Len(C) /\ C[i + 1] = dir)
      <4> SUFFICES ASSUME i < Len(C), C[i + 1] = C[1] PROVE FALSE
        BY <2>3
      <4>1. i + 1 \in 1 .. Len(C) /\ 1 \in 1 .. Len(C)
        BY <2>2, <3>1
      <4> QED
        BY <3>1, <4>1 DEF ExistInv
    <3> QED
      BY <3>1, <3>2, <3>3 DEF Places
  <2>7. PassedFrom([i \in 1 .. Len(passed) |-> i])
    BY <2>6 DEF PassedFrom
  <2> QED
    BY <2>7
<1>3. CASE pc \in {"loop", "returned"} /\ dir \notin ToSet(C)
  <2>1. AnswerOK /\ Picked /\ Given
    BY <1>3 DEF ReadInv
  <2>2. PICK hc \in 0 .. Len(C), hp \in 0 .. Len(Q) :
          /\ hc = handed.contents /\ hp = handed.prefixes
          /\ Len(C) \in Nat /\ Len(Q) \in Nat
    BY <2>1, HandedUpTo
  <2>3. PICK g : PlacedAt(g, objects, C, Q, hc + hp)
    BY <2>1, <2>2 DEF Picked
  <2>4. /\ Len(objects) \in Nat /\ object_count \in 0 .. Len(objects)
        /\ Len(passed) \in Nat /\ Len(passed) <= object_count
    BY <2>1 DEF Picked, Given
  <2>5. ASSUME NEW i \in 1 .. Len(passed)
        PROVE  /\ i \in 1 .. Len(objects)
               /\ g[i] \in Places(C, Q)
               /\ passed[i] = EntryAt(g[i])
    <3>1. i \in 1 .. Len(objects)
      BY <2>4
    <3>2. g[i] \in 0 .. hc + hp - 1 /\ objects[i] = EntryOf(C, Q, g[i])
      BY <2>3, <3>1 DEF PlacedAt
    <3>3. g[i] \in 0 .. Len(C) + Len(Q) - 1
      BY <2>2, <3>2, PlaceOfAnswer, Zenon
    <3>4. ~(g[i] < Len(C) /\ C[g[i] + 1] = dir)
      <4> SUFFICES ASSUME g[i] < Len(C) PROVE C[g[i] + 1] # dir
        OBVIOUS
      <4>1. g[i] + 1 \in 1 .. Len(C)
        BY <2>2, <3>3
      <4>2. DOMAIN C = 1 .. Len(C)
        BY <2>1 DEF AnswerOK, IsSequence
      <4> QED
        BY <1>3, <4>1, <4>2 DEF ToSet
    <3> QED
      BY <2>1, <3>1, <3>2, <3>3, <3>4 DEF Given, Places, EntryAt
  <2>6. ASSUME NEW i \in 1 .. Len(passed), NEW j \in 1 .. Len(passed), g[i] = g[j]
        PROVE  i = j
    <3>1. g[i] \in 0 .. hc + hp - 1 /\ (i < j => g[i] < g[j]) /\ (j < i => g[j] < g[i])
      BY <2>3, <2>5 DEF PlacedAt
    <3> QED
      BY <2>2, <2>6, <3>1
  <2>7. PassedFrom([i \in 1 .. Len(passed) |-> g[i]])
    BY <2>5, <2>6 DEF PassedFrom
  <2> QED
    BY <2>7
<1> QED
  BY <1>1, <1>2, <1>3

LEMMA PassedIsSequence ==
  ASSUME ReadInv, ExistInv
  PROVE  DOMAIN passed = 1 .. Len(passed)
<1>1. CASE pc \in {"loop", "returned"}
  BY <1>1 DEF ReadInv, Given
<1>2. CASE pc \notin {"loop", "returned"}
  BY <1>2, EmptySeq DEF ExistInv
<1> QED
  BY <1>1, <1>2

\* What the server is given is the name of an object or of a directory with
\* one in it, whatever is stored while it reads, and whether or not the directory
\* has an object of its own.
THEOREM EntriesAreThere == Spec => []EntriesExist
<1>1. ReadInv /\ ExistInv => EntriesExist
  <2> SUFFICES ASSUME ReadInv, ExistInv, EndsInSlash(dir), NEW i \in DOMAIN passed
               PROVE  Exists(passed[i])
    BY DEF EntriesExist, Exists
  <2>1. PICK g : PassedFrom(g)
    BY PassedPlaced
  <2>2. DOMAIN passed = 1 .. Len(passed)
    BY PassedIsSequence
  <2>3. g[i] \in Places(answer.contents, answer.prefixes) /\ passed[i] = EntryAt(g[i])
    BY <2>1, <2>2 DEF PassedFrom
  <2> QED
    BY <2>3 DEF ExistInv
<1> QED
  BY <1>1, ReadDirentsInvariant, ExistInvariant, PTL

-----------------------------------------------------------------------------
(***************************************************************************)
(* No entry is missing, and none is there twice without a reason.          *)
(***************************************************************************)

\* The entry of that name is the object, or a directory the object is in.
LeadsTo(name, oid) ==
  \/ file_key(dir, name) = oid
  \/ IsPrefix(dir_key(dir, name), oid)

\* Every object under the directory is one of its files, or in one of its
\* directories, and so at one of the places.
LEMMA ListingCovers ==
  ASSUME NEW c, NEW q, Listing(c, q), NEW oid \in bucket, IsStrictPrefix(dir, oid)
  PROVE  \E i \in Places(c, q) : LeadsTo(EntryOf(c, q, i), oid)
<1>1. dir \in Oid /\ bucket \subseteq Oid /\ EndsInSlash(dir)
  BY DEF Listing
<1>2. oid \in Under(dir) /\ oid # dir
  BY DEF Under, IsStrictPrefix
<1>3. Len(c) \in Nat /\ Len(q) \in Nat
  BY ListingOf
<1>4. CASE oid \in DirectKeys(dir)
  <2>1. PICK j \in 1 .. Len(c) : c[j] = oid
    BY <1>4, ListingOf
  <2>2. PICK i \in 0 .. Len(c) + Len(q) - 1 : i + 1 = j /\ i < Len(c)
    <3>1. j - 1 \in 0 .. Len(c) + Len(q) - 1 /\ j - 1 + 1 = j /\ j - 1 < Len(c)
      BY <1>3
    <3> QED
      BY <3>1
  <2>3. i \in Places(c, q)
    BY <1>2, <2>1, <2>2 DEF Places
  <2>4. file_key(dir, EntryOf(c, q, i)) = oid
    BY <2>1, <2>2, <2>3, ListingSpells
  <2> QED
    BY <2>3, <2>4 DEF LeadsTo
<1>5. CASE oid \notin DirectKeys(dir)
  <2>1. Cut(oid, dir) \in Subdirectories(dir)
    BY <1>2, <1>5 DEF Subdirectories, Cut
  <2>2. PICK j \in 1 .. Len(q) : q[j] = Cut(oid, dir)
    BY <2>1, ListingOf
  <2>3. IsPrefix(q[j], oid)
    BY <1>1, <1>2, <1>5, <2>2, CommonPrefix
  <2>4. PICK i \in 0 .. Len(c) + Len(q) - 1 : i - Len(c) + 1 = j /\ ~(i < Len(c))
    <3>1. /\ Len(c) - 1 + j \in 0 .. Len(c) + Len(q) - 1
          /\ Len(c) - 1 + j - Len(c) + 1 = j /\ ~(Len(c) - 1 + j < Len(c))
      BY <1>3
    <3> QED
      BY <3>1
  <2>5. i \in Places(c, q)
    BY <2>4 DEF Places
  <2>6. dir_key(dir, EntryOf(c, q, i)) = q[j]
    BY <2>4, <2>5, ListingSpells
  <2> QED
    BY <2>3, <2>5, <2>6 DEF LeadsTo
<1> QED
  BY <1>4, <1>5

\* Two entries of one name are a file and a directory.
FileAndDirectory(c, q, i, j) ==
  LET name == EntryOf(c, q, i)
  IN  /\ (i < Len(c)) # (j < Len(c))
      /\ file_key(dir, name) \in bucket
      /\ \E oid \in bucket : IsPrefix(dir_key(dir, name), oid)

LEMMA ListingOnce ==
  ASSUME NEW c, NEW q, Listing(c, q), NEW i \in Places(c, q), NEW j \in Places(c, q),
         i # j, EntryOf(c, q, i) = EntryOf(c, q, j)
  PROVE  FileAndDirectory(c, q, i, j)
<1>1. Len(c) \in Nat /\ Len(q) \in Nat /\ i \in Int /\ j \in Int
  BY ListingOf DEF Places
<1>2. ~(i < Len(c) /\ j < Len(c))
  <2> SUFFICES ASSUME i < Len(c), j < Len(c) PROVE FALSE
    OBVIOUS
  <2>1. c[i + 1] = c[j + 1] /\ i + 1 \in 1 .. Len(c) /\ j + 1 \in 1 .. Len(c)
    BY ListingSpells
  <2>2. i + 1 = j + 1
    BY <2>1, ListingOf
  <2> QED
    BY <1>1, <2>2
<1>3. i < Len(c) \/ j < Len(c)
  <2> SUFFICES ASSUME ~(i < Len(c)), ~(j < Len(c)) PROVE FALSE
    OBVIOUS
  <2>1. /\ q[i - Len(c) + 1] = q[j - Len(c) + 1]
        /\ i - Len(c) + 1 \in 1 .. Len(q) /\ j - Len(c) + 1 \in 1 .. Len(q)
    BY ListingSpells
  <2>2. i - Len(c) + 1 = j - Len(c) + 1
    BY <2>1, ListingOf
  <2> QED
    BY <1>1, <2>2
<1>4. ASSUME NEW k \in {i, j}, k < Len(c)
      PROVE  file_key(dir, EntryOf(c, q, i)) \in bucket
  BY <1>4, ListingSpells
<1>5. ASSUME NEW k \in {i, j}, ~(k < Len(c))
      PROVE  \E oid \in bucket : IsPrefix(dir_key(dir, EntryOf(c, q, i)), oid)
  BY <1>5, ListingSpells
<1> QED
  BY <1>2, <1>3, <1>4, <1>5 DEF FileAndDirectory

\* The answer has what was there when the call began, and a name twice only for
\* a file and a directory.
ListingInv ==
  /\ before \subseteq bucket
  /\ Listed =>
       \A oid \in before : IsStrictPrefix(dir, oid) =>
         \E i \in Places(answer.contents, answer.prefixes) : LeadsTo(EntryAt(i), oid)
  /\ EndsInSlash(dir) =>
       \A i, j \in Places(answer.contents, answer.prefixes) :
         i # j /\ EntryAt(i) = EntryAt(j) => FileAndDirectory(answer.contents, answer.prefixes, i, j)

LEMMA ListingInvariant == Spec => []ListingInv
<1>1. Init => ListingInv
  BY NoSequence DEF Init, ListingInv, Empty, Places
<1>2. ReadInv /\ ListingInv /\ [Next]_vars => ListingInv'
  <2> SUFFICES ASSUME ReadInv, ListingInv, [Next]_vars PROVE ListingInv'
    OBVIOUS
  <2>1. ASSUME NEW oid \in Directories, ReadDir(oid) PROVE ListingInv'
    <3>1. ToSet(<<>>) = {} /\ \A c, q : Len(c) = 0 /\ Len(q) = 0 => Places(c, q)' = {}
      BY DEF ToSet, Places
    <3>2. answer'.contents = <<>> /\ answer'.prefixes = <<>> /\ before' = bucket' /\ Len(<<>>) = 0
      BY <2>1, NoSequence DEF ReadDir, Empty
    <3>3. Places(answer.contents, answer.prefixes)' = {} /\ ~Listed'
      BY <3>1, <3>2 DEF Places, Listed
    <3> QED
      BY <3>2, <3>3 DEF ListingInv
  <2>2. CASE ListBucket
    <3>1. /\ pc = "request" /\ pc' = "parse" /\ before \subseteq bucket
          /\ UNCHANGED <<bucket, before, dir>>
      BY <2>2 DEF ListBucket, ListingInv
    <3>2. PICK c \in InOrder(DirectKeys(prefix(dir))),
               q \in InOrder(Subdirectories(prefix(dir))) :
            answer' = [contents |-> c, prefixes |-> q]
      BY <2>2 DEF ListBucket
    <3>3. answer'.contents = c /\ answer'.prefixes = q
      BY <3>2
    <3>4. /\ \A i : EntryAt(i)' = EntryOf(c, q, i)
          /\ \A name, oid : LeadsTo(name, oid)' <=> LeadsTo(name, oid)
          /\ \A i, j : FileAndDirectory(c, q, i, j)' <=> FileAndDirectory(c, q, i, j)
          /\ Places(c, q)' = Places(c, q)
      BY <3>1, <3>2 DEF EntryAt, LeadsTo, FileAndDirectory, Places
    <3>5. CASE EndsInSlash(dir)
      <4>1. Listing(c, q)
        BY <3>5 DEF Listing, ReadInv, AnswerOK
      <4>2. /\ \A oid \in bucket : IsStrictPrefix(dir, oid) =>
                 \E i \in Places(c, q) : LeadsTo(EntryOf(c, q, i), oid)
            /\ \A i, j \in Places(c, q) :
                 i # j /\ EntryOf(c, q, i) = EntryOf(c, q, j) => FileAndDirectory(c, q, i, j)
        BY <4>1, ListingCovers, ListingOnce
      <4> HIDE DEF LeadsTo, FileAndDirectory, Places
      <4>3. \A oid \in before' : IsStrictPrefix(dir', oid) =>
              \E i \in Places(answer.contents, answer.prefixes)' : LeadsTo(EntryAt(i), oid)'
        BY <3>1, <3>3, <3>4, <4>2 DEF LeadsTo, Places
      <4>4. \A i, j \in Places(answer.contents, answer.prefixes)' :
              i # j /\ EntryAt(i)' = EntryAt(j)' =>
                FileAndDirectory(answer.contents, answer.prefixes, i, j)'
        BY <3>1, <3>3, <3>4, <4>2 DEF FileAndDirectory, Places
      <4> QED
        BY <3>1, <4>3, <4>4 DEF ListingInv
    <3>6. CASE ~EndsInSlash(dir)
      BY <3>1, <3>6 DEF ListingInv, Listed
    <3> QED
      BY <3>5, <3>6
  <2>3. ASSUME UNCHANGED <<bucket, before, dir, answer>> PROVE ListingInv'
    <3>1. /\ \A name, id : LeadsTo(name, id)' <=> LeadsTo(name, id)
          /\ \A i : EntryAt(i)' = EntryAt(i)
          /\ \A c, q, i, j : FileAndDirectory(c, q, i, j)' <=> FileAndDirectory(c, q, i, j)
          /\ Places(answer.contents, answer.prefixes)' = Places(answer.contents, answer.prefixes)
          /\ Listed' <=> Listed
      BY <2>3 DEF LeadsTo, EntryAt, FileAndDirectory, Places, Listed
    <3> QED
      BY <2>3, <3>1 DEF ListingInv
  <2>4. CASE listBucketCallback \/ ListComplete
    BY <2>3, <2>4 DEF listBucketCallback, ListComplete
  <2>5. CASE Callback \/ Return \/ Restart \/ UNCHANGED vars
    BY <2>3, <2>5 DEF Callback, Return, Restart, vars
  <2>6. ASSUME NEW oid \in Keys, Put(oid) PROVE ListingInv'
    <3>1. /\ bucket \subseteq bucket'
          /\ UNCHANGED <<before, dir, answer>>
      BY <2>6 DEF Put
    <3>2. \A c, q, i, j : FileAndDirectory(c, q, i, j) => FileAndDirectory(c, q, i, j)'
      BY <3>1 DEF FileAndDirectory
    <3>3. /\ \A name, id : LeadsTo(name, id)' <=> LeadsTo(name, id)
          /\ \A i : EntryAt(i)' = EntryAt(i)
          /\ Places(answer.contents, answer.prefixes)' = Places(answer.contents, answer.prefixes)
          /\ Listed' <=> Listed
      BY <3>1 DEF LeadsTo, EntryAt, Places, Listed
    <3> QED
      BY <3>1, <3>2, <3>3 DEF ListingInv
  <2> QED
    BY <2>1, <2>2, <2>4, <2>5, <2>6 DEF Next
<1> QED
  BY <1>1, <1>2, ReadDirentsInvariant, PTL DEF Spec

\* However many objects are stored while it reads, a server that takes all of a
\* whole answer misses nothing that was there when it called, if the directory
\* has an object of its own.
THEOREM NothingMissed == Spec => []NoneMissed
<1>1. ReadInv /\ ExistInv /\ ListingInv /\ ListsDirectory => NoneMissed
  <2> SUFFICES ASSUME ReadInv, ExistInv, ListingInv, ListsDirectory, Listed,
                      pc = "returned", Arrived, Len(passed) = object_count,
                      NEW oid \in before, IsStrictPrefix(dir, oid)
               PROVE  \E i \in DOMAIN passed : LeadsTo(passed[i], oid)
    BY DEF NoneMissed, TookAll, HasEntries, LeadsTo
  <2>1. passed = Entries
    BY DEF ListsDirectory
  <2>2. AnswerOK /\ OwnFirst /\ passed \in Seq(Basenames)
    BY <2>1 DEF ReadInv, Given
  <2>3. /\ Len(Entries) = Len(answer.contents) + Len(answer.prefixes) - 1
        /\ \A i \in 1 .. Len(Entries) : Entries[i] = EntryAt(i)
        /\ Len(answer.contents) \in Nat \ {0} /\ Len(answer.prefixes) \in Nat
    BY <2>2, EntriesOfAnswer
  <2>4. DOMAIN passed = 1 .. Len(passed)
    BY <2>2
  <2>5. PICK i \in Places(answer.contents, answer.prefixes) : LeadsTo(EntryAt(i), oid)
    BY DEF ListingInv
  \* The place 0 is that of the directory itself.
  <2>6. i # 0
    <3>1. answer.contents[1] = dir
      BY <2>2, HeadTailProperties DEF OwnFirst, AnswerOK, IsSequence
    <3> QED
      BY <2>3, <3>1 DEF Places
  <2>7. i \in 1 .. Len(answer.contents) + Len(answer.prefixes) - 1
    <3>1. i \in 0 .. Len(answer.contents) + Len(answer.prefixes) - 1
      BY DEF Places
    <3> QED
      BY <2>3, <2>6, <3>1, PlaceAfterFirst, Zenon
  <2>8. i \in DOMAIN passed /\ passed[i] = EntryAt(i)
    BY <2>1, <2>3, <2>4, <2>7
  <2> QED
    BY <2>5, <2>8
<1> QED
  BY <1>1, ReadDirentsInvariant, ExistInvariant, ListingInvariant, DirectoriesAreListed, PTL

\* The server is given one name twice only if the directory has a file and a
\* directory of that name, and never three times.
THEOREM NamesComeOnce == Spec => []EntriesOnce
<1>1. ReadInv /\ ExistInv /\ ListingInv => EntriesOnce
  <2> SUFFICES ASSUME ReadInv, ExistInv, ListingInv, EndsInSlash(dir),
                      NEW i \in DOMAIN passed, NEW j \in DOMAIN passed,
                      i # j, passed[i] = passed[j]
               PROVE  /\ file_key(dir, passed[i]) \in bucket
                      /\ \E oid \in bucket : IsPrefix(dir_key(dir, passed[i]), oid)
                      /\ \A k \in DOMAIN passed : passed[k] = passed[i] => k \in {i, j}
    BY DEF EntriesOnce
  <2>1. PICK g : PassedFrom(g)
    BY PassedPlaced
  <2>2. DOMAIN passed = 1 .. Len(passed)
    BY PassedIsSequence
  <2>3. ASSUME NEW k \in DOMAIN passed, NEW l \in DOMAIN passed, k # l, passed[k] = passed[l]
        PROVE  /\ (g[k] < Len(answer.contents)) # (g[l] < Len(answer.contents))
               /\ file_key(dir, passed[k]) \in bucket
               /\ \E oid \in bucket : IsPrefix(dir_key(dir, passed[k]), oid)
    <3>1. /\ g[k] \in Places(answer.contents, answer.prefixes)
          /\ g[l] \in Places(answer.contents, answer.prefixes)
          /\ g[k] # g[l] /\ passed[k] = EntryAt(g[k]) /\ passed[l] = EntryAt(g[l])
      BY <2>1, <2>2, <2>3 DEF PassedFrom
    <3>2. FileAndDirectory(answer.contents, answer.prefixes, g[k], g[l])
      BY <2>3, <3>1 DEF ListingInv
    <3> QED
      BY <3>1, <3>2 DEF FileAndDirectory, EntryAt
  <2>4. ASSUME NEW k \in DOMAIN passed, passed[k] = passed[i], k \notin {i, j} PROVE FALSE
    <3>1. /\ (g[k] < Len(answer.contents)) # (g[i] < Len(answer.contents))
          /\ (g[k] < Len(answer.contents)) # (g[j] < Len(answer.contents))
          /\ (g[i] < Len(answer.contents)) # (g[j] < Len(answer.contents))
      BY <2>3, <2>4
    <3> QED
      BY <3>1
  <2> QED
    BY <2>3, <2>4
<1> QED
  BY <1>1, ReadDirentsInvariant, ExistInvariant, ListingInvariant, PTL
=============================================================================
