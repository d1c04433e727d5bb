-------------------------- MODULE FsalNaming_proofs --------------------------
(***************************************************************************)
(* An object id names one file: the theorem about FsalNaming.              *)
(***************************************************************************)
EXTENDS FsalNaming, FsalHandle_proofs

-----------------------------------------------------------------------------
\* Where a directory's id and a name are put together, the last slash of the
\* directory's id tells them apart again: one direction ...
LEMMA SplitNotEarlier ==
  ASSUME NEW p \in Oid, NEW q \in Oid, NEW m \in Names, NEW n \in Names,
         EndsInSlash(q), p \o m = q \o n
  PROVE  ~(Len(p) < Len(q))
<1>. SUFFICES ASSUME Len(p) < Len(q) PROVE FALSE
  OBVIOUS
<1>1. m \in Seq(Letters) /\ Slash \notin Letters /\ m \in Oid /\ n \in Oid
  BY NamesAssumption, SeqMonotonic DEF Oid, Token
<1>2. Len(p) \in Nat /\ Len(q) \in Nat /\ Len(m) \in Nat /\ Len(n) \in Nat
  BY <1>1, LenProperties DEF Oid
<1>3. Len(p) + Len(m) = Len(q) + Len(n)
  BY <1>1, ConcatProperties DEF Oid
<1>4. (q \o n)[Len(q)] = Slash
  BY <1>1, <1>2, ConcatProperties DEF Oid, EndsInSlash
<1>5. Len(q) - Len(p) \in 1 .. Len(m)
  BY <1>2, <1>3
<1>6. (p \o m)[Len(q)] = m[Len(q) - Len(p)]
  BY <1>1, <1>2, <1>3, <1>5, ConcatProperties, SMTT(30) DEF Oid
<1>7. m[Len(q) - Len(p)] \in Letters
  BY <1>1, <1>5, ElementOfSeq
<1>. QED
  BY <1>1, <1>4, <1>6, <1>7

\* ... and so both parts are the same.
LEMMA SplitUnique ==
  ASSUME NEW p \in Oid, NEW q \in Oid, NEW m \in Names, NEW n \in Names,
         EndsInSlash(p), EndsInSlash(q), p \o m = q \o n
  PROVE  p = q /\ m = n
<1>1. m \in Oid /\ n \in Oid
  BY NamesAssumption, SeqMonotonic DEF Oid, Token
<1>2. Len(p) \in Nat /\ Len(q) \in Nat /\ Len(m) \in Nat /\ Len(n) \in Nat
  BY <1>1, LenProperties DEF Oid
<1>3. Len(p) = Len(q)
  <2>1. ~(Len(p) < Len(q))
    BY SplitNotEarlier
  <2>2. ~(Len(q) < Len(p))
    BY SplitNotEarlier
  <2>. QED
    BY <1>2, <2>1, <2>2
<1>4. Len(m) = Len(n)
  BY <1>1, <1>2, <1>3, ConcatProperties DEF Oid
<1>5. p = q
  <2>1. \A i \in 1 .. Len(p) : p[i] = q[i]
    BY <1>1, <1>2, <1>3, ConcatProperties DEF Oid
  <2>. QED
    BY <1>3, <2>1, SeqEqual DEF Oid
<1>6. m = n
  <2>1. \A i \in 1 .. Len(m) : m[i] = (p \o m)[Len(p) + i] /\ n[i] = (q \o n)[Len(q) + i]
    BY <1>1, <1>2, <1>4, ConcatProperties DEF Oid
  <2>2. \A i \in 1 .. Len(m) : m[i] = n[i]
    BY <1>3, <2>1
  <2>. QED
    BY <1>1, <1>4, <2>2, SeqEqual DEF Oid
<1>. QED
  BY <1>5, <1>6

\* Two ids of create, mkdir or lookup in directories are the same only for the
\* same directory and name.
LEMMA KeysUnique ==
  ASSUME NEW p \in Oid, NEW q \in Oid, NEW m \in Names, NEW n \in Names,
         EndsInSlash(p), EndsInSlash(q),
         NEW key, key \in {file_key(p, m), dir_key(p, m)},
         key \in {file_key(q, n), dir_key(q, n)}
  PROVE  p = q /\ m = n
<1>1. p \o m = q \o n
  <2>1. CASE key = file_key(p, m) /\ key = file_key(q, n)
    BY <2>1 DEF file_key
  <2>2. CASE key = dir_key(p, m) /\ key = dir_key(q, n)
    <3>1. <<Slash>> \in Seq(Token) /\ p \o m \in Seq(Token) /\ q \o n \in Seq(Token)
      <4>1. <<Slash>> \in Seq(Token)
        BY DEF Token
      <4>2. p \o m \in Seq(Token) /\ q \o n \in Seq(Token)
        BY KeysAreOids DEF Oid, file_key
      <4>. QED
        BY <4>1, <4>2
    <3>2. (p \o m) \o <<Slash>> = (q \o n) \o <<Slash>>
      BY <2>2 DEF dir_key
    <3>3. \A s, t, v \in Seq(Token) : s \o v = t \o v => s = t
      BY ConcatSimplifications
    <3>. QED
      BY <3>1, <3>2, <3>3
  <2>. QED
    BY <2>1, <2>2, KeyKinds
<1>. QED
  BY <1>1, SplitUnique

-----------------------------------------------------------------------------
\* `via' is a parent and a name, and `oid' one of the ids made of them.
From(oid, via) ==
  \E parent \in Oid, name \in Names :
    via = <<parent, name>> /\ oid \in {file_key(parent, name), dir_key(parent, name)}

\* Calls and returned ids are of a parent and a name.
NamingInv ==
  /\ \A c \in Callers : Busy(c) => call[c].via = <<>> \/ From(call[c].oid, call[c].via)
  /\ \A r \in origin : \E oid, via : r = <<oid, via>> /\ From(oid, via)

\* A call starts from a directory's handle, and keeps what it started from.
Started(k) ==
  \E parent \in DOMAIN handles, name \in Names :
    /\ DirectoryHandle(parent)
    /\ k.via = <<parent, name>>
    /\ k.oid \in {file_key(parent, name), dir_key(parent, name)}

LEMMA ViaKept ==
  ASSUME TypeOK, NEW d \in Callers, Busy(d)', [Next]_vars
  PROVE  \/ call'[d].via = <<>>
         \/ Started(call'[d])
         \/ Busy(d) /\ call'[d].via = call[d].via /\ call'[d].oid = call[d].oid
<1>1. TypeOK
  OBVIOUS
<1>2. CASE call'[d] = call[d]
  BY <1>2 DEF Busy
<1>3. CASE Dies
  BY <1>1, <1>3 DEF Dies, Busy
<1>4. ASSUME NEW c \in Callers, Starts(c), ~Dies, c = d
      PROVE  call'[d].via = <<>> \/ Started(call'[d])
  <2>1. ASSUME NEW op, NEW step, NEW oid, NEW via, NEW attrs, NEW dp,
               Begin(c, op, step, oid, via, attrs, dp)
        PROVE  call'[d].via = via /\ call'[d].oid = oid
    BY <1>1, <1>4, <2>1 DEF Begin, TypeOK
  <2>3. ASSUME LookupPath(c) \/ (\E oid : Getattrs(c, oid)) \/ (\E oid, attrs : Setattrs(c, oid, attrs))
        PROVE  call'[d].via = <<>>
    BY <2>1, <2>3 DEF LookupPath, Getattrs, Setattrs
  <2>4. ASSUME NEW parent \in DOMAIN handles, NEW name \in Names,
               \/ Lookup(c, parent, name)
               \/ \E attrs : Create(c, parent, name, attrs) \/ Makedir(c, parent, name, attrs)
        PROVE  Started(call'[d])
    <3>1. DirectoryHandle(parent)
      BY <2>4 DEF Lookup, Create, Makedir
    <3>2. call'[d].via = <<parent, name>> /\ call'[d].oid \in {file_key(parent, name), dir_key(parent, name)}
      BY <2>1, <2>4 DEF Lookup, Create, Makedir
    <3>. QED
      BY <3>1, <3>2 DEF Started
  <2>5. \A parent, attrs : ~UnsupportedType(c, parent, attrs)
    BY <1>4 DEF UnsupportedType
  <2>. QED
    BY <1>4, <2>3, <2>4, <2>5 DEF Starts
<1>5. ASSUME NEW c \in Callers, Continues(c), ~Dies, c = d
      PROVE  call'[d].via = call[d].via /\ call'[d].oid = call[d].oid /\ Busy(d)
  <2>1. Busy(c)
    BY <1>5 DEF Continues, PutObject, GetObject, HeadObject, CopyObject, Return, At
  <2>2. ASSUME NEW step, NEW dp, Moves(c, step, dp)
        PROVE  call'[d].via = call[d].via /\ call'[d].oid = call[d].oid
    BY <1>1, <1>5, <2>1, <2>2, MovedCall DEF TypeOK
  <2>3. call' # [call EXCEPT ![c] = Idle]
    BY <1>1, <1>5 DEF TypeOK, Busy
  <2>. QED
    BY <1>5, <2>1, <2>2, <2>3
    DEF Continues, PutObject, GetObject, HeadObject, CopyObject, Return, Answers, NoDetails
<1>6. ASSUME NEW c \in Callers, Starts(c) \/ Continues(c), ~Dies, c # d
      PROVE  call'[d] = call[d]
  <2>1. \E k : call' = [call EXCEPT ![c] = k]
    BY <1>6
    DEF Starts, LookupPath, Lookup, Create, Makedir, UnsupportedType, Getattrs, Setattrs, Begin,
        Continues, PutObject, GetObject, HeadObject, CopyObject, Return, Answers, NoDetails, Moves
  <2>. QED
    BY <1>1, <1>6, <2>1 DEF TypeOK
<1>7. CASE UNCHANGED call
  BY <1>2, <1>7
<1>. QED
  BY <1>2, <1>3, <1>4, <1>5, <1>6, <1>7
  DEF Next, CreateExport, ForeignPut, Restart, vars

\* A step of FsalNaming takes into `origin' only what calls have.
LEMMA TrackStep ==
  ASSUME [NamingNext]_namingVars
  PROVE  /\ [Next]_vars
         /\ \A r \in origin' :
              r \in origin \/ \E c \in Callers : Busy(c) /\ call[c].via # <<>> /\ r = <<call[c].oid, call[c].via>>
BY DEF NamingNext, namingVars, vars, Track

LEMMA NamingNextInv ==
  ASSUME TypeOK, NamingInv, [NamingNext]_namingVars PROVE NamingInv'
<1>1. \A r \in origin' : \E oid, via : r = <<oid, via>> /\ From(oid, via)
  BY TrackStep DEF NamingInv
<1>2. ASSUME NEW d \in Callers, Busy(d)'
      PROVE  call'[d].via = <<>> \/ From(call'[d].oid, call'[d].via)
  <2>1. Started(call'[d]) => From(call'[d].oid, call'[d].via)
    BY DEF TypeOK, Started, From
  <2>. QED
    BY <1>2, <2>1, TrackStep, ViaKept DEF NamingInv
<1>. QED
  BY <1>1, <1>2 DEF NamingInv

LEMMA NamingImplements == NamingSpec => Spec
<1>1. NamingInit => Init
  BY DEF NamingInit
<1>2. [NamingNext]_namingVars => [Next]_vars
  BY TrackStep
<1>. QED
  BY <1>1, <1>2, PTL DEF NamingSpec, Spec

LEMMA NamingInvariant == NamingSpec => [](TypeOK /\ NamingInv)
<1>1. NamingInit => NamingInv
  BY DEF NamingInit, Init, NamingInv, Busy
<1>. QED
  BY <1>1, NamingNextInv, NamingImplements, TypeCorrect, PTL DEF NamingSpec

LEMMA NamingUnique == NamingInv => UniqueInDirectories
<1>. SUFFICES ASSUME NamingInv, NEW a \in origin, NEW b \in origin, a[1] = b[1],
                     EndsInSlash(a[2][1]), EndsInSlash(b[2][1])
              PROVE  a[2] = b[2]
  BY DEF UniqueInDirectories
<1>1. From(a[1], a[2]) /\ From(b[1], b[2])
  BY DEF NamingInv
<1>. QED
  BY <1>1, KeysUnique DEF From

\* Ids clash only below what create made a directory of (cloud_create), or another
\* program: among the names in directories whose ids end in a slash, no id stands
\* for two files, whatever types callers pass and whatever else writes to the bucket.
THEOREM ClashesNeedFileParents == NamingSpec => []UniqueInDirectories
BY NamingInvariant, NamingUnique, PTL
=============================================================================
