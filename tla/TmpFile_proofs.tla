--------------------------- MODULE TmpFile_proofs ---------------------------
(***************************************************************************)
(* Proofs about TmpFile, for any number of threads and processes, lengths  *)
(* of names and numbers of tries.                                          *)
(***************************************************************************)
EXTENDS TmpFile, TLAPS

Step == {"clock", "seed", "draw", "probe", "open", "have"}

Drawing == [step : Step, left : Int, began : Int, drew : Int, second : Int, name : Seq(Int \X Int)]

TmpTyped ==
  /\ now \in Int
  /\ rng \in [Pid -> [seed : Int, drawn : Int]]
  /\ tmp \in [Callers -> {NoFile} \cup Drawing]

\* The seed of a process, and all that a call knows of the clock, is of a second
\* that has come.
SecondsCame ==
  /\ ~outrun => \A p \in Pid : rng[p].seed <= now + p
  /\ \A c \in Callers : tmp[c] # NoFile => tmp[c].began <= now /\ tmp[c].drew <= now

\* Who draws has seeded the generator, and those who seeded it since did so later.
SeededSince ==
  ~outrun => \A c \in Callers :
    tmp[c].step = "draw" => tmp[c].began + Process[c] <= rng[Process[c]].seed

\* The characters a call has drawn are of seconds it lived in.
Within(t, p) == \A i \in DOMAIN t.name : t.began + p <= t.name[i][1] /\ t.name[i][1] <= t.drew + p

DrawnWithin ==
  ~outrun => \A c \in Callers : tmp[c] # NoFile => Within(tmp[c], Process[c])

\* A name is looked for when all its characters are drawn.
NameLong ==
  \A c \in Callers : tmp[c].step \in {"probe", "open", "have"} => Len(tmp[c].name) = NAMELENGTH

ClockInv == TmpTyped /\ SecondsCame /\ SeededSince /\ DrawnWithin /\ NameLong

-----------------------------------------------------------------------------
LEMMA PidType == /\ \A c \in Callers : Process[c] \in Pid
                 /\ \A p \in Pid : p \in Nat
                 /\ \A c \in Callers : Process[c] \in Nat
BY TmpFileAssumption DEF Pid

LEMMA ClockInit == TmpInit => ClockInv
<1> SUFFICES ASSUME TmpInit PROVE ClockInv
  OBVIOUS
<1>1. TmpTyped
  BY DEF TmpInit, TmpTyped
<1>2. SecondsCame
  <2>1. \A p \in Pid : rng[p].seed <= now + p
    BY PidType DEF TmpInit
  <2> QED
    BY <2>1 DEF TmpInit, SecondsCame
<1>3. SeededSince /\ DrawnWithin /\ NameLong
  BY DEF TmpInit, SeededSince, DrawnWithin, NameLong, NoFile
<1> QED
  BY <1>1, <1>2, <1>3 DEF ClockInv

\* What a caller of get_tmp_file is at after a step is all that the step changes of
\* the callers.
LEMMA CallerMoves ==
  ASSUME ClockInv, NEW c \in Callers, NEW state \in {NoFile} \cup Drawing,
         tmp' = [tmp EXCEPT ![c] = state], UNCHANGED <<now, rng>>, outrun' = outrun,
         state # NoFile => /\ state.began <= now /\ state.drew <= now
                           /\ ~outrun => Within(state, Process[c]),
         state.step = "draw" /\ ~outrun => state.began + Process[c] <= rng[Process[c]].seed,
         state.step \in {"probe", "open", "have"} => Len(state.name) = NAMELENGTH
  PROVE  ClockInv'
<1>1. \A d \in Callers : tmp'[d] = IF d = c THEN state ELSE tmp[d]
  BY DEF ClockInv, TmpTyped
<1>2. TmpTyped'
  BY DEF ClockInv, TmpTyped
<1>3. SecondsCame'
  BY <1>1 DEF ClockInv, SecondsCame
<1>4. SeededSince'
  BY <1>1 DEF ClockInv, SeededSince
<1>5. DrawnWithin'
  BY <1>1 DEF ClockInv, DrawnWithin
<1>6. NameLong'
  BY <1>1 DEF ClockInv, NameLong
<1> QED
  BY <1>2, <1>3, <1>4, <1>5, <1>6 DEF ClockInv

LEMMA SeedKeeps ==
  ASSUME ClockInv, NEW c \in Callers, Seed(c) PROVE ClockInv'
<1> DEFINE p     == Process[c]
           state == [tmp[c] EXCEPT !.step = "draw"]
<1>1. tmp[c] \in Drawing /\ tmp[c].step = "seed" /\ tmp[c] # NoFile
  BY DEF Seed, AtTmp, ClockInv, TmpTyped, NoFile
<1>2. state \in Drawing /\ state # NoFile
  BY <1>1 DEF Drawing, Step, NoFile
<1>3. /\ state.step = "draw" /\ state.began = tmp[c].began /\ state.drew = tmp[c].drew
      /\ state.name = tmp[c].name
  BY <1>1 DEF Drawing
<1>4. now' = now /\ now \in Int /\ tmp' = [tmp EXCEPT ![c] = state]
  BY DEF Seed, ClockInv, TmpTyped
<1>5. \A q \in Pid : rng'[q] = IF q = p THEN [seed |-> tmp[c].second + p, drawn |-> 0] ELSE rng[q]
  BY DEF Seed, ClockInv, TmpTyped
<1>6. p \in Pid /\ p \in Int /\ tmp[c].second + p \in Int
  BY <1>1, PidType DEF Drawing
<1>7. rng' \in [Pid -> [seed : Int, drawn : Int]]
  BY <1>6 DEF Seed, ClockInv, TmpTyped
<1>8. ~outrun' => ~outrun /\ tmp[c].second = now
  BY DEF Seed
<1> HIDE DEF state
<1>9. \A d \in Callers : tmp'[d] = IF d = c THEN state ELSE tmp[d]
  BY <1>4 DEF ClockInv, TmpTyped
<1>10. TmpTyped'
  BY <1>2, <1>4, <1>7 DEF ClockInv, TmpTyped
<1>11. SecondsCame'
  <2>1. ASSUME ~outrun', NEW q \in Pid PROVE rng'[q].seed <= now + q
    <3>1. CASE q = p
      BY <1>4, <1>5, <1>6, <1>8, <2>1, <3>1
    <3>2. CASE q # p
      BY <1>5, <1>8, <2>1, <3>2 DEF ClockInv, SecondsCame
    <3> QED
      BY <3>1, <3>2
  <2>2. \A d \in Callers : tmp'[d] # NoFile => tmp'[d].began <= now /\ tmp'[d].drew <= now
    BY <1>1, <1>3, <1>9 DEF ClockInv, SecondsCame
  <2> QED
    BY <1>4, <2>1, <2>2 DEF SecondsCame
<1>12. SeededSince'
  <2> SUFFICES ASSUME ~outrun', NEW d \in Callers, tmp'[d].step = "draw"
               PROVE  tmp'[d].began + Process[d] <= rng'[Process[d]].seed
    BY DEF SeededSince
  <2>1. CASE Process[d] = p
    <3>1. tmp'[d].began = tmp[d].began /\ tmp[d] # NoFile
      BY <1>1, <1>3, <1>9 DEF NoFile
    <3>2. tmp[d] \in Drawing
      BY <3>1 DEF ClockInv, TmpTyped
    <3>3. tmp[d].began \in Int /\ tmp[d].began <= now
      BY <3>1, <3>2 DEF ClockInv, SecondsCame, Drawing
    <3>4. rng'[p].seed = now + p
      BY <1>5, <1>6, <1>8
    <3> QED
      BY <1>4, <1>6, <2>1, <3>1, <3>3, <3>4
  <2>2. CASE Process[d] # p
    <3>1. d # c /\ rng'[Process[d]] = rng[Process[d]]
      BY <1>5, <2>2, PidType
    <3> QED
      BY <1>8, <1>9, <3>1 DEF ClockInv, SeededSince
  <2> QED
    BY <2>1, <2>2
<1>13. DrawnWithin'
  <2>1. Within(state, p) <=> Within(tmp[c], p)
    BY <1>3 DEF Within
  <2> QED
    BY <1>1, <1>8, <1>9, <2>1 DEF ClockInv, DrawnWithin
<1>14. NameLong'
  BY <1>3, <1>9 DEF ClockInv, NameLong
<1> QED
  BY <1>10, <1>11, <1>12, <1>13, <1>14 DEF ClockInv

LEMMA Appended ==
  ASSUME NEW S, NEW s \in Seq(S), NEW x \in S
  PROVE  /\ Append(s, x) \in Seq(S) /\ Len(Append(s, x)) = Len(s) + 1 /\ Append(s, x)[Len(s) + 1] = x
         /\ \A j \in 1 .. Len(s) : Append(s, x)[j] = s[j]
         /\ DOMAIN Append(s, x) = 1 .. Len(Append(s, x))
         /\ DOMAIN s = 1 .. Len(s) /\ Len(s) \in Nat
OBVIOUS

LEMMA DrawKeeps ==
  ASSUME ClockInv, NEW c \in Callers, Draw(c) PROVE ClockInv'
<1> DEFINE p     == Process[c]
           drawn == <<rng[p].seed, rng[p].drawn>>
           name  == Append(tmp[c].name, drawn)
           state == [tmp[c] EXCEPT !.name = name, !.drew = now,
                       !.step = IF Len(name) = NAMELENGTH THEN "probe" ELSE "draw"]
<1>1. tmp[c] \in Drawing /\ tmp[c].step = "draw" /\ tmp[c] # NoFile
  BY DEF Draw, AtTmp, ClockInv, TmpTyped, NoFile
<1>2. p \in Pid /\ rng[p].seed \in Int /\ rng[p].drawn \in Int /\ now \in Int
  BY PidType DEF ClockInv, TmpTyped
<1>3. name \in Seq(Int \X Int)
  BY <1>1, <1>2 DEF Drawing
<1>4. state \in Drawing /\ state # NoFile
  BY <1>1, <1>2, <1>3 DEF Drawing, Step, NoFile
<1>5. /\ state.name = name /\ state.drew = now /\ state.began = tmp[c].began
      /\ state.step = IF Len(name) = NAMELENGTH THEN "probe" ELSE "draw"
  BY <1>1 DEF Drawing
<1>6. tmp' = [tmp EXCEPT ![c] = state] /\ now' = now /\ outrun' = outrun
  BY DEF Draw
<1>7. \A q \in Pid : rng'[q].seed = rng[q].seed
  BY DEF Draw, ClockInv, TmpTyped
<1>8. rng' \in [Pid -> [seed : Int, drawn : Int]]
  <2>1. rng[p].drawn + 1 \in Int /\ rng[p] \in [seed : Int, drawn : Int]
    BY <1>2 DEF ClockInv, TmpTyped
  <2>2. [rng[p] EXCEPT !.drawn = rng[p].drawn + 1] \in [seed : Int, drawn : Int]
    BY <2>1
  <2> QED
    BY <1>2, <2>2 DEF Draw, ClockInv, TmpTyped
<1>9. tmp[c].began <= now
  BY <1>1 DEF ClockInv, SecondsCame
<1>10. ASSUME ~outrun PROVE Within(state, p)
  <2>1. tmp[c].began + p <= rng[p].seed /\ rng[p].seed <= now + p
    BY <1>1, <1>2, <1>10, SMTT(30) DEF ClockInv, SeededSince, SecondsCame
  <2>2. tmp[c].drew <= now /\ Within(tmp[c], p)
    BY <1>1, <1>10 DEF ClockInv, DrawnWithin, SecondsCame
  <2>3. ASSUME NEW i \in DOMAIN name PROVE tmp[c].began + p <= name[i][1] /\ name[i][1] <= now + p
    <3>1. tmp[c].name \in Seq(Int \X Int)
      BY <1>1 DEF Drawing
    <3>2. drawn \in Int \X Int /\ drawn[1] = rng[p].seed
      BY <1>2
    <3> DEFINE old == tmp[c].name
    <3>3. /\ Len(name) = Len(old) + 1 /\ name[Len(old) + 1] = drawn
          /\ \A j \in 1 .. Len(old) : name[j] = old[j]
          /\ DOMAIN name = 1 .. Len(name) /\ DOMAIN old = 1 .. Len(old) /\ Len(old) \in Nat
      BY <3>1, <3>2, Appended, SMTT(30)
    <3>4. \A j \in DOMAIN old : old[j] \in Int \X Int
      BY <3>1
    <3>5. tmp[c].drew \in Int /\ p \in Int
      BY <1>1, PidType DEF Drawing
    <3>6. \A j \in DOMAIN old : tmp[c].began + p <= old[j][1] /\ old[j][1] <= tmp[c].drew + p
      BY <2>2 DEF Within
    <3> HIDE DEF drawn, old, name
    <3>7. CASE i = Len(old) + 1
      BY <2>1, <3>2, <3>3, <3>7
    <3>8. CASE i # Len(old) + 1
      <4>1. i \in DOMAIN old /\ name[i] = old[i]
        BY <2>3, <3>3, <3>8
      <4>2. old[i][1] \in Int
        BY <3>4, <4>1
      <4> QED
        BY <1>2, <2>2, <3>5, <3>6, <4>1, <4>2
    <3> QED
      BY <3>7, <3>8
  <2> HIDE DEF state, name
  <2> QED
    BY <1>5, <2>3 DEF Within
<1> HIDE DEF state, name
<1>11. \A d \in Callers : tmp'[d] = IF d = c THEN state ELSE tmp[d]
  BY <1>6 DEF ClockInv, TmpTyped
<1>12. TmpTyped'
  BY <1>4, <1>6, <1>8 DEF ClockInv, TmpTyped
<1>13. SecondsCame'
  BY <1>2, <1>5, <1>6, <1>7, <1>9, <1>11 DEF ClockInv, SecondsCame
<1>14. SeededSince'
  BY <1>1, <1>5, <1>6, <1>7, <1>11, PidType DEF ClockInv, SeededSince
<1>15. DrawnWithin'
  BY <1>6, <1>10, <1>11 DEF ClockInv, DrawnWithin
<1>16. NameLong'
  BY <1>5, <1>11 DEF ClockInv, NameLong
<1> QED
  BY <1>12, <1>13, <1>14, <1>15, <1>16 DEF ClockInv

LEMMA ClockNext == ClockInv /\ [TmpNext]_tmpVars => ClockInv'
<1> SUFFICES ASSUME ClockInv, [TmpNext]_tmpVars PROVE ClockInv'
  OBVIOUS
<1>1. CASE UNCHANGED tmpVars
  BY <1>1 DEF tmpVars, ClockInv, TmpTyped, SecondsCame, SeededSince, DrawnWithin, Within, NameLong
<1>2. CASE Tick
  <2>1. now \in Int /\ now' = now + 1 /\ tmp' = tmp /\ rng' = rng /\ outrun' = outrun
    BY <1>2 DEF Tick, ClockInv, TmpTyped
  <2>2. \A p \in Pid : rng[p].seed \in Int /\ p \in Int
    BY PidType DEF ClockInv, TmpTyped
  <2>3. \A c \in Callers : tmp[c] # NoFile => tmp[c].began \in Int /\ tmp[c].drew \in Int
    BY DEF ClockInv, TmpTyped, Drawing
  <2>4. SecondsCame'
    BY <2>1, <2>2, <2>3 DEF ClockInv, SecondsCame
  <2> QED
    BY <2>1, <2>4 DEF ClockInv, TmpTyped, SeededSince, DrawnWithin, Within, NameLong
<1>3. ASSUME NEW c \in Callers,
             GetTmpFile(c) \/ TmpStep(c) \/ OpenTmp(c) \/ AssertFails(c) \/ Leave(c)
      PROVE  ClockInv'
  <2>1. now \in Int /\ tmp[c] \in {NoFile} \cup Drawing /\ NoFile.step = "none"
    BY DEF ClockInv, TmpTyped, NoFile
  <2>2. ASSUME tmp[c].step # "none"
        PROVE  /\ tmp[c] \in Drawing /\ tmp[c] # NoFile
               /\ tmp[c].began <= now /\ tmp[c].drew <= now
               /\ ~outrun => Within(tmp[c], Process[c])
    BY <2>1, <2>2 DEF ClockInv, SecondsCame, DrawnWithin
  <2>3. CASE GetTmpFile(c)
    <3> DEFINE state == [step |-> "clock", left |-> RETRIES, began |-> now,
                         drew |-> now, second |-> now, name |-> <<>>]
    <3>1. state \in Drawing /\ Within(state, Process[c])
      BY <2>1, TmpFileAssumption DEF Drawing, Step, Within
    <3>2. state.step = "clock" /\ state.began <= now /\ state.drew <= now
      BY <2>1
    <3>3. tmp' = [tmp EXCEPT ![c] = state] /\ UNCHANGED <<now, rng>> /\ outrun' = outrun
      BY <2>3 DEF GetTmpFile
    <3> HIDE DEF state
    <3> QED
      BY <3>1, <3>2, <3>3, CallerMoves
  <2>4. CASE ReadClock(c)
    <3> DEFINE state == [tmp[c] EXCEPT !.step = "seed", !.second = now, !.name = <<>>]
    <3>1. tmp[c] \in Drawing /\ tmp[c].began <= now /\ tmp[c].drew <= now
      BY <2>2, <2>4 DEF ReadClock, AtTmp
    <3>2. state \in Drawing /\ Within(state, Process[c])
      <4>1. "seed" \in Step /\ <<>> \in Seq(Int \X Int)
        BY DEF Step
      <4>2. state \in Drawing /\ state.name = <<>>
        BY <2>1, <3>1, <4>1 DEF Drawing
      <4> QED
        BY <4>2 DEF Within
    <3>3. state.step = "seed" /\ state.began <= now /\ state.drew <= now
      BY <3>1 DEF Drawing
    <3>4. tmp' = [tmp EXCEPT ![c] = state] /\ UNCHANGED <<now, rng>> /\ outrun' = outrun
      BY <2>4 DEF ReadClock
    <3> HIDE DEF state
    <3> QED
      BY <3>2, <3>3, <3>4, CallerMoves
  <2>5. CASE Probe(c)
    <3> DEFINE taken == tmp[c].name \in names /\ descriptors[Process[c]] < MaxDescriptors
               left  == IF taken THEN tmp[c].left - 1 ELSE tmp[c].left
               next  == IF taken /\ tmp[c].left > 1 THEN "clock" ELSE "open"
               state == [tmp[c] EXCEPT !.left = left, !.step = next]
    <3>1. tmp[c] \in Drawing /\ tmp[c].step = "probe"
      BY <2>2, <2>5 DEF Probe, AtTmp
    <3>2. state \in Drawing
      <4>1. left \in Int /\ next \in Step
        BY <3>1 DEF Drawing, Step
      <4> HIDE DEF left, next
      <4> QED
        BY <3>1, <4>1 DEF Drawing
    <3>3. /\ state.step \in {"clock", "open"} /\ state.name = tmp[c].name
          /\ state.began = tmp[c].began /\ state.drew = tmp[c].drew
      BY <3>1 DEF Drawing
    <3>4. Within(state, Process[c]) <=> Within(tmp[c], Process[c])
      BY <3>3 DEF Within
    <3>5. Len(tmp[c].name) = NAMELENGTH
      BY <3>1 DEF ClockInv, NameLong
    <3>6. tmp' = [tmp EXCEPT ![c] = state] /\ UNCHANGED <<now, rng>> /\ outrun' = outrun
      BY <2>5 DEF Probe
    <3> HIDE DEF state
    <3> QED
      BY <2>2, <3>1, <3>2, <3>3, <3>4, <3>5, <3>6, CallerMoves
  <2>6. CASE OpenTmp(c)
    <3> DEFINE state == [tmp[c] EXCEPT !.step = "have"]
    <3>1. tmp[c] \in Drawing /\ tmp[c].step = "open"
      BY <2>2, <2>6 DEF OpenTmp, AtTmp
    <3>2. state \in Drawing
      BY <3>1 DEF Drawing, Step
    <3>3. /\ state.step = "have" /\ state.name = tmp[c].name
          /\ state.began = tmp[c].began /\ state.drew = tmp[c].drew
      BY <3>1 DEF Drawing
    <3>4. Within(state, Process[c]) <=> Within(tmp[c], Process[c])
      BY <3>3 DEF Within
    <3>5. Len(tmp[c].name) = NAMELENGTH
      BY <3>1 DEF ClockInv, NameLong
    <3>6. tmp' = [tmp EXCEPT ![c] = state] /\ UNCHANGED <<now, rng>> /\ outrun' = outrun
      BY <2>6 DEF OpenTmp
    <3> HIDE DEF state
    <3> QED
      BY <2>2, <3>1, <3>2, <3>3, <3>4, <3>5, <3>6, CallerMoves
  <2>7. CASE Leave(c)
    BY <2>1, <2>7, CallerMoves DEF Leave
  <2>8. CASE AssertFails(c)
    <3>1. \A d \in Callers : tmp'[d] = NoFile \/ tmp'[d] = tmp[d]
      BY <2>8 DEF AssertFails
    <3>2. TmpTyped'
      BY <2>8 DEF AssertFails, ClockInv, TmpTyped
    <3>3. now' = now /\ rng' = rng /\ outrun' = outrun
      BY <2>8 DEF AssertFails
    <3>4. SecondsCame' /\ SeededSince' /\ DrawnWithin' /\ NameLong'
      BY <2>1, <3>1, <3>3 DEF ClockInv, SecondsCame, SeededSince, DrawnWithin, NameLong
    <3> QED
      BY <3>2, <3>4 DEF ClockInv
  <2> QED
    BY <1>3, <2>3, <2>4, <2>5, <2>6, <2>7, <2>8, SeedKeeps, DrawKeeps DEF TmpStep
<1> QED
  BY <1>1, <1>2, <1>3 DEF TmpNext

\* The first characters of two names that are equal are of one seed, and so of
\* seconds both calls lived in.
LEMMA SharedWithin == ClockInv => SharedInOneSecond
<1> SUFFICES ASSUME ClockInv, NEW c \in Callers, NEW d \in Callers,
                    Has(c), Has(d), tmp[c].name = tmp[d].name, ~outrun
             PROVE  LastsUntil(c, d) /\ LastsUntil(d, c)
  BY DEF SharedInOneSecond
<1>1. tmp[c] \in Drawing /\ tmp[d] \in Drawing /\ tmp[c] # NoFile /\ tmp[d] # NoFile
  BY DEF Has, ClockInv, TmpTyped, NoFile
<1>2. Len(tmp[c].name) = NAMELENGTH /\ tmp[c].name \in Seq(Int \X Int)
  BY <1>1 DEF Has, ClockInv, NameLong, Drawing
<1>3. 1 \in DOMAIN tmp[c].name /\ tmp[c].name[1] \in Int \X Int
  BY <1>2, TmpFileAssumption
<1>4. /\ tmp[c].began + Process[c] <= tmp[c].name[1][1] /\ tmp[c].name[1][1] <= tmp[c].drew + Process[c]
      /\ tmp[d].began + Process[d] <= tmp[d].name[1][1] /\ tmp[d].name[1][1] <= tmp[d].drew + Process[d]
  BY <1>1, <1>3 DEF ClockInv, DrawnWithin, Within
<1>5. /\ tmp[c].began \in Int /\ tmp[c].drew \in Int /\ tmp[d].began \in Int /\ tmp[d].drew \in Int
      /\ tmp[c].name[1][1] \in Int
  BY <1>1, <1>3 DEF Drawing
<1> QED
  BY <1>4, <1>5, PidType DEF LastsUntil

\* Two calls get one file only if they ran in one second, the pids counted in, or a
\* thread seeded with a second that was over, for any number of threads and
\* processes and any interleaving of their draws.
THEOREM SharingNeedsOneSecond == TmpSpec => []SharedInOneSecond
BY ClockInit, ClockNext, SharedWithin, PTL DEF TmpSpec

-----------------------------------------------------------------------------
(***************************************************************************)
(* A call ends: each of its steps leaves fewer than there were.            *)
(***************************************************************************)
\* A call that is not through with its tries has one left, and draws no more
\* characters than the name has.
Trying(t) ==
  /\ t.step \in {"clock", "seed", "draw", "probe"} => t.left >= 1
  /\ t.step = "seed" => t.name = <<>>
  /\ t.step = "draw" => Len(t.name) < NAMELENGTH

TriesInv == \A c \in Callers : Trying(tmp[c])

LEMMA OneTryMore ==
  ASSUME NEW l \in Int, l >= 1, NEW k \in Nat
  PROVE  /\ (l - 1) * k \in Nat
         /\ l * k = (l - 1) * k + k
OBVIOUS

\* The steps left, with n for the characters drawn.
LEMMA StepsAre ==
  ASSUME NEW t \in Drawing, t.step # "have", Trying(t), t.step = "probe" => Len(t.name) = NAMELENGTH
  PROVE  LET m == (t.left - 1) * StepsOfTry
             n == Len(t.name)
         IN  /\ NAMELENGTH \in Nat /\ n \in Nat
             /\ t.step # "open" => m \in Nat
             /\ t.step = "clock" => StepsLeft(t) = m + NAMELENGTH + 4
             /\ t.step = "seed" => n = 0 /\ StepsLeft(t) = m + NAMELENGTH + 3
             /\ t.step = "draw" => n < NAMELENGTH /\ StepsLeft(t) = m + NAMELENGTH + 2 - n
             /\ t.step = "probe" => StepsLeft(t) = m + 2
             /\ t.step = "open" => StepsLeft(t) = 1
<1>1. NAMELENGTH \in Nat /\ StepsOfTry = NAMELENGTH + 3 /\ StepsOfTry \in Nat
  BY TmpFileAssumption DEF StepsOfTry
<1>2. t.left \in Int /\ t.name \in Seq(Int \X Int) /\ t.step \in Step
  BY DEF Drawing
<1>3. PICK m, n, s : m = (t.left - 1) * StepsOfTry /\ n = Len(t.name) /\ s = StepsLeft(t)
  OBVIOUS
<1>4. n \in Nat /\ (t.name = <<>> => n = 0)
  BY <1>2, <1>3
<1>5. t.step # "open" => m \in Nat /\ t.left * StepsOfTry = m + NAMELENGTH + 3
  <2>1. SUFFICES ASSUME t.step # "open"
                 PROVE  m \in Nat /\ t.left * StepsOfTry = m + NAMELENGTH + 3
    OBVIOUS
  <2>2. t.left >= 1
    BY <1>2, <2>1 DEF Trying, Step
  <2>3. (t.left - 1) * StepsOfTry \in Nat /\ t.left * StepsOfTry = (t.left - 1) * StepsOfTry + StepsOfTry
    BY <1>1, <1>2, <2>2, OneTryMore
  <2> HIDE DEF StepsOfTry
  <2>4. m \in Nat /\ t.left * StepsOfTry = m + StepsOfTry
    BY <1>3, <2>3
  <2> QED
    BY <1>1, <2>4
<1>6. s = CASE t.step = "clock" -> 1 + t.left * StepsOfTry
            [] t.step = "seed"  -> 1 + m + NAMELENGTH + 2
            [] t.step \in {"draw", "probe"} -> 1 + m + NAMELENGTH - n + 1
            [] t.step = "open"  -> 1
            [] OTHER            -> 0
  BY <1>3 DEF StepsLeft
<1>7. t.step = "seed" => n = 0
  BY <1>4 DEF Trying
<1>8. t.step = "draw" => n < NAMELENGTH
  BY <1>3 DEF Trying
<1>9. t.step = "probe" => n = NAMELENGTH
  BY <1>3
<1> HIDE DEF StepsLeft
<1>10. t.step = "clock" => s = m + NAMELENGTH + 4
  BY <1>1, <1>5, <1>6
<1>11. t.step = "seed" => s = m + NAMELENGTH + 3
  BY <1>1, <1>5, <1>6
<1>12. t.step = "draw" => s = m + NAMELENGTH + 2 - n
  BY <1>1, <1>4, <1>5, <1>6
<1>13. t.step = "probe" => s = m + 2
  BY <1>1, <1>4, <1>5, <1>6, <1>9
<1>14. t.step = "open" => s = 1
  BY <1>6
<1> QED
  BY <1>1, <1>3, <1>4, <1>5, <1>7, <1>8, <1>10, <1>11, <1>12, <1>13, <1>14

\* From t to u there is one step less to go, at least.
Lowers(t, u) == StepsLeft(t) > 0 /\ StepsLeft(u) \in 0 .. StepsLeft(t) - 1

\* The steps of a call that still tries.
LEMMA TriesStep ==
  ASSUME ClockInv, TriesInv, NEW c \in Callers, TmpStep(c)
  PROVE  \E u : tmp' = [tmp EXCEPT ![c] = u] /\ Trying(u) /\ Lowers(tmp[c], u)
<1> DEFINE t == tmp[c]
<1>1. t \in Drawing /\ t.step \in {"clock", "seed", "draw", "probe"} /\ Trying(t)
  BY DEF TmpStep, ReadClock, Seed, Draw, Probe, AtTmp, ClockInv, TmpTyped, NoFile, TriesInv
<1>2. t.step = "probe" => Len(t.name) = NAMELENGTH
  BY DEF ClockInv, NameLong
<1>3. now \in Int /\ NAMELENGTH \in Nat \ {0}
  BY TmpFileAssumption DEF ClockInv, TmpTyped
<1>4. /\ t.step \in Step /\ t.left \in Int /\ t.began \in Int /\ t.drew \in Int /\ t.second \in Int
      /\ t.name \in Seq(Int \X Int) /\ t.left >= 1
  BY <1>1 DEF Drawing, Trying
<1> DEFINE m == (t.left - 1) * StepsOfTry
           n == Len(t.name)
<1>5. CASE ReadClock(c)
  <2> DEFINE u == [t EXCEPT !.step = "seed", !.second = now, !.name = <<>>]
  <2>1. tmp' = [tmp EXCEPT ![c] = u] /\ t.step = "clock"
    BY <1>5 DEF ReadClock, AtTmp
  <2>2. u \in Drawing /\ u.step = "seed" /\ u.left = t.left /\ u.name = <<>>
    <3>1. <<>> \in Seq(Int \X Int) /\ "seed" \in Step
      BY DEF Step
    <3> QED
      BY <1>1, <1>3, <3>1 DEF Drawing
  <2> HIDE DEF u, t
  <2>3. Trying(u)
    BY <1>4, <2>2 DEF Trying
  <2>4. StepsLeft(u) = m + NAMELENGTH + 3 /\ m \in Nat
    BY <2>2, <2>3, StepsAre
  <2>5. StepsLeft(t) = m + NAMELENGTH + 4
    BY <1>1, <2>1, StepsAre
  <2> HIDE DEF m
  <2>6. Lowers(t, u)
    BY <1>3, <2>4, <2>5 DEF Lowers
  <2> QED
    BY <2>1, <2>3, <2>6 DEF t
<1>6. CASE Seed(c)
  <2> DEFINE u == [t EXCEPT !.step = "draw"]
  <2>1. tmp' = [tmp EXCEPT ![c] = u] /\ t.step = "seed"
    BY <1>6 DEF Seed, AtTmp
  <2>2. u \in Drawing /\ u.step = "draw" /\ u.left = t.left /\ u.name = t.name
    BY <1>1 DEF Drawing, Step
  <2> HIDE DEF u, t
  <2>3. n = 0 /\ StepsLeft(t) = m + NAMELENGTH + 3 /\ m \in Nat
    BY <1>1, <2>1, StepsAre
  <2>4. Trying(u)
    BY <1>3, <1>4, <2>2, <2>3 DEF Trying
  <2>5. StepsLeft(u) = m + NAMELENGTH + 2 - n
    BY <2>2, <2>4, StepsAre
  <2> HIDE DEF m, n
  <2>6. Lowers(t, u)
    BY <1>3, <2>3, <2>5 DEF Lowers
  <2> QED
    BY <2>1, <2>4, <2>6 DEF t
<1>7. CASE Draw(c)
  <2> DEFINE drawn == <<rng[Process[c]].seed, rng[Process[c]].drawn>>
             name  == Append(t.name, drawn)
             next  == IF Len(name) = NAMELENGTH THEN "probe" ELSE "draw"
             u == [t EXCEPT !.name = name, !.drew = now, !.step = next]
  <2>1. tmp' = [tmp EXCEPT ![c] = u] /\ t.step = "draw"
    BY <1>7 DEF Draw, AtTmp
  <2>2. drawn \in Int \X Int
    BY PidType DEF ClockInv, TmpTyped
  <2> HIDE DEF drawn
  <2>3. name \in Seq(Int \X Int) /\ Len(name) = n + 1
    BY <1>4, <2>2, Appended, SMTT(30)
  <2> HIDE DEF name
  <2>4. u \in Drawing /\ u.step = next /\ u.left = t.left /\ u.name = name
    BY <1>1, <1>3, <2>3 DEF Drawing, Step
  <2> HIDE DEF u, t
  <2>5. n < NAMELENGTH /\ StepsLeft(t) = m + NAMELENGTH + 2 - n /\ m \in Nat /\ n \in Nat
    BY <1>1, <2>1, StepsAre
  <2>6. Trying(u)
    BY <1>3, <1>4, <2>3, <2>4, <2>5 DEF Trying
  <2>7. StepsLeft(u) = m + NAMELENGTH + 2 - (n + 1)
    <3>1. CASE n + 1 = NAMELENGTH
      <4>1. u.step = "probe"
        BY <2>3, <2>4, <3>1
      <4>2. StepsLeft(u) = m + 2
        BY <2>3, <2>4, <2>6, <3>1, <4>1, StepsAre
      <4> HIDE DEF m, n
      <4> QED
        BY <1>3, <2>5, <3>1, <4>2
    <3>2. CASE n + 1 # NAMELENGTH
      <4>1. u.step = "draw"
        BY <2>3, <2>4, <3>2
      <4> QED
        BY <2>3, <2>4, <2>6, <4>1, StepsAre
    <3> QED
      BY <3>1, <3>2
  <2> HIDE DEF m, n
  <2>8. Lowers(t, u)
    BY <1>3, <2>5, <2>7 DEF Lowers
  <2> QED
    BY <2>1, <2>6, <2>8 DEF t
<1>8. CASE Probe(c)
  <2> DEFINE taken == t.name \in names /\ descriptors[Process[c]] < MaxDescriptors
             left  == IF taken THEN t.left - 1 ELSE t.left
             next  == IF taken /\ t.left > 1 THEN "clock" ELSE "open"
             u     == [t EXCEPT !.left = left, !.step = next]
  <2>1. tmp' = [tmp EXCEPT ![c] = u] /\ t.step = "probe"
    BY <1>8 DEF Probe, AtTmp
  <2>2. /\ left \in Int /\ next \in Step
        /\ \/ next = "open"
           \/ next = "clock" /\ left = t.left - 1 /\ left >= 1
    <3>1. CASE taken /\ t.left > 1
      <4>1. next = "clock" /\ left = t.left - 1
        BY <3>1
      <4> QED
        BY <1>4, <3>1, <4>1 DEF Step
    <3>2. CASE ~(taken /\ t.left > 1)
      <4>1. next = "open"
        BY <3>2
      <4>2. left \in Int
        BY <1>4
      <4> QED
        BY <4>1, <4>2 DEF Step
    <3> QED
      BY <3>1, <3>2
  <2> HIDE DEF left, next
  <2>3. u \in Drawing /\ u.step = next /\ u.left = left /\ u.name = t.name
    BY <1>1, <2>2 DEF Drawing
  <2> HIDE DEF u, t
  <2>4. StepsLeft(t) = m + 2 /\ m \in Nat
    BY <1>1, <1>2, <2>1, StepsAre
  <2>5. Trying(u)
    BY <2>2, <2>3 DEF Trying
  <2>6. CASE next = "open"
    <3>1. StepsLeft(u) = 1
      BY <2>3, <2>5, <2>6, StepsAre
    <3> HIDE DEF m
    <3>2. Lowers(t, u)
      BY <2>4, <3>1 DEF Lowers
    <3> QED
      BY <2>1, <2>5, <3>2 DEF t
  <2>7. CASE next = "clock" /\ left = t.left - 1 /\ left >= 1
    <3> DEFINE k == (left - 1) * StepsOfTry
    <3>1. StepsLeft(u) = k + NAMELENGTH + 4 /\ k \in Nat
      BY <2>3, <2>5, <2>7, StepsAre
    <3>2. m = k + NAMELENGTH + 3
      <4>1. StepsOfTry \in Nat /\ StepsOfTry = NAMELENGTH + 3
        BY <1>3 DEF StepsOfTry
      <4>2. left * StepsOfTry = k + StepsOfTry
        BY <2>2, <2>7, <4>1, OneTryMore
      <4> HIDE DEF k
      <4> QED
        BY <1>3, <2>7, <3>1, <4>1, <4>2
    <3> HIDE DEF k, m
    <3>3. Lowers(t, u)
      BY <1>3, <2>4, <3>1, <3>2 DEF Lowers
    <3> QED
      BY <2>1, <2>5, <3>3 DEF t
  <2> QED
    BY <2>2, <2>6, <2>7
<1> QED
  BY <1>5, <1>6, <1>7, <1>8 DEF TmpStep

\* What the callers are at after a step, told of the caller that takes it.
LEMMA TriesMove ==
  ASSUME TriesInv, tmp \in [Callers -> {NoFile} \cup Drawing], NEW c \in Callers, NEW u,
         tmp' = [tmp EXCEPT ![c] = u], Trying(u)
  PROVE  TriesInv' /\ \A d \in Callers : tmp'[d] # tmp[d] => d = c /\ tmp'[d] = u
BY DEF TriesInv

\* What a step of the module may do to a call, as TriesRunOut has it.
Ends(t, u) ==
  \/ t = NoFile /\ StepsLeft(u) <= 1 + RETRIES * StepsOfTry
  \/ t.step = "have" /\ u = NoFile
  \/ Lowers(t, u)

LEMMA NoFileTries == Trying(NoFile) /\ StepsLeft(NoFile) = 0
BY DEF Trying, NoFile, StepsLeft

LEMMA TriesNext ==
  ASSUME ClockInv, TriesInv, [TmpNext]_tmpVars
  PROVE  TriesInv' /\ \A d \in Callers : tmp'[d] # tmp[d] => Ends(tmp[d], tmp'[d])
<1>1. tmp \in [Callers -> {NoFile} \cup Drawing]
  BY DEF ClockInv, TmpTyped
<1>2. CASE UNCHANGED tmpVars \/ Tick
  <2>1. tmp' = tmp
    BY <1>2 DEF tmpVars, Tick
  <2> QED
    BY <2>1 DEF TriesInv
<1>3. ASSUME NEW c \in Callers, GetTmpFile(c)
      PROVE  TriesInv' /\ \A d \in Callers : tmp'[d] # tmp[d] => Ends(tmp[d], tmp'[d])
  <2> DEFINE u == [step |-> "clock", left |-> RETRIES, began |-> now,
                   drew |-> now, second |-> now, name |-> <<>>]
  <2>1. tmp' = [tmp EXCEPT ![c] = u] /\ tmp[c].step = "none"
    BY <1>3 DEF GetTmpFile, AtTmp
  <2>2. tmp[c] = NoFile
    BY <1>1, <2>1 DEF Drawing, Step
  <2>3. u.step = "clock" /\ u.left = RETRIES
    OBVIOUS
  <2> HIDE DEF u
  <2>4. Trying(u)
    BY <2>3, TmpFileAssumption DEF Trying
  <2>5. StepsLeft(u) = 1 + RETRIES * StepsOfTry
    BY <2>3 DEF StepsLeft
  <2>6. RETRIES * StepsOfTry \in Nat
    BY TmpFileAssumption DEF StepsOfTry
  <2> HIDE DEF StepsOfTry
  <2>7. Ends(tmp[c], u)
    BY <2>2, <2>5, <2>6 DEF Ends
  <2> QED
    BY <1>1, <2>1, <2>4, <2>7, TriesMove
<1>4. ASSUME NEW c \in Callers, TmpStep(c)
      PROVE  TriesInv' /\ \A d \in Callers : tmp'[d] # tmp[d] => Ends(tmp[d], tmp'[d])
  <2>1. PICK u : tmp' = [tmp EXCEPT ![c] = u] /\ Trying(u) /\ Lowers(tmp[c], u)
    BY <1>4, TriesStep
  <2> QED
    BY <1>1, <2>1, TriesMove DEF Ends
<1>5. ASSUME NEW c \in Callers, OpenTmp(c)
      PROVE  TriesInv' /\ \A d \in Callers : tmp'[d] # tmp[d] => Ends(tmp[d], tmp'[d])
  <2> DEFINE u == [tmp[c] EXCEPT !.step = "have"]
  <2>1. tmp' = [tmp EXCEPT ![c] = u] /\ tmp[c].step = "open"
    BY <1>5 DEF OpenTmp, AtTmp
  <2>2. tmp[c] \in Drawing
    BY <1>1, <2>1 DEF NoFile
  <2>3. u.step = "have"
    BY <2>2 DEF Drawing
  <2> HIDE DEF u
  <2>4. Trying(u) /\ Lowers(tmp[c], u)
    BY <2>1, <2>3 DEF Trying, Lowers, StepsLeft
  <2> QED
    BY <1>1, <2>1, <2>4, TriesMove DEF Ends
<1>6. ASSUME NEW c \in Callers, Leave(c)
      PROVE  TriesInv' /\ \A d \in Callers : tmp'[d] # tmp[d] => Ends(tmp[d], tmp'[d])
  <2>1. tmp' = [tmp EXCEPT ![c] = NoFile] /\ tmp[c].step = "have"
    BY <1>6 DEF Leave, AtTmp
  <2> QED
    BY <1>1, <2>1, TriesMove, NoFileTries DEF Ends
\* The end of the process takes its other threads from wherever they are.
<1>7. ASSUME NEW c \in Callers, AssertFails(c)
      PROVE  TriesInv' /\ \A d \in Callers : tmp'[d] # tmp[d] => Ends(tmp[d], tmp'[d])
  <2>1. \A d \in Callers : tmp'[d] = NoFile \/ tmp'[d] = tmp[d]
    BY <1>7 DEF AssertFails
  <2>2. TriesInv'
    BY <2>1, NoFileTries DEF TriesInv
  <2>3. ASSUME NEW d \in Callers, tmp'[d] # tmp[d], tmp[d].step # "have"
        PROVE  Lowers(tmp[d], tmp'[d])
    <3>1. tmp[d] \in Drawing /\ tmp'[d] = NoFile
      BY <1>1, <2>1, <2>3
    <3>2. StepsLeft(tmp[d]) \in Nat \ {0}
      <4>1. tmp[d].step = "probe" => Len(tmp[d].name) = NAMELENGTH
        BY DEF ClockInv, NameLong
      <4>2. Trying(tmp[d]) /\ tmp[d].step \in Step
        BY <3>1 DEF TriesInv, Drawing
      <4> DEFINE t == tmp[d]
                 m == (t.left - 1) * StepsOfTry
                 n == Len(t.name)
                 s == StepsLeft(t)
      <4>3. /\ NAMELENGTH \in Nat /\ n \in Nat
            /\ t.step # "open" => m \in Nat
            /\ t.step = "clock" => s = m + NAMELENGTH + 4
            /\ t.step = "seed" => n = 0 /\ s = m + NAMELENGTH + 3
            /\ t.step = "draw" => n < NAMELENGTH /\ s = m + NAMELENGTH + 2 - n
            /\ t.step = "probe" => s = m + 2
            /\ t.step = "open" => s = 1
        BY <2>3, <3>1, <4>1, <4>2, StepsAre
      <4> HIDE DEF m, n, s
      <4>4. s \in Nat \ {0}
        BY <2>3, <4>2, <4>3 DEF Step
      <4> QED
        BY <4>4 DEF s
    <3> QED
      BY <3>1, <3>2, NoFileTries DEF Lowers
  <2> QED
    BY <2>1, <2>2, <2>3 DEF Ends
<1> QED
  BY <1>2, <1>3, <1>4, <1>5, <1>6, <1>7 DEF TmpNext

LEMMA TriesAre == TmpSpec => [](ClockInv /\ TriesInv)
<1>1. TmpInit => TriesInv
  BY NoFileTries DEF TmpInit, TriesInv
<1> QED
  BY <1>1, ClockInit, ClockNext, TriesNext, PTL DEF TmpSpec

\* A call of get_tmp_file ends after RETRIES tries at most, whatever names other
\* threads take in between, for any number of threads, of tries and of characters.
THEOREM EveryTryCounts == TmpSpec => TriesRunOut
<1>1. ASSUME ClockInv, TriesInv, [TmpNext]_tmpVars
      PROVE  [\A c \in Callers : tmp'[c] # tmp[c] =>
                \/ tmp[c] = NoFile /\ StepsLeft(tmp'[c]) <= 1 + RETRIES * StepsOfTry
                \/ Has(c) /\ tmp'[c] = NoFile
                \/ StepsLeft(tmp[c]) > 0 /\ StepsLeft(tmp'[c]) \in 0 .. StepsLeft(tmp[c]) - 1]_tmpVars
  BY <1>1, TriesNext DEF Ends, Lowers, Has
<1> QED
  BY <1>1, TriesAre, PTL DEF TmpSpec, TriesRunOut
=============================================================================
