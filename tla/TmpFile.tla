------------------------------ MODULE TmpFile ------------------------------
(***************************************************************************)
(* Temporary files (common.c): get_tmp_file draws names until it meets one *)
(* that is not there, and opens it.  The threads of a process share the    *)
(* state of rand(); each try seeds it again with the second and the pid.   *)
(* All processes share TMPDIR.  Nobody closes or removes such a file.      *)
(***************************************************************************)
EXTENDS Integers, Sequences

CONSTANTS
  Callers,          \* threads
  Process,          \* for each thread, the pid of its process
  NAMELENGTH,       \* characters drawn (10 in the code)
  RETRIES,          \* names tried (100 in the code)
  MaxDescriptors,   \* files a process may have open
  MaxTime           \* bound on the seconds that pass

ASSUME TmpFileAssumption ==
  /\ Process \in [Callers -> Nat]
  /\ {NAMELENGTH, RETRIES} \subseteq Nat \ {0}
  /\ {MaxDescriptors, MaxTime} \subseteq Nat

Pid == {Process[c] : c \in Callers}

VARIABLES
  now,           \* time(0)
  rng,           \* for each process, the seed of rand() and the numbers drawn since
  outrun,        \* history: has a thread seeded with a second that was over?
  names,         \* the files in TMPDIR
  descriptors,   \* for each process, the temporary files it has open
  alive,         \* processes that run
  tmp            \* for each caller, where it is

tmpVars == <<now, rng, outrun, names, descriptors, alive, tmp>>

NoFile == [step |-> "none"]
AtTmp(c, step) == tmp[c].step = step

\* get_tmp_file is called.
GetTmpFile(c) ==
  /\ AtTmp(c, "none")
  /\ Process[c] \in alive
  /\ tmp' = [tmp EXCEPT ![c] = [step |-> "clock", left |-> RETRIES, began |-> now,
                                drew |-> now, second |-> now, name |-> <<>>]]
  /\ UNCHANGED <<now, rng, outrun, names, descriptors, alive>>

(***************************************************************************)
(* create_random_string: the clock is read, the generator is seeded, and a *)
(* number is drawn for each character, all of them steps other threads may *)
(* come between.  What rand() returns is modelled as its place in the      *)
(* sequence of its seed: names that are equal by chance are left out.      *)
(***************************************************************************)
ReadClock(c) ==
  /\ AtTmp(c, "clock")
  /\ tmp' = [tmp EXCEPT ![c].step = "seed", ![c].second = now, ![c].name = <<>>]
  /\ UNCHANGED <<now, rng, outrun, names, descriptors, alive>>

\* Mutant of Seed: the seed is the pid alone.
seed_by_pid(c) ==
  /\ AtTmp(c, "seed")
  /\ rng' = [rng EXCEPT ![Process[c]] = [seed |-> Process[c], drawn |-> 0]]
  /\ outrun' = (outrun \/ tmp[c].second # now)
  /\ tmp' = [tmp EXCEPT ![c].step = "draw"]
  /\ UNCHANGED <<now, names, descriptors, alive>>

\* Mutant of Seed: the seed is the second alone.
seed_by_clock(c) ==
  /\ AtTmp(c, "seed")
  /\ rng' = [rng EXCEPT ![Process[c]] = [seed |-> tmp[c].second, drawn |-> 0]]
  /\ outrun' = (outrun \/ tmp[c].second # now)
  /\ tmp' = [tmp EXCEPT ![c].step = "draw"]
  /\ UNCHANGED <<now, names, descriptors, alive>>

Seed(c) ==
  /\ AtTmp(c, "seed")
  /\ rng' = [rng EXCEPT ![Process[c]] = [seed |-> tmp[c].second + Process[c], drawn |-> 0]]
  /\ outrun' = (outrun \/ tmp[c].second # now)
  /\ tmp' = [tmp EXCEPT ![c].step = "draw"]
  /\ UNCHANGED <<now, names, descriptors, alive>>

Draw(c) ==
  LET p    == Process[c]
      name == Append(tmp[c].name, <<rng[p].seed, rng[p].drawn>>)
  IN  /\ AtTmp(c, "draw")
      /\ rng' = [rng EXCEPT ![p].drawn = @ + 1]
      /\ tmp' = [tmp EXCEPT ![c].name = name, ![c].drew = now,
                            ![c].step = IF Len(name) = NAMELENGTH THEN "probe" ELSE "draw"]
      /\ UNCHANGED <<now, outrun, names, descriptors, alive>>

(***************************************************************************)
(* fopen(filepath, "r") tells whether the file is there, unless no more    *)
(* files can be opened, and is closed again.  A name that is taken is      *)
(* tried again RETRIES times; the last one is used all the same.           *)
(***************************************************************************)
\* Mutant of Probe: no end to the tries.
probe_for_ever(c) ==
  LET taken == tmp[c].name \in names /\ descriptors[Process[c]] < MaxDescriptors IN
  /\ AtTmp(c, "probe")
  /\ tmp' = [tmp EXCEPT ![c].step = IF taken THEN "clock" ELSE "open"]
  /\ UNCHANGED <<now, rng, outrun, names, descriptors, alive>>

Probe(c) ==
  LET taken == tmp[c].name \in names /\ descriptors[Process[c]] < MaxDescriptors IN
  /\ AtTmp(c, "probe")
  /\ tmp' = [tmp EXCEPT ![c].left = IF taken THEN @ - 1 ELSE @,
                        ![c].step = IF taken /\ tmp[c].left > 1 THEN "clock" ELSE "open"]
  /\ UNCHANGED <<now, rng, outrun, names, descriptors, alive>>

\* fopen(filepath, "w+") makes the file, or empties the one that is there.
OpenTmp(c) ==
  /\ AtTmp(c, "open")
  /\ descriptors[Process[c]] < MaxDescriptors
  /\ names' = names \cup {tmp[c].name}
  /\ descriptors' = [descriptors EXCEPT ![Process[c]] = @ + 1]
  /\ tmp' = [tmp EXCEPT ![c].step = "have"]
  /\ UNCHANGED <<now, rng, outrun, alive>>

\* assert(*fp != NULL): the process ends, with all its threads.
AssertFails(c) ==
  /\ AtTmp(c, "open")
  /\ descriptors[Process[c]] >= MaxDescriptors
  /\ alive' = alive \ {Process[c]}
  /\ tmp' = [d \in Callers |-> IF Process[d] = Process[c] THEN NoFile ELSE tmp[d]]
  /\ descriptors' = [descriptors EXCEPT ![Process[c]] = 0]
  /\ UNCHANGED <<now, rng, outrun, names>>

\* The caller is done with the file; it forgets it, and leaves it open
\* (cloud_lookup, cloud_lookup_path).
Leave(c) ==
  /\ AtTmp(c, "have")
  /\ tmp' = [tmp EXCEPT ![c] = NoFile]
  /\ UNCHANGED <<now, rng, outrun, names, descriptors, alive>>

\* A second passes.
Tick ==
  /\ now < MaxTime
  /\ now' = now + 1
  /\ UNCHANGED <<rng, outrun, names, descriptors, alive, tmp>>

TmpInit ==
  /\ now = 0
  /\ rng = [p \in Pid |-> [seed |-> -1, drawn |-> 0]]
  /\ outrun = FALSE
  /\ names = {}
  /\ descriptors = [p \in Pid |-> 0]
  /\ alive = Pid
  /\ tmp = [c \in Callers |-> NoFile]

\* A step of get_tmp_file that leaves the files as they are.
TmpStep(c) == ReadClock(c) \/ Seed(c) \/ Draw(c) \/ Probe(c)

TmpNext ==
  \/ \E c \in Callers : GetTmpFile(c) \/ TmpStep(c) \/ OpenTmp(c) \/ AssertFails(c) \/ Leave(c)
  \/ Tick

TmpSpec == TmpInit /\ [][TmpNext]_tmpVars

-----------------------------------------------------------------------------
Has(c) == tmp[c].step = "have"

\* In the seconds of its process, in which a second is as many later as the pid
\* is larger: did call c last when call d began?
LastsUntil(c, d) == tmp[d].began + Process[d] <= tmp[c].drew + Process[c]

\* Two calls are given one file only if, the pids counted in, they ran in one
\* second, or a thread seeded the generator with a second that was over:
\* names of different seconds differ though threads draw from one generator
\* and each of them seeds it (create_random_string, get_tmp_file).
SharedInOneSecond ==
  \A c, d \in Callers :
    Has(c) /\ Has(d) /\ tmp[c].name = tmp[d].name /\ ~outrun
      => LastsUntil(c, d) /\ LastsUntil(d, c)

\* The most steps a call may still take until it has its file: a try is the
\* clock, the seed, a draw for each character and the probe.
StepsOfTry == NAMELENGTH + 3

StepsLeft(t) ==
  CASE t.step = "clock" -> 1 + t.left * StepsOfTry
    [] t.step = "seed"  -> 1 + (t.left - 1) * StepsOfTry + NAMELENGTH + 2
    [] t.step \in {"draw", "probe"} ->
         1 + (t.left - 1) * StepsOfTry + NAMELENGTH - Len(t.name) + 1
    [] t.step = "open"  -> 1
    [] OTHER            -> 0

\* Whatever names other threads take while it draws and probes, a call of
\* get_tmp_file ends after a number of steps of its own that RETRIES bounds;
\* the end of its process ends it, too (the loop of get_tmp_file).
TriesRunOut ==
  [][\A c \in Callers : tmp'[c] # tmp[c] =>
       \/ tmp[c] = NoFile /\ StepsLeft(tmp'[c]) <= 1 + RETRIES * StepsOfTry
       \/ Has(c) /\ tmp'[c] = NoFile
       \/ StepsLeft(tmp[c]) > 0 /\ StepsLeft(tmp'[c]) \in 0 .. StepsLeft(tmp[c]) - 1]_tmpVars

\* The file can always be opened, as the assertion of get_tmp_file has it.
AssertHolds ==
  \A c \in Callers : AtTmp(c, "open") => descriptors[Process[c]] < MaxDescriptors
=============================================================================
