---------------------------- MODULE ReadDirents ----------------------------
(***************************************************************************)
(* cloud_read_dirents (handle.c) on s3_list_objects and its callback       *)
(* (s3_connector.c), while other threads and programs add objects.         *)
(*                                                                         *)
(* One request gets up to 1000 keys, as one snapshot of the bucket.  While *)
(* libs3 reads the answer it hands over what it has each time one of its   *)
(* two buffers is full, and the rest at the end.  The array those batches  *)
(* go to is smaller than an answer (Capacity is 100), so isTruncated and   *)
(* nextMarker, which the callback ignores, never come into play before the *)
(* array has overflowed.                                                   *)
(***************************************************************************)
EXTENDS ObjectIds, FiniteSets, SequencesExt

CONSTANTS
  Keys,          \* the ids of objects
  Rank,          \* the character codes S3 sorts ids by
  Directories,   \* ids of the handles the server reads as directories
  MaxContents,   \* libs3's buffers: keys ...
  MaxPrefixes,   \* ... and common prefixes
  Capacity,      \* entries objects is allocated for
  MayFail        \* may the request be refused, or its answer break off?

ASSUME KeysAssumption == Keys \subseteq Oid /\ IsFiniteSet(Keys)
ASSUME RankAssumption == Rank \in [Token -> Nat]
ASSUME DirectoriesAssumption == Directories \subseteq Oid \ {<<>>}
ASSUME BufferAssumption ==
  /\ MaxContents \in Nat /\ MaxContents > 1
  /\ MaxPrefixes \in Nat /\ MaxPrefixes > 0
ASSUME CapacityAssumption == Capacity \in Nat
ASSUME MayFailAssumption == MayFail \in BOOLEAN

VARIABLES
  bucket,         \* the keys of the objects
  before,         \* history: those that were there when the call began
  pc,             \* where the call is
  dir,            \* the id of the handle it was given
  answer,         \* the keys and common prefixes S3 answers with, ...
  arrived,        \* ... how many of them arrive, ...
  handed,         \* ... and how many of those libs3 has handed over
  objects,        \* object_list: the entries written so far ...
  object_count,   \* ... and how many of them count
  passed,         \* the entries the server's callback has taken (dir_state)
  eof

vars ==
  <<bucket, before, pc, dir, answer, arrived, handed, objects, object_count, passed, eof>>

Empty == [contents |-> <<>>, prefixes |-> <<>>]
None == [contents |-> 0, prefixes |-> 0]

\* Mutant of prefix: every id loses its last character.
prefix_cut(oid) == Front(oid)

\* An id that does not end in a slash loses its last character.
prefix(oid) == IF EndsInSlash(oid) THEN oid ELSE Front(oid)

-----------------------------------------------------------------------------
(***************************************************************************)
(* What S3 answers a listing with a prefix and the delimiter "/" with: the *)
(* keys that have no slash after the prefix, and the others cut off after  *)
(* their first one.                                                        *)
(***************************************************************************)
Before(a, b) ==
  \/ IsStrictPrefix(a, b)
  \/ \E i \in DOMAIN a \cap DOMAIN b :
       SubSeq(a, 1, i - 1) = SubSeq(b, 1, i - 1) /\ Rank[a[i]] < Rank[b[i]]

\* The one sequence of the ids of S in S3's order.
InOrder(S) == {s \in SetToSeqs(S) : \A i, j \in DOMAIN s : i < j => Before(s[i], s[j])}

Rest(oid, p) == SubSeq(oid, Len(p) + 1, Len(oid))
FirstSlash(text) == SelectInSeq(text, LAMBDA token : token = Slash)

Under(p) == {oid \in bucket : IsPrefix(p, oid)}
DirectKeys(p) == {oid \in Under(p) : Slash \notin ToSet(Rest(oid, p))}
Subdirectories(p) ==
  {SubSeq(oid, 1, Len(p) + FirstSlash(Rest(oid, p))) : oid \in Under(p) \ DirectKeys(p)}

\* libs3 reads the keys first.  It hands over when either buffer is full, and
\* what it has when the answer ends, whole or not.
Least(m, n) == IF m < n THEN m ELSE n
BatchContents == Least(MaxContents, arrived.contents - handed.contents)
BatchPrefixes ==
  IF BatchContents = MaxContents THEN 0
  ELSE Least(MaxPrefixes, arrived.prefixes - handed.prefixes)

AllHanded ==
  /\ handed.contents = arrived.contents
  /\ handed.prefixes = arrived.prefixes

-----------------------------------------------------------------------------
\* Mutant of basename: the slash at the end is the last one, too.
basename_of_file(oid) ==
  SubSeq(oid, SelectLastInSeq(oid, LAMBDA token : token = Slash) + 1, Len(oid))

\* basename: the part after the last slash, but for one at the end.
basename(oid) ==
  LET text == IF EndsInSlash(oid) THEN Front(oid) ELSE oid
      last == SelectLastInSeq(text, LAMBDA token : token = Slash)
  IN  SubSeq(text, last + 1, Len(text))

names(oids) == [i \in DOMAIN oids |-> basename(oids[i])]

\* The server has a handle of that id.  Whether there is an object of it is not
\* looked at: mkdir gives a handle even if its PUT was refused.
ReadDir(oid) ==
  /\ pc \in {"idle", "returned"}
  /\ pc' = "request"
  /\ dir' = oid
  /\ answer' = Empty
  /\ arrived' = None
  /\ handed' = None
  /\ objects' = <<>>
  /\ object_count' = 0
  /\ passed' = <<>>
  /\ eof' = FALSE
  /\ before' = bucket
  /\ UNCHANGED bucket

\* The request of s3_list_objects.  Of a refused one nothing arrives.
ListBucket ==
  /\ pc = "request"
  /\ pc' = "parse"
  /\ \E c \in InOrder(DirectKeys(prefix(dir))), p \in InOrder(Subdirectories(prefix(dir))) :
       /\ answer' = [contents |-> c, prefixes |-> p]
       /\ \E m \in 0 .. Len(c), n \in 0 .. Len(p) :
            /\ arrived' = [contents |-> m, prefixes |-> n]
            /\ n > 0 => m = Len(c)
            /\ ~MayFail => m = Len(c) /\ n = Len(p)
  /\ UNCHANGED <<bucket, before, dir, handed, objects, object_count, passed, eof>>

\* Mutant of start_index: the first batch is taken as a whole.
start_index_zero == 0

\* Mutant of start_index: the first key of every batch is left out.
start_index_always == 1

\* The first batch begins with the directory itself, which is left out.
start_index == IF object_count = 0 THEN 1 ELSE 0

\* Mutant of listBucketCallback: each batch is written from the beginning of
\* the array on.
callback_from_zero ==
  LET c   == handed.contents + BatchContents
      p   == handed.prefixes + BatchPrefixes
      new == names(SubSeq(answer.contents, handed.contents + 1 + start_index, c))
               \o names(SubSeq(answer.prefixes, handed.prefixes + 1, p))
  IN  /\ pc = "parse"
      /\ ~AllHanded
      /\ handed' = [contents |-> c, prefixes |-> p]
      /\ objects' = new \o SubSeq(objects, Len(new) + 1, Len(objects))
      /\ object_count' = object_count + BatchContents + BatchPrefixes - start_index
      /\ UNCHANGED <<bucket, before, pc, dir, answer, arrived, passed, eof>>

(***************************************************************************)
(* listBucketCallback.  A write past the array is undefined; what follows  *)
(* it is not modelled but for a restart of the process.  libs3 hands over  *)
(* no empty batch, so the branch for one is never taken.                   *)
(***************************************************************************)
listBucketCallback ==
  LET c   == handed.contents + BatchContents
      p   == handed.prefixes + BatchPrefixes
      new == names(SubSeq(answer.contents, handed.contents + 1 + start_index, c))
               \o names(SubSeq(answer.prefixes, handed.prefixes + 1, p))
  IN  /\ pc = "parse"
      /\ ~AllHanded
      /\ handed' = [contents |-> c, prefixes |-> p]
      /\ IF object_count + Len(new) > Capacity
         THEN pc' = "undefined" /\ UNCHANGED <<objects, object_count>>
         ELSE /\ objects' = SubSeq(objects, 1, object_count) \o new
              /\ object_count' = object_count + BatchContents + BatchPrefixes - start_index
              /\ UNCHANGED pc
      /\ UNCHANGED <<bucket, before, dir, answer, arrived, passed, eof>>

\* The completion callback ends the wait, whatever the status is.
ListComplete ==
  /\ pc = "parse"
  /\ AllHanded
  /\ pc' = "loop"
  /\ UNCHANGED <<bucket, before, dir, answer, arrived, handed, objects, object_count, passed, eof>>

\* The loop over the entries: the server takes one, ...
Callback ==
  /\ pc = "loop"
  /\ Len(passed) < object_count
  /\ passed' = Append(passed, objects[Len(passed) + 1])
  /\ UNCHANGED <<bucket, before, pc, dir, answer, arrived, handed, objects, object_count, eof>>

\* ... or there is none left, or the server wants no more.
Return ==
  /\ pc = "loop"
  /\ pc' = "returned"
  /\ eof' = TRUE
  /\ UNCHANGED <<bucket, before, dir, answer, arrived, handed, objects, object_count, passed>>

\* Another thread or program stores an object.
Put(oid) ==
  /\ bucket' = bucket \cup {oid}
  /\ UNCHANGED <<before, pc, dir, answer, arrived, handed, objects, object_count, passed, eof>>

Restart ==
  /\ pc = "undefined"
  /\ pc' = "idle"
  /\ UNCHANGED <<bucket, before, dir, answer, arrived, handed, objects, object_count, passed, eof>>

\* create_export has stored the root.
Init ==
  /\ bucket = {ROOTOID}
  /\ before = {}
  /\ pc = "idle"
  /\ dir = ROOTOID
  /\ answer = Empty
  /\ arrived = None
  /\ handed = None
  /\ objects = <<>>
  /\ object_count = 0
  /\ passed = <<>>
  /\ eof = FALSE

Next ==
  \/ \E oid \in Directories : ReadDir(oid)
  \/ ListBucket
  \/ listBucketCallback
  \/ ListComplete
  \/ Callback
  \/ Return
  \/ \E oid \in Keys : Put(oid)
  \/ Restart

Spec == Init /\ [][Next]_vars

-----------------------------------------------------------------------------
(***************************************************************************)
(* Properties.                                                             *)
(***************************************************************************)

\* There is an answer that begins with the directory's own object.  Its id ends
\* as mkdir's do.
Listed == EndsInSlash(dir) /\ dir \in ToSet(answer.contents)

Arrived ==
  /\ arrived.contents = Len(answer.contents)
  /\ arrived.prefixes = Len(answer.prefixes)

\* What a reader of the directory is to see: files, then directories.
Entries == names(Tail(answer.contents)) \o names(answer.prefixes)

\* Over however many batches, the server is given the entries of the
\* directory in order, none left out and none repeated, and if it takes all
\* it is offered and the answer did not break off, it is given all of them
\* (listBucketCallback's object_count, obj_index and start_index).
ListsDirectory ==
  Listed /\ pc \in {"loop", "returned"} =>
    /\ IsPrefix(passed, Entries)
    /\ Arrived /\ Len(passed) = object_count => passed = Entries

\* The array overflows only if the directory has more entries than it was
\* allocated for, not by a count that runs ahead of what was written.
OverflowsOnlyIfFull == Listed /\ pc = "undefined" => Len(Entries) > Capacity

\* Each entry the server is given of a directory whose id ends as the root's and
\* mkdir's do is in it, whether or not the directory has an object of its own:
\* lookup's or mkdir's id of that name in it is an object, or the beginning of one
\* (cloud_read_dirents' prefix, cloud_makedir's and cloud_create's ids).  Not so
\* for what create made a directory of: cloud_read_dirents lists what begins like
\* its id without the last character, which is the parent.
EntriesExist ==
  EndsInSlash(dir) =>
    \A i \in DOMAIN passed :
      \/ file_key(dir, passed[i]) \in bucket
      \/ \E oid \in bucket : IsPrefix(dir_key(dir, passed[i]), oid)

TookAll == pc = "returned" /\ Arrived /\ Len(passed) = object_count

\* An entry for each object that was under the directory at the call: the file,
\* or the directory of it that the object is in.
HasEntries ==
  \A oid \in before : IsStrictPrefix(dir, oid) =>
    \E i \in DOMAIN passed :
      \/ file_key(dir, passed[i]) = oid
      \/ IsPrefix(dir_key(dir, passed[i]), oid)

\* A server that takes all of a whole answer misses no object that was under the
\* directory when it called, whatever is stored meanwhile, if the answer has the
\* directory's own object (listBucketCallback).
NoneMissed == Listed /\ TookAll => HasEntries

\* cloud_read_dirents sets eof "if EOF of dir": a server that took all it was
\* offered has then seen everything in the directory.  Not so if the directory
\* has no object of its own, as mkdir does not ask whether its PUT succeeded.
EofMeansAll == EndsInSlash(dir) /\ TookAll /\ eof => HasEntries

\* Neither create nor mkdir looks whether the other has used a name.  Only if
\* both have is the server given one name twice, and then not more often
\* (cloud_create's and cloud_makedir's ids, listBucketCallback's obj_index).
EntriesOnce ==
  EndsInSlash(dir) =>
    \A i, j \in DOMAIN passed : i # j /\ passed[i] = passed[j] =>
      /\ file_key(dir, passed[i]) \in bucket
      /\ \E oid \in bucket : IsPrefix(dir_key(dir, passed[i]), oid)
      /\ \A k \in DOMAIN passed : passed[k] = passed[i] => k \in {i, j}
=============================================================================
