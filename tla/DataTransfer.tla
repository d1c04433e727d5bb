---------------------------- MODULE DataTransfer ----------------------------
(***************************************************************************)
(* The data of objects: s3_put_object, s3_get_object and their callbacks,  *)
(* as the operations and tools above the connector use them.  A lookup     *)
(* downloads its object into a temporary file, create_export uploads a     *)
(* temporary file, and the unit test of the connector files of its own.    *)
(* libs3 moves the data in pieces of at most BUFFER bytes, each a call of  *)
(* a callback; the store replaces an object when all of it has arrived.    *)
(***************************************************************************)
EXTENDS TmpFile

CONSTANTS
  Keys,         \* objects
  Sources,      \* files that a user of the connector uploads, to their bytes
  Lookups,      \* callers that look objects up ...
  Exporters,    \* ... that are the create_export tool ...
  Uploaders,    \* ... and that upload Sources
  BUFFER,       \* the size of a piece
  BreaksOff     \* may the connection break off in the middle of an object?

ASSUME TransferAssumption ==
  /\ BUFFER \in Nat \ {0}
  /\ BreaksOff \in BOOLEAN
  /\ \A f \in DOMAIN Sources : Sources[f] \in Seq(Nat \ {0})

VARIABLES
  content,    \* the bytes of each file there is, and how often it was opened to write
  objects,    \* the bytes of each object; history: those of the file when it was sent
  transfer    \* for each caller, the request it has with libs3

transferVars == <<content, objects, transfer>>
dataVars == <<now, rng, outrun, names, descriptors, alive, tmp, content, objects, transfer>>

NoTransfer == [op |-> "none"]
In(c, op) == transfer[c].op = op /\ Process[c] \in alive

Hole == 0

-----------------------------------------------------------------------------
(***************************************************************************)
(* Upload.  s3_put_object finds the size at the end of the file and        *)
(* promises it to the store; libs3 asks for pieces until it has as much.   *)
(* Each call of the data callback goes back to the start of the file.      *)
(***************************************************************************)
\* Mutant of Put: the file position is left at the end, and the size is what
\* remains from there.
put_from_end(c, key, file) ==
  /\ transfer' = [transfer EXCEPT ![c] = [op |-> "put", key |-> key, file |-> file,
                    from |-> content[file].bytes, size |-> 0, bytes |-> <<>>]]
  /\ UNCHANGED <<content, objects>>

Put(c, key, file) ==
  /\ transfer' = [transfer EXCEPT ![c] = [op |-> "put", key |-> key, file |-> file,
                    from |-> content[file].bytes, size |-> Len(content[file].bytes), bytes |-> <<>>]]
  /\ UNCHANGED <<content, objects>>

Least(a, b) == IF a <= b THEN a ELSE b
Start(s, n) == SubSeq(s, 1, Least(n, Len(s)))

\* _putObjectDataCallback, with the room that libs3 gives it.
PutPiece(c) ==
  LET t     == transfer[c]
      piece == Start(content[t.file].bytes, Least(BUFFER, t.size - Len(t.bytes)))
  IN  /\ In(c, "put")
      /\ Len(t.bytes) < t.size
      /\ piece # <<>>
      /\ transfer' = [transfer EXCEPT ![c].bytes = @ \o piece]
      /\ UNCHANGED <<content, objects>>

\* The store has what it was promised, and the answer comes.
PutDone(c) ==
  LET t == transfer[c] IN
  /\ In(c, "put")
  /\ Len(t.bytes) = t.size
  /\ objects' = [k \in DOMAIN objects \cup {t.key} |->
                   IF k = t.key THEN [bytes |-> t.bytes, from |-> t.from, file |-> t.file]
                   ELSE objects[k]]
  /\ transfer' = [transfer EXCEPT ![c] = NoTransfer]
  /\ UNCHANGED content

\* It does not get all, because the file has become empty or the connection
\* breaks off; s3_put_object returns 0 all the same.
PutFails(c) ==
  LET t == transfer[c] IN
  /\ In(c, "put")
  /\ BreaksOff \/ (Len(t.bytes) < t.size /\ content[t.file].bytes = <<>>)
  /\ transfer' = [transfer EXCEPT ![c] = NoTransfer]
  /\ UNCHANGED <<content, objects>>

-----------------------------------------------------------------------------
(***************************************************************************)
(* Download.  The store answers with the object as it was when the request *)
(* arrived; the data callback writes each piece behind the one before it.  *)
(***************************************************************************)
Get(c, key) ==
  /\ transfer' = [transfer EXCEPT ![c] = [op |-> "get", file |-> tmp[c].name, got |-> 0,
                    from |-> IF key \in DOMAIN objects THEN objects[key].bytes ELSE <<>>]]
  /\ UNCHANGED <<content, objects>>

\* What a file holds after a piece is written to it at a position, which may be
\* behind its end.
Written(bytes, position, piece) ==
  [i \in 1 .. (IF Len(bytes) >= position + Len(piece) THEN Len(bytes) ELSE position + Len(piece)) |->
     IF i \in position + 1 .. position + Len(piece) THEN piece[i - position]
     ELSE IF i <= Len(bytes) THEN bytes[i] ELSE Hole]

\* Mutant of GetPiece: each piece is written at the start of the file.
get_rewound(c) ==
  LET t     == transfer[c]
      piece == SubSeq(t.from, t.got + 1, Least(t.got + BUFFER, Len(t.from)))
  IN  /\ In(c, "get")
      /\ t.got < Len(t.from)
      /\ content' = [content EXCEPT ![t.file].bytes = Written(@, 0, piece)]
      /\ transfer' = [transfer EXCEPT ![c].got = @ + Len(piece)]
      /\ UNCHANGED objects

\* _getObjectDataCallback
GetPiece(c) ==
  LET t     == transfer[c]
      piece == SubSeq(t.from, t.got + 1, Least(t.got + BUFFER, Len(t.from)))
  IN  /\ In(c, "get")
      /\ t.got < Len(t.from)
      /\ content' = [content EXCEPT ![t.file].bytes = Written(@, t.got, piece)]
      /\ transfer' = [transfer EXCEPT ![c].got = @ + Len(piece)]
      /\ UNCHANGED objects

\* s3_get_object returns 0, however much came.
GetEnds(c) ==
  /\ In(c, "get")
  /\ transfer[c].got = Len(transfer[c].from) \/ BreaksOff
  /\ transfer' = [transfer EXCEPT ![c] = NoTransfer]
  /\ UNCHANGED <<content, objects>>

-----------------------------------------------------------------------------
(***************************************************************************)
(* Those who transfer.                                                     *)
(***************************************************************************)
\* fopen(filepath, "w+"), and what it does to the file.
OpensTmp(c) ==
  LET opened == IF tmp[c].name \in names THEN content[tmp[c].name].opened ELSE 0 IN
  /\ OpenTmp(c)
  /\ content' = [f \in DOMAIN content \cup {tmp[c].name} |->
                   IF f = tmp[c].name THEN [bytes |-> <<>>, opened |-> opened + 1] ELSE content[f]]
  /\ UNCHANGED <<objects, transfer>>

\* The end of a process is the end of its requests.
Aborts(c) ==
  /\ AssertFails(c)
  /\ transfer' = [d \in Callers |-> IF Process[d] = Process[c] THEN NoTransfer ELSE transfer[d]]
  /\ UNCHANGED <<content, objects>>

\* cloud_lookup and cloud_lookup_path, as far as data go.
LookupStep(c) ==
  \/ transfer[c] = NoTransfer /\ GetTmpFile(c) /\ UNCHANGED transferVars
  \/ \E key \in Keys : Has(c) /\ ~In(c, "get") /\ Get(c, key) /\ UNCHANGED tmpVars
  \/ GetPiece(c) /\ UNCHANGED tmpVars
  \/ GetEnds(c) /\ Leave(c)

\* _create_export, which is all its process does.
ExportStep(c) ==
  \/ GetTmpFile(c) /\ UNCHANGED transferVars
  \/ \E key \in Keys : Has(c) /\ ~In(c, "put") /\ Put(c, key, tmp[c].name) /\ UNCHANGED tmpVars
  \/ Has(c) /\ PutPiece(c) /\ UNCHANGED tmpVars
  \/ /\ Has(c)
     /\ PutDone(c) \/ PutFails(c)
     /\ alive' = alive \ {Process[c]}
     /\ tmp' = [tmp EXCEPT ![c] = NoFile]
     /\ descriptors' = [descriptors EXCEPT ![Process[c]] = 0]
     /\ UNCHANGED <<now, rng, outrun, names>>

\* put_object of a file of the caller's own (unittest/basic.c).
UploadStep(c) ==
  /\ AtTmp(c, "none")
  /\ Process[c] \in alive
  /\ \/ \E key \in Keys, f \in DOMAIN Sources : transfer[c] = NoTransfer /\ Put(c, key, f)
     \/ PutPiece(c)
     \/ PutDone(c)
     \/ PutFails(c)
  /\ UNCHANGED tmpVars

DataInit ==
  /\ TmpInit
  /\ content = [f \in DOMAIN Sources |-> [bytes |-> Sources[f], opened |-> 0]]
  /\ objects = <<>>
  /\ transfer = [c \in Callers |-> NoTransfer]

DataStep(c) ==
  \/ c \in Lookups /\ LookupStep(c)
  \/ c \in Exporters /\ transfer[c].op # "get" /\ ExportStep(c)
  \/ c \in Uploaders /\ UploadStep(c)
  \/ TmpStep(c) /\ UNCHANGED transferVars
  \/ OpensTmp(c)
  \/ Aborts(c)

DataNext ==
  \/ \E c \in Callers : DataStep(c)
  \/ Tick /\ UNCHANGED transferVars

\* Threads go on with what they have begun, and libs3 answers in the end.
DataFairness == \A c \in Callers : WF_dataVars(DataStep(c))

DataSpec == DataInit /\ [][DataNext]_dataVars
FairDataSpec == DataSpec /\ DataFairness

-----------------------------------------------------------------------------
\* An object is as long as the file that was uploaded, and its first piece is
\* that of the file, which is all of it if it fits into one: the callback starts
\* over each time, and one open file is uploaded several times (s3_put_object,
\* _putObjectDataCallback).
FirstPieceWhole ==
  \A key \in DOMAIN objects :
    LET o == objects[key] IN
    /\ Len(o.bytes) = Len(o.from)
    /\ o.file \in DOMAIN Sources => Start(o.bytes, BUFFER) = Start(o.from, BUFFER)

\* "The function reads from a file and stores the data into an object"
\* (_putObjectDataCallback), whatever the size of the file.
FilesWhole ==
  \A key \in DOMAIN objects :
    objects[key].file \in DOMAIN Sources => objects[key].bytes = objects[key].from

\* A temporary file that was opened once holds what has come of one object,
\* from its first byte on and without a hole (_getObjectDataCallback).
DownloadsWhole ==
  \A c \in Callers :
    LET t == transfer[c] IN
    In(c, "get") /\ content[t.file].opened = 1 => content[t.file].bytes = Start(t.from, t.got)

\* A lookup ends, or its process does: the tries of get_tmp_file are bounded and
\* s3_get_object does not wait for ever for its answer.
LookupEnds == \A c \in Lookups : tmp[c].step # "none" ~> tmp[c].step = "none"
=============================================================================
