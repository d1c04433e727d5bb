# FSAL_CLOUD in TLA+

FSAL_CLOUD (the repository is called FSAL_S3) is a back end of the NFS-Ganesha
server that keeps files and directories as objects of one S3 bucket. This
directory holds a model of it in TLA+, the TLC runs that check the model on
small instances, and theorems about it that TLAPS proves for every instance.

## The system

```
 NFS-Ganesha threads        create_export        other programs
        |                        |                     |
  handle.c / fsal_cloud.h  cli/create_export.c         |
        |                        |                     |
        +---- cloud_connector.c (table of functions) --+
                        |                              |
          plugin/s3_connector.c  --- libs3 --->   S3 bucket
```

| Component | State | Operations | Interacts by |
|---|---|---|---|
| Handle operations (`handle.c`) | a handle per call: object id, attributes | lookup_path, lookup, create, mkdir, readdir, getattrs, setattrs; unlink and rename (no effect); makenode, symlink, readlink, link, create_handle (error only) | called by server threads; calls the connector, one request after another |
| Metadata (`cloud_structures.c`, `_refill_metadata`, `_fill_attrlist`) | an array of 13 (name, value) slots in a `data_pointer` | default metadata, replace, get, increase the size, attributes from and to metadata | in the stack frame of the calling operation |
| S3 connector (`s3_connector.c`) | `current_state`, the two keys | GET, PUT, HEAD, COPY onto itself, DELETE, LIST; init, deinit | libs3, which calls back with properties, data and completion before the request returns |
| Cloud connector (`cloud_connector.c`) | `cops`, the table of the plugin | load the plugin, pass calls on | `dlopen` |
| `create_export` (`cli/`) | none | PUT the root | the bucket only |
| Module and export (`main.c`, `export.c`) | the module's registration, the exports | fsal_init, fsal_unload, create_export | NFS-Ganesha |
| File operations (`file.c`) | none | open, read, write, commit, close, ... all return at once | NFS-Ganesha |
| Common (`common.c`) | files in /tmp, the state of `rand()`, open files | get_tmp_file, get_next_path_component | the file system |
| Unit tests of the connector | none | PUT, GET, LIST in the same bucket | the bucket only |

What is hard here. Every operation is a sequence of requests with work on a
local array between them; the code takes no lock; the status of a request is
printed and never returned, so an operation goes on after a failure with
whatever its array holds, and a slot nobody filled ends the process when it is
read. Ids of objects are concatenations of names. So:

* setattrs reads and writes back *all* metadata (lost update, partial write);
* create and mkdir return a handle whatever the store said;
* a restart finds the bucket as the last request left it, and no handle;
* that an id is a directory is known by its metadata in one place and by its
  last character in another;
* a listing takes its first key for the directory itself, whatever it is;
* names of temporary files come from a generator that all threads of a process
  share and each of them seeds, with a clock that moves meanwhile; nobody closes
  the files;
* the data callback of an upload starts over at each call;
* the connector can be loaded in part or not at all, and be taken down under
  requests that have passed their check of its state.

What makes each component correct:

* handle operations: a handle is of an object that exists; one id is one file;
  a change stays until the next one; an operation returns; only a lookup may
  find nothing;
* metadata: an object this code wrote always has all of them, and what has the
  id of a directory has the type of one;
* connector: a listing has every entry of the directory once and in order, and
  stays in its array; an object is the file it was uploaded from, and a
  download a beginning of its object; a request meets a libs3 that is ready,
  and is not reported done if it was never sent;
* module and export: no memory of an export is lost, or freed while in use;
* common: no two callers share a temporary file, and there is one for everybody
  who asks.

`PROJECT.json` lists the hazards at their lines with the properties about them.

## Modules

| Module | What it models |
|---|---|
| `CloudMetadata` | pure operators: default metadata, `received` (the properties callback), `refill_metadata`, `fill_attrlist`, and when the last two meet a NULL slot |
| `ObjectIds` | object ids, and how create and mkdir spell them |
| `FsalHandle` | callers, the bucket and the server process; the operations as actions |
| `FsalNaming` | `FsalHandle` with the history variable `origin`: which ids this process reached by which names |
| `AttributeStore` | abstract: what create, mkdir and setattrs promise of the attributes, one step per change |
| `FsalUpdates` | `FsalHandle` with the history variables `promised`, what setattrs calls left behind, and `seen`, the versions of its object a running call could have read; as the constant `Ordered`, the operations of which the server lets one run at a time on an object; and the refinement mapping to `AttributeStore` |
| `ReadDirents` | readdir (with the history variable `before`, the objects there were when the call began), from the handle's id through the listing, its batches and its array to the server's callback |
| `TmpFile` | `get_tmp_file` by threads of several processes: clock, generator, names, descriptors |
| `DataTransfer` | `TmpFile` composed with the upload and download of data, and with those who transfer: lookups, create_export, the unit test of the connector |
| `FsalModule` | the life of the back end: loading, registration, exports, requests, deinit |
| `*_proofs` | the theorems about `FsalHandle`, `FsalNaming`, `FsalUpdates`, `ReadDirents`, `TmpFile`, `DataTransfer` and `FsalModule` |
| `MC*` | values for the runs |

`FsalNaming` and `FsalUpdates` extend `FsalHandle`, which extends `ObjectIds` and
`CloudMetadata`; `DataTransfer` extends `TmpFile` and makes each of its steps a
step of both. `ReadDirents` and `FsalModule` stand alone, for the reasons given
with them.

How `FsalHandle` corresponds to the code:

* `bucket` is the store: object ids to metadata. Data are not in it, as no
  handle operation reads or writes any. `handles` holds, per object id, the
  attributes of the latest handle the server was given for it (the server keys
  its cache with the id: `cloud_handle_to_key`). `call[c]` is the stack frame
  of the operation caller `c` is in; `alive` is the process.
* A request is atomic at the store. An action begins when one request has been
  answered and ends when the next is handed to libs3 or the operation returns:
  `Lookup`, `Create`, ... up to the first request; `PutObject`, `GetObject`,
  `HeadObject` a request and its callbacks; `CopyObject` the rest of setattrs
  (the work after its HEAD, the COPY and the return); `Return` the filling of
  the attributes and the return. What happens between two requests touches
  only the frame of its thread, so nothing is lost by making it one step.
* The metadata array is a function from the metadata names present to values,
  with the number of slots that are not NULL (`filled`) and `metadata_count`
  (`count`), because readers look slots up by name and die of a NULL one.
* A request may be `refused` (no effect, error), a PUT may have its effect and
  lose its answer (`lost_put`), the answer to a GET or HEAD may be lost
  (`lost_answer`), or a request fail with `no_details` (libs3 gives up and passes no error details, which
  `_responseCompleteCallback` reads all the same). `Faults` says which of them
  a run has; a request for an object that is not there is always refused.
* The process ends (`Dies`) where the code reads a NULL name or calls `exit`.
  What reading through NULL does is undefined in C; on every build in use it
  is the end of the process.
* `CreateExport` and `ForeignPut` are other processes. `DirectoryHandle` is the
  check NFS-Ganesha makes before it hands an operation on a directory over.

How `ReadDirents` corresponds to the code:

* `ReadDir` is `cloud_read_dirents` up to its request (`prefix` is the id, or
  the id less its last character); `ListBucket` the request of
  `s3_list_objects`; `listBucketCallback` one call of that callback;
  `ListComplete` the completion callback and the end of the wait; `Callback`
  one turn of the loop over the entries; `Return` the end of it. Any number of
  objects may be added between two steps.
* S3 answers with one snapshot of at most 1000 keys and common prefixes, in the
  order of their bytes (`Rank`), keys first. What of the answer arrives is a
  beginning of it (`arrived`; nothing, if the request is refused). libs3 calls
  back when its buffer of keys (`MaxContents`, 32) or of common prefixes
  (`MaxPrefixes`, 8) is full, and once more for what is left. libs3 asks with
  one HTTP request and never by itself for the rest of a truncated answer.
* `objects` and `object_count` are the fields of `object_list`; the array is
  allocated for `Capacity` (100) entries. What follows a write past it is
  undefined and not modelled; the process may be restarted.
* The server lists the `Directories`, whether or not they have an object of
  their own: a mkdir whose PUT was refused gives a handle, too, and so does a
  create, whose id has no slash at its end. It takes entries until it wants no
  more. `handed` counts what libs3 has handed over, for the properties and for
  `BatchContents`.

It is a module of its own and not part of `FsalHandle` as it shares only the
keys of the bucket with the other operations, which appear in it as `Put`: none
of them removes a key.

How `AttributeStore` and `FsalUpdates` correspond to the code. The abstract store
has, per caller, the change it is to make. `CreateObject` is the object with the
defaults of `cloud_create` overwritten by the attributes it was called with,
`UpdateObject` the refilling of `cloud_setattrs` on the metadata as they are at
that moment. Nothing reports a failure, so a change may also not happen
(`Fail`). The mapping (`OwnObjects`, `ChangeOf`) takes a change as made at the
request that writes: the PUT of a create or mkdir, the COPY of a setattrs. The
root is left out, as create_export may put it again under a running setattrs,
and so are objects that other programs write.

`Ordered` is the server's part. NFS-Ganesha holds the attribute lock of a cached
entry across a setattrs, so two setattrs of one object never overlap: this is
`{"setattrs"}`. An object that is being created has no entry, and nothing orders
two creates of it, or a create and a setattrs. That the server would order them,
too, is a condition of `AtomicChanges` only, and stronger than what NFS-Ganesha
gives.

`seen` begins empty with a call and takes in the version of the call's object
after each step of anybody (`Observe`), of a create or mkdir from its own PUT on.
The constant `Observed` says of which objects versions are kept: TLC pays for
each, the theorem is about any set of them.

How `TmpFile` corresponds to the code. `ReadClock`, `Seed` and `Draw` are the
calls of `time(0)`, `srand` and `rand` in `create_random_string`, each a step
other threads may come between; `rng` is the generator, one for each process.
`Probe` is the `fopen` for reading, which fails also if the process is at its
limit of open files; `OpenTmp` the one for writing, `AssertFails` the assertion
behind it, `Leave` the end of the caller. A number is modelled by its place in
the sequence of its seed: two names are the same if seeds and places are. That
`rand() % 10` may return equal digits for different seeds, by chance, is left
out, as is a missing /tmp. `outrun` is a history variable: a thread has seeded
with a second that was over by then.

How `DataTransfer` corresponds to the code. `Put` is `s3_put_object` up to its
request: size, rewind, metadata left out. `PutPiece` is a call of
`_putObjectDataCallback` for as much as libs3 has room for, `PutDone` and
`PutFails` the end of the request; `Get`, `GetPiece` and `GetEnds` are the same
for a download, whose data S3 takes from one version of the object. Files are
sequences of bytes with a count of how often they were opened to write (opening
a file that is there empties it). `objects` keeps, as history, the file an
object was sent from. An operation does `DataStep`s: a lookup makes a temporary
file, downloads into it and leaves it; create_export makes one, uploads it, and
its process ends; the unit test uploads files of its own, several times. The
metadata of the same requests are in `FsalHandle`; the two modules share nothing
but the order of the requests, as the metadata never depend on the data.

How `FsalModule` corresponds to the code. `Connect` is `cloud_init` with
`s3_init_connector`, of which each may fail at its every early return (or exit
the process, for a missing key), `Register` the rest of `fsal_init`;
`CreateExport` is `cloud_create_export` up to the attachment, `AttachExport` the
rest; `CallConnector` is the call through the table and the check of
`current_state` (which `s3_get_object` has not), `SendRequest` the call of libs3,
`Returns` its end; `Unregister`, `Deinit` and `DeinitState` are `fsal_unload`,
with the two statements of `s3_deinit_connector` a step each. That
`unregister_fsal` refuses while the server holds a reference (`Held`) is
NFS-Ganesha's, and a constant (`HoldsModule`); that it may let go of an export,
and be started again, too. What a request is about does not matter here, and
nothing of this module matters to the others once it is connected.

Abstracted: the time stamps of objects (all 0; no
property tells two apart), texts that are numbers (sprintf and sscanf formats
match and lose nothing, but for FILEID, which is modelled by what `%llu` does
to an object id), log output, memory that is never freed other than an export's.

## Runs

Those of `FsalHandle` and the modules on it have ids of at most `MaxOid` tokens,
counting "0" and "/" as one each.

| Run | Shows |
|---|---|
| `FsalHandle_faults` | `TypeOK`, `BucketComplete`, `DirectoriesTyped`: every fault, a foreign writer, an unsupported type, types passed to create and mkdir or not |
| `FsalNaming_survives` | `OnlyLookupsDie`, `DirectoriesTyped`, `UniqueInDirectories` and, under fairness, `CallsEnd`: two names, what NFS-Ganesha passes (so that files become directories to it and serve as parents), a store that answers, but for the answer to a PUT |
| `FsalUpdates_turns` | `SetattrsKept`, `HandlesBacked`, `ReadsCurrent` and the refinement `AtomicChanges`: a server that orders the calls that write one object, lost answers, the end of the process at any point |
| `ReadDirents_list` | `ListsDirectory`, `OverflowsOnlyIfFull`, `EntriesExist`, `NoneMissed`, `EntriesOnce`: objects stored while a directory is read, answers of several batches, some of which break off, and directories larger than the array |
| `FsalModule_life` | `RequestsFindLibrary`, `NoneSkipped`, `ExportsAccounted`: three threads, two exports, every failure of the start, unload and restart |
| `TmpFile_shared` | `SharedInOneSecond`, `TriesRunOut`: two threads of one process, three seconds, retries, the limit of open files |
| `DataTransfer_whole` | `FirstPieceWhole`, `DownloadsWhole`, `SharedInOneSecond` over two processes and, under fairness, `LookupEnds`: three threads in two processes, connections that break off, a file that fits into one piece and one that does not |
| `FsalNaming_v_unique` | a created file is a directory to the server, and then two names share an id (refutes `UniqueKeys`) |
| `FsalNaming_v_dirlookup` | a directory that was made is not found (refutes `DirectoriesAreFound`) |
| `ReadDirents_v_skipped` | a directory without an object of its own is listed without its first entry (refutes `EofMeansAll`) |
| `DataTransfer_v_large` | a file larger than a piece is stored as repetitions of its beginning (refutes `FilesWhole`) |
| `TmpFile_v_assert` | lookups use up the files a process may open, and the assertion ends it (refutes `AssertHolds`) |

The `_v_` runs look for, and find, behaviours in which the code does not do
what its comments and declarations say; `findings` in `PROJECT.json` quotes
them. Beside three of them a passing run checks the part that is left, under the
condition that the counterexample breaks: ids are unique among names in parents
whose ids end in a slash (`UniqueInDirectories`, where `UniqueKeys` fails); a
listing of such a directory has all its entries, if the directory has its own
object (`ListsDirectory` and `NoneMissed`, where `EofMeansAll` fails); an upload is
whole if its file fits into one piece of libs3 (`FirstPieceWhole`).

`FsalUpdates_turns` orders more than NFS-Ganesha does, as one of its four properties
needs it. For the other three the theorems below do not: `SetattrsStayKept` assumes
that setattrs are ordered, `HandlesStayBacked` and `ReadsAreCurrent` no order at all.

Known deviations that no run is spent on. These show whenever the operation in
question is called: a directory that create made, whose id has no slash at its
end, is listed with the entries of its parent (so `EntriesExist` is about ids that
end in one); a create whose PUT was refused returns a handle and no
error (so `HandlesBacked` needs a store that refuses nothing); every FILEID is 0,
as the object id that is stored is read as a number; `cloud_read_dirents` sets
`eof` also when the callback wanted no more, and does not look at `whence`;
`s3_get_object` does not check the state the comment at s3_connector.c:25 is
about. And these need more than one call: where two setattrs of one object
overlap, which one server prevents and two servers on one bucket do not, the
later COPY undoes the earlier one; a setattrs that overlaps a create of its object
writes back what the create has just replaced; a directory with more than 100
entries overflows the array.

What the runs take for granted, and so cannot find: that libs3 calls back once
for each request (it is the fairness of `Continues`), that the server counts its
uses of the module (`HoldsModule`), and that the process may end where the code
reads a NULL slot or a NULL table of functions, or exits: of the properties only
`OnlyLookupsDie`, `DirectoriesAreFound` and `AssertHolds` object to its end. `PROJECT.json` says of each hazard what is left
uncovered.

Bounds. Two callers interleave every pair of operations; the code shares
nothing between threads but the bucket and the handles, so a third caller adds
no new kind of conflict to properties about one object. One name is enough
where ids cannot collide: it gives a file `0/a`, a directory `0/a/` and the
root (`MaxOid` 4). With the names `a` and `aa`, `FsalNaming_survives` has one id,
`0/aa`, that two parents and names spell: the root and `aa`, and the file `0/a` and
`a`. `FsalNaming_v_unique` has a level more (`MaxOid` 5). `MaxOid`
stands for BUF_SIZE, past which the code is undefined. One or two sets of
attributes suffice to have two different changes of one object; `seen` is kept of
one file (`Observed`), which create, lookup, getattrs and setattrs meet in. The two
callers are interchangeable, so the safety runs use symmetry;
`FsalNaming_survives`, which checks liveness, does not. Nothing else is bounded:
the process may die and restart, and the tool and the foreign writer may run,
any number of times.

`ReadDirents` has nine keys: a root with up to three files and two directories
and, in one of those, two files and a directory. The directory in the root is
read, too, before it has an object of its own and after, and so is the same id
without its slash, as create spells it. With buffers of two keys and one common prefix
an answer is cut into up to four batches, at every place where a batch may end;
an array of four entries is one too small for the full root, so the boundary is
met from both sides. One call is enough: a listing has no state but its own.

`FsalModule` has no bound but its threads and exports. Three threads are enough
for one to make an export, one to be in a request and one to have passed its
check, while the module is unloaded.

`TmpFile` has names of two numbers and two tries: two threads can draw
alternately from one generator and meet in a name, and the last try can end on a
name that is taken. Over three seconds (`MaxTime` 2) a thread can be held up
across two of them. `MaxDescriptors` is 2, met by two calls.

`DataTransfer` has a thread that looks objects up and one that uploads files in
one process, and create_export in a second, whose pid is one larger, so that
seeds of different seconds meet; names of one number, as the draws of two are
interleaved in `TmpFile_shared`; pieces of two bytes, and files of two and three.
One key makes uploads and downloads meet in one object.

Deadlock is checked in every run but those of `TmpFile_shared` and
`DataTransfer`, where all processes may have ended.

Fairness. `FairNamingSpec` has weak fairness of the steps of each running operation
(`Continues(c)`): a server thread that is in an operation is scheduled, and
libs3 ends every request, with a timeout if need be; the loop that waits for
`status` is left because the completion callback has set it by then. Nothing
is assumed of what begins: no operation, restart or other program need ever
run. `FairDataSpec` has weak fairness of the steps of each thread, for the same
reasons. It may also begin a new operation where it is idle; `LookupEnds` does
not rest on that, as its lookup is then over.

## Proofs

For all constants that meet the named assumptions of the modules (`FsalHandle`:
names are not empty and have no slash, attributes are of the 13 known ones, ids
are sequences of tokens; `ReadDirents`: finitely many keys, a number for each
character, a buffer of more than one key and of at least one common prefix,
directories whose ids are not empty):

| Theorem | Property | Further hypothesis | Inductive invariant |
|---|---|---|---|
| `TypeCorrect` | `TypeOK` | none | `TypeOK` itself: it ties the step of a call to its operation and the handle of getattrs and setattrs to `handles` |
| `ObjectsStayComplete` | `BucketComplete` | every setattrs has an attribute the code writes back | `CompleteInv`: also, the array of a create or mkdir has all names, and the array of a setattrs has all names or so few slots that refilling it ends the process |
| `HandlesStayBacked` | `HandlesBacked` | the store refuses nothing | `BackedInv`: also, a call past its PUT, or with a full array after its GET, has its object in the bucket |
| `DirectoriesStayTyped` | `DirectoriesTyped` | `TypesKept` (no mkdir, setattrs or other program says it is a file) | `KindInv`: also, the array of every running call agrees with its id |
| `SetIsReported` | what a setattrs writes is what `_fill_attrlist` reports, but for the file's id, the space used and the change time | a complete array, a type the code knows | none: it is about the operators |
| `OperationsSurvive` | `OnlyLookupsDie` | `Undisturbed` (only answers to PUTs are lost, no foreign writer, every setattrs has an attribute the code writes back and a type it knows) | `FullInv` with the two before it: the array of a call is full by the time all its slots are read |
| `ClashesNeedFileParents` | `UniqueInDirectories` | none | `NamingInv`: ids in `origin` and of calls are a parent's id and a name without slashes; a lemma shows that such a concatenation can be taken apart in one way if the parent ends in a slash |
| `ChangesAreAtomic` | `AtomicChanges` | all of `Writing` is `Ordered`, every setattrs has an attribute the code writes back | `AtomicInv`: of the calls that write one object one runs; the array of a setattrs after its HEAD is the object, or has a NULL slot |
| `SetattrsStayKept` | `SetattrsKept` | setattrs are `Ordered`, only answers are lost, no foreign writer, every setattrs has an attribute the code writes back | `KeptInv` with `Exclusive` (of the ordered calls on an object one runs), `CompleteInv` and `BackedInv`: also, what a running call will write agrees with every promise it does not itself end |
| `ReadsAreCurrent` | `ReadsCurrent` | no foreign writer of an observed object, the store refuses nothing, every setattrs has an attribute the code writes back | `SeenInv` with `CompleteInv` and `BackedInv`: the version there is has been seen, and the array of a call that is past its PUT or its answer is a version that was seen, whole, or has a NULL slot |
| `DirectoriesAreListed` | `ListsDirectory` | none | `ReadInv`: what was handed over fills the array, entry for entry, and the array what was passed on |
| `OverflowNeedsEntries` | `OverflowsOnlyIfFull` | none | `ReadInv`: the count of entries is the number written |
| `EntriesAreThere` | `EntriesExist` | none | `ExistInv` with `ReadInv`: what was passed on are entries of the answer (`Picked`), and every entry of the answer is there, as `basename` undoes what create and mkdir spell |
| `NothingMissed` | `NoneMissed` | none | `ListingInv` with `ReadInv` and `ExistInv`: each object under the directory at the call is one of the answer's keys or below one of its prefixes |
| `NamesComeOnce` | `EntriesOnce` | none | `ListingInv`: also, two places of the answer with one name are a key and a prefix |
| `LibraryIsFound`, `RequestsAreSent` | `RequestsFindLibrary`, `NoneSkipped` | `HoldsModule` | `ReadyInv`: an export is used, or a thread busy, only while the module is registered, and then a filled table comes with an initialised libs3 and state |
| `ExportsStayAccounted` | `ExportsAccounted` | none | `AccountInv`: also, a thread makes an export alone, and it is not yet attached |
| `SharingNeedsOneSecond` | `SharedInOneSecond` | none | `ClockInv`: seeds and drawn numbers are of seconds between the begin of a call and its last draw |
| `EveryTryCounts` | `TriesRunOut` | none | `TriesInv` with `ClockInv`: a call that tries has a try left, and has drawn fewer numbers than a name has |
| `TransfersShareInOneSecond`, `EveryTransferTryCounts` | the last two, of `DataSpec` | the files uploaded are no temporary files | `ClockInv` and `TriesInv`, as every step of a transfer is one of `TmpFile`, or create_export's end |
| `FirstPieceArrives` | `FirstPieceWhole` | as above | `DataInv`: files that are uploaded stay as they are, and the bytes sent so far are the first piece over and over, up to the size, and in whole pieces until then |
| `LargeUploadsStartOver` | an uploaded object is its file's first piece over and over | as above | `DataInv` |
| `DownloadsFromTheStart` | `DownloadsWhole` | as above | `FilesInv` with `DataInv`: also, a download goes to the file its caller has, a file that was opened once is empty until then, and one that two callers have was opened more than once |

`ChangesAreAtomic` is the refinement: the initial states map to initial states,
and each action of `FsalHandle` is a step of `AttributeStore` or a stutter. The
step that could fail is the COPY. It writes the whole array the setattrs read,
which is an update of the object *as it is now* only because no other call has
written it since (`Exclusive`), and because an array whose HEAD failed cannot be
refilled. A failing request and the end of the process map to `Fail` and
`Crash`. `SetattrsStayKept` needs less: that no other setattrs runs. A create that
overlaps a setattrs sets all metadata, so it ends every promise about the object
when it begins, and none is made while it runs.

`ReadInv` speaks of every listing, `Written`, the part that fills the array entry
for entry, of those with the directory's own object first (`OwnFirst`): that is the
condition `Listed` in `ListsDirectory`, `OverflowsOnlyIfFull` and `NoneMissed`, and
`ReadDirents_v_skipped` shows it is needed. It rests on two facts. The
directory's own object, if it is there, is the first key of the answer
(`DirectoryFirst`: an id comes before any other that begins with it), so that
the one entry `listBucketCallback` leaves out is the right one. And the first
batch leaves a count above 0 if another is to come, as a buffer of keys
holds more than one; else the next batch would be taken for the first.

`SeenInv` answers what the array of a create is worth. Its PUT sends the array,
and the HEAD behind it reads into the same one. If the answer comes, it has all 13
metadata (`CompleteInv`) and leaves nothing of what was sent (`ReceivedWhole`); if
it is lost, what was sent stays, and that is what the PUT stored, which is seen
from then on. That needs a store which refuses no PUT, but no order of calls.

`LargeUploadsStartOver` is the other side of `DataTransfer_v_large`: TLC finds one
file that is not stored whole, the theorem says what becomes of every one. In the
same way `ClashesNeedFileParents` and `DirectoriesStayTyped` hold for the calls
NFS-Ganesha makes, for which `FsalNaming_v_unique` refutes `UniqueKeys`, and say
that its counterexample is the only kind: a name below something that create made.
`ReadDirents_v_skipped` is met by `NothingMissed`, and by `EntriesAreThere`, which
needs no object of the directory's own.

`TriesRunOut` bounds the steps of a call by a number that each of them lowers
(`StepsLeft`). It is what `LookupEnds` rests on as far as `get_tmp_file` goes; that
the steps are taken is fairness.

No property of `FsalHandle` is inductive alone: each speaks of the bucket and the handles, and
what will be written next is in the frames of the running calls. `BucketComplete`
is the clearest case. Its danger is setattrs writing back an array whose HEAD
failed; it holds because such an array has a NULL slot, which
`replace_metadata_value` meets before it finds the name it looks for. A setattrs
that replaces nothing does not look, so the theorem needs its hypothesis; the
hazard list has the case.

Only model-checked: `CallsEnd` and `LookupEnds`, which are liveness under
fairness and out of TLAPS's reach, and all violations. What recursive definitions
would compute is not in question: no module has one.

## Not modelled, and the plan

Not modelled, because there is no state or no caller:

* the stubs of `file.c`, and unlink and rename: they report success and do
  nothing, read and write among them, so the data of a file never reach the
  connector. A property would restate the return;
* `s3_delete_object`, `inc_filesize_metadata` and `get_next_path_component`: no
  operation calls them;
* `cloud_init_config` and the static information of `main.c`, which
  NFS-Ganesha fills and reads.

What could be added:

1. a sequence of readdir calls with `whence`, once the code looks at it;
2. `FsalHandle` with the temporary files and the data of `DataTransfer` in one
   module, if an operation comes to read what a lookup has downloaded.

Left out for good: logging, the printing of error details, the plugin's build,
the notes in `.docs` (traces of NFS calls), `link`, `symlink`, `readlink`,
`makenode` and `create_handle`, which only return an error; objects whose
metadata have names the code does not know or number more than 13.
