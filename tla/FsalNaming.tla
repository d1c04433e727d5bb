----------------------------- MODULE FsalNaming -----------------------------
(***************************************************************************)
(* FsalHandle with a history variable: by which parent and name a caller   *)
(* was given each object id.  The server caches a handle under the bytes   *)
(* of its object id (cloud_handle_to_key), so what matters is that an id   *)
(* names one thing, and that a thing is found again under its name.        *)
(***************************************************************************)
EXTENDS FsalHandle

VARIABLE
  origin   \* history: the <<object id, <<parent id, name>>>> this process returned

Returned(c) == call[c].step = "fill" /\ call'[c] = Idle /\ alive'

\* Each operation on a name that returns adds where its handle came from.  With
\* the process all of them are gone: create_handle, which would make a handle
\* of an id the server was given before, only returns an error.
Track ==
  origin' =
    IF alive'
    THEN origin \cup
           {<<call[c].oid, call[c].via>> :
              c \in {d \in Callers : Busy(d) /\ call[d].via # <<>> /\ Returned(d)}}
    ELSE {}

namingVars == <<bucket, alive, handles, call, origin>>
NamingInit == Init /\ origin = {}
NamingNext == Next /\ Track
NamingSpec == NamingInit /\ [][NamingNext]_namingVars
FairNamingSpec == NamingSpec /\ Fairness

-----------------------------------------------------------------------------
\* No object id stands for two files: an id that is the key of a handle was
\* reached from one parent by one name only.  The module declares
\* .unique_handles; cloud_create and cloud_makedir spell the ids.
UniqueKeys == \A a, b \in origin : a[1] = b[1] => a[2] = b[2]

\* Ids clash only below what is no directory by its id: two ids that are equal
\* were reached from the same parent by the same name if both parents' ids end
\* in a slash, whatever types callers pass and whatever is stored in between.
UniqueInDirectories ==
  \A a, b \in origin : a[1] = b[1] /\ EndsInSlash(a[2][1]) /\ EndsInSlash(b[2][1]) => a[2] = b[2]

\* A directory that mkdir made is found by a lookup of its name in the same
\* parent (cloud_makedir, cloud_lookup).
DirectoriesAreFound ==
  [][\A c \in Callers :
       /\ Continues(c) /\ call[c].op = "lookup"
       /\ <<dir_key(call[c].via[1], call[c].via[2]), call[c].via>> \in origin
       => alive']_namingVars
=============================================================================
