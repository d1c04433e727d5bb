--------------------------- MODULE CloudMetadata ---------------------------
(***************************************************************************)
(* The metadata of an S3 object and the conversions between it and the     *)
(* attributes of an NFS file: cloud_structures.c, the two conversion       *)
(* routines of fsal_cloud.h, and the callback of s3_connector.c that       *)
(* copies the headers of an answer into a data_pointer.                    *)
(*                                                                         *)
(* In the code metadata are an array of METADATACOUNT (name, value) slots. *)
(* set_default_metadata puts name n in slot n; an answer of S3 puts its    *)
(* i-th header in slot i.  Every reader looks a slot up by its name, so    *)
(* what an array holds is modelled as a function from the names present    *)
(* to their values; how many slots are not NULL is kept beside it, because *)
(* a reader that meets a NULL slot kills the process.                      *)
(*                                                                         *)
(* Texts (object ids, and the FILEID made from them) are sequences of      *)
(* tokens.  Other values stand for the numbers they print: sprintf and     *)
(* sscanf use matching formats for them and lose nothing.                  *)
(***************************************************************************)
EXTENDS Integers, Sequences, FiniteSets

METADATACOUNT == 13
MetadataName == 0 .. METADATACOUNT - 1

FILETYPE == 0
FILESIZE == 1
FSID == 2
FILEID == 3
MODE == 4
NUMLINKS == 5
OWNER == 6
GROUP == 7
CHGTIME == 10
MTIME == 11
SPACEUSED == 12

REGULARFILE_T == 0
DIRECTORY_T == 1

\* A metadata array nobody filled, a zeroed attrlist, an attrlist whose mask
\* is empty.
Nothing == [n \in {} |-> 0]

(***************************************************************************)
(* set_default_metadata.  The four time stamps (names 8 to 11) are the     *)
(* clock at the call; no property tells two clock readings apart, so they  *)
(* are 0 here.                                                             *)
(***************************************************************************)
default_metadata(filetype, fileid) ==
  [n \in MetadataName |->
     CASE n = FILETYPE          -> filetype
       [] n = FILEID            -> fileid
       [] n = MODE              -> 493
       [] n = NUMLINKS          -> 2
       [] n \in {OWNER, GROUP}  -> 1000
       [] OTHER                 -> 0]

(***************************************************************************)
(* data_pointer without its file: what the slots hold, how many slots are  *)
(* not NULL, and metadata_count, the number of slots a request sends.      *)
(***************************************************************************)
IsPointer(dp) ==
  /\ dp = [meta |-> dp.meta, filled |-> dp.filled, count |-> dp.count]
  /\ DOMAIN dp.meta \subseteq MetadataName

AllocatedPointer == [meta |-> Nothing, filled |-> 0, count |-> METADATACOUNT]
DefaultPointer(meta) ==
  [meta |-> meta, filled |-> METADATACOUNT, count |-> METADATACOUNT]

(***************************************************************************)
(* _responsePropertiesCallback with an answer that carries `headers': they *)
(* take the first slots, and set metadata_count.  Slots past them keep     *)
(* what they held; slot n of a default array holds name n, and it is the   *)
(* last slot with a name that _fill_attrlist ends up with.                 *)
(***************************************************************************)
received(dp, headers) ==
  LET k    == Cardinality(DOMAIN headers)
      kept == {n \in DOMAIN dp.meta : n >= k}
  IN  [meta   |-> [n \in kept \cup DOMAIN headers |->
                     IF n \in kept THEN dp.meta[n] ELSE headers[n]],
       filled |-> IF k > dp.filled THEN k ELSE dp.filled,
       count  |-> k]

(***************************************************************************)
(* _refill_metadata: the attributes in the mask of `attrs' (its domain)    *)
(* replace the metadata of the same name.  FSID and NUMLINKS are never     *)
(* written back.  The process dies of a type that is neither a file nor a  *)
(* directory (exit), and of replace_metadata_value reaching a NULL slot    *)
(* before the name it looks for.                                           *)
(***************************************************************************)
Refilled(attrs) == DOMAIN attrs \ {FSID, NUMLINKS}

unsupported_type(attrs) ==
  FILETYPE \in DOMAIN attrs /\ attrs[FILETYPE] \notin {"REGULAR_FILE", "DIRECTORY"}

\* Mutant of refill_dies: replace_metadata_value passes over NULL slots.
refill_over_null(attrs, dp) == unsupported_type(attrs)

refill_dies(attrs, dp) ==
  \/ unsupported_type(attrs)
  \/ dp.filled < METADATACOUNT /\ Refilled(attrs) \ DOMAIN dp.meta # {}

StoredValue(name, value) ==
  CASE name = FILETYPE /\ value = "DIRECTORY"    -> DIRECTORY_T
    [] name = FILETYPE /\ value = "REGULAR_FILE" -> REGULARFILE_T
    [] OTHER                                     -> value

refill_metadata(attrs, meta) ==
  [n \in DOMAIN meta |->
     IF n \in Refilled(attrs) THEN StoredValue(n, attrs[n]) ELSE meta[n]]

(***************************************************************************)
(* _fill_attrlist onto the attributes `old' the handle had (the domain is  *)
(* the mask).  The space used is taken from FILESIZE, its own metadata is  *)
(* skipped; FSID is always 0; CHGTIME sets the bit of MTIME, not its own;  *)
(* the FILEID text goes through "%llu", which stops at the first character *)
(* that is no digit and keeps the number before it.                        *)
(***************************************************************************)
LeadingNumber(text) == <<Head(text)>>

ReportedValue(name, value) ==
  CASE name = FILETYPE -> IF value = DIRECTORY_T THEN "DIRECTORY" ELSE "REGULAR_FILE"
    [] name = FSID     -> 0
    [] name = FILEID   -> LeadingNumber(value)
    [] OTHER           -> value

fill_attrlist(meta, old) ==
  LET reported == DOMAIN meta \ {SPACEUSED, CHGTIME}
      implied  == {n \in {SPACEUSED} : FILESIZE \in DOMAIN meta}
                    \cup {n \in {MTIME} : CHGTIME \in DOMAIN meta}
      kept     == DOMAIN old \ (reported \cup {n \in implied : n = SPACEUSED})
  IN  [n \in DOMAIN old \cup reported \cup implied |->
         CASE n \in reported -> ReportedValue(n, meta[n])
           [] n \in kept     -> old[n]
           [] n = SPACEUSED /\ n \notin kept             -> meta[FILESIZE]
           [] n = MTIME /\ n \notin (reported \cup kept) -> 0]

\* Mutant of fill_dies: _fill_attrlist passes over NULL slots.
fill_over_null(dp) == FALSE

\* _fill_attrlist reads the name of every slot, and dies of a NULL one.
fill_dies(dp) == dp.filled < METADATACOUNT
=============================================================================
