------------------------------ MODULE MCValues ------------------------------
(***************************************************************************)
(* Values for the constants of FsalHandle.  Names are one or two letters,  *)
(* so that two different pairs of parent and name can spell the same id.   *)
(***************************************************************************)
EXTENDS CloudMetadata, TLC

CONSTANTS c1, c2

TwoCallers == {c1, c2}
OneCaller == {c1}
Symmetry == Permutations(TwoCallers)

LetterA == {"a"}
NameA == {<<"a">>}
NamesA_AA == {<<"a">>, <<"a", "a">>}

\* Ids of "0/" and a component; of "0/", a directory and a file in it.
OneDeep == 4
FileInDirectory == 5

\* The server passes the mode, the owner and the group to create and mkdir ...
AsServer == {[n \in {MODE} |-> 420]}
\* ... a caller that also masks the type would pass these.
AsFile == {[n \in {FILETYPE, MODE} |-> IF n = FILETYPE THEN "REGULAR_FILE" ELSE 420]}
AsDirectory == {[n \in {FILETYPE} |-> "DIRECTORY"]}
AsSymlink == {[n \in {FILETYPE} |-> "SYMBOLIC_LINK"]}
AnyType == AsFile \cup AsSymlink
DirectoryOrNoType == AsDirectory \cup AsServer

\* chmod, and chown of owner and group.
Chmod == {[n \in {MODE} |-> 256]}
Chown == {[n \in {OWNER, GROUP} |-> 7]}
ChmodChown == Chmod \cup Chown

FileA == {<<"0", "/", "a">>}
\* An object of the connector's unit test has no metadata this code knows.
NoMetadata == {Nothing}
=============================================================================
