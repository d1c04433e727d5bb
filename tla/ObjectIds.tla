----------------------------- MODULE ObjectIds -----------------------------
(***************************************************************************)
(* Object ids.  An id is a sequence of tokens: letters, slashes, and the   *)
(* "0" the root's id begins with.                                          *)
(***************************************************************************)
EXTENDS Integers, Sequences

CONSTANT Letters   \* tokens names are made of

Slash == "/"
ROOTOID == <<"0", Slash>>
Token == Letters \cup {"0", Slash}
Oid == Seq(Token)

\* Mutant of file_key: the buffer is one character short.
file_key_cut(parent, name) == parent \o SubSeq(name, 1, Len(name) - 1)

\* sprintf(oid, "%s%s", ...) in lookup and create.
file_key(parent, name) == parent \o name

\* sprintf(oid, "%s%s/", ...) in makedir.
dir_key(parent, name) == parent \o name \o <<Slash>>

EndsInSlash(oid) == oid # <<>> /\ oid[Len(oid)] = Slash
=============================================================================
