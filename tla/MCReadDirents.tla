--------------------------- MODULE MCReadDirents ---------------------------
\* ReadDirents on a root with three names and a directory with two.
EXTENDS ReadDirents

LettersAB == {"a", "b"}

SmallTree ==
  {ROOTOID, <<"0", "/", "a">>, <<"0", "/", "a", "/">>, <<"0", "/", "a", "/", "a">>,
   <<"0", "/", "a", "/", "b">>, <<"0", "/", "a", "/", "b", "/">>,
   <<"0", "/", "a", "a">>, <<"0", "/", "b">>, <<"0", "/", "b", "/">>}

Ascii == "/" :> 47 @@ "0" :> 48 @@ "a" :> 97 @@ "b" :> 98

\* The root, a directory of mkdir and a file that create made a directory of.
RootAndA == {ROOTOID, <<"0", "/", "a", "/">>, <<"0", "/", "a">>}
\* A directory that need not have an object of its own.
OnlyA == {<<"0", "/", "a", "/">>}
=============================================================================
