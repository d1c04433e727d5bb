------------------------- MODULE DataTransfer_proofs -------------------------
(***************************************************************************)
(* Proofs about DataTransfer, for any number of callers, objects, files    *)
(* and sizes of a piece.                                                   *)
(***************************************************************************)
EXTENDS DataTransfer, TmpFile_proofs

TmpName == Seq(Int \X Int)

FilesTyped ==
  \A f \in DOMAIN content :
    /\ content[f] = [bytes |-> content[f].bytes, opened |-> content[f].opened]
    /\ content[f].bytes \in Seq(Nat)

\* Nobody writes to the files that are uploaded.
SourcesStay == \A f \in DOMAIN Sources : f \in DOMAIN content /\ content[f].bytes = Sources[f]

\* Bytes that are the first piece of a file over and over.
Over(bytes, from) == \A i \in DOMAIN bytes : bytes[i] = IF i <= BUFFER THEN from[i] ELSE bytes[i - BUFFER]

\* The last piece that was sent, if it was not the last of all, was a full one.
FullPieces(t) ==
  Len(t.bytes) < t.size =>
    \/ t.bytes = <<>>
    \/ /\ Len(t.bytes) >= BUFFER
       /\ \A j \in 1 .. BUFFER : t.bytes[Len(t.bytes) - BUFFER + j] = t.from[j]

\* No more is sent than was promised, and it is the first piece over and over.
PutRequest(t) ==
  /\ t = [op |-> "put", key |-> t.key, file |-> t.file, from |-> t.from, size |-> t.size, bytes |-> t.bytes]
  /\ t.file \in DOMAIN content
  /\ t.from \in Seq(Nat) /\ t.bytes \in Seq(Nat)
  /\ t.size = Len(t.from) /\ Len(t.bytes) <= t.size
  /\ t.file \in DOMAIN Sources => t.from = Sources[t.file]
  /\ t.file \in DOMAIN Sources => Over(t.bytes, t.from) /\ FullPieces(t)

GetRequest(t) ==
  /\ t = [op |-> "get", file |-> t.file, got |-> t.got, from |-> t.from]
  /\ t.file \in DOMAIN content \cap TmpName
  /\ t.from \in Seq(Nat) /\ t.got \in Nat

RequestsTyped ==
  /\ transfer = [c \in Callers |-> transfer[c]]
  /\ \A c \in Callers : transfer[c] = NoTransfer \/ PutRequest(transfer[c]) \/ GetRequest(transfer[c])

Whole(o) ==
  /\ o.bytes \in Seq(Nat) /\ o.from \in Seq(Nat)
  /\ Len(o.bytes) = Len(o.from)
  /\ o.file \in DOMAIN Sources => Over(o.bytes, o.from)

ObjectsWhole == \A key \in DOMAIN objects : Whole(objects[key])

StoreInv == FilesTyped /\ SourcesStay /\ RequestsTyped /\ ObjectsWhole

\* The temporary files that callers have are there.
OpenedExist == \A c \in Callers : Has(c) => tmp[c].name \in DOMAIN content

DataInv == ClockInv /\ OpenedExist /\ StoreInv

-----------------------------------------------------------------------------
(***************************************************************************)
(* Sequences.                                                              *)
(***************************************************************************)
LEMMA StartFacts ==
  ASSUME NEW S, NEW s \in Seq(S), NEW n \in Nat
  PROVE  /\ Start(s, n) \in Seq(S)
         /\ Len(Start(s, n)) <= n
         /\ n >= Len(s) => Start(s, n) = s
<1>1. Least(n, Len(s)) \in 0 .. Len(s) /\ Least(n, Len(s)) <= n /\ (n >= Len(s) => Least(n, Len(s)) = Len(s))
  BY DEF Least
<1> QED
  BY <1>1 DEF Start

LEMMA WrittenType ==
  ASSUME NEW bytes \in Seq(Nat), NEW position \in Nat, NEW piece \in Seq(Nat)
  PROVE  Written(bytes, position, piece) \in Seq(Nat)
<1> DEFINE length == IF Len(bytes) >= position + Len(piece) THEN Len(bytes) ELSE position + Len(piece)
           byte(i) == IF i \in position + 1 .. position + Len(piece) THEN piece[i - position]
                      ELSE IF i <= Len(bytes) THEN bytes[i] ELSE Hole
<1>1. length \in Nat
  OBVIOUS
<1>2. ASSUME NEW i \in 1 .. length PROVE byte(i) \in Nat
  <2>1. CASE i \in position + 1 .. position + Len(piece)
    <3>1. i - position \in 1 .. Len(piece)
      BY <2>1
    <3> QED
      BY <2>1, <3>1
  <2>2. CASE i \notin position + 1 .. position + Len(piece)
    BY <2>2 DEF Hole
  <2> QED
    BY <2>1, <2>2
<1>3. Written(bytes, position, piece) = [i \in 1 .. length |-> byte(i)]
  BY DEF Written
<1> HIDE DEF length, byte
<1> QED
  BY <1>1, <1>2, <1>3

-----------------------------------------------------------------------------
(***************************************************************************)
(* What the steps of a transfer do to the files, the requests and the      *)
(* objects.                                                                *)
(***************************************************************************)
\* Steps that change one request and keep the files.
LEMMA RequestMoves ==
  ASSUME StoreInv, NEW c \in Callers, NEW state,
         transfer' = [transfer EXCEPT ![c] = state], content' = content, ObjectsWhole',
         state = NoTransfer \/ PutRequest(state) \/ GetRequest(state)
  PROVE  StoreInv'
<1>1. \A d \in Callers : transfer'[d] = IF d = c THEN state ELSE transfer[d]
  BY DEF StoreInv, RequestsTyped
<1>2. transfer' = [d \in Callers |-> transfer'[d]]
  BY DEF StoreInv, RequestsTyped
<1>3. RequestsTyped'
  BY <1>1, <1>2 DEF StoreInv, RequestsTyped, PutRequest, GetRequest
<1>4. FilesTyped' /\ SourcesStay'
  BY DEF StoreInv, FilesTyped, SourcesStay
<1> QED
  BY <1>3, <1>4 DEF StoreInv

LEMMA PutKeeps ==
  ASSUME StoreInv, NEW c \in Callers, NEW key, NEW file \in DOMAIN content, Put(c, key, file)
  PROVE  StoreInv'
<1> DEFINE state == [op |-> "put", key |-> key, file |-> file, from |-> content[file].bytes,
                     size |-> Len(content[file].bytes), bytes |-> <<>>]
<1>1. content[file].bytes \in Seq(Nat) /\ (file \in DOMAIN Sources => content[file].bytes = Sources[file])
  BY DEF StoreInv, FilesTyped, SourcesStay
<1>2. PutRequest(state)
  <2>1. Over(<<>>, state.from)
    BY DEF Over
  <2> QED
    BY <1>1, <2>1 DEF PutRequest, FullPieces
<1>3. ObjectsWhole'
  BY DEF Put, StoreInv, ObjectsWhole
<1>4. transfer' = [transfer EXCEPT ![c] = state] /\ content' = content
  BY DEF Put
<1> HIDE DEF state
<1> QED
  BY <1>2, <1>3, <1>4, RequestMoves

LEMMA Joined ==
  ASSUME NEW s \in Seq(Nat), NEW r \in Seq(Nat)
  PROVE  s \o r \in Seq(Nat) /\ Len(s \o r) = Len(s) + Len(r)
OBVIOUS

\* One more piece of the start of the file.
LEMMA OverAndOver ==
  ASSUME NEW from \in Seq(Nat), NEW bytes \in Seq(Nat), NEW room \in 1 .. BUFFER, BUFFER \in Nat,
         Over(bytes, from), room <= Len(from),
         \/ bytes = <<>>
         \/ /\ Len(bytes) >= BUFFER
            /\ \A j \in 1 .. BUFFER : bytes[Len(bytes) - BUFFER + j] = from[j]
  PROVE  LET sent == bytes \o SubSeq(from, 1, room) IN
         /\ sent \in Seq(Nat) /\ Len(sent) = Len(bytes) + room
         /\ \A j \in 1 .. room : sent[Len(bytes) + j] = from[j]
         /\ Over(sent, from)
<1> DEFINE piece == SubSeq(from, 1, room)
           sent  == bytes \o piece
           n     == Len(bytes)
<1>1. piece \in Seq(Nat) /\ Len(piece) = room /\ \A j \in 1 .. room : piece[j] = from[j]
  OBVIOUS
<1> HIDE DEF piece
<1>2. n \in Nat /\ DOMAIN bytes = 1 .. n
  OBVIOUS
<1>3. /\ sent \in Seq(Nat) /\ Len(sent) = n + room /\ DOMAIN sent = 1 .. n + room
      /\ \A i \in 1 .. n : sent[i] = bytes[i]
      /\ \A j \in 1 .. room : sent[n + j] = from[j]
  <2>1. sent \in Seq(Nat) /\ Len(sent) = n + room
    <3>1. piece \in Seq(Nat) /\ Len(piece) = room /\ bytes \in Seq(Nat)
      BY <1>1
    <3>2. sent \in Seq(Nat) /\ Len(sent) = Len(bytes) + Len(piece)
      BY <3>1, Joined
    <3> QED
      BY <3>1, <3>2
  <2>2. \A i \in 1 .. n : sent[i] = bytes[i]
    BY <1>1
  <2>3. ASSUME NEW j \in 1 .. room PROVE sent[n + j] = from[j]
    <3>1. sent[n + j] = piece[j]
      BY <1>1
    <3> QED
      BY <1>1, <3>1
  <2> HIDE DEF sent
  <2>4. DOMAIN sent = 1 .. n + room
    BY <1>2, <2>1
  <2> QED
    BY <2>1, <2>2, <2>3, <2>4
<1>4. bytes = <<>> => n = 0
  OBVIOUS
<1>5. \/ n = 0
      \/ n >= BUFFER /\ \A j \in 1 .. BUFFER : bytes[n - BUFFER + j] = from[j]
  BY <1>4
<1>6. \A i \in 1 .. n : bytes[i] = IF i <= BUFFER THEN from[i] ELSE bytes[i - BUFFER]
  BY <1>2 DEF Over
<1> HIDE DEF sent, n
<1>7. ASSUME NEW i \in 1 .. n + room
      PROVE  sent[i] = IF i <= BUFFER THEN from[i] ELSE sent[i - BUFFER]
  <2>1. CASE i <= n
    <3>1. i \in 1 .. n /\ (i > BUFFER => i - BUFFER \in 1 .. n)
      BY <1>2, <2>1
    <3>2. sent[i] = bytes[i] /\ (i > BUFFER => sent[i - BUFFER] = bytes[i - BUFFER])
      BY <1>3, <3>1
    <3> QED
      BY <1>2, <1>6, <3>1, <3>2
  <2>2. CASE i > n
    <3> DEFINE j == i - n
    <3>1. j \in 1 .. room /\ j \in 1 .. BUFFER /\ i = n + j
      BY <1>2, <2>2
    <3> HIDE DEF j
    <3>2. sent[i] = from[j]
      BY <1>3, <3>1
    <3>3. CASE n = 0
      <4>1. i = j /\ i <= BUFFER
        BY <3>1, <3>3
      <4> QED
        BY <3>2, <4>1
    <3>4. CASE n >= BUFFER /\ \A k \in 1 .. BUFFER : bytes[n - BUFFER + k] = from[k]
      <4>1. i > BUFFER /\ i - BUFFER = n - BUFFER + j /\ i - BUFFER \in 1 .. n
        BY <1>2, <3>1, <3>4
      <4>2. sent[i - BUFFER] = bytes[i - BUFFER] /\ bytes[n - BUFFER + j] = from[j]
        BY <1>3, <3>1, <3>4, <4>1
      <4> QED
        BY <3>2, <4>1, <4>2
    <3> QED
      BY <1>5, <3>3, <3>4
  <2> QED
    BY <1>2, <2>1, <2>2
<1>8. Over(sent, from)
  BY <1>3, <1>7 DEF Over
<1> QED
  BY <1>3, <1>8 DEF n, sent, piece

LEMMA PutPieceKeeps ==
  ASSUME StoreInv, NEW c \in Callers, PutPiece(c) PROVE StoreInv'
<1> DEFINE t     == transfer[c]
           room  == Least(BUFFER, t.size - Len(t.bytes))
           piece == Start(content[t.file].bytes, room)
           state == [t EXCEPT !.bytes = t.bytes \o piece]
<1>1. PutRequest(t) /\ Len(t.bytes) < t.size
  BY DEF PutPiece, In, StoreInv, RequestsTyped, NoTransfer, GetRequest
<1>2. /\ t.size \in Nat /\ Len(t.bytes) \in Nat /\ BUFFER \in Nat
      /\ t.bytes \in Seq(Nat) /\ t.from \in Seq(Nat) /\ content[t.file].bytes \in Seq(Nat)
  BY <1>1, TransferAssumption DEF PutRequest, StoreInv, FilesTyped
<1>3. room \in Nat /\ room <= t.size - Len(t.bytes)
  BY <1>1, <1>2 DEF Least
<1>4. piece \in Seq(Nat) /\ Len(piece) <= room
  BY <1>2, <1>3, StartFacts
<1>5. t.bytes \o piece \in Seq(Nat) /\ Len(t.bytes \o piece) = Len(t.bytes) + Len(piece)
  BY <1>2, <1>4
<1>6. ASSUME t.file \in DOMAIN Sources
      PROVE  /\ Over(t.bytes \o piece, t.from)
             /\ Len(t.bytes \o piece) < t.size =>
                  /\ Len(t.bytes \o piece) >= BUFFER
                  /\ \A j \in 1 .. BUFFER :
                       (t.bytes \o piece)[Len(t.bytes \o piece) - BUFFER + j] = t.from[j]
  <2> DEFINE n    == Len(t.bytes)
             sent == t.bytes \o SubSeq(t.from, 1, room)
  <2>1. content[t.file].bytes = t.from /\ t.size = Len(t.from)
    BY <1>1, <1>6 DEF PutRequest, StoreInv, SourcesStay
  <2>2. /\ room \in 1 .. BUFFER /\ room <= t.size
        /\ n + room < t.size => room = BUFFER
    BY <1>1, <1>2, TransferAssumption DEF Least
  <2>3. room <= Len(t.from)
    <3> HIDE DEF room, t
    <3> QED
      BY <2>1, <2>2
  <2>4. piece = SubSeq(t.from, 1, room)
    <3>1. Least(room, Len(t.from)) = room
      BY <1>2, <2>2, <2>3 DEF Least
    <3> HIDE DEF room, t
    <3> QED
      BY <2>1, <3>1 DEF Start
  <2>5. /\ Over(t.bytes, t.from)
        /\ \/ t.bytes = <<>>
           \/ /\ Len(t.bytes) >= BUFFER
              /\ \A j \in 1 .. BUFFER : t.bytes[Len(t.bytes) - BUFFER + j] = t.from[j]
    BY <1>1, <1>6 DEF PutRequest, FullPieces
  <2> HIDE DEF room, piece, t
  <2>6. /\ sent \in Seq(Nat) /\ Len(sent) = n + room
        /\ \A j \in 1 .. room : sent[n + j] = t.from[j]
        /\ Over(sent, t.from)
    BY <1>2, <2>2, <2>3, <2>5, OverAndOver
  <2> HIDE DEF sent
  <2>7. ASSUME Len(sent) < t.size
        PROVE  Len(sent) >= BUFFER /\ \A j \in 1 .. BUFFER : sent[Len(sent) - BUFFER + j] = t.from[j]
    <3>1. room = BUFFER /\ Len(sent) = n + BUFFER /\ Len(sent) - BUFFER = n
      BY <1>2, <2>2, <2>6, <2>7
    <3> QED
      BY <1>2, <2>6, <3>1
  <2> QED
    BY <2>4, <2>6, <2>7 DEF sent
<1>7. state = [op |-> "put", key |-> t.key, file |-> t.file, from |-> t.from,
               size |-> t.size, bytes |-> t.bytes \o piece]
  <2> DEFINE sent == t.bytes \o piece
  <2> HIDE DEF sent
  <2>1. [t EXCEPT !.bytes = sent] = [op |-> "put", key |-> t.key, file |-> t.file, from |-> t.from,
                                     size |-> t.size, bytes |-> sent]
    BY <1>1 DEF PutRequest
  <2> QED
    BY <2>1 DEF sent
<1>8. transfer' = [transfer EXCEPT ![c] = state] /\ content' = content /\ ObjectsWhole'
  BY DEF PutPiece, StoreInv, ObjectsWhole
<1> HIDE DEF piece, room
<1>9. Len(t.bytes \o piece) <= t.size
  BY <1>2, <1>3, <1>4, <1>5
<1> HIDE DEF state
<1>10. PutRequest(state)
  <2>1. state.file \in DOMAIN Sources => Over(state.bytes, state.from) /\ FullPieces(state)
    BY <1>6, <1>7 DEF FullPieces
  <2> QED
    BY <1>1, <1>5, <1>7, <1>9, <2>1 DEF PutRequest
<1> HIDE DEF t
<1> QED
  BY <1>8, <1>10, RequestMoves

LEMMA EndKeeps ==
  ASSUME StoreInv, NEW c \in Callers, PutFails(c) \/ GetEnds(c) PROVE StoreInv'
<1>1. transfer' = [transfer EXCEPT ![c] = NoTransfer] /\ content' = content /\ ObjectsWhole'
  BY DEF PutFails, GetEnds, StoreInv, ObjectsWhole
<1> QED
  BY <1>1, RequestMoves

LEMMA PutDoneKeeps ==
  ASSUME StoreInv, NEW c \in Callers, PutDone(c) PROVE StoreInv'
<1> DEFINE t == transfer[c]
           o == [bytes |-> t.bytes, from |-> t.from, file |-> t.file]
<1>1. PutRequest(t) /\ Len(t.bytes) = t.size
  BY DEF PutDone, In, StoreInv, RequestsTyped, NoTransfer, GetRequest
<1>2. t.file \in DOMAIN Sources => Over(t.bytes, t.from)
  BY <1>1 DEF PutRequest
<1>3. Whole(o)
  BY <1>1, <1>2 DEF Whole, PutRequest
<1>4. objects' = [k \in DOMAIN objects \cup {t.key} |-> IF k = t.key THEN o ELSE objects[k]]
  BY DEF PutDone
<1> HIDE DEF o
<1>5. ObjectsWhole'
  BY <1>3, <1>4 DEF StoreInv, ObjectsWhole, Whole
<1>6. transfer' = [transfer EXCEPT ![c] = NoTransfer] /\ content' = content
  BY DEF PutDone
<1> QED
  BY <1>5, <1>6, RequestMoves

LEMMA GetKeeps ==
  ASSUME StoreInv, NEW c \in Callers, NEW key, tmp[c].name \in DOMAIN content \cap TmpName, Get(c, key)
  PROVE  StoreInv'
<1> DEFINE from  == IF key \in DOMAIN objects THEN objects[key].bytes ELSE <<>>
           state == [op |-> "get", file |-> tmp[c].name, got |-> 0, from |-> from]
<1>1. from \in Seq(Nat)
  BY DEF StoreInv, ObjectsWhole, Whole
<1>2. transfer' = [transfer EXCEPT ![c] = state] /\ content' = content /\ ObjectsWhole'
  BY DEF Get, StoreInv, ObjectsWhole
<1> HIDE DEF from
<1>3. GetRequest(state)
  BY <1>1 DEF GetRequest
<1> HIDE DEF state
<1> QED
  BY <1>2, <1>3, RequestMoves

\* A piece of a file is a sequence of bytes again ...
LEMMA PieceType ==
  ASSUME NEW s \in Seq(Nat), NEW i \in Nat, NEW j \in 0 .. Len(s)
  PROVE  SubSeq(s, i + 1, j) \in Seq(Nat)
BY SMTT(30)

LEMMA GetPieceKeeps ==
  ASSUME StoreInv, NEW c \in Callers, DOMAIN Sources \cap TmpName = {}, GetPiece(c)
  PROVE  StoreInv' /\ DOMAIN content' = DOMAIN content
<1> DEFINE t     == transfer[c]
           piece == SubSeq(t.from, t.got + 1, Least(t.got + BUFFER, Len(t.from)))
           new   == Written(content[t.file].bytes, t.got, piece)
           state == [t EXCEPT !.got = t.got + Len(piece)]
<1>1. GetRequest(t) /\ t.got < Len(t.from)
  BY DEF GetPiece, In, StoreInv, RequestsTyped, NoTransfer, PutRequest
<1>2. t.file \in DOMAIN content /\ t.file \notin DOMAIN Sources /\ t.from \in Seq(Nat) /\ t.got \in Nat
  BY <1>1 DEF GetRequest
<1>3. piece \in Seq(Nat)
  <2>1. Least(t.got + BUFFER, Len(t.from)) \in 0 .. Len(t.from)
    BY <1>2, TransferAssumption DEF Least
  <2> HIDE DEF t
  <2> QED
    BY <1>2, <2>1, PieceType
<1>4. content[t.file] = [bytes |-> content[t.file].bytes, opened |-> content[t.file].opened]
      /\ content[t.file].bytes \in Seq(Nat)
  BY <1>2 DEF StoreInv, FilesTyped
<1>5. new \in Seq(Nat)
  BY <1>2, <1>3, <1>4, WrittenType
<1>6. content' = [content EXCEPT ![t.file] = [content[t.file] EXCEPT !.bytes = new]]
  BY DEF GetPiece
<1>7. transfer' = [transfer EXCEPT ![c] = state] /\ objects' = objects
  BY DEF GetPiece
<1> HIDE DEF piece, new
<1>8. DOMAIN content' = DOMAIN content
  BY <1>6
<1>9. GetRequest(state)
  <2>1. t.got + Len(piece) \in Nat
    BY <1>2, <1>3
  <2> HIDE DEF t
  <2> QED
    BY <1>1, <2>1, SMTT(30) DEF GetRequest
<1> HIDE DEF state, t
<1>10. /\ content'[t.file] = [bytes |-> new, opened |-> content[t.file].opened]
       /\ \A f \in DOMAIN content : f # t.file => content'[f] = content[f]
  BY <1>2, <1>4, <1>6
<1>11. FilesTyped'
  BY <1>5, <1>8, <1>10 DEF StoreInv, FilesTyped
<1>12. SourcesStay'
  BY <1>2, <1>8, <1>10 DEF StoreInv, SourcesStay
<1>13. \A d \in Callers : transfer'[d] = IF d = c THEN state ELSE transfer[d]
  BY <1>7 DEF StoreInv, RequestsTyped
<1>14. transfer' = [d \in Callers |-> transfer'[d]]
  BY <1>7 DEF StoreInv, RequestsTyped
<1>15. RequestsTyped'
  BY <1>8, <1>9, <1>13, <1>14 DEF StoreInv, RequestsTyped, PutRequest, GetRequest
<1> QED
  BY <1>7, <1>8, <1>11, <1>12, <1>15 DEF StoreInv, ObjectsWhole

-----------------------------------------------------------------------------
(***************************************************************************)
(* The temporary files.                                                    *)
(***************************************************************************)
LEMMA OpensKeeps ==
  ASSUME StoreInv, NEW c \in Callers, DOMAIN Sources \cap TmpName = {}, tmp[c].name \in TmpName, OpensTmp(c)
  PROVE  StoreInv' /\ DOMAIN content' = DOMAIN content \cup {tmp[c].name}
<1> DEFINE opened == IF tmp[c].name \in names THEN content[tmp[c].name].opened ELSE 0
           file   == tmp[c].name
           new    == [bytes |-> <<>>, opened |-> opened + 1]
<1>1. content' = [f \in DOMAIN content \cup {file} |-> IF f = file THEN new ELSE content[f]]
  BY DEF OpensTmp
<1>2. file \notin DOMAIN Sources
  OBVIOUS
<1>3. new.bytes = <<>> /\ new = [bytes |-> new.bytes, opened |-> new.opened]
  OBVIOUS
<1> HIDE DEF new
<1>4. FilesTyped'
  <2> SUFFICES ASSUME NEW f \in DOMAIN content'
               PROVE  /\ content'[f] = [bytes |-> content'[f].bytes, opened |-> content'[f].opened]
                      /\ content'[f].bytes \in Seq(Nat)
    BY DEF FilesTyped
  <2>1. CASE f = file
    <3>1. content'[f] = new /\ <<>> \in Seq(Nat)
      BY <1>1, <2>1
    <3> QED
      BY <1>3, <3>1
  <2>2. CASE f # file
    BY <1>1, <2>2 DEF StoreInv, FilesTyped
  <2> QED
    BY <2>1, <2>2
<1>5. SourcesStay'
  BY <1>1, <1>2 DEF StoreInv, SourcesStay
<1>6. RequestsTyped'
  BY <1>1 DEF OpensTmp, StoreInv, RequestsTyped, PutRequest, GetRequest
<1>7. ObjectsWhole'
  BY DEF OpensTmp, StoreInv, ObjectsWhole
<1> QED
  BY <1>1, <1>4, <1>5, <1>6, <1>7 DEF StoreInv

LEMMA AbortsKeeps ==
  ASSUME StoreInv, NEW c \in Callers, Aborts(c) PROVE StoreInv'
<1>1. transfer' = [d \in Callers |-> IF Process[d] = Process[c] THEN NoTransfer ELSE transfer[d]]
  BY DEF Aborts
<1>2. transfer' = [d \in Callers |-> transfer'[d]] /\ \A d \in Callers : transfer'[d] \in {NoTransfer, transfer[d]}
  BY <1>1
<1>3. content' = content /\ objects' = objects
  BY DEF Aborts
<1> QED
  BY <1>2, <1>3 DEF StoreInv, FilesTyped, SourcesStay, RequestsTyped, PutRequest, GetRequest, ObjectsWhole

LEMMA StoreStays == ASSUME StoreInv, UNCHANGED transferVars PROVE StoreInv'
BY DEF transferVars, StoreInv, FilesTyped, SourcesStay, RequestsTyped, PutRequest, GetRequest, ObjectsWhole

\* Of all that get_tmp_file does only the opening gives a caller a file.
LEMMA HasStays ==
  ASSUME ClockInv, NEW c \in Callers, GetTmpFile(c) \/ TmpStep(c) \/ Leave(c) \/ AssertFails(c),
         NEW d \in Callers, Has(d)'
  PROVE  Has(d) /\ tmp'[d].name = tmp[d].name
<1>1. tmp \in [Callers -> {NoFile} \cup Drawing] /\ NoFile.step = "none"
  BY DEF ClockInv, TmpTyped, NoFile
<1>2. CASE AssertFails(c)
  BY <1>1, <1>2 DEF AssertFails, Has
<1>3. CASE GetTmpFile(c) \/ Leave(c)
  BY <1>1, <1>3 DEF GetTmpFile, Leave, Has
<1>4. ASSUME TmpStep(c), d = c PROVE tmp'[c].step # "have"
  <2>1. tmp[c] \in Drawing
    BY <1>1, <1>4 DEF TmpStep, ReadClock, Seed, Draw, Probe, AtTmp
  <2> QED
    BY <1>1, <1>4, <2>1, SMTT(30) DEF TmpStep, ReadClock, Seed, Draw, Probe, Drawing
<1>5. ASSUME TmpStep(c), d # c PROVE tmp'[d] = tmp[d]
  BY <1>1, <1>5 DEF TmpStep, ReadClock, Seed, Draw, Probe
<1> QED
  BY <1>2, <1>3, <1>4, <1>5 DEF Has

\* Steps of get_tmp_file that leave the files there are.
LEMMA TmpKeeps ==
  ASSUME DataInv, NEW c \in Callers, GetTmpFile(c) \/ TmpStep(c) \/ Leave(c) \/ AssertFails(c),
         DOMAIN content' = DOMAIN content
  PROVE  ClockInv' /\ OpenedExist'
<1>1. ClockInv'
  BY ClockNext DEF DataInv, TmpNext
<1>2. OpenedExist'
  BY HasStays DEF DataInv, OpenedExist
<1> QED
  BY <1>1, <1>2

LEMMA TmpStays ==
  ASSUME DataInv, UNCHANGED tmpVars, DOMAIN content' = DOMAIN content
  PROVE  ClockInv' /\ OpenedExist'
<1>1. ClockInv'
  BY ClockNext DEF DataInv
<1> QED
  BY <1>1 DEF DataInv, OpenedExist, Has, tmpVars

-----------------------------------------------------------------------------
LEMMA DataInvInit == DataInit => DataInv
<1> SUFFICES ASSUME DataInit PROVE DataInv
  OBVIOUS
<1>1. ClockInv
  BY ClockInit DEF DataInit
<1>2. OpenedExist
  BY DEF DataInit, TmpInit, OpenedExist, Has, NoFile
<1>3. FilesTyped /\ SourcesStay
  <2>1. \A f \in DOMAIN Sources : Sources[f] \in Seq(Nat \ {0})
    BY TransferAssumption
  <2>2. \A f \in DOMAIN Sources : Sources[f] \in Seq(Nat)
    BY <2>1
  <2> QED
    BY <2>2 DEF DataInit, FilesTyped, SourcesStay
<1>4. RequestsTyped /\ ObjectsWhole
  BY DEF DataInit, RequestsTyped, ObjectsWhole
<1> QED
  BY <1>1, <1>2, <1>3, <1>4 DEF DataInv, StoreInv

LEMMA DataInvNext ==
  ASSUME DOMAIN Sources \cap TmpName = {}, DataInv, [DataNext]_dataVars PROVE DataInv'
<1>1. CASE UNCHANGED dataVars
  <2>1. UNCHANGED tmpVars /\ UNCHANGED transferVars /\ DOMAIN content' = DOMAIN content
    BY <1>1 DEF dataVars, tmpVars, transferVars
  <2> QED
    BY <2>1, TmpStays, StoreStays DEF DataInv
<1>2. CASE Tick /\ UNCHANGED transferVars
  <2>1. ClockInv'
    BY <1>2, ClockNext DEF DataInv, TmpNext
  <2>2. OpenedExist'
    BY <1>2 DEF DataInv, OpenedExist, Has, Tick, transferVars
  <2> QED
    BY <1>2, <2>1, <2>2, StoreStays DEF DataInv
<1>3. ASSUME NEW c \in Callers, DataStep(c) PROVE DataInv'
  <2> USE DEF DataInv
  <2>1. ASSUME Has(c) PROVE tmp[c].name \in DOMAIN content \cap TmpName
    BY <2>1 DEF OpenedExist, Has, ClockInv, TmpTyped, Drawing, NoFile, TmpName
  <2>2. CASE (GetTmpFile(c) \/ TmpStep(c)) /\ UNCHANGED transferVars
    <3>1. DOMAIN content' = DOMAIN content
      BY <2>2 DEF transferVars
    <3> QED
      BY <2>2, <3>1, TmpKeeps, StoreStays
  <2>3. ASSUME StoreInv', DOMAIN content' = DOMAIN content, UNCHANGED tmpVars PROVE DataInv'
    BY <2>3, TmpStays
  <2>4. CASE LookupStep(c)
    <3>1. CASE \E key \in Keys : Has(c) /\ ~In(c, "get") /\ Get(c, key) /\ UNCHANGED tmpVars
      <4>1. PICK key \in Keys : Has(c) /\ Get(c, key) /\ UNCHANGED tmpVars
        BY <3>1
      <4>2. StoreInv'
        BY <2>1, <4>1, GetKeeps
      <4> QED
        BY <2>3, <4>1, <4>2 DEF Get
    <3>2. CASE GetPiece(c) /\ UNCHANGED tmpVars
      BY <2>3, <3>2, GetPieceKeeps
    <3>3. CASE GetEnds(c) /\ Leave(c)
      <4>1. DOMAIN content' = DOMAIN content
        BY <3>3 DEF GetEnds
      <4> QED
        BY <3>3, <4>1, EndKeeps, TmpKeeps
    <3> QED
      BY <2>2, <2>4, <3>1, <3>2, <3>3 DEF LookupStep
  <2>5. ASSUME NEW key, NEW file \in DOMAIN content, Put(c, key, file), UNCHANGED tmpVars PROVE DataInv'
    BY <2>3, <2>5, PutKeeps DEF Put
  <2>6. ASSUME PutPiece(c) \/ PutDone(c) \/ PutFails(c) PROVE StoreInv' /\ content' = content
    BY <2>6, PutPieceKeeps, PutDoneKeeps, EndKeeps DEF PutPiece, PutDone, PutFails
  <2>7. CASE ExportStep(c)
    <3>1. CASE \E key \in Keys : Has(c) /\ ~In(c, "put") /\ Put(c, key, tmp[c].name) /\ UNCHANGED tmpVars
      BY <2>1, <2>5, <3>1
    <3>2. CASE Has(c) /\ PutPiece(c) /\ UNCHANGED tmpVars
      BY <2>3, <2>6, <3>2
    <3>3. CASE /\ PutDone(c) \/ PutFails(c)
               /\ tmp' = [tmp EXCEPT ![c] = NoFile]
               /\ UNCHANGED <<now, rng, outrun, names>>
      <4>1. ClockInv'
        BY <3>3, CallerMoves DEF NoFile
      <4>2. StoreInv' /\ content' = content
        BY <2>6, <3>3
      <4>3. OpenedExist'
        BY <3>3, <4>2 DEF OpenedExist, Has, ClockInv, TmpTyped, NoFile
      <4> QED
        BY <4>1, <4>2, <4>3
    <3> QED
      BY <2>2, <2>7, <3>1, <3>2, <3>3 DEF ExportStep
  <2>8. CASE UploadStep(c)
    <3>1. CASE \E key \in Keys, f \in DOMAIN Sources : Put(c, key, f) /\ UNCHANGED tmpVars
      <4>1. PICK key \in Keys, f \in DOMAIN Sources : Put(c, key, f) /\ UNCHANGED tmpVars
        BY <3>1
      <4>2. f \in DOMAIN content
        BY DEF StoreInv, SourcesStay
      <4> QED
        BY <2>5, <4>1, <4>2
    <3>2. CASE (PutPiece(c) \/ PutDone(c) \/ PutFails(c)) /\ UNCHANGED tmpVars
      BY <2>3, <2>6, <3>2
    <3> QED
      BY <2>8, <3>1, <3>2 DEF UploadStep
  <2>9. CASE OpensTmp(c)
    <3>1. OpenTmp(c)
      BY <2>9 DEF OpensTmp
    <3>2. ClockInv'
      BY <3>1, ClockNext DEF TmpNext
    <3>3. tmp[c].name \in TmpName /\ tmp[c] \in Drawing
      BY <3>1 DEF OpenTmp, AtTmp, ClockInv, TmpTyped, Drawing, NoFile, TmpName
    <3>4. StoreInv' /\ DOMAIN content' = DOMAIN content \cup {tmp[c].name}
      BY <2>9, <3>3, OpensKeeps
    <3>5. \A d \in Callers : tmp'[d].name = tmp[d].name /\ (Has(d)' => Has(d) \/ d = c)
      BY <3>1, <3>3 DEF OpenTmp, ClockInv, TmpTyped, Drawing, Has
    <3>6. OpenedExist'
      BY <3>4, <3>5 DEF OpenedExist
    <3> QED
      BY <3>2, <3>4, <3>6
  <2>10. CASE Aborts(c)
    <3>1. AssertFails(c) /\ DOMAIN content' = DOMAIN content
      BY <2>10 DEF Aborts
    <3> QED
      BY <2>10, <3>1, TmpKeeps, AbortsKeeps
  <2> QED
    BY <1>3, <2>2, <2>4, <2>7, <2>8, <2>9, <2>10 DEF DataStep
<1> QED
  BY <1>1, <1>2, <1>3 DEF DataNext

\* Two sequences of one length that start alike.
LEMMA StartsAlike ==
  ASSUME NEW s \in Seq(Nat), NEW r \in Seq(Nat), NEW n \in Nat, Len(s) = Len(r),
         \A i \in 1 .. Len(s) : i <= n => s[i] = r[i]
  PROVE  Start(s, n) = Start(r, n)
<1> DEFINE m == Least(n, Len(s))
<1>1. m \in Nat /\ m <= n /\ m <= Len(s)
  BY DEF Least
<1> HIDE DEF m
<1>2. /\ SubSeq(s, 1, m) = [i \in 1 .. m |-> s[i]]
      /\ SubSeq(r, 1, m) = [i \in 1 .. m |-> r[i]]
  BY <1>1, SMTT(30)
<1>3. \A i \in 1 .. m : s[i] = r[i]
  BY <1>1
<1>4. SubSeq(s, 1, m) = SubSeq(r, 1, m)
  BY <1>2, <1>3
<1> QED
  BY <1>4 DEF Start, m

\* An object is as long as the file that was uploaded, and starts with its first
\* piece, for every set of files and callers, every size of a piece and every
\* interleaving, provided that the files uploaded are no temporary files.
THEOREM FirstPieceArrives ==
  ASSUME DOMAIN Sources \cap TmpName = {} PROVE DataSpec => []FirstPieceWhole
<1>1. DataInv /\ [DataNext]_dataVars => DataInv'
  BY DataInvNext
<1>2. ASSUME NEW o, Whole(o), o.file \in DOMAIN Sources
      PROVE  Start(o.bytes, BUFFER) = Start(o.from, BUFFER)
  <2>1. \A i \in 1 .. Len(o.bytes) : i <= BUFFER => o.bytes[i] = o.from[i]
    BY <1>2 DEF Whole, Over
  <2> QED
    BY <1>2, <2>1, StartsAlike, TransferAssumption DEF Whole
<1>3. DataInv => FirstPieceWhole
  BY <1>2 DEF DataInv, StoreInv, ObjectsWhole, Whole, FirstPieceWhole
<1> QED
  BY DataInvInit, <1>1, <1>3, PTL DEF DataSpec

\* What became of a file that was uploaded: its first piece, over and over.
PiecesRepeat ==
  \A key \in DOMAIN objects : objects[key].file \in DOMAIN Sources =>
    /\ Len(objects[key].bytes) = Len(objects[key].from)
    /\ Over(objects[key].bytes, objects[key].from)

\* Of a file of several pieces the store gets the first one over and over: it is not
\* by chance that a run finds a large file that does not arrive, none does unless it
\* repeats itself (_putObjectDataCallback goes back to the start of the file).
THEOREM LargeUploadsStartOver ==
  ASSUME DOMAIN Sources \cap TmpName = {} PROVE DataSpec => []PiecesRepeat
<1>1. DataInv /\ [DataNext]_dataVars => DataInv'
  BY DataInvNext
<1>2. DataInv => PiecesRepeat
  BY DEF DataInv, StoreInv, ObjectsWhole, Whole, PiecesRepeat
<1> QED
  BY DataInvInit, <1>1, <1>2, PTL DEF DataSpec

\* Threads of a server, exporters and uploaders together share a temporary file only
\* if they ran in one second (get_tmp_file), whatever they transfer.
THEOREM TransfersShareInOneSecond ==
  ASSUME DOMAIN Sources \cap TmpName = {} PROVE DataSpec => []SharedInOneSecond
<1>1. DataInv /\ [DataNext]_dataVars => DataInv'
  BY DataInvNext
<1>2. DataInv => SharedInOneSecond
  BY SharedWithin DEF DataInv
<1> QED
  BY DataInvInit, <1>1, <1>2, PTL DEF DataSpec

\* To get_tmp_file, a transfer is what its callers do meanwhile; only create_export
\* ends otherwise than TmpFile has it, with its process.
LEMMA TransferMeanwhile ==
  ASSUME [DataNext]_dataVars
  PROVE  [TmpNext]_tmpVars \/ \E c \in Callers : Has(c) /\ tmp' = [tmp EXCEPT ![c] = NoFile]
<1>1. CASE UNCHANGED dataVars \/ (Tick /\ UNCHANGED transferVars)
  BY <1>1 DEF dataVars, tmpVars, TmpNext
<1>2. ASSUME NEW c \in Callers, DataStep(c)
      PROVE  [TmpNext]_tmpVars \/ (Has(c) /\ tmp' = [tmp EXCEPT ![c] = NoFile])
  <2>1. GetTmpFile(c) \/ TmpStep(c) \/ OpenTmp(c) \/ AssertFails(c) \/ Leave(c) => TmpNext
    BY DEF TmpNext
  <2>2. CASE LookupStep(c)
    BY <2>1, <2>2 DEF LookupStep
  <2>3. CASE ExportStep(c)
    BY <2>1, <2>3 DEF ExportStep
  <2>4. CASE UploadStep(c)
    BY <2>4 DEF UploadStep
  <2>. QED
    BY <1>2, <2>1, <2>2, <2>3, <2>4 DEF DataStep, OpensTmp, Aborts
<1>. QED
  BY <1>1, <1>2 DEF DataNext

LEMMA TransferTries ==
  ASSUME ClockInv, TriesInv, [DataNext]_dataVars
  PROVE  TriesInv' /\ \A d \in Callers : tmp'[d] # tmp[d] => Ends(tmp[d], tmp'[d])
<1>1. ASSUME NEW c \in Callers, Has(c), tmp' = [tmp EXCEPT ![c] = NoFile]
      PROVE  TriesInv' /\ \A d \in Callers : tmp'[d] # tmp[d] => Ends(tmp[d], tmp'[d])
  BY <1>1, TriesMove, NoFileTries DEF ClockInv, TmpTyped, Has, Ends
<1>. QED
  BY <1>1, TransferMeanwhile, TriesNext

\* A call of get_tmp_file ends after RETRIES tries at most also where threads of
\* several processes transfer and create_export runs beside them.
THEOREM EveryTransferTryCounts ==
  ASSUME DOMAIN Sources \cap TmpName = {} PROVE DataSpec => TriesRunOut
<1>1. ASSUME ClockInv, TriesInv, [DataNext]_dataVars
      PROVE  [\A c \in Callers : tmp'[c] # tmp[c] =>
                \/ tmp[c] = NoFile /\ StepsLeft(tmp'[c]) <= 1 + RETRIES * StepsOfTry
                \/ Has(c) /\ tmp'[c] = NoFile
                \/ StepsLeft(tmp[c]) > 0 /\ StepsLeft(tmp'[c]) \in 0 .. StepsLeft(tmp[c]) - 1]_tmpVars
  BY <1>1, TransferTries DEF Ends, Lowers, Has
<1>2. DataInit => DataInv /\ TriesInv
  BY DataInvInit, NoFileTries DEF DataInit, TmpInit, TriesInv
<1>3. DataInv /\ TriesInv /\ [DataNext]_dataVars => (DataInv /\ TriesInv)'
  BY DataInvNext, TransferTries DEF DataInv
<1>4. DataInv => ClockInv
  BY DEF DataInv
<1>. QED
  BY <1>1, <1>2, <1>3, <1>4, PTL DEF DataSpec, TriesRunOut

-----------------------------------------------------------------------------
(***************************************************************************)
(* Downloads.                                                              *)
(***************************************************************************)
\* The files in TMPDIR were opened, and among them are those that callers have.
NamesOpened ==
  /\ \A n \in names : n \in DOMAIN content /\ content[n].opened \in Nat \ {0}
  /\ \A c \in Callers : Has(c) => tmp[c].name \in names

\* A file that two callers have was opened more than once.
SharersOpened ==
  \A c, d \in Callers :
    c # d /\ Has(c) /\ Has(d) /\ tmp[c].name = tmp[d].name => content[tmp[c].name].opened # 1

\* A caller downloads into the file it has.
OwnFile == \A c \in Callers : In(c, "get") => Has(c) /\ transfer[c].file = tmp[c].name

\* A file that was opened once is empty until its owner downloads into it.
Begun(bytes, t) == bytes = IF t.op = "get" THEN Start(t.from, t.got) ELSE <<>>

FilesBegun ==
  \A c \in Callers :
    Has(c) /\ Process[c] \in alive /\ content[tmp[c].name].opened = 1
      => Begun(content[tmp[c].name].bytes, transfer[c])

FilesInv == NamesOpened /\ SharersOpened /\ OwnFile /\ FilesBegun

LEMMA StartNothing == ASSUME NEW s \in Seq(Nat) PROVE Start(s, 0) = <<>>
<1>1. Least(0, Len(s)) = 0
  BY DEF Least
<1> QED
  BY <1>1 DEF Start

\* A piece that is written behind the beginning of an object makes a longer one.
LEMMA StartGrows ==
  ASSUME NEW s \in Seq(Nat), NEW n \in Nat, n < Len(s), NEW m \in Nat, n < m, m <= Len(s)
  PROVE  Written(Start(s, n), n, SubSeq(s, n + 1, m)) = Start(s, m)
<1> DEFINE start == Start(s, n)
           piece == SubSeq(s, n + 1, m)
<1>1. start = SubSeq(s, 1, n) /\ Start(s, m) = SubSeq(s, 1, m)
  BY DEF Start, Least
<1>2. Len(start) = n /\ \A i \in 1 .. n : start[i] = s[i]
  BY <1>1
<1>3. Len(piece) = m - n /\ \A i \in 1 .. m - n : piece[i] = s[n + i]
  OBVIOUS
<1>4. SubSeq(s, 1, m) = [i \in 1 .. m |-> s[i]]
  OBVIOUS
<1> HIDE DEF start, piece
<1> DEFINE byte(i) == IF i \in n + 1 .. n + Len(piece) THEN piece[i - n]
                      ELSE IF i <= Len(start) THEN start[i] ELSE Hole
           length  == IF Len(start) >= n + Len(piece) THEN Len(start) ELSE n + Len(piece)
<1>5. length = m
  BY <1>2, <1>3
<1>6. \A i \in 1 .. m : byte(i) = s[i]
  <2> TAKE i \in 1 .. m
  <2>1. CASE i <= n
    BY <1>2, <1>3, <2>1
  <2>2. CASE i > n
    <3>1. i - n \in 1 .. m - n /\ n + (i - n) = i /\ i \in n + 1 .. n + Len(piece)
      BY <1>3, <2>2
    <3> QED
      BY <1>3, <3>1
  <2> QED
    BY <2>1, <2>2
<1>7. Written(start, n, piece) = [i \in 1 .. length |-> byte(i)]
  BY DEF Written
<1> HIDE DEF byte, length
<1>8. Written(start, n, piece) = [i \in 1 .. m |-> s[i]]
  BY <1>5, <1>6, <1>7
<1> QED
  BY <1>1, <1>4, <1>8 DEF start, piece

\* Steps that neither open nor write a file: a request goes on, or one that is no
\* download is begun or ended, or a download ends with its caller's hold on the
\* file, or one begins.
LEMMA FilesStay ==
  ASSUME FilesInv, content' = content, names' = names, alive' \subseteq alive,
         \A d \in Callers : Has(d)' => Has(d) /\ tmp'[d].name = tmp[d].name,
         \A d \in Callers : Process[d] \in alive' =>
           \/ transfer'[d] = transfer[d] /\ (Has(d) => Has(d)')
           \/ transfer'[d].op # "get" /\ (Has(d)' => transfer[d].op # "get")
           \/ /\ Has(d)' /\ transfer[d].op # "get" /\ transfer'[d].file = tmp[d].name
              /\ transfer'[d].got = 0 /\ transfer'[d].from \in Seq(Nat)
  PROVE  FilesInv'
<1>1. NamesOpened' /\ SharersOpened'
  BY DEF FilesInv, NamesOpened, SharersOpened
<1>2. OwnFile'
  BY DEF FilesInv, OwnFile, In
<1>3. FilesBegun'
  <2> SUFFICES ASSUME NEW d \in Callers, Has(d)', Process[d] \in alive',
                      content[tmp[d].name].opened = 1
               PROVE  Begun(content[tmp[d].name].bytes, transfer'[d])
    BY DEF FilesBegun, Begun
  <2>1. Begun(content[tmp[d].name].bytes, transfer[d])
    BY DEF FilesInv, FilesBegun
  <2> QED
    BY <2>1, StartNothing DEF Begun
<1> QED
  BY <1>1, <1>2, <1>3 DEF FilesInv

LEMMA FilesOpen ==
  ASSUME DataInv, FilesInv, NEW c \in Callers, OpensTmp(c) PROVE FilesInv'
<1> DEFINE file   == tmp[c].name
           opened == IF file \in names THEN content[file].opened ELSE 0
<1>1. content' = [f \in DOMAIN content \cup {file} |->
                    IF f = file THEN [bytes |-> <<>>, opened |-> opened + 1] ELSE content[f]]
  BY DEF OpensTmp
<1>2. /\ tmp[c].step = "open" /\ tmp' = [tmp EXCEPT ![c].step = "have"]
      /\ names' = names \cup {file} /\ alive' = alive /\ transfer' = transfer
  BY DEF OpensTmp, OpenTmp, AtTmp
<1>3. tmp[c] \in Drawing /\ tmp = [d \in Callers |-> tmp[d]]
  BY <1>2 DEF DataInv, ClockInv, TmpTyped, NoFile
<1>4. ~Has(c) /\ Has(c)' /\ \A d \in Callers : tmp'[d].name = tmp[d].name /\ (d # c => tmp'[d] = tmp[d])
  BY <1>2, <1>3 DEF Has, Drawing
<1>5. opened \in Nat /\ (file \in names => opened # 0)
  BY DEF FilesInv, NamesOpened
<1> HIDE DEF opened
<1>6. /\ content'[file].opened = opened + 1 /\ content'[file].bytes = <<>>
      /\ \A f \in DOMAIN content : f # file => content'[f] = content[f]
      /\ DOMAIN content' = DOMAIN content \cup {file}
  BY <1>1
<1> HIDE DEF file
<1>7. \A d \in Callers : Has(d)' => Has(d) \/ d = c
  BY <1>4 DEF Has
<1>8. \A d \in Callers : Has(d) => tmp[d].name \in names /\ tmp[d].name \in DOMAIN content
  BY DEF FilesInv, NamesOpened
<1>9. NamesOpened'
  BY <1>2, <1>4, <1>5, <1>6, <1>7, <1>8 DEF FilesInv, NamesOpened, file
<1>10. SharersOpened'
  <2> SUFFICES ASSUME NEW d \in Callers, NEW e \in Callers, d # e, Has(d)', Has(e)',
                      tmp[d].name = tmp[e].name
               PROVE  content'[tmp[d].name].opened # 1
    BY <1>4 DEF SharersOpened
  <2>1. CASE tmp[d].name = file
    <3>1. file \in names
      BY <1>7, <1>8, <2>1
    <3> QED
      BY <1>5, <1>6, <2>1, <3>1
  <2>2. CASE tmp[d].name # file
    <3>1. Has(d) /\ Has(e)
      BY <1>7, <2>2 DEF file
    <3> QED
      BY <1>6, <1>8, <2>2, <3>1 DEF FilesInv, SharersOpened
  <2> QED
    BY <2>1, <2>2
<1>11. OwnFile'
  BY <1>2, <1>4 DEF FilesInv, OwnFile, In, Has
<1>12. FilesBegun'
  <2> SUFFICES ASSUME NEW d \in Callers, Has(d)', Process[d] \in alive,
                      content'[tmp[d].name].opened = 1
               PROVE  Begun(content'[tmp[d].name].bytes, transfer[d])
    BY <1>2, <1>4 DEF FilesBegun, Begun
  <2>1. CASE d = c
    <3>1. transfer[c].op # "get"
      BY <1>4, <2>1 DEF FilesInv, OwnFile, In
    <3> QED
      BY <1>6, <2>1, <3>1 DEF Begun, file
  <2>2. CASE d # c
    <3>1. Has(d) /\ tmp[d].name \in names /\ tmp[d].name \in DOMAIN content
      BY <1>7, <1>8, <2>2
    <3>2. tmp[d].name # file
      BY <1>5, <1>6, <3>1
    <3> QED
      BY <1>6, <3>1, <3>2 DEF FilesInv, FilesBegun
  <2> QED
    BY <2>1, <2>2
<1> QED
  BY <1>9, <1>10, <1>11, <1>12 DEF FilesInv

\* ... and as long as the numbers of its ends say.
LEMMA PieceLength ==
  ASSUME NEW s \in Seq(Nat), NEW n \in Nat, NEW m \in Nat, n < m, m <= Len(s)
  PROVE  Len(SubSeq(s, n + 1, m)) = m - n
<1>1. SubSeq(s, n + 1, m) \in Seq(Nat) /\ n + 1 \in 1 .. Len(s) /\ m \in 1 .. Len(s)
  OBVIOUS
<1> QED
  BY <1>1

LEMMA FilesWritten ==
  ASSUME DataInv, FilesInv, NEW c \in Callers, GetPiece(c), UNCHANGED tmpVars PROVE FilesInv'
<1> DEFINE t    == transfer[c]
           file == tmp[c].name
           upto == Least(t.got + BUFFER, Len(t.from))
           new  == Written(content[file].bytes, t.got, SubSeq(t.from, t.got + 1, upto))
<1>1. In(c, "get") /\ t.op = "get" /\ t.got < Len(t.from)
  BY DEF GetPiece, In
<1>2. GetRequest(t)
  BY <1>1 DEF DataInv, StoreInv, RequestsTyped, NoTransfer, PutRequest
<1>3. t.from \in Seq(Nat) /\ t.got \in Nat /\ Has(c) /\ t.file = file /\ file \in names /\ file \in DOMAIN content
  BY <1>1, <1>2 DEF GetRequest, FilesInv, OwnFile, NamesOpened
<1>4. upto \in Nat /\ t.got < upto /\ upto <= Len(t.from)
  <2> HIDE DEF t
  <2> QED
    BY <1>1, <1>3, TransferAssumption DEF Least
<1>5. Len(SubSeq(t.from, t.got + 1, upto)) = upto - t.got
  BY <1>3, <1>4, PieceLength
<1>6. content' = [content EXCEPT ![file].bytes = new]
  BY <1>3 DEF GetPiece
<1>7. transfer' = [transfer EXCEPT ![c].got = upto]
  <2>1. transfer' = [transfer EXCEPT ![c].got = t.got + Len(SubSeq(t.from, t.got + 1, upto))]
    BY DEF GetPiece
  <2>2. t.got + (upto - t.got) = upto
    <3> HIDE DEF t, upto
    <3> QED
      BY <1>3, <1>4
  <2> QED
    BY <1>5, <2>1, <2>2
<1>8. content[file].opened = 1 => content[file].bytes = Start(t.from, t.got)
  BY <1>1, <1>3 DEF FilesInv, FilesBegun, Begun, In
<1>9. content[file].opened = 1 => new = Start(t.from, upto)
  <2> HIDE DEF t, upto, file
  <2> QED
    BY <1>1, <1>3, <1>4, <1>8, StartGrows DEF new
<1> HIDE DEF upto, new
<1>10. content[file] = [bytes |-> content[file].bytes, opened |-> content[file].opened]
  BY <1>3 DEF DataInv, StoreInv, FilesTyped
<1>11. /\ content'[file].bytes = new /\ content'[file].opened = content[file].opened
       /\ DOMAIN content' = DOMAIN content
       /\ \A f \in DOMAIN content : f # file => content'[f] = content[f]
  BY <1>3, <1>6, <1>10
<1>12. transfer = [d \in Callers |-> transfer[d]]
       /\ t = [op |-> "get", file |-> t.file, got |-> t.got, from |-> t.from]
  BY <1>2 DEF DataInv, StoreInv, RequestsTyped, GetRequest
<1>13. transfer'[c] = [op |-> "get", file |-> t.file, got |-> upto, from |-> t.from]
       /\ \A d \in Callers : d # c => transfer'[d] = transfer[d]
  BY <1>7, <1>12
<1>14. names' = names /\ tmp' = tmp /\ alive' = alive
  BY DEF tmpVars
<1>15. \A d \in Callers : Has(d) => tmp[d].name \in DOMAIN content
  BY DEF FilesInv, NamesOpened
<1> HIDE DEF file
<1>16. \A n \in DOMAIN content : content'[n].opened = content[n].opened
  BY <1>11
<1>17. NamesOpened'
  BY <1>11, <1>14, <1>16 DEF FilesInv, NamesOpened, Has
<1>18. SharersOpened'
  BY <1>14, <1>15, <1>16 DEF FilesInv, SharersOpened, Has
<1>19. OwnFile'
  BY <1>1, <1>13, <1>14 DEF FilesInv, OwnFile, In, Has
<1>20. FilesBegun'
  <2> SUFFICES ASSUME NEW d \in Callers, Has(d), Process[d] \in alive,
                      content'[tmp[d].name].opened = 1
               PROVE  Begun(content'[tmp[d].name].bytes, transfer'[d])
    BY <1>14 DEF FilesBegun, Begun, Has
  <2>1. content[tmp[d].name].opened = 1
    BY <1>15, <1>16
  <2>2. CASE d = c
    BY <1>9, <1>11, <1>13, <2>1, <2>2 DEF Begun, file
  <2>3. CASE d # c
    <3>1. tmp[d].name # file
      BY <1>3, <2>1, <2>3 DEF FilesInv, SharersOpened, file
    <3> QED
      BY <1>11, <1>13, <1>15, <2>1, <2>3, <3>1 DEF FilesInv, FilesBegun
  <2> QED
    BY <2>2, <2>3
<1> QED
  BY <1>17, <1>18, <1>19, <1>20 DEF FilesInv

LEMMA FilesInvInit == DataInit => FilesInv
BY DEF DataInit, TmpInit, FilesInv, NamesOpened, SharersOpened, OwnFile, FilesBegun, Has, In, NoFile, NoTransfer

LEMMA FilesInvNext == ASSUME DataInv, FilesInv, [DataNext]_dataVars PROVE FilesInv'
<1> DEFINE Same(d) == transfer'[d] = transfer[d] /\ (Has(d) => Has(d)')
           Other(d) == transfer'[d].op # "get" /\ (Has(d)' => transfer[d].op # "get")
           Begins(d) == /\ Has(d)' /\ transfer[d].op # "get" /\ transfer'[d].file = tmp[d].name
                        /\ transfer'[d].got = 0 /\ transfer'[d].from \in Seq(Nat)
           Holds == \A d \in Callers : Has(d)' => Has(d) /\ tmp'[d].name = tmp[d].name
<1>1. CASE UNCHANGED <<names, alive, tmp>> /\ UNCHANGED transferVars
  BY <1>1, FilesStay DEF transferVars, Has
<1>2. CASE UNCHANGED dataVars \/ (Tick /\ UNCHANGED transferVars)
  BY <1>1, <1>2 DEF dataVars, transferVars, Tick
<1>3. ASSUME NEW c \in Callers, DataStep(c) PROVE FilesInv'
  <2>1. tmp = [d \in Callers |-> tmp[d]] /\ transfer = [d \in Callers |-> transfer[d]]
    BY DEF DataInv, ClockInv, TmpTyped, StoreInv, RequestsTyped
  <2>2. ASSUME GetTmpFile(c) \/ TmpStep(c) \/ Leave(c) \/ AssertFails(c) PROVE Holds
    BY <2>2, HasStays DEF DataInv
  \* Steps of one caller.
  <2>3. ASSUME content' = content, names' = names, alive' \subseteq alive, Holds,
               \A d \in Callers : d # c => transfer'[d] = transfer[d] /\ tmp'[d] = tmp[d],
               Same(c) \/ Other(c) \/ Begins(c)
        PROVE  FilesInv'
    <3>1. \A d \in Callers : Same(d) \/ Other(d) \/ Begins(d)
      BY <2>3 DEF Has
    <3> QED
      BY <2>3, <3>1, FilesStay
  <2>4. ASSUME NEW state, transfer' = [transfer EXCEPT ![c] = state]
        PROVE  transfer'[c] = state /\ \A d \in Callers : d # c => transfer'[d] = transfer[d]
    BY <2>1, <2>4
  <2>5. CASE (GetTmpFile(c) \/ TmpStep(c)) /\ UNCHANGED transferVars
    <3>1. ~Has(c)
      BY <2>5 DEF GetTmpFile, TmpStep, ReadClock, Seed, Draw, Probe, AtTmp, Has
    <3>2. names' = names /\ alive' = alive /\ \A d \in Callers : d # c => tmp'[d] = tmp[d]
      BY <2>1, <2>5 DEF GetTmpFile, TmpStep, ReadClock, Seed, Draw, Probe
    <3> QED
      BY <2>2, <2>3, <2>5, <3>1, <3>2 DEF transferVars
  <2>6. ASSUME UNCHANGED tmpVars
        PROVE  /\ names' = names /\ alive' = alive /\ Holds /\ (Has(c)' <=> Has(c))
               /\ \A d \in Callers : tmp'[d] = tmp[d]
    BY <2>6 DEF tmpVars, Has
  <2>7. ASSUME NEW key, Has(c), ~In(c, "get"), Get(c, key), UNCHANGED tmpVars
        PROVE  FilesInv'
    <3> DEFINE from == IF key \in DOMAIN objects THEN objects[key].bytes ELSE <<>>
    <3>1. from \in Seq(Nat)
      BY DEF DataInv, StoreInv, ObjectsWhole, Whole
    <3>2. transfer' = [transfer EXCEPT ![c] = [op |-> "get", file |-> tmp[c].name, got |-> 0, from |-> from]]
      BY <2>7 DEF Get
    <3> HIDE DEF from
    <3>3. /\ transfer'[c] = [op |-> "get", file |-> tmp[c].name, got |-> 0, from |-> from]
          /\ \A d \in Callers : d # c => transfer'[d] = transfer[d]
      BY <2>4, <3>2
    <3>4. Process[c] \in alive => Begins(c)
      BY <2>6, <2>7, <3>1, <3>3 DEF In
    <3>5. \A d \in Callers : Process[d] \in alive' => Same(d) \/ Begins(d)
      BY <2>6, <2>7, <3>3, <3>4 DEF Has
    <3> QED
      BY <2>6, <2>7, <3>5, FilesStay DEF Get
  \* A request that is no download is begun, goes on or ends.
  <2>8. ASSUME NEW state, state.op # "get", transfer[c].op # "get",
               transfer' = [transfer EXCEPT ![c] = state], content' = content, UNCHANGED tmpVars
        PROVE  FilesInv'
    BY <2>3, <2>4, <2>6, <2>8
  <2>9. ASSUME NEW key, NEW file, transfer[c].op # "get", Put(c, key, file), UNCHANGED tmpVars PROVE FilesInv'
    <3> DEFINE state == [op |-> "put", key |-> key, file |-> file, from |-> content[file].bytes,
                         size |-> Len(content[file].bytes), bytes |-> <<>>]
    <3>1. state.op # "get"
      OBVIOUS
    <3>2. transfer' = [transfer EXCEPT ![c] = state] /\ content' = content
      BY <2>9 DEF Put
    <3> HIDE DEF state
    <3> QED
      BY <2>8, <2>9, <3>1, <3>2
  <2>10. ASSUME PutPiece(c), UNCHANGED tmpVars PROVE FilesInv'
    <3> DEFINE t    == transfer[c]
               sent == t.bytes \o Start(content[t.file].bytes, Least(BUFFER, t.size - Len(t.bytes)))
    <3>1. t.op = "put" /\ transfer' = [transfer EXCEPT ![c].bytes = sent] /\ content' = content
      BY <2>10 DEF PutPiece, In
    <3>2. PutRequest(t)
      BY <3>1 DEF DataInv, StoreInv, RequestsTyped, NoTransfer, GetRequest
    <3> HIDE DEF sent
    <3> DEFINE state == [t EXCEPT !.bytes = sent]
    <3>3. state.op = "put" /\ transfer' = [transfer EXCEPT ![c] = state]
      BY <3>1, <3>2 DEF PutRequest
    <3> HIDE DEF state
    <3> QED
      BY <2>8, <2>10, <3>1, <3>3
  <2>11. ASSUME PutDone(c) \/ PutFails(c)
         PROVE  /\ transfer[c].op # "get" /\ NoTransfer.op # "get" /\ content' = content
                /\ transfer' = [transfer EXCEPT ![c] = NoTransfer]
    BY <2>11 DEF PutDone, PutFails, In, NoTransfer
  <2>12. CASE LookupStep(c)
    <3>1. CASE \E key \in Keys : Has(c) /\ ~In(c, "get") /\ Get(c, key) /\ UNCHANGED tmpVars
      BY <2>7, <3>1
    <3>2. CASE GetPiece(c) /\ UNCHANGED tmpVars
      BY <3>2, FilesWritten
    <3>3. CASE GetEnds(c) /\ Leave(c)
      <4>1. transfer' = [transfer EXCEPT ![c] = NoTransfer] /\ content' = content /\ NoTransfer.op # "get"
        BY <3>3 DEF GetEnds, NoTransfer
      <4>2. names' = names /\ alive' = alive /\ tmp' = [tmp EXCEPT ![c] = NoFile] /\ NoFile.step # "have"
        BY <3>3 DEF Leave, NoFile
      <4>3. tmp'[c] = NoFile /\ \A d \in Callers : d # c => tmp'[d] = tmp[d]
        BY <2>1, <4>2
      <4>4. Other(c) /\ \A d \in Callers : d # c => transfer'[d] = transfer[d]
        BY <2>4, <4>1, <4>2, <4>3 DEF Has
      <4> QED
        BY <2>2, <2>3, <3>3, <4>1, <4>2, <4>3, <4>4
    <3> QED
      BY <2>5, <2>12, <3>1, <3>2, <3>3 DEF LookupStep
  <2>13. CASE transfer[c].op # "get" /\ ExportStep(c)
    <3>1. CASE \E key \in Keys : Has(c) /\ ~In(c, "put") /\ Put(c, key, tmp[c].name) /\ UNCHANGED tmpVars
      BY <2>9, <2>13, <3>1
    <3>2. CASE Has(c) /\ PutPiece(c) /\ UNCHANGED tmpVars
      BY <2>10, <3>2
    <3>3. CASE /\ PutDone(c) \/ PutFails(c)
               /\ alive' = alive \ {Process[c]}
               /\ tmp' = [tmp EXCEPT ![c] = NoFile]
               /\ UNCHANGED <<now, rng, outrun, names>>
      <4>1. tmp'[c] = NoFile /\ NoFile.step # "have" /\ \A d \in Callers : d # c => tmp'[d] = tmp[d]
        BY <2>1, <3>3 DEF NoFile
      <4>2. Holds /\ ~Has(c)'
        BY <4>1 DEF Has
      <4>3. Other(c) /\ content' = content /\ \A d \in Callers : d # c => transfer'[d] = transfer[d]
        BY <2>4, <2>11, <3>3, <4>2
      <4> QED
        BY <2>3, <3>3, <4>1, <4>2, <4>3
    <3> QED
      BY <2>5, <2>13, <3>1, <3>2, <3>3 DEF ExportStep
  <2>14. CASE UploadStep(c)
    <3>1. CASE \E key \in Keys, f \in DOMAIN Sources : transfer[c] = NoTransfer /\ Put(c, key, f) /\ UNCHANGED tmpVars
      BY <2>9, <3>1 DEF NoTransfer
    <3>2. CASE PutPiece(c) /\ UNCHANGED tmpVars
      BY <2>10, <3>2
    <3>3. CASE (PutDone(c) \/ PutFails(c)) /\ UNCHANGED tmpVars
      BY <2>8, <2>11, <3>3
    <3> QED
      BY <2>14, <3>1, <3>2, <3>3 DEF UploadStep
  <2>15. CASE Aborts(c)
    <3>1. AssertFails(c) /\ content' = content
          /\ transfer' = [d \in Callers |-> IF Process[d] = Process[c] THEN NoTransfer ELSE transfer[d]]
      BY <2>15 DEF Aborts
    <3>2. names' = names /\ alive' = alive \ {Process[c]}
          /\ tmp' = [d \in Callers |-> IF Process[d] = Process[c] THEN NoFile ELSE tmp[d]]
      BY <3>1 DEF AssertFails
    <3>3. \A d \in Callers : Process[d] \in alive' => transfer'[d] = transfer[d] /\ tmp'[d] = tmp[d]
      BY <3>1, <3>2
    <3>4. \A d \in Callers : Process[d] \in alive' => Same(d)
      BY <3>3 DEF Has
    <3> QED
      BY <2>2, <3>1, <3>2, <3>4, FilesStay
  <2> QED
    BY <1>3, <2>5, <2>12, <2>13, <2>14, <2>15, FilesOpen DEF DataStep
<1> QED
  BY <1>2, <1>3 DEF DataNext

\* A temporary file that was opened once holds the beginning of the object its
\* caller downloads, whatever other threads and processes do and wherever a
\* connection breaks off, provided that the files uploaded are no temporary files.
THEOREM DownloadsFromTheStart ==
  ASSUME DOMAIN Sources \cap TmpName = {} PROVE DataSpec => []DownloadsWhole
<1>1. DataInv /\ FilesInv /\ [DataNext]_dataVars => (DataInv /\ FilesInv)'
  BY DataInvNext, FilesInvNext
<1>2. DataInv /\ FilesInv => DownloadsWhole
  <2> SUFFICES ASSUME FilesInv, NEW c \in Callers, In(c, "get"), content[transfer[c].file].opened = 1
               PROVE  content[transfer[c].file].bytes = Start(transfer[c].from, transfer[c].got)
    BY DEF DownloadsWhole
  <2>1. Has(c) /\ transfer[c].file = tmp[c].name
    BY DEF FilesInv, OwnFile
  <2> QED
    BY <2>1 DEF FilesInv, FilesBegun, Begun, In
<1>3. DataInit => DataInv /\ FilesInv
  BY DataInvInit, FilesInvInit
<1> QED
  BY <1>1, <1>2, <1>3, PTL DEF DataSpec
=============================================================================
