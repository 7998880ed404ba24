------------------------- MODULE FileTransferProofs -------------------------
(***************************************************************************)
(* Proofs about FileTransfer, for any workers, names, bytes and limits:    *)
(* its types, and the safety properties from one inductive invariant.      *)
(***************************************************************************)
EXTENDS FileTransfer, SequenceTheorems, TLAPS

\* A string of a request is a sequence of bytes of one of the allowed lengths.
LEMMA StringsAreSequences ==
    ASSUME NEW lengths \in SUBSET Nat, NEW s \in Strings(lengths)
    PROVE  s \in Seq(Bytes) /\ Len(s) \in lengths
<1>1. PICK n \in lengths : s \in [1 .. n -> Bytes]
  BY DEF Strings
<1>2. n \in Nat
  BY <1>1
<1>3. s \in Seq(Bytes)
  BY <1>1, <1>2
<1>4. Len(s) = n
  BY <1>1, <1>2, <1>3
<1> QED
  BY <1>1, <1>3, <1>4

\* What giving the transfers up does to them and to the temporary files.
LEMMA DropType ==
    ASSUME TypeOK, TemporariesAccounted, NEW w \in Workers, DropTransfers(w)
    PROVE  /\ upload' \in [Workers -> SUBSET UploadType]
           /\ download' \in [Workers -> SUBSET DownloadType]
           /\ parts' \in [Workers -> Nat] /\ leftovers' \subseteq {"refused", "killed"}
<1>1. upload[w] # {} => parts[w] = 1
  BY DEF TemporariesAccounted
<1> DEFINE left == IF upload[w] = {} THEN parts[w] ELSE parts[w] - 1
<1>2. left \in Nat
  BY <1>1 DEF TypeOK
<1>3. parts' = [parts EXCEPT ![w] = left]
  BY DEF DropTransfers, TypeOK, tempVars
<1>4. leftovers' \subseteq {"refused", "killed"}
  BY DEF DropTransfers, TypeOK, tempVars
<1> HIDE DEF left
<1> QED
  BY <1>2, <1>3, <1>4 DEF DropTransfers, TypeOK

LEMMA HandlingType ==
    ASSUME TypeOK, NEW w \in Workers, Handling(w)
    PROVE  /\ live' = live /\ live[w] = "running"
           /\ stop' \in [Workers -> BOOLEAN]
           /\ replying' \in [Workers -> BOOLEAN]
           /\ queued' \in [Workers -> 0 .. QueueSlots]
  BY SizesAssumption DEF Handling, Taking, TypeOK

\* A chunk that fits extends the upload to another well-typed one.
LEMMA ChunkExtends ==
    ASSUME NEW u \in UploadType, NEW data \in Strings(1 .. Chunk), ChunkFits(u, data)
    PROVE  /\ [u EXCEPT !.data = @ \o data] \in UploadType
           /\ Len(u.data \o data) = Len(u.data) + Len(data)
           /\ Len(data) \in Nat
<1>1. data \in Seq(Bytes) /\ Len(data) \in Nat
  BY StringsAreSequences, SizesAssumption
<1>2. u.data \in Seq(Bytes)
  BY DEF UploadType
<1>3. u.data \o data \in Seq(Bytes) /\ Len(u.data \o data) = Len(u.data) + Len(data)
  BY <1>1, <1>2
<1> QED
  BY <1>1, <1>2, <1>3 DEF UploadType

\* What the next reply of a download carries stays within the file.
LEMMA PortionBounded ==
    ASSUME NEW d \in DownloadType, d.offset <= d.size
    PROVE  Portion(d) \in Nat /\ d.offset + Portion(d) <= d.size
  BY SizesAssumption DEF Portion, DownloadType
-----------------------------------------------------------------------------
FileInv == TypeOK /\ TransferInv

\* Giving the transfers up, whatever the rest of the step, keeps what the
\* invariant says of transfers, budget and temporary files.
LEMMA DropKeeps ==
    ASSUME FileInv, NEW w \in Workers, DropTransfers(w), UNCHANGED <<bytes, moved>>
    PROVE  /\ OneTransfer' /\ Charged'
           /\ upload'[w] = {} /\ parts'[w] = 0
           /\ "killed" \in leftovers' => "killed" \in leftovers
           /\ \A v \in Workers \ {w} : parts'[v] = parts[v] /\ upload'[v] = upload[v]
<1> USE DEF FileInv, TransferInv
<1>1. /\ upload' = [upload EXCEPT ![w] = {}] /\ download' = [download EXCEPT ![w] = {}]
      /\ upload \in [Workers -> SUBSET UploadType] /\ download \in [Workers -> SUBSET DownloadType]
  BY DEF DropTransfers, TypeOK
<1>2. OneTransfer'
  BY <1>1 DEF OneTransfer, AtMostOne
<1>3. Charged'
  BY <1>1 DEF Charged
<1>4. parts'[w] = 0 /\ ("killed" \in leftovers' => "killed" \in leftovers)
  BY DEF DropTransfers, TemporariesAccounted, TypeOK, tempVars
<1>5. \A v \in Workers \ {w} : parts'[v] = parts[v]
  BY DEF DropTransfers, TypeOK, tempVars
<1> QED
  BY <1>1, <1>2, <1>3, <1>4, <1>5

LEMMA InitFileInv == Init => FileInv
  BY SizesAssumption
  DEF Init, FileInv, TypeOK, TransferInv, OneTransfer, AtMostOne, Charged, PublishedVerified,
      TemporariesAccounted, Quota

LEMMA UploadKeeps == ASSUME FileInv, NEW w \in Workers, HandleUpload(w) PROVE FileInv'
<1> USE SizesAssumption DEF FileInv, TransferInv
<1>1. PICK n \in Names, size \in 0 .. Max :
        /\ Fits(w, size)
        /\ upload' = [upload EXCEPT ![w] = {[name |-> n, size |-> size, data |-> <<>>]}]
        /\ bytes' = [bytes EXCEPT ![w] = @ + size]
  BY DEF HandleUpload
<1> DEFINE u == [name |-> n, size |-> size, data |-> <<>>]
<1>2. u \in UploadType /\ u.size = size /\ Len(u.data) = 0 /\ size \in Nat
  BY DEF UploadType
<1>3. /\ Handling(w) /\ NoTransfer(w) /\ UNCHANGED <<download, moved, leftovers, folder>>
      /\ parts' = [parts EXCEPT ![w] = @ + 1]
  BY DEF HandleUpload
<1>4. upload' = [upload EXCEPT ![w] = {u}]
  BY <1>1
<1> HIDE DEF u
<1>5. TypeOK'
  <2>1. upload' \in [Workers -> SUBSET UploadType]
    BY <1>2, <1>4 DEF TypeOK
  <2>2. bytes' \in [Workers -> Nat] /\ parts' \in [Workers -> Nat]
    BY <1>1, <1>2, <1>3 DEF TypeOK
  <2>3. /\ live' = live /\ stop' \in [Workers -> BOOLEAN]
        /\ replying' \in [Workers -> BOOLEAN] /\ queued' \in [Workers -> 0 .. QueueSlots]
    BY <1>3, HandlingType
  <2> QED
    BY <1>3, <2>1, <2>2, <2>3 DEF TypeOK
<1>6. OneTransfer'
  BY <1>3, <1>4 DEF OneTransfer, AtMostOne, NoTransfer, TypeOK
<1>7. Charged'
  <2>1. ASSUME NEW v \in Workers, v # w
        PROVE  UNCHANGED <<bytes[v], moved[v], upload[v], download[v]>>
    BY <1>1, <1>3, <1>4, <2>1 DEF TypeOK
  <2>2. /\ bytes'[w] = bytes[w] + size /\ moved'[w] = moved[w]
        /\ upload'[w] = {u} /\ download'[w] = {}
    BY <1>1, <1>3, <1>4 DEF TypeOK, NoTransfer
  <2>3. bytes[w] \in Nat /\ moved[w] \in Nat /\ moved[w] <= bytes[w] /\ bytes[w] + size <= Quota
    BY <1>1 DEF TypeOK, Charged, Fits
  <2>4. Quota \in Nat
    BY DEF Quota
  <2> HIDE DEF FileInv, TransferInv
  <2>5. /\ bytes'[w] <= Quota /\ moved'[w] <= bytes'[w]
        /\ Len(u.data) <= u.size /\ Len(u.data) <= moved'[w]
        /\ moved'[w] + u.size <= bytes'[w] + Len(u.data)
    BY <1>2, <2>2, <2>3, <2>4
  <2>6. Charged
    BY DEF FileInv, TransferInv
  <2> QED
    BY <2>1, <2>2, <2>5, <2>6 DEF Charged
<1>8. PublishedVerified'
  BY <1>3 DEF PublishedVerified
<1>9. TemporariesAccounted'
  <2>1. live' = live /\ live[w] = "running"
    BY <1>3, HandlingType
  <2>2. \A v \in Workers \ {w} : parts'[v] = parts[v] /\ upload'[v] = upload[v]
    BY <1>3, <1>4 DEF TypeOK
  <2>3. upload[w] = {} /\ parts[w] = 0
    BY <1>3, <2>1 DEF NoTransfer, TemporariesAccounted
  <2>4. parts'[w] = 1 /\ upload'[w] # {}
    BY <1>3, <1>4, <2>3 DEF TypeOK
  <2> QED
    BY <1>3, <2>1, <2>2, <2>4 DEF TemporariesAccounted
<1> QED
  BY <1>5, <1>6, <1>7, <1>8, <1>9

LEMMA ChunkKeeps == ASSUME FileInv, NEW w \in Workers, HandleChunk(w) PROVE FileInv'
<1> USE DEF FileInv, TransferInv
<1>1. PICK u \in upload[w], data \in Strings(1 .. Chunk) :
        /\ ChunkFits(u, data)
        /\ upload' = [upload EXCEPT ![w] = {[u EXCEPT !.data = @ \o data]}]
        /\ moved' = [moved EXCEPT ![w] = @ + Len(data)]
  BY DEF HandleChunk
<1> DEFINE longer == [u EXCEPT !.data = @ \o data]
<1>2. u \in upload[w] /\ u \in UploadType
  BY DEF TypeOK
<1>3. /\ longer \in UploadType /\ longer.size = u.size /\ u.size \in Nat /\ Len(data) \in Nat
      /\ Len(longer.data) = Len(u.data) + Len(data) /\ Len(u.data) \in Nat
  <2>1. /\ longer \in UploadType /\ Len(data) \in Nat
        /\ Len(u.data \o data) = Len(u.data) + Len(data)
    BY <1>1, <1>2, ChunkExtends
  <2>2. longer.size = u.size /\ longer.data = u.data \o data
    BY <1>2 DEF UploadType
  <2>3. u.size \in Nat /\ Len(u.data) \in Nat
    BY <1>2, SizesAssumption DEF UploadType
  <2> QED
    BY <2>1, <2>2, <2>3
<1>4. upload' = [upload EXCEPT ![w] = {longer}]
  BY <1>1
<1>5. Handling(w) /\ UNCHANGED <<download, bytes, tempVars, folder>>
  BY DEF HandleChunk
<1>6. Len(u.data) + Len(data) <= u.size
  BY <1>1 DEF ChunkFits
<1> HIDE DEF longer
<1>7. TypeOK'
  <2>1. moved' \in [Workers -> Nat]
    BY <1>1, <1>3 DEF TypeOK
  <2> QED
    BY <1>3, <1>4, <1>5, <2>1, HandlingType DEF TypeOK, tempVars
<1>8. OneTransfer'
  <2>1. upload[w] # {}
    BY <1>2
  <2>2. download[w] = {}
    BY <2>1 DEF OneTransfer
  <2>3. \A v \in Workers : upload'[v] = IF v = w THEN {longer} ELSE upload[v]
    BY <1>4 DEF TypeOK
  <2>4. \A v \in Workers : download'[v] = download[v]
    BY <1>5
  <2> QED
    BY <2>2, <2>3, <2>4 DEF OneTransfer, AtMostOne
<1>9. Charged'
  <2> SUFFICES ASSUME NEW v \in Workers
               PROVE  /\ bytes'[v] <= Quota
                      /\ \A x \in upload'[v] :
                            /\ Len(x.data) <= x.size /\ Len(x.data) <= moved'[v]
                            /\ moved'[v] + x.size <= bytes'[v] + Len(x.data)
                      /\ \A d \in download'[v] :
                            d.offset <= d.size /\ moved'[v] + d.size <= bytes'[v] + d.offset
                      /\ moved'[v] <= bytes'[v]
    BY DEF Charged
  <2>1. CASE v # w
    BY <1>1, <1>4, <1>5, <2>1 DEF Charged, TypeOK
  <2>2. CASE v = w
    <3>1. upload'[w] = {longer} /\ moved'[w] = moved[w] + Len(data) /\ download'[w] = {}
      BY <1>1, <1>4, <1>5 DEF TypeOK, OneTransfer
    <3>2. /\ moved[w] + u.size <= bytes[w] + Len(u.data) /\ Len(u.data) <= moved[w]
          /\ bytes[w] \in Nat /\ moved[w] \in Nat /\ bytes[w] <= Quota
      BY <1>1 DEF Charged, TypeOK
    <3> DEFINE has == Len(u.data)
               more == Len(data)
    <3>3. /\ has \in Nat /\ more \in Nat /\ u.size \in Nat /\ has + more <= u.size
          /\ longer.size = u.size /\ Len(longer.data) = has + more
          /\ moved'[w] = moved[w] + more /\ has <= moved[w]
          /\ moved[w] + u.size <= bytes[w] + has
      BY <1>3, <1>6, <3>1, <3>2
    <3> HIDE DEF has, more, FileInv, TransferInv
    <3>4. /\ has + more <= moved[w] + more
          /\ moved[w] + more + u.size <= bytes[w] + (has + more)
          /\ moved[w] + more <= bytes[w]
      BY <3>2, <3>3
    <3>5. bytes'[w] = bytes[w]
      BY <1>5
    <3> QED
      BY <2>2, <3>1, <3>2, <3>3, <3>4, <3>5
  <2> QED
    BY <2>1, <2>2
<1>10. PublishedVerified'
  BY <1>5 DEF PublishedVerified
<1>11. TemporariesAccounted'
  <2>1. live' = live /\ parts' = parts /\ leftovers' = leftovers
    BY <1>5, HandlingType DEF tempVars
  <2>2. \A v \in Workers : upload'[v] = {} <=> upload[v] = {}
    BY <1>2, <1>4 DEF TypeOK
  <2> QED
    BY <2>1, <2>2 DEF TemporariesAccounted
<1> QED
  BY <1>7, <1>8, <1>9, <1>10, <1>11

\* What is published is a well-typed, verified file.
LEMMA PublishesVerified ==
    ASSUME FileInv, NEW w \in Workers, Publishes(w)
    PROVE  folder' \in [Names -> SUBSET File] /\ PublishedVerified'
<1> USE DEF FileInv, TransferInv
<1>1. PICK u \in upload[w], digest \in Strings(0 .. Max) :
        /\ Verified(u, digest)
        /\ folder' = [folder EXCEPT ![u.name] = {[content |-> u.data, digest |-> digest]}]
  BY DEF Publishes
<1> DEFINE f == [content |-> u.data, digest |-> digest]
<1>2. f \in File /\ f.content = f.digest
  BY <1>1 DEF File, Verified
<1>3. folder' = [folder EXCEPT ![u.name] = {f}]
  BY <1>1
<1> HIDE DEF f
<1>4. folder' \in [Names -> SUBSET File]
  BY <1>2, <1>3 DEF TypeOK
<1>5. PublishedVerified'
  BY <1>2, <1>3 DEF PublishedVerified, AtMostOne, TypeOK
<1> QED
  BY <1>4, <1>5

LEMMA FinishKeeps == ASSUME FileInv, NEW w \in Workers, HandleFinish(w) PROVE FileInv'
<1> USE DEF FileInv, TransferInv
<1>1. Handling(w) /\ Publishes(w) /\ DropTransfers(w) /\ UNCHANGED <<bytes, moved>>
  BY DEF HandleFinish
<1>2. TypeOK'
  BY <1>1, PublishesVerified, DropType, HandlingType DEF TypeOK
<1>3. OneTransfer' /\ Charged'
  BY <1>1, DropKeeps
<1>4. TemporariesAccounted'
  BY <1>1, DropKeeps, HandlingType DEF TemporariesAccounted
<1> QED
  BY <1>1, <1>2, <1>3, <1>4, PublishesVerified

\* A kill leaves no transfer, only temporary files of those it had.
LEMMA KillKeeps == ASSUME FileInv, Kill PROVE FileInv'
<1> USE DEF FileInv, TransferInv
<1>1. folder' \in [Names -> SUBSET File] /\ PublishedVerified'
  BY PublishesVerified DEF Kill, TypeOK, PublishedVerified
<1>2. TypeOK'
  BY <1>1, SizesAssumption DEF Kill, TypeOK
<1>3. OneTransfer' /\ Charged'
  BY DEF Kill, OneTransfer, Charged, AtMostOne
<1>4. TemporariesAccounted'
  BY DEF Kill, TemporariesAccounted, TypeOK
<1> QED
  BY <1>1, <1>2, <1>3, <1>4

LEMMA DownloadKeeps == ASSUME FileInv, NEW w \in Workers, HandleDownload(w) PROVE FileInv'
<1> USE SizesAssumption DEF FileInv, TransferInv
<1>1. PICK n \in Names : \E f \in folder[n] :
        /\ Fits(w, Len(f.content))
        /\ download' = [download EXCEPT ![w] = {[size |-> Len(f.content), offset |-> 0]}]
        /\ bytes' = [bytes EXCEPT ![w] = @ + Len(f.content)]
  BY DEF HandleDownload
<1>2. PICK f \in folder[n] :
        /\ Fits(w, Len(f.content))
        /\ download' = [download EXCEPT ![w] = {[size |-> Len(f.content), offset |-> 0]}]
        /\ bytes' = [bytes EXCEPT ![w] = @ + Len(f.content)]
  BY <1>1
<1> DEFINE size == Len(f.content)
           d == [size |-> size, offset |-> 0]
<1>3. f.content \in Strings(0 .. Max)
  BY DEF TypeOK, File
<1>4. size \in 0 .. Max
  BY <1>3, StringsAreSequences
<1>5. d \in DownloadType /\ d.size = size /\ d.offset = 0
  BY <1>4 DEF DownloadType
<1>6. /\ download' = [download EXCEPT ![w] = {d}] /\ bytes' = [bytes EXCEPT ![w] = @ + size]
      /\ Fits(w, size)
  BY <1>2
<1>7. Handling(w) /\ NoTransfer(w) /\ UNCHANGED <<upload, moved, tempVars, folder>>
  BY DEF HandleDownload
<1> HIDE DEF size, d
<1>8. TypeOK'
  BY <1>4, <1>5, <1>6, <1>7, HandlingType DEF TypeOK, tempVars
<1>9. OneTransfer'
  BY <1>6, <1>7 DEF OneTransfer, AtMostOne, NoTransfer, TypeOK
<1>10. Charged'
  BY <1>4, <1>5, <1>6, <1>7 DEF Charged, TypeOK, NoTransfer, Fits, Quota
<1>11. PublishedVerified'
  BY <1>7 DEF PublishedVerified
<1>12. TemporariesAccounted'
  BY <1>7, HandlingType DEF TemporariesAccounted, tempVars
<1> QED
  BY <1>8, <1>9, <1>10, <1>11, <1>12

LEMMA NextKeeps == ASSUME FileInv, NEW w \in Workers, HandleNext(w) PROVE FileInv'
<1> USE DEF FileInv, TransferInv
<1>1. PICK d \in download[w] :
        /\ download' = [download EXCEPT ![w] =
              IF d.offset = d.size THEN {} ELSE {[d EXCEPT !.offset = @ + Portion(d)]}]
        /\ moved' = [moved EXCEPT ![w] = @ + Portion(d)]
  BY DEF HandleNext
<1> DEFINE further == [d EXCEPT !.offset = @ + Portion(d)]
           then == IF d.offset = d.size THEN {} ELSE {further}
<1>2. d \in DownloadType /\ d.offset <= d.size /\ d.size \in Nat /\ d.offset \in Nat /\ Max \in Nat
  BY SizesAssumption DEF TypeOK, Charged, DownloadType
<1>3. Portion(d) \in Nat /\ d.offset + Portion(d) <= d.size
  BY <1>2, PortionBounded
<1>4. /\ further \in DownloadType /\ further.size = d.size
      /\ further.offset = d.offset + Portion(d)
  BY <1>2, <1>3 DEF DownloadType
<1>5. then \subseteq {further} /\ download' = [download EXCEPT ![w] = then]
  BY <1>1
<1>6. Handling(w) /\ UNCHANGED <<upload, bytes, tempVars, folder>>
  BY DEF HandleNext
<1> DEFINE portion == Portion(d)
<1>7. moved' = [moved EXCEPT ![w] = @ + portion]
  BY <1>1
<1> HIDE DEF further, then, portion
<1>8. TypeOK'
  BY <1>3, <1>4, <1>5, <1>6, <1>7, HandlingType DEF TypeOK, portion, tempVars
<1>9. OneTransfer'
  <2>1. download[w] # {}
    BY <1>1
  <2>2. upload[w] = {}
    BY <2>1 DEF OneTransfer
  <2>3. \A v \in Workers : download'[v] = IF v = w THEN then ELSE download[v]
    BY <1>5 DEF TypeOK
  <2>4. \A v \in Workers : upload'[v] = upload[v]
    BY <1>6
  <2> QED
    BY <1>5, <2>2, <2>3, <2>4 DEF OneTransfer, AtMostOne
<1>10. Charged'
  <2> SUFFICES ASSUME NEW v \in Workers
               PROVE  /\ bytes'[v] <= Quota
                      /\ \A x \in upload'[v] :
                            /\ Len(x.data) <= x.size /\ Len(x.data) <= moved'[v]
                            /\ moved'[v] + x.size <= bytes'[v] + Len(x.data)
                      /\ \A x \in download'[v] :
                            x.offset <= x.size /\ moved'[v] + x.size <= bytes'[v] + x.offset
                      /\ moved'[v] <= bytes'[v]
    BY DEF Charged
  <2>1. CASE v # w
    BY <1>5, <1>6, <1>7, <2>1 DEF Charged, TypeOK
  <2>2. CASE v = w
    <3>1. download'[w] \subseteq {further} /\ moved'[w] = moved[w] + portion /\ upload'[w] = {}
      BY <1>1, <1>5, <1>6, <1>7 DEF TypeOK, OneTransfer
    <3>2. /\ moved[w] + d.size <= bytes[w] + d.offset
          /\ bytes[w] \in Nat /\ moved[w] \in Nat /\ bytes[w] <= Quota
      BY <1>1 DEF Charged, TypeOK
    <3> QED
      BY <1>2, <1>3, <1>4, <1>6, <2>2, <3>1, <3>2 DEF portion
  <2> QED
    BY <2>1, <2>2
<1>11. PublishedVerified'
  BY <1>6 DEF PublishedVerified
<1>12. TemporariesAccounted'
  BY <1>6, HandlingType DEF TemporariesAccounted, tempVars
<1> QED
  BY <1>8, <1>9, <1>10, <1>11, <1>12

LEMMA CancelKeeps == ASSUME FileInv, NEW w \in Workers, HandleCancelOrError(w) PROVE FileInv'
<1> USE DEF FileInv, TransferInv
<1>1. Handling(w) /\ DropTransfers(w) /\ UNCHANGED <<bytes, moved, folder>>
  BY DEF HandleCancelOrError
<1>2. TypeOK'
  BY <1>1, DropType, HandlingType DEF TypeOK
<1>3. OneTransfer' /\ Charged' /\ TemporariesAccounted'
  BY <1>1, DropKeeps, HandlingType DEF TemporariesAccounted
<1> QED
  BY <1>1, <1>2, <1>3 DEF PublishedVerified

\* A worker that leaves its loop, stopped or unable to reply.
LEMMA EndKeeps ==
    ASSUME FileInv, NEW w \in Workers, live[w] = "running", End(w)
    PROVE  FileInv'
<1> USE DEF FileInv, TransferInv
<1>1. DropTransfers(w) /\ UNCHANGED <<bytes, moved, folder>>
  BY DEF End
<1>2. TypeOK'
  BY <1>1, DropType, SizesAssumption DEF TypeOK, End
<1>3. \A v \in Workers \ {w} : live'[v] = live[v]
  BY DEF End, TypeOK
<1>4. OneTransfer' /\ Charged' /\ TemporariesAccounted'
  BY <1>1, <1>3, DropKeeps DEF TemporariesAccounted
<1> QED
  BY <1>1, <1>2, <1>4 DEF PublishedVerified

\* Steps that leave the transfers and the folder alone and end no worker that
\* still has a temporary file.
LEMMA QuietKeeps ==
    ASSUME FileInv, TypeOK', UNCHANGED <<transferVars, folder>>,
           \A w \in Workers : live'[w] = live[w] \/ live[w] = "idle"
    PROVE  FileInv'
  BY DEF FileInv, TransferInv, transferVars, tempVars, OneTransfer, Charged, PublishedVerified,
     TemporariesAccounted

LEMMA WorkerKeeps == ASSUME FileInv, NEW w \in Workers, Worker(w) PROVE FileInv'
<1>1. CASE Handle(w) /\ ~HandleList(w)
  BY <1>1, UploadKeeps, ChunkKeeps, FinishKeeps, DownloadKeeps, NextKeeps, CancelKeeps DEF Handle
<1>2. CASE HandleList(w)
  <2>1. TypeOK'
    BY <1>2, HandlingType DEF HandleList, FileInv, TypeOK, transferVars, tempVars
  <2> QED
    BY <1>2, <2>1, QuietKeeps DEF HandleList, Handling
<1>3. CASE Start(w)
  <2>1. TypeOK'
    BY <1>3 DEF Start, FileInv, TypeOK, transferVars, tempVars
  <2>2. \A v \in Workers : live'[v] = live[v] \/ live[v] = "idle"
    BY <1>3 DEF Start, FileInv, TypeOK
  <2> QED
    BY <1>3, <2>1, <2>2, QuietKeeps DEF Start
<1>4. CASE Reply(w)
  <2>1. TypeOK'
    BY <1>4 DEF Reply, FileInv, TypeOK, transferVars, tempVars
  <2> QED
    BY <1>4, <2>1, QuietKeeps DEF Reply
<1>5. CASE ReplyFails(w) \/ SeesStop(w)
  BY <1>5, EndKeeps DEF ReplyFails, SeesStop
<1> QED
  BY <1>1, <1>2, <1>3, <1>4, <1>5 DEF Worker

LEMMA BrowserKeeps == ASSUME FileInv, NEW w \in Workers, Browser(w) PROVE FileInv'
<1>1. TypeOK'
  <2>1. CASE Arrive(w)
    <3>1. queued[w] \in 0 .. QueueSlots /\ QueueSlots \in Nat
      BY SizesAssumption DEF FileInv, TypeOK
    <3>2. queued' \in [Workers -> 0 .. QueueSlots]
      <4>1. CASE queued[w] < QueueSlots
        <5>1. queued[w] + 1 \in 0 .. QueueSlots
          BY <3>1, <4>1
        <5> DEFINE more == queued[w] + 1
        <5>2. queued' = [queued EXCEPT ![w] = more]
          BY <2>1, <4>1 DEF Arrive, Room
        <5> HIDE DEF more
        <5> QED
          BY <5>1, <5>2 DEF FileInv, TypeOK, more
      <4>2. CASE ~(queued[w] < QueueSlots)
        BY <2>1, <4>2 DEF Arrive, Room, FileInv, TypeOK
      <4> QED
        BY <4>1, <4>2
    <3>3. stop' \in [Workers -> BOOLEAN]
      BY <2>1 DEF Arrive, FileInv, TypeOK
    <3> QED
      BY <2>1, <3>2, <3>3 DEF Arrive, FileInv, TypeOK, transferVars, tempVars
  <2>2. CASE Stop(w)
    BY <2>2 DEF Stop, FileInv, TypeOK, transferVars, tempVars
  <2> QED
    BY <2>1, <2>2 DEF Browser
<1> QED
  BY <1>1, QuietKeeps DEF Browser, Arrive, Stop

LEMMA LocalKeeps == ASSUME FileInv, Local PROVE FileInv'
<1> USE DEF FileInv, TransferInv
<1>1. PICK n \in Names : LocalCreates(n) \/ LocalRemoves(n)
  BY DEF Local
<1>2. \E files \in SUBSET File :
        /\ folder' = [folder EXCEPT ![n] = files]
        /\ AtMostOne(files) /\ \A f \in files : f.content = f.digest
  <2>1. CASE LocalCreates(n)
    <3>1. PICK content \in Strings(0 .. Max) :
            folder' = [folder EXCEPT ![n] = {[content |-> content, digest |-> content]}]
      BY <2>1 DEF LocalCreates
    <3>2. [content |-> content, digest |-> content] \in File
      BY DEF File
    <3> DEFINE f == [content |-> content, digest |-> content]
    <3>3. f.content = f.digest /\ {f} \in SUBSET File /\ folder' = [folder EXCEPT ![n] = {f}]
      BY <3>1, <3>2
    <3> HIDE DEF f
    <3> QED
      BY <3>3 DEF AtMostOne
  <2>2. CASE LocalRemoves(n)
    <3>1. folder' = [folder EXCEPT ![n] = {}] /\ {} \in SUBSET File
      BY <2>2 DEF LocalRemoves
    <3> QED
      BY <3>1 DEF AtMostOne
  <2> QED
    BY <1>1, <2>1, <2>2
<1>3. UNCHANGED <<workerVars, transferVars>>
  BY <1>1 DEF LocalCreates, LocalRemoves
<1>4. TypeOK'
  BY <1>2, <1>3 DEF TypeOK, workerVars, transferVars, tempVars
<1>5. PublishedVerified'
  BY <1>2 DEF PublishedVerified, TypeOK
<1>6. OneTransfer' /\ Charged' /\ TemporariesAccounted'
  BY <1>3 DEF workerVars, transferVars, tempVars, OneTransfer, Charged, TemporariesAccounted
<1> QED
  BY <1>4, <1>5, <1>6

LEMMA StutterKeeps == ASSUME FileInv, UNCHANGED vars PROVE FileInv'
<1>1. TypeOK'
  BY DEF FileInv, TypeOK, vars, workerVars, transferVars, tempVars
<1> QED
  BY <1>1, QuietKeeps DEF vars, workerVars
-----------------------------------------------------------------------------
\* The types and the invariant hold in every reachable state: one transfer,
\* charged for what it may still move, verified files, and temporary files that
\* are accounted for, though a removal may be refused.
THEOREM FileInvariant == Spec => [](TypeOK /\ TransferInv)
<1>1. FileInv /\ [Next]_vars => FileInv'
  BY WorkerKeeps, BrowserKeeps, LocalKeeps, KillKeeps, StutterKeeps DEF Next
<1>2. FileInv => TypeOK /\ TransferInv
  BY DEF FileInv
<1> QED
  BY InitFileInv, <1>1, <1>2, PTL DEF Spec

\* A session never has an upload and a download at once, nor two of either.
THEOREM OneTransferAtATime == Spec => []OneTransfer
<1>1. TransferInv => OneTransfer
  BY DEF TransferInv
<1> QED
  BY FileInvariant, <1>1, PTL

\* No sequence of transfers, cancelled or refused halfway, moves more than the
\* budget of the session.
THEOREM BudgetKept == Spec => []WithinLimits
<1>1. TransferInv => WithinLimits
  BY DEF TransferInv, Charged, WithinBudget, WithinLimits
<1> QED
  BY FileInvariant, <1>1, PTL

\* Whatever is published under a name is what its digest says.
THEOREM PublishedIsVerified == Spec => []PublishedVerified
<1>1. TransferInv => PublishedVerified
  BY DEF TransferInv
<1> QED
  BY FileInvariant, <1>1, PTL

\* A temporary file is that of an upload in progress, or its removal was
\* refused, or the process was killed in the middle of the upload.
THEOREM TemporaryFilesAccounted == Spec => []TemporariesAccounted
<1>1. TransferInv => TemporariesAccounted
  BY DEF TransferInv
<1> QED
  BY FileInvariant, <1>1, PTL

\* No step of a worker changes a file that is already there.
THEOREM PublishingNeverOverwrites == Spec => NeverOverwrites
<1>1. ASSUME TypeOK, [Next]_vars, NEW n \in Names, folder[n] # {}
      PROVE  folder'[n] \in {folder[n], {}}
  <2>1. CASE Local
    <3>1. PICK m \in Names : LocalCreates(m) \/ LocalRemoves(m)
      BY <2>1 DEF Local
    <3>2. CASE LocalCreates(m)
      BY <1>1, <3>2 DEF LocalCreates, TypeOK
    <3>3. CASE LocalRemoves(m)
      BY <1>1, <3>3 DEF LocalRemoves, TypeOK
    <3> QED
      BY <3>1, <3>2, <3>3
  <2>2. ASSUME NEW w \in Workers, Publishes(w)
        PROVE  folder'[n] = folder[n]
    <3>1. PICK u \in upload[w], digest \in Strings(0 .. Max) :
            /\ Linkable(u.name)
            /\ folder' = [folder EXCEPT ![u.name] = {[content |-> u.data, digest |-> digest]}]
      BY <2>2 DEF Publishes
    <3>2. u.name # n
      BY <1>1, <3>1 DEF Linkable
    <3> QED
      BY <1>1, <3>1, <3>2 DEF TypeOK
  <2>3. ASSUME NEW w \in Workers, Worker(w) \/ Browser(w), ~HandleFinish(w)
        PROVE  UNCHANGED folder
    BY <2>3 DEF Worker, Browser, Handle, HandleUpload, HandleChunk, HandleDownload, HandleNext,
       HandleList, HandleCancelOrError, Start, Reply, ReplyFails, SeesStop, End, Arrive, Stop
  <2>4. CASE Kill
    BY <2>2, <2>4 DEF Kill
  <2>5. CASE UNCHANGED vars
    BY <2>5 DEF vars
  <2> QED
    BY <1>1, <2>1, <2>2, <2>3, <2>4, <2>5 DEF Next, HandleFinish
<1>2. TypeOK /\ [Next]_vars =>
        [\A n \in Names : folder[n] # {} => folder'[n] \in {folder[n], {}}]_vars
  BY <1>1
<1> QED
  BY FileInvariant, <1>2, PTL DEF Spec, NeverOverwrites
-----------------------------------------------------------------------------
(* The folder's promise.                                                   *)

\* Giving transfers up takes back the announcement and moves nothing.
LEMMA DropVoids ==
    ASSUME TypeOK, NEW w \in Workers, DropTransfers(w)
    PROVE  Folder!Void({w})
  BY DEF Wanted, DropTransfers, TypeOK, Folder!Void

LEMMA DropIsGiveUp ==
    ASSUME TypeOK, NEW w \in Workers, DropTransfers(w), UNCHANGED <<bytes, moved, folder>>
    PROVE  Folder!GiveUp
<1>1. Folder!Void({w}) /\ {w} \in SUBSET Workers
  BY DropVoids
<1> QED
  BY <1>1 DEF Folder!GiveUp

\* An upload that begins announces its file and charges its size.
LEMMA UploadAnnounces ==
    ASSUME FileInv, NEW w \in Workers, HandleUpload(w)
    PROVE  Folder!Announce(w)
<1>1. PICK n \in Names, size \in 0 .. Max :
        /\ Fits(w, size) /\ folder[n] = {}
        /\ upload' = [upload EXCEPT ![w] = {[name |-> n, size |-> size, data |-> <<>>]}]
        /\ bytes' = [bytes EXCEPT ![w] = @ + size]
  BY DEF HandleUpload
<1>2. upload[w] = {} /\ UNCHANGED <<folder, moved>> /\ upload \in [Workers -> SUBSET UploadType]
  BY DEF HandleUpload, NoTransfer, FileInv, TypeOK
<1>3. Wanted[w] = {}
  BY <1>2 DEF Wanted
<1> DEFINE u == [name |-> n, size |-> size, data |-> <<>>]
<1>4. upload' = [upload EXCEPT ![w] = {u}] /\ u.name = n /\ u.size = size
  BY <1>1
<1> HIDE DEF u
<1>5. Wanted' = [Wanted EXCEPT ![w] = {[name |-> n, size |-> size]}]
  BY <1>2, <1>4 DEF Wanted
<1>6. Folder!Charge(w, size)
  BY <1>1 DEF Folder!Charge, Fits
<1> QED
  BY <1>1, <1>2, <1>3, <1>5, <1>6 DEF Folder!Announce

\* Bytes taken or sent are within what is charged.
LEMMA ChunkMoves ==
    ASSUME FileInv, FileInv', NEW w \in Workers, HandleChunk(w)
    PROVE  Folder!Move(w)
<1>1. PICK u \in upload[w], data \in Strings(1 .. Chunk) :
        /\ upload' = [upload EXCEPT ![w] = {[u EXCEPT !.data = @ \o data]}]
        /\ moved' = [moved EXCEPT ![w] = @ + Len(data)]
  BY DEF HandleChunk
<1>2. Len(data) \in 0 .. Chunk
  BY StringsAreSequences, SizesAssumption
<1>3. UNCHANGED <<bytes, folder>>
  BY DEF HandleChunk
<1>4. moved[w] + Len(data) <= bytes[w]
  BY <1>1, <1>3 DEF FileInv, TransferInv, Charged, TypeOK
<1>5. upload \in [Workers -> SUBSET UploadType] /\ upload[w] = {u} /\ u \in UploadType
  BY <1>1 DEF FileInv, TypeOK, TransferInv, OneTransfer, AtMostOne
<1> DEFINE longer == [u EXCEPT !.data = @ \o data]
<1>6. longer.name = u.name /\ longer.size = u.size /\ upload' = [upload EXCEPT ![w] = {longer}]
  BY <1>1, <1>5 DEF UploadType
<1> HIDE DEF longer
<1>7. UNCHANGED Wanted
  BY <1>5, <1>6 DEF Wanted
<1> QED
  BY <1>1, <1>2, <1>3, <1>4, <1>7 DEF Folder!Move

LEMMA NextMoves ==
    ASSUME FileInv, FileInv', NEW w \in Workers, HandleNext(w)
    PROVE  Folder!Move(w)
<1>1. PICK d \in download[w] : moved' = [moved EXCEPT ![w] = @ + Portion(d)]
  BY DEF HandleNext
<1>2. d \in DownloadType /\ d.offset <= d.size
  BY DEF FileInv, TransferInv, Charged, TypeOK
<1>3. Portion(d) \in 0 .. Chunk
  BY <1>2, SizesAssumption DEF Portion, DownloadType
<1>4. UNCHANGED <<upload, bytes, folder>>
  BY DEF HandleNext
<1>5. moved[w] + Portion(d) <= bytes[w]
  BY <1>1, <1>4 DEF FileInv, TransferInv, Charged, TypeOK
<1> QED
  BY <1>1, <1>3, <1>4, <1>5 DEF Folder!Move, Wanted

LEMMA DownloadFetches ==
    ASSUME NEW w \in Workers, HandleDownload(w)
    PROVE  Folder!Fetch(w)
  BY DEF HandleDownload, Folder!Fetch, Folder!Charge, Fits, Wanted

\* What a worker publishes is the announced file: its size has come in.
LEMMA PublishesAnnounced ==
    ASSUME FileInv, NEW w \in Workers, Publishes(w), UNCHANGED <<bytes, moved>>,
           NEW workers \in SUBSET Workers, w \in workers, Folder!Void(workers)
    PROVE  Folder!Publish(w)
<1>1. PICK u \in upload[w], digest \in Strings(0 .. Max) :
        /\ Verified(u, digest) /\ Linkable(u.name)
        /\ folder' = [folder EXCEPT ![u.name] = {[content |-> u.data, digest |-> digest]}]
  BY DEF Publishes
<1> DEFINE r == [name |-> u.name, size |-> u.size]
<1>2. r \in Wanted[w] /\ r.name = u.name /\ r.size = u.size
  BY <1>1 DEF Wanted
<1>3. Len(digest) = u.size /\ u.size <= moved[w]
  BY <1>1 DEF Verified, FileInv, TransferInv, Charged
<1>4. Folder!Put(u.name, digest) /\ folder[u.name] = {}
  BY <1>1 DEF Folder!Put, Verified, Linkable
<1> QED
  BY <1>2, <1>3, <1>4 DEF Folder!Publish

LEMMA KillIsFolder ==
    ASSUME FileInv, Kill
    PROVE  Folder!GiveUp \/ \E w \in Workers : Folder!Publish(w)
<1>1. Folder!Void(Workers)
  BY DEF Kill, Wanted, Folder!Void
<1>2. CASE UNCHANGED folder
  BY <1>1, <1>2 DEF Kill, Folder!GiveUp
<1>3. ASSUME NEW w \in Workers, Publishes(w)
      PROVE  Folder!Publish(w)
  BY <1>1, <1>3, PublishesAnnounced DEF Kill
<1> QED
  BY <1>2, <1>3 DEF Kill

\* Every step of a worker, its browser and the local user is a step of the
\* folder, or none.
LEMMA StepIsFolder == ASSUME FileInv, FileInv', Next PROVE Folder!Next \/ UNCHANGED Folder!shared
<1>1. ASSUME NEW n \in Names, LocalCreates(n) \/ LocalRemoves(n)
      PROVE  Folder!Create(n) \/ Folder!Remove(n)
  BY <1>1 DEF LocalCreates, LocalRemoves, Folder!Create, Folder!Remove, Folder!Put, transferVars, Wanted
<1>2. ASSUME NEW w \in Workers, Handle(w) \/ ReplyFails(w) \/ SeesStop(w)
      PROVE  \/ Folder!Announce(w) \/ Folder!Fetch(w) \/ Folder!Move(w)
             \/ Folder!GiveUp \/ Folder!Publish(w) \/ UNCHANGED Folder!shared
  <2>1. CASE HandleList(w)
    BY <2>1 DEF HandleList, transferVars, Folder!shared, Wanted
  <2>2. CASE HandleCancelOrError(w) \/ ReplyFails(w) \/ SeesStop(w)
    BY <2>2, DropIsGiveUp DEF HandleCancelOrError, ReplyFails, SeesStop, End, FileInv
  <2>3. CASE HandleFinish(w)
    <3>1. Folder!Void({w}) /\ {w} \in SUBSET Workers /\ w \in {w}
      BY <2>3, DropVoids DEF HandleFinish, FileInv
    <3>2. Publishes(w) /\ UNCHANGED <<bytes, moved>>
      BY <2>3 DEF HandleFinish
    <3> QED
      BY <3>1, <3>2, PublishesAnnounced
  <2> QED
    BY <1>2, <2>1, <2>2, <2>3, UploadAnnounces, ChunkMoves, DownloadFetches, NextMoves DEF Handle
<1>3. ASSUME NEW w \in Workers, Start(w) \/ Reply(w) \/ Browser(w)
      PROVE  UNCHANGED Folder!shared
  BY <1>3 DEF Start, Reply, Browser, Arrive, Stop, transferVars, Folder!shared, Wanted
<1> QED
  BY <1>1, <1>2, <1>3, KillIsFolder DEF Next, Local, Worker, Folder!Next

\* The workers of any sessions, with the local user, implement the promise of
\* the shared folder.
THEOREM ImplementsFolder == Spec => FolderSpec
<1>1. Init => Folder!Init
  BY DEF Init, Folder!Init, Wanted
<1>2. FileInv /\ FileInv' /\ [Next]_vars => [Folder!Next]_Folder!shared
  BY StepIsFolder DEF vars, transferVars, Folder!shared, Wanted
<1>3. FileInv <=> TypeOK /\ TransferInv
  BY DEF FileInv
<1> QED
  BY FileInvariant, <1>1, <1>2, <1>3, PTL DEF Spec, FolderSpec, Folder!Spec
=============================================================================
