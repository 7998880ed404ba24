---------------------------- MODULE FileTransfer ----------------------------
(***************************************************************************)
(* The shared folder (src/files.rs): the worker of each desktop session    *)
(* that serves the browser's requests one at a time, the queue in front of *)
(* it, and the folder, which the workers of two sessions -- the old one    *)
(* stopping, the new one starting, before or after the process was killed  *)
(* -- and the device's own user share.                                     *)
(*                                                                         *)
(* The requests a browser sends are not constrained, so the queue is a     *)
(* count and the request is chosen when it is handled.  Any request may be *)
(* refused (a name, an offset, a size, an I/O error); all refusals have    *)
(* the same effect.  A digest stands for the content it is the digest of.  *)
(***************************************************************************)
EXTENDS Naturals, Sequences

CONSTANTS
    Workers,     \* the sessions with a file channel
    Names,       \* the file names
    Bytes,       \* the bytes files are made of
    Max,         \* MAX, the size of the largest file (100 MiB)
    QuotaFiles,  \* the budget of a session, in files of that size (5)
    Chunk,       \* CHUNK, the most bytes of one request (12 KiB)
    QueueSlots   \* the capacity of the request queue (4)

ASSUME SizesAssumption ==
    /\ Max \in Nat /\ QuotaFiles \in Nat
    /\ Chunk \in Nat \ {0} /\ QueueSlots \in Nat

VARIABLES
    live,      \* worker -> "idle", "running", "ended" or "killed"
    stop,      \* worker -> the session's stop flag
    queued,    \* worker -> requests in its queue
    replying,  \* worker -> it is sending a response
    upload,    \* worker -> Session::upload: {} or one upload
    download,  \* worker -> Session::download: {} or one download
    bytes,     \* worker -> Session::bytes, the budget used
    moved,     \* worker -> bytes taken and sent so far
    parts,     \* worker -> the temporary files of its upload
    leftovers, \* how temporary files that no upload has came to stay
    folder     \* name -> the file published under it: {} or one file

workerVars   == <<live, stop, queued, replying>>
tempVars     == <<parts, leftovers>>
transferVars == <<upload, download, bytes, moved, tempVars>>
vars == <<workerVars, transferVars, folder>>

Quota == QuotaFiles * Max

Strings(lengths) == UNION {[1 .. n -> Bytes] : n \in lengths}

\* What is in the file, and the digest that was announced for it.
File == [content : Strings(0 .. Max), digest : Strings(0 .. Max)]

Init ==
    /\ live = [w \in Workers |-> "idle"]
    /\ stop = [w \in Workers |-> FALSE]
    /\ queued = [w \in Workers |-> 0]
    /\ replying = [w \in Workers |-> FALSE]
    /\ upload = [w \in Workers |-> {}] /\ download = [w \in Workers |-> {}]
    /\ bytes = [w \in Workers |-> 0] /\ moved = [w \in Workers |-> 0]
    /\ parts = [w \in Workers |-> 0] /\ leftovers = {}
    /\ folder = [n \in Names |-> {}]
-----------------------------------------------------------------------------
(* The handlers.                                                           *)

Taking(w) == live[w] = "running" /\ ~stop[w] /\ ~replying[w] /\ queued[w] > 0

\* The worker found the session running and took a request; it replies next.
Handling(w) ==
    /\ Taking(w)
    /\ queued' = [queued EXCEPT ![w] = @ - 1]
    /\ replying' = [replying EXCEPT ![w] = TRUE]
    /\ UNCHANGED <<live, stop>>

NoTransfer(w) == upload[w] = {} /\ download[w] = {}

Fits(w, size) == size <= Max /\ bytes[w] + size <= Quota

\* Mutant: a transfer that is given up leaves its temporary file behind.
ForgetTransfers(w) ==
    /\ upload' = [upload EXCEPT ![w] = {}]
    /\ download' = [download EXCEPT ![w] = {}]
    /\ UNCHANGED tempVars

\* Both become None.  Dropping an Upload removes its temporary file, if the
\* operating system does not refuse, which nobody looks at.
DropTransfers(w) ==
    /\ upload' = [upload EXCEPT ![w] = {}]
    /\ download' = [download EXCEPT ![w] = {}]
    /\ IF upload[w] = {}
       THEN UNCHANGED tempVars
       ELSE /\ parts' = [parts EXCEPT ![w] = @ - 1]
            /\ leftovers' \in {leftovers, leftovers \cup {"refused"}}

HandleUpload(w) ==
    /\ Handling(w)
    /\ NoTransfer(w)
    /\ \E n \in Names, size \in 0 .. Max :
          /\ Fits(w, size)
          /\ folder[n] = {}
          /\ upload' = [upload EXCEPT ![w] = {[name |-> n, size |-> size, data |-> <<>>]}]
          /\ bytes' = [bytes EXCEPT ![w] = @ + size]
    /\ parts' = [parts EXCEPT ![w] = @ + 1]
    /\ UNCHANGED <<download, moved, leftovers, folder>>

ChunkFits(u, data) == Len(data) > 0 /\ Len(u.data) + Len(data) <= u.size

\* The offset the browser repeats equals the upload's, or the chunk is refused.
HandleChunk(w) ==
    /\ Handling(w)
    /\ \E u \in upload[w], data \in Strings(1 .. Chunk) :
          /\ ChunkFits(u, data)
          /\ upload' = [upload EXCEPT ![w] = {[u EXCEPT !.data = @ \o data]}]
          /\ moved' = [moved EXCEPT ![w] = @ + Len(data)]
    /\ UNCHANGED <<download, bytes, tempVars, folder>>

\* Mutant: an upload is published before all of it has come.
Unfinished(u, digest) == digest = u.data

Verified(u, digest) == Len(u.data) = u.size /\ digest = u.data

\* hard_link fails on an existing name.
Linkable(n) == folder[n] = {}

Publishes(w) ==
    \E u \in upload[w], digest \in Strings(0 .. Max) :
        /\ Verified(u, digest)
        /\ Linkable(u.name)
        /\ folder' = [folder EXCEPT ![u.name] = {[content |-> u.data, digest |-> digest]}]

HandleFinish(w) ==
    /\ Handling(w)
    /\ Publishes(w)
    /\ DropTransfers(w)
    /\ UNCHANGED <<bytes, moved>>

HandleDownload(w) ==
    /\ Handling(w)
    /\ NoTransfer(w)
    /\ \E n \in Names : \E f \in folder[n] :
          /\ Fits(w, Len(f.content))
          /\ download' = [download EXCEPT ![w] = {[size |-> Len(f.content), offset |-> 0]}]
          /\ bytes' = [bytes EXCEPT ![w] = @ + Len(f.content)]
    /\ UNCHANGED <<upload, moved, tempVars, folder>>

\* The bytes of one reply: a chunk, or what is left.
Portion(d) == IF d.size - d.offset < Chunk THEN d.size - d.offset ELSE Chunk

\* The next chunk; at the end, the digest.
HandleNext(w) ==
    /\ Handling(w)
    /\ \E d \in download[w] :
          /\ download' = [download EXCEPT ![w] =
                IF d.offset = d.size THEN {} ELSE {[d EXCEPT !.offset = @ + Portion(d)]}]
          /\ moved' = [moved EXCEPT ![w] = @ + Portion(d)]
    /\ UNCHANGED <<upload, bytes, tempVars, folder>>

HandleList(w) ==
    /\ Handling(w)
    /\ UNCHANGED <<transferVars, folder>>

\* Mutant: giving a transfer up also gives its budget back.
DropAndRefund(w) ==
    /\ Handling(w)
    /\ DropTransfers(w)
    /\ bytes' = [bytes EXCEPT ![w] = 0]
    /\ UNCHANGED <<moved, folder>>

\* cancel, and every request that fails: "fileRejected".
HandleCancelOrError(w) ==
    /\ Handling(w)
    /\ DropTransfers(w)
    /\ UNCHANGED <<bytes, moved, folder>>
-----------------------------------------------------------------------------
(* The worker and its queue.                                               *)

\* Session::new may refuse the folder.
Start(w) ==
    /\ live[w] = "idle"
    /\ \E now \in {"running", "ended"} : live' = [live EXCEPT ![w] = now]
    /\ UNCHANGED <<stop, queued, replying, transferVars, folder>>

\* Mutant: the queue takes a request too many.
RoomPlusOne(w) == queued[w] <= QueueSlots

Room(w) == queued[w] < QueueSlots

\* on_message: a message that finds the queue full stops the session.
Arrive(w) ==
    /\ live[w] = "running"
    /\ IF Room(w)
       THEN queued' = [queued EXCEPT ![w] = @ + 1] /\ UNCHANGED stop
       ELSE stop' = [stop EXCEPT ![w] = TRUE] /\ UNCHANGED queued
    /\ UNCHANGED <<live, replying, transferVars, folder>>

\* A message that is binary or too long, or the end of the session.
Stop(w) ==
    /\ live[w] = "running"
    /\ stop' = [stop EXCEPT ![w] = TRUE]
    /\ UNCHANGED <<live, queued, replying, transferVars, folder>>

\* Leaving the closure drops the queue, and the Session with its transfers.
End(w) ==
    /\ live' = [live EXCEPT ![w] = "ended"]
    /\ queued' = [queued EXCEPT ![w] = 0]
    /\ replying' = [replying EXCEPT ![w] = FALSE]
    /\ DropTransfers(w)
    /\ UNCHANGED <<stop, bytes, moved, folder>>

Reply(w) ==
    /\ live[w] = "running" /\ replying[w]
    /\ replying' = [replying EXCEPT ![w] = FALSE]
    /\ UNCHANGED <<live, stop, queued, transferVars, folder>>

\* The channel refuses the response, or ten seconds pass.
ReplyFails(w) ==
    /\ live[w] = "running" /\ replying[w]
    /\ End(w)

\* Mutant: the worker does not look at the stop flag.
NeverStopped(w) == FALSE

Stopped(w) == stop[w]

SeesStop(w) ==
    /\ live[w] = "running" /\ ~replying[w]
    /\ Stopped(w)
    /\ End(w)

\* The process is killed, perhaps right after a hard_link: its workers are gone
\* and their temporary files stay.  Idle workers are those of the next process.
Kill ==
    /\ \E w \in Workers : live[w] = "running"
    /\ live' = [w \in Workers |-> IF live[w] = "running" THEN "killed" ELSE live[w]]
    /\ queued' = [w \in Workers |-> 0] /\ replying' = [w \in Workers |-> FALSE]
    /\ upload' = [w \in Workers |-> {}] /\ download' = [w \in Workers |-> {}]
    /\ parts' = [w \in Workers |-> 0]
    /\ leftovers' = leftovers \cup
          IF \A w \in Workers : upload[w] = {} THEN {} ELSE {"killed"}
    /\ UNCHANGED folder \/ \E w \in Workers : Taking(w) /\ Publishes(w)
    /\ UNCHANGED <<stop, bytes, moved>>
-----------------------------------------------------------------------------
(* The device's own user.                                                  *)

LocalCreates(n) ==
    /\ folder[n] = {}
    /\ \E content \in Strings(0 .. Max) :
          folder' = [folder EXCEPT ![n] = {[content |-> content, digest |-> content]}]
    /\ UNCHANGED <<workerVars, transferVars>>

LocalRemoves(n) ==
    /\ folder[n] # {}
    /\ folder' = [folder EXCEPT ![n] = {}]
    /\ UNCHANGED <<workerVars, transferVars>>

Handle(w) ==
    \/ HandleUpload(w) \/ HandleChunk(w) \/ HandleFinish(w)
    \/ HandleDownload(w) \/ HandleNext(w)
    \/ HandleList(w) \/ HandleCancelOrError(w)

Worker(w) ==
    Start(w) \/ Handle(w) \/ Reply(w) \/ ReplyFails(w) \/ SeesStop(w)

Browser(w) == Arrive(w) \/ Stop(w)

Local == \E n \in Names : LocalCreates(n) \/ LocalRemoves(n)

Next == Local \/ Kill \/ \E w \in Workers : Worker(w) \/ Browser(w)

Spec == Init /\ [][Next]_vars

\* A response is sent or times out, and the loop comes back to its test.
Fairness == \A w \in Workers : WF_vars(Reply(w) \/ ReplyFails(w)) /\ WF_vars(SeesStop(w))

FairSpec == Spec /\ Fairness
-----------------------------------------------------------------------------
UploadType   == [name : Names, size : 0 .. Max, data : Seq(Bytes)]
DownloadType == [size : 0 .. Max, offset : 0 .. Max]

TypeOK ==
    /\ live \in [Workers -> {"idle", "running", "ended", "killed"}]
    /\ stop \in [Workers -> BOOLEAN] /\ replying \in [Workers -> BOOLEAN]
    /\ queued \in [Workers -> 0 .. QueueSlots]
    /\ upload \in [Workers -> SUBSET UploadType]
    /\ download \in [Workers -> SUBSET DownloadType]
    /\ bytes \in [Workers -> Nat] /\ moved \in [Workers -> Nat] /\ parts \in [Workers -> Nat]
    /\ leftovers \subseteq {"refused", "killed"}
    /\ folder \in [Names -> SUBSET File]

AtMostOne(S) == \A x, y \in S : x = y

\* docs/remote-capabilities.md: "one transfer at a time".
OneTransfer ==
    \A w \in Workers :
        /\ upload[w] = {} \/ download[w] = {}
        /\ AtMostOne(upload[w]) /\ AtMostOne(download[w])

\* A session never moves more than its budget, however its transfers are
\* cancelled, refused and begun again.
WithinBudget == \A w \in Workers : moved[w] <= bytes[w] /\ bytes[w] <= Quota

\* One transfer at a time, and no sequence of them moves more than the budget.
WithinLimits == OneTransfer /\ WithinBudget

\* A file the agent publishes is whole and is what the browser's digest says;
\* a name holds one file.
PublishedVerified ==
    \A n \in Names : AtMostOne(folder[n]) /\ \A f \in folder[n] : f.content = f.digest

\* Publishing never touches an existing file, though it appeared, from another
\* session or locally, after the upload found its name free.
NeverOverwrites ==
    [][\A n \in Names : folder[n] # {} => folder'[n] \in {folder[n], {}}]_vars

\* "Cancel/disconnect removes partial uploads", with its exceptions: the
\* temporary files are those of the uploads in progress, one of each, and those
\* whose removal, tried as the upload ended, was refused, or that nobody was
\* left to remove after the process was killed in the middle of an upload.
TemporariesAccounted ==
    /\ \A w \in Workers :
          /\ parts[w] = IF upload[w] = {} THEN 0 ELSE 1
          /\ upload[w] # {} => live[w] = "running"
    /\ "killed" \in leftovers => \E w \in Workers : live[w] = "killed"

\* The file each worker has announced.
Wanted == [w \in Workers |-> {[name |-> u.name, size |-> u.size] : u \in upload[w]}]

Folder == INSTANCE SharedFolder WITH
    wanted <- Wanted, used <- bytes, Contents <- Strings(0 .. Max)

\* The workers, each with its queue and its partial files, keep the promise of
\* the folder: what a worker publishes is the file it announced, all of it,
\* verified, received within its budget, and under a name that is still free;
\* so also a process killed at any moment.
FolderSpec == Folder!Spec

\* A stopped session's worker ends, even in the middle of a response.
StoppedEnds == \A w \in Workers : stop[w] ~> live[w] # "running"
-----------------------------------------------------------------------------
(* The invariant the safety properties rest on: what a transfer may still  *)
(* move is already charged.                                                *)

Charged ==
    \A w \in Workers :
        /\ bytes[w] <= Quota
        /\ \A u \in upload[w] :
              /\ Len(u.data) <= u.size /\ Len(u.data) <= moved[w]
              /\ moved[w] + u.size <= bytes[w] + Len(u.data)
        /\ \A d \in download[w] : d.offset <= d.size /\ moved[w] + d.size <= bytes[w] + d.offset
        /\ moved[w] <= bytes[w]

TransferInv == OneTransfer /\ Charged /\ PublishedVerified /\ TemporariesAccounted
=============================================================================
