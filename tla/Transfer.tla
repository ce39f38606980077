------------------------------- MODULE Transfer -------------------------------
(***************************************************************************)
(* One send_files call and the receiver it talks to: the question put to   *)
(* the user (/prepare-upload), then the files one after the other          *)
(* (/upload), each in up to MAX_ATTEMPTS requests that resume where the    *)
(* receiver says it is (/upload/.../progress).                             *)
(*                                                                         *)
(* The sender knows of a request only what its answer tells it. When the   *)
(* connection breaks, or the client's 300 s are over, the handler at the   *)
(* receiver may be anywhere: what is already on the wire may still arrive, *)
(* and the server drops the handler at one of its awaits once it sees the  *)
(* connection closed. The counter bytes_received and the file on disk are  *)
(* shared by all the handlers of a file. Data comes in chunks.             *)
(***************************************************************************)
EXTENDS Naturals, FiniteSets

CONSTANTS
    NFiles,       \* files in upload_plan
    Size,         \* chunks in each
    Paths,        \* places under the download directory
    PathOf,       \* safe_join(destination_dir, name) of each file
    MaxAttempts,  \* MAX_ATTEMPTS
    Overlaps,     \* may a handler outlive its request into the next attempt?
    ProgressLost, \* may a progress query fail? (it then counts as 0)
    DiskFails     \* may the receiver's disk refuse to open or write?

Files == 1 .. NFiles
Attempts == 1 .. MaxAttempts

ASSUME TransferAssumption ==
    /\ NFiles \in Nat \ {0}
    /\ Size \in [Files -> Nat]
    /\ PathOf \in [Files -> Paths]
    /\ MaxAttempts \in Nat \ {0}
    /\ {Overlaps, ProgressLost, DiskFails} \subseteq BOOLEAN

VARIABLES
    sender,    \* where send_files is, its file and its attempt at it
    request,   \* the receiver's handle_prepare_upload
    ticket,    \* does approval_registry hold the way to answer it?
    open,      \* is the session in ServerState::sessions?
    granted,   \* history: a yes was given while the handler listened
    post,      \* the handle_upload of each attempt at each file
    received,  \* IncomingFile::bytes_received, in chunks
    completed, \* IncomingFile::completed
    disk,      \* the chunks on each path
    reported,  \* files a file-completed event was emitted for
    told       \* how many times session-completed was emitted

askVars == <<request, ticket, open, granted>>
fileVars == <<received, completed, disk>>
eventVars == <<reported, told>>
vars == <<sender, askVars, post, fileVars, eventVars>>

Posts == Files \X Attempts

\* Chunk s of file f at chunk position pos of a path.
Chunk(pos, f, s) == [pos |-> pos, file |-> f, chunk |-> s]
Chunks == [pos : Nat, file : Files, chunk : Nat]

\* handle_upload: not yet looked up; in create_dir and open; opened (a new
\* file is truncated by then), the counter not yet stored; reading; flushing.
\* At any of these it may be dropped. Then the file is complete, and it is
\* the last of the session; or it has answered 200, or an error.
Awaits == {"new", "looked", "opened", "reading", "flushing"}
Over == {"none", "ok", "bad", "dropped"}
Handlers ==
    [st : Awaits \cup {"complete", "last"} \cup Over,
     from : Nat,     \* the Range of the request: chunks to skip
     start : Nat,    \* the position the file was opened at
     got : Nat,      \* chunks read
     sent : Nat,     \* chunks of the file on the connection, the skipped counted
     lost : BOOLEAN] \* a write failed, which tokio says at the next one

NotCalled == [st |-> "none", from |-> 0, start |-> 0, got |-> 0, sent |-> 0, lost |-> FALSE]

Places == {"asking", "progress", "posting", "ok", "err"}
Requests == {"sent", "waiting", "expired", "approved", "accepted", "rejected", "dropped"}

TypeOK ==
    /\ sender \in [at : Places, file : Files, attempt : Attempts]
    /\ request \in Requests
    /\ ticket \in BOOLEAN
    /\ open \in BOOLEAN
    /\ granted \in BOOLEAN
    /\ post \in [Posts -> Handlers]
    /\ received \in [Files -> Nat]
    /\ completed \in [Files -> BOOLEAN]
    /\ disk \in [Paths -> SUBSET Chunks]
    /\ reported \subseteq Files
    /\ told \in Nat

Init ==
    /\ sender = [at |-> "asking", file |-> 1, attempt |-> 1]
    /\ request = "sent" /\ ticket = FALSE /\ open = FALSE /\ granted = FALSE
    /\ post = [p \in Posts |-> NotCalled]
    /\ received = [f \in Files |-> 0]
    /\ completed = [f \in Files |-> FALSE]
    /\ disk = [x \in Paths |-> {}]
    /\ reported = {} /\ told = 0

----------------------------------------------------------------------------
(* The question: /prepare-upload.                                          *)

\* The request arrives: a favorite is let in, anyone else waits for a decision.
PrepareArrives ==
    /\ request = "sent"
    /\ \/ request' = "approved" /\ granted' = TRUE /\ UNCHANGED ticket
       \/ request' = "waiting" /\ ticket' = TRUE /\ UNCHANGED granted
    /\ UNCHANGED <<sender, open, post, fileVars, eventVars>>

\* approve_session and reject_session: the answer reaches the handler if it
\* still waits, and is Ok to the user whenever the ticket was there.
Decides(answer) ==
    /\ ticket
    /\ ticket' = FALSE
    /\ request' = IF request = "waiting" THEN answer ELSE request
    /\ granted' = (granted \/ (request = "waiting" /\ answer = "approved"))
    /\ UNCHANGED <<sender, open, post, fileVars, eventVars>>

\* APPROVAL_TIMEOUT passes: the handler stops listening, its ticket stays.
ApprovalExpires ==
    /\ request = "waiting"
    /\ request' = "expired"
    /\ UNCHANGED <<sender, ticket, open, granted, post, fileVars, eventVars>>

\* Seeded bug: no decision is taken for a yes.
ExpiredIsYes ==
    /\ request = "expired"
    /\ request' = "approved" /\ ticket' = FALSE
    /\ UNCHANGED <<sender, open, granted, post, fileVars, eventVars>>

\* It takes the ticket back and answers 403.
ExpiredIsNo ==
    /\ request = "expired"
    /\ request' = "rejected" /\ ticket' = FALSE
    /\ UNCHANGED <<sender, open, granted, post, fileVars, eventVars>>

\* The session and its tokens.
OpensSession ==
    /\ request = "approved"
    /\ request' = "accepted" /\ open' = TRUE
    /\ UNCHANGED <<sender, ticket, granted, post, fileVars, eventVars>>

\* The connection breaks, or the client's 300 s are over, before the answer:
\* send_files fails. A handler at its await may be dropped, its ticket stays.
AskBreaks ==
    /\ sender.at = "asking"
    /\ sender' = [sender EXCEPT !.at = "err"]
    /\ \/ UNCHANGED request
       \/ request \in {"sent", "waiting", "approved"} /\ request' = "dropped"
    /\ UNCHANGED <<ticket, open, granted, post, fileVars, eventVars>>

\* /cancel: the session is forgotten, and the ticket with it, which a handler
\* that waits takes as no decision.
Cancel ==
    /\ open \/ ticket
    /\ open' = FALSE /\ ticket' = FALSE
    /\ request' = IF ticket /\ request = "waiting" THEN "expired" ELSE request
    /\ UNCHANGED <<sender, granted, post, fileVars, eventVars>>

----------------------------------------------------------------------------
(* The sender: upload_file and upload_file_once.                           *)

\* The request for file f from chunk `from` on leaves, as attempt a.
Posting(f, a, from) ==
    /\ sender' = [at |-> "posting", file |-> f, attempt |-> a]
    /\ post' = [post EXCEPT ![<<f, a>>] =
                   [NotCalled EXCEPT !.st = "new", !.from = from, !.sent = from]]

\* upload_file returned Ok: on to the next file, or send_files is over.
NextFile ==
    IF sender.file < NFiles
    THEN Posting(sender.file + 1, 1, 0)
    ELSE sender' = [sender EXCEPT !.at = "ok"] /\ UNCHANGED post

\* Seeded bug: the attempts are not counted.
RetryUncounted == sender' = [sender EXCEPT !.at = "progress"] /\ UNCHANGED post

\* An attempt failed: after a pause the next one asks for the progress, and
\* after the last send_files fails.
Retry ==
    /\ sender' = IF sender.attempt < MaxAttempts
                 THEN [sender EXCEPT !.at = "progress", !.attempt = @ + 1]
                 ELSE [sender EXCEPT !.at = "err"]
    /\ UNCHANGED post

TakesAnswer ==
    /\ sender.at = "asking"
    /\ \/ request = "accepted" /\ Posting(1, 1, 0)
       \/ request = "rejected" /\ sender' = [sender EXCEPT !.at = "err"] /\ UNCHANGED post
    /\ UNCHANGED <<askVars, fileVars, eventVars>>

Current == <<sender.file, sender.attempt>>
Attached(p) == sender.at = "posting" /\ p = Current

\* The body is streamed.
SendsChunk ==
    /\ sender.at = "posting"
    /\ post[Current].sent < Size[sender.file]
    /\ post' = [post EXCEPT ![Current].sent = @ + 1]
    /\ UNCHANGED <<sender, askVars, fileVars, eventVars>>

\* The request fails on the sender's side: a reset, the timeout.
Breaks ==
    /\ sender.at = "posting"
    /\ Retry
    /\ UNCHANGED <<askVars, fileVars, eventVars>>

TakesReply ==
    /\ sender.at = "posting"
    /\ \/ post[Current].st = "ok" /\ NextFile
       \/ post[Current].st = "bad" /\ Retry
    /\ UNCHANGED <<askVars, fileVars, eventVars>>

\* handle_upload_progress: the session's counter; 404 without a session.
CounterOf(f) == IF open THEN received[f] ELSE 0

\* fetch_upload_progress: 0 without a good answer.
Progress(f) == {CounterOf(f)} \cup (IF ProgressLost THEN {0} ELSE {})

\* Unless handlers overlap, the old one is over before the retry comes.
MayRetry == Overlaps \/ \A p \in Posts : post[p].st \in Over

\* Seeded bug: all but one chunk counts as the whole.
ResumesShort ==
    /\ sender.at = "progress" /\ MayRetry
    /\ \E from \in Progress(sender.file) :
          IF Size[sender.file] > 0 /\ from + 1 >= Size[sender.file]
          THEN NextFile
          ELSE Posting(sender.file, sender.attempt, from)
    /\ UNCHANGED <<askVars, fileVars, eventVars>>

\* A further attempt starts where the receiver says it is. When that is the
\* end, upload_file_once returns Ok without a request.
Resumes ==
    /\ sender.at = "progress" /\ MayRetry
    /\ \E from \in Progress(sender.file) :
          IF Size[sender.file] > 0 /\ from >= Size[sender.file]
          THEN NextFile
          ELSE Posting(sender.file, sender.attempt, from)
    /\ UNCHANGED <<askVars, fileVars, eventVars>>

----------------------------------------------------------------------------
(* The receiver: handle_upload.                                            *)

File(p) == p[1]
Path(p) == PathOf[p[1]]
At(p, st) == post[p].st = st
Goes(p, st) == post' = [post EXCEPT ![p].st = st]

\* The session is looked up under its lock; 404 without it.
LooksUp(p) ==
    /\ At(p, "new")
    /\ Goes(p, IF open THEN "looked" ELSE "bad")
    /\ UNCHANGED <<sender, askVars, fileVars, eventVars>>

\* Seeded bug: a resumed file is opened and not sought.
OpensUnsought(p) ==
    /\ At(p, "looked")
    /\ post' = [post EXCEPT ![p].st = "opened", ![p].start = 0]
    /\ disk' = [disk EXCEPT ![Path(p)] = IF post[p].from > 0 THEN @ ELSE {}]
    /\ UNCHANGED <<sender, askVars, received, completed, eventVars>>

\* A Range: the file is opened as it is and sought. None: it is created anew.
Opens(p) ==
    /\ At(p, "looked")
    /\ post' = [post EXCEPT ![p].st = "opened", ![p].start = post[p].from]
    /\ disk' = [disk EXCEPT ![Path(p)] = IF post[p].from > 0 THEN @ ELSE {}]
    /\ UNCHANGED <<sender, askVars, received, completed, eventVars>>

OpenFails(p) ==
    /\ DiskFails
    /\ At(p, "looked")
    /\ Goes(p, "bad")
    /\ UNCHANGED <<sender, askVars, fileVars, eventVars>>

StoresCounter(p) ==
    /\ At(p, "opened")
    /\ received' = [received EXCEPT ![File(p)] = post[p].from]
    /\ Goes(p, "reading")
    /\ UNCHANGED <<sender, askVars, completed, disk, eventVars>>

Left(p) == Size[File(p)] - post[p].from
Arrived(p) == post[p].from + post[p].got < post[p].sent

\* A chunk is read, handed to the file and counted.
Reads(p) ==
    LET pos == post[p].start + post[p].got + 1
        c == Chunk(pos, File(p), post[p].from + post[p].got + 1)
    IN  /\ At(p, "reading") /\ Arrived(p) /\ ~post[p].lost
        /\ post' = [post EXCEPT ![p].got = @ + 1]
        /\ received' = [received EXCEPT ![File(p)] = @ + 1]
        /\ disk' = [disk EXCEPT ![Path(p)] = {d \in @ : d.pos # pos} \cup {c}]
        /\ UNCHANGED <<sender, askVars, completed, eventVars>>

\* tokio::fs::File takes a chunk before it is written: one that cannot be
\* is counted, and the error comes with the next write, or with flush.
LosesChunk(p) ==
    /\ DiskFails
    /\ At(p, "reading") /\ Arrived(p) /\ ~post[p].lost
    /\ post' = [post EXCEPT ![p].got = @ + 1, ![p].lost = TRUE]
    /\ received' = [received EXCEPT ![File(p)] = @ + 1]
    /\ UNCHANGED <<sender, askVars, completed, disk, eventVars>>

NoticesLoss(p) ==
    /\ post[p].lost
    /\ At(p, "flushing") \/ (At(p, "reading") /\ Arrived(p))
    /\ Goes(p, "bad")
    /\ UNCHANGED <<sender, askVars, fileVars, eventVars>>

\* Seeded bug: a body that breaks off ends the loop as its end does.
TakesCutForEnd(p) ==
    /\ At(p, "reading") /\ ~Attached(p)
    /\ ~Arrived(p) /\ post[p].got < Left(p)
    /\ Goes(p, "flushing")
    /\ UNCHANGED <<sender, askVars, fileVars, eventVars>>

\* The connection is closed before the Content-Length is reached.
SeesCut(p) ==
    /\ At(p, "reading") /\ ~Attached(p)
    /\ ~Arrived(p) /\ post[p].got < Left(p)
    /\ Goes(p, "bad")
    /\ UNCHANGED <<sender, askVars, fileVars, eventVars>>

SeesEnd(p) ==
    /\ At(p, "reading") /\ post[p].got = Left(p)
    /\ Goes(p, "flushing")
    /\ UNCHANGED <<sender, askVars, fileVars, eventVars>>

\* send_files gives no hash: every file that ends is "verified".
Completes(p) ==
    /\ At(p, "flushing") /\ ~post[p].lost
    /\ completed' = [completed EXCEPT ![File(p)] = TRUE]
    /\ reported' = reported \cup {File(p)}
    /\ Goes(p, "complete")
    /\ UNCHANGED <<sender, askVars, received, disk, told>>

\* Seeded bug: one file that is done ends the session.
LooksForAny(p) ==
    /\ At(p, "complete")
    /\ Goes(p, IF open /\ \E f \in Files : completed[f] THEN "last" ELSE "ok")
    /\ UNCHANGED <<sender, askVars, fileVars, eventVars>>

\* Is every file of the session done? The lock is released with the answer.
LooksForRest(p) ==
    /\ At(p, "complete")
    /\ Goes(p, IF open /\ \A f \in Files : completed[f] THEN "last" ELSE "ok")
    /\ UNCHANGED <<sender, askVars, fileVars, eventVars>>

\* Seeded bug: the session stays in the table.
LeavesSession(p) ==
    /\ At(p, "last")
    /\ told' = told + 1
    /\ Goes(p, "ok")
    /\ UNCHANGED <<sender, askVars, fileVars, reported>>

EndsSession(p) ==
    /\ At(p, "last")
    /\ open' = FALSE
    /\ told' = told + 1
    /\ Goes(p, "ok")
    /\ UNCHANGED <<sender, request, ticket, granted, fileVars, reported>>

\* The server sees the connection closed while the handler awaits.
Dropped(p) ==
    /\ post[p].st \in Awaits /\ ~Attached(p)
    /\ Goes(p, "dropped")
    /\ UNCHANGED <<sender, askVars, fileVars, eventVars>>

----------------------------------------------------------------------------
Question ==
    \/ PrepareArrives
    \/ Decides("approved") \/ Decides("rejected")
    \/ ApprovalExpires \/ ExpiredIsNo
    \/ OpensSession
    \/ AskBreaks
    \/ Cancel

Sends ==
    \/ TakesAnswer
    \/ SendsChunk
    \/ Breaks
    \/ TakesReply
    \/ Resumes

Receives(p) ==
    \/ LooksUp(p)
    \/ Opens(p) \/ OpenFails(p) \/ StoresCounter(p)
    \/ Reads(p) \/ LosesChunk(p) \/ NoticesLoss(p)
    \/ SeesCut(p) \/ SeesEnd(p)
    \/ Completes(p) \/ LooksForRest(p) \/ EndsSession(p)
    \/ Dropped(p)

Next ==
    \/ Question
    \/ Sends
    \/ \E p \in Posts : Receives(p)

Spec == Init /\ [][Next]_vars

\* The sender runs, and each of its requests has an end: an answer or the
\* client's timeout. Nothing is asked of the receiver.
Fairness ==
    /\ WF_vars(TakesAnswer) /\ WF_vars(AskBreaks)
    /\ WF_vars(Resumes) /\ WF_vars(Breaks)

FairSpec == Spec /\ Fairness

----------------------------------------------------------------------------
(* Properties.                                                             *)

Whole(f) == \A k \in 1 .. Size[f] : Chunk(k, f, k) \in disk[PathOf[f]]

\* upload_file returned Ok for f; main.js says "file(s) delivered".
Delivered(f) == sender.at = "ok" \/ f < sender.file

\* What the progress endpoint answers is on the disk: a resume leaves no hole
\* between what it skips and what it writes.
ResumeIsSound ==
    open => \A f \in Files : \A k \in 1 .. received[f] : Chunk(k, f, k) \in disk[PathOf[f]]

\* A file announced as complete is whole: the comment on resumed uploads says
\* a truncated one is still caught.
VerifiedIsWhole == [][\A f \in reported' \ reported : Whole(f)']_vars

\* A file the sender was told Ok for is whole at the receiver.
DeliveredIsWhole == \A f \in Files : Delivered(f) => Whole(f)

\* A file the sender was told Ok for is one its receiver announced.
DeliveredIsReported == \A f \in Files : Delivered(f) => f \in reported

\* "n FILE(S) saved to": when the session is announced as complete, each of
\* its files is on the disk.
SavedIsWhole == told > 0 => \A f \in Files : Whole(f)

\* The session is announced once, however often its files are retried.
DoneOnce == told <= 1

\* It is announced when every one of its files was.
DoneMeansAll == told > 0 => reported = Files

\* Nothing is written for a sender nobody said yes to: not after a no, not
\* after the question expired, was cancelled, or lost its asker.
NothingWithoutYes == ~granted => ~open /\ \A x \in Paths : disk[x] = {}

\* The assumptions under which a resume is sound: a broken connection is
\* noticed before the retry, no progress query is lost, the disk does not
\* fail, and no two files of the send have the same name.
Calm ==
    /\ ~Overlaps /\ ~ProgressLost /\ ~DiskFails
    /\ \A f, g \in Files : PathOf[f] = PathOf[g] => f = g

\* The attempt whose handler may still be at work.
Serving ==
    IF sender.at = "progress" THEN <<sender.file, sender.attempt - 1>> ELSE Current

OneHandler == \A p \in Posts : post[p].st \notin Over => p = Serving

\* A request goes on after a yes alone, and until it is accepted nothing happens.
Consent ==
    /\ request \in {"approved", "accepted"} => granted
    /\ request # "accepted" =>
        /\ ~open /\ told = 0 /\ reported = {}
        /\ sender.at \in {"asking", "err"} /\ sender.attempt = 1
        /\ \A p \in Posts : post[p] = NotCalled
        /\ \A x \in Paths : disk[x] = {}

\* A handler never counts more than was sent to it.
Bounded ==
    /\ \A f \in Files : received[f] <= Size[f]
    /\ \A p \in Posts :
          /\ post[p].st \notin Over =>
                /\ post[p].sent <= Size[File(p)]
                /\ post[p].from + post[p].got <= post[p].sent
          /\ post[p].st \in {"new", "looked", "opened"} => post[p].got = 0
          /\ post[p].st \in {"opened", "reading"} => post[p].start = post[p].from

\* The counter of a file follows the one handler at work on it.
Follows ==
    \A p \in Posts :
        /\ post[p].st = "new" /\ open => received[File(p)] = post[p].from
        /\ post[p].st \in {"looked", "opened"} => received[File(p)] = post[p].from
        /\ post[p].st = "reading" => received[File(p)] = post[p].from + post[p].got
        /\ post[p].st \in {"flushing", "complete", "last", "ok"} /\ p = Serving =>
              received[File(p)] = Size[File(p)]

\* What is counted is on the disk.
Sound == \A f \in Files : \A k \in 1 .. received[f] : Chunk(k, f, k) \in disk[PathOf[f]]

\* Nothing is on the disk that is not counted: a file that is emptied had nothing.
Exact == \A f \in Files : \A k \in 1 .. Size[f] :
            Chunk(k, f, k) \in disk[PathOf[f]] => k <= received[f]

\* Files before the one being sent are all counted, those after not at all.
InOrder ==
    /\ sender.at = "progress" => sender.attempt > 1
    /\ sender.at = "asking" =>
          /\ sender.file = 1 /\ sender.attempt = 1
          /\ \A f \in Files : received[f] = 0
          /\ \A p \in Posts : post[p].st = "none"
    /\ sender.at = "ok" => \A p \in Posts : post[p].st \in Over
    /\ \A f \in Files : Delivered(f) => received[f] = Size[f]
    /\ \A f \in Files : f > sender.file => received[f] = 0

ToldOnce == told <= 1 /\ (told = 1 => ~open /\ \A p \in Posts : post[p].st # "last")

\* The inductive invariant of TransferProofs.
TransferInv ==
    OneHandler /\ Consent /\ Bounded /\ Follows /\ Sound /\ Exact /\ InOrder /\ ToldOnce

\* What the window of either side is told is the abstract delivery, step by step:
\* a file once whole is not emptied again by a retry, and no event is of a file
\* other than the one being sent.
Promise == INSTANCE Delivery WITH
    Empty <- {f \in Files : Size[f] = 0},
    agreed <- granted,
    whole <- {f \in Files : Whole(f)},
    announced <- reported,
    delivered <- IF sender.at = "ok" THEN NFiles ELSE sender.file - 1,
    done <- told

ImplementsDelivery == Promise!Spec

\* send_files returns, whatever the receiver and the network do.
SendEnds == <>(sender.at \in {"ok", "err"})
=============================================================================
