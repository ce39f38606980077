---------------------------- MODULE TransferProofs ----------------------------
(***************************************************************************)
(* Proofs about Transfer for every number of files, sizes and attempts.    *)
(* With no assumption: the types, that nothing happens before a yes, and   *)
(* that a session is announced only when all its files were. When handlers *)
(* do not overlap, no progress query is lost, the disk does not fail and   *)
(* the names differ (Calm): that what is resumed, delivered and announced  *)
(* is whole, and announced once.                                           *)
(***************************************************************************)
EXTENDS Transfer, TLAPS

States == Awaits \cup {"complete", "last"} \cup Over

----------------------------------------------------------------------------
(* Handlers.                                                               *)

\* A request that was never made is a handler.
LEMMA NotCalledType == NotCalled \in Handlers
  BY DEF NotCalled, Handlers, Over

\* A post belongs to one of the files, and its handler to the handlers.
LEMMA PostType ==
  ASSUME TypeOK, NEW p \in Posts
  PROVE  /\ File(p) \in Files /\ File(p) \in Nat
         /\ Path(p) \in Paths
         /\ Size[File(p)] \in Nat
         /\ post[p] \in Handlers
         /\ post[p].st \in States
         /\ post[p].from \in Nat /\ post[p].start \in Nat
         /\ post[p].got \in Nat /\ post[p].sent \in Nat
<1>1. File(p) \in Files
  BY DEF Posts, File
<1>2. File(p) \in Nat /\ Size[File(p)] \in Nat /\ Path(p) \in Paths
  BY <1>1, TransferAssumption DEF Files, Path, File
<1>3. post[p] \in Handlers
  BY DEF TypeOK
<1> QED
  BY <1>1, <1>2, <1>3 DEF Handlers, States

\* The sender's current attempt is one of the posts, of the file it is at.
LEMMA CurrentType ==
  ASSUME TypeOK
  PROVE  /\ Current \in Posts
         /\ File(Current) = sender.file
         /\ File(Serving) = sender.file
         /\ sender.file \in Files /\ sender.file \in Nat
         /\ Size[sender.file] \in Nat
  BY TransferAssumption
  DEF TypeOK, Posts, Files, Attempts, File, Current, Serving

\* A step of one handler to another place leaves the rest of it, and the others.
LEMMA GoesPost ==
  ASSUME TypeOK, NEW p \in Posts, NEW s \in States, Goes(p, s)
  PROVE  /\ post' \in [Posts -> Handlers]
         /\ post'[p].st = s
         /\ post'[p].from = post[p].from /\ post'[p].start = post[p].start
         /\ post'[p].got = post[p].got /\ post'[p].sent = post[p].sent
         /\ \A q \in Posts : q # p => post'[q] = post[q]
<1>1. post \in [Posts -> Handlers]
  BY DEF TypeOK
<1>2. post' = [post EXCEPT ![p] = [post[p] EXCEPT !.st = s]]
  BY DEF Goes
<1>3. [post[p] EXCEPT !.st = s] \in Handlers
  BY <1>1 DEF Handlers, States
<1> QED
  BY <1>1, <1>2, <1>3 DEF Handlers

\* A request that leaves makes a new handler, and leaves the others.
LEMMA PostingPost ==
  ASSUME TypeOK, NEW f \in Files, NEW a \in Attempts, NEW from \in Nat,
         Posting(f, a, from)
  PROVE  /\ post' \in [Posts -> Handlers]
         /\ <<f, a>> \in Posts
         /\ post'[<<f, a>>] = [NotCalled EXCEPT !.st = "new", !.from = from, !.sent = from]
         /\ \A q \in Posts : q # <<f, a>> => post'[q] = post[q]
         /\ sender' = [at |-> "posting", file |-> f, attempt |-> a]
         /\ sender' \in [at : Places, file : Files, attempt : Attempts]
<1>1. post \in [Posts -> Handlers] /\ <<f, a>> \in Posts
  BY DEF TypeOK, Posts
<1>2. [NotCalled EXCEPT !.st = "new", !.from = from, !.sent = from] \in Handlers
  BY DEF NotCalled, Handlers, Awaits
<1> QED
  BY <1>1, <1>2 DEF Posting, Places

\* What the progress endpoint answers is a number of chunks.
LEMMA ProgressType ==
  ASSUME TypeOK, NEW f \in Files, NEW n \in Progress(f)
  PROVE  n \in Nat
  BY DEF TypeOK, Progress, CounterOf

----------------------------------------------------------------------------
(* Types.                                                                  *)

\* The initial state has the types.
LEMMA TypesInit == Init => TypeOK
<1> SUFFICES ASSUME Init PROVE TypeOK
  OBVIOUS
<1>1. 1 \in Files /\ 1 \in Attempts
  BY TransferAssumption DEF Files, Attempts
<1>2. sender \in [at : Places, file : Files, attempt : Attempts]
  BY <1>1 DEF Init, Places
<1>3. post \in [Posts -> Handlers]
  BY NotCalledType DEF Init
<1>4. received \in [Files -> Nat] /\ completed \in [Files -> BOOLEAN]
  BY DEF Init
<1>5. disk \in [Paths -> SUBSET Chunks] /\ reported \subseteq Files /\ told \in Nat
  BY DEF Init
<1>6. request \in Requests /\ {ticket, open, granted} \subseteq BOOLEAN
  BY DEF Init, Requests
<1> QED
  BY <1>2, <1>3, <1>4, <1>5, <1>6 DEF TypeOK

\* upload_file that returned Ok keeps the types of the sender and the posts.
LEMMA NextFileType ==
  ASSUME TypeOK, NextFile
  PROVE  /\ sender' \in [at : Places, file : Files, attempt : Attempts]
         /\ post' \in [Posts -> Handlers]
<1>1. CASE sender.file < NFiles
  <2>1. sender.file + 1 \in Files /\ 1 \in Attempts
    BY <1>1, TransferAssumption DEF TypeOK, Files, Attempts
  <2> QED
    BY <1>1, <2>1, PostingPost DEF NextFile
<1>2. CASE ~(sender.file < NFiles)
  BY <1>2 DEF NextFile, TypeOK, Places
<1> QED
  BY <1>1, <1>2

\* So does one that did not.
LEMMA RetryType ==
  ASSUME TypeOK, Retry
  PROVE  /\ sender' \in [at : Places, file : Files, attempt : Attempts]
         /\ post' \in [Posts -> Handlers]
<1>1. sender.attempt < MaxAttempts => sender.attempt + 1 \in Attempts
  BY TransferAssumption DEF TypeOK, Attempts
<1> QED
  BY <1>1 DEF TypeOK, Retry, Places

\* The question keeps the types.
LEMMA QuestionType ==
  ASSUME TypeOK, Question
  PROVE  TypeOK'
<1> USE DEF TypeOK, Requests, Places, fileVars, eventVars
<1>1. CASE PrepareArrives
  BY <1>1 DEF PrepareArrives
<1>2. CASE Decides("approved") \/ Decides("rejected")
  BY <1>2 DEF Decides
<1>3. CASE ApprovalExpires \/ ExpiredIsNo \/ OpensSession
  BY <1>3 DEF ApprovalExpires, ExpiredIsNo, OpensSession
<1>4. CASE AskBreaks
  BY <1>4 DEF AskBreaks
<1>5. CASE Cancel
  BY <1>5 DEF Cancel
<1> QED
  BY <1>1, <1>2, <1>3, <1>4, <1>5 DEF Question

\* The sender keeps the types.
LEMMA SendsType ==
  ASSUME TypeOK, Sends
  PROVE  TypeOK'
<1> DEFINE Kept ==
        /\ sender' \in [at : Places, file : Files, attempt : Attempts]
        /\ post' \in [Posts -> Handlers]
<1>1. Kept /\ UNCHANGED <<askVars, fileVars, eventVars>> => TypeOK'
  BY DEF TypeOK, askVars, fileVars, eventVars
<1>2. UNCHANGED <<askVars, fileVars, eventVars>>
  BY DEF Sends, TakesAnswer, SendsChunk, Breaks, TakesReply, Resumes
<1>3. CASE TakesAnswer
  <2>1. CASE Posting(1, 1, 0)
    <3>1. 1 \in Files /\ 1 \in Attempts /\ 0 \in Nat
      BY TransferAssumption DEF Files, Attempts
    <3> QED
      BY <1>1, <1>2, <2>1, <3>1, PostingPost
  <2>2. CASE sender' = [sender EXCEPT !.at = "err"] /\ UNCHANGED post
    BY <1>1, <1>2, <2>2 DEF TypeOK, Places
  <2> QED
    BY <1>1, <1>2, <1>3, <2>1, <2>2 DEF TakesAnswer
<1>4. CASE SendsChunk
  <2>1. post' = [post EXCEPT ![Current] = [post[Current] EXCEPT !.sent = @ + 1]]
    BY <1>4 DEF SendsChunk
  <2>2. [post[Current] EXCEPT !.sent = @ + 1] \in Handlers
    BY CurrentType, PostType DEF Handlers
  <2> QED
    BY <1>1, <1>2, <1>4, <2>1, <2>2, CurrentType DEF SendsChunk, TypeOK
<1>5. CASE Breaks \/ TakesReply
  BY <1>1, <1>2, <1>5, NextFileType, RetryType DEF Breaks, TakesReply
<1>6. CASE Resumes
  <2>1. PICK from \in Progress(sender.file) :
           NextFile \/ Posting(sender.file, sender.attempt, from)
    BY <1>6 DEF Resumes
  <2>2. from \in Nat /\ sender.file \in Files /\ sender.attempt \in Attempts
    BY ProgressType, CurrentType DEF TypeOK
  <2> QED
    BY <1>1, <1>2, <2>1, <2>2, NextFileType, PostingPost
<1> QED
  BY <1>3, <1>4, <1>5, <1>6 DEF Sends

\* A handler keeps the types.
LEMMA ReceivesType ==
  ASSUME TypeOK, NEW p \in Posts, Receives(p)
  PROVE  TypeOK'
<1>0. /\ File(p) \in Files /\ Path(p) \in Paths
      /\ post[p] \in Handlers /\ post \in [Posts -> Handlers]
      /\ post[p].from \in Nat /\ post[p].start \in Nat
      /\ post[p].got \in Nat /\ post[p].sent \in Nat
  BY PostType DEF TypeOK
<1>1. ASSUME NEW s \in States, Goes(p, s), UNCHANGED <<sender, askVars, fileVars, eventVars>>
      PROVE  TypeOK'
  BY <1>1, GoesPost DEF TypeOK, askVars, fileVars, eventVars
<1>2. CASE LooksUp(p)
  BY <1>1, <1>2 DEF LooksUp, States, Awaits, Over
<1>3. CASE Opens(p)
  <2>1. [post[p] EXCEPT !.st = "opened", !.start = post[p].from] \in Handlers
    BY <1>0 DEF Handlers, Awaits
  <2>2. post' = [post EXCEPT ![p] = [post[p] EXCEPT !.st = "opened", !.start = post[p].from]]
    BY <1>0, <1>3 DEF Opens
  <2>3. disk' \in [Paths -> SUBSET Chunks]
    BY <1>0, <1>3 DEF Opens, TypeOK
  <2> QED
    BY <1>0, <1>3, <2>1, <2>2, <2>3 DEF Opens, TypeOK, askVars, eventVars
<1>4. CASE OpenFails(p) \/ NoticesLoss(p) \/ SeesCut(p) \/ SeesEnd(p)
  BY <1>1, <1>4 DEF OpenFails, NoticesLoss, SeesCut, SeesEnd, States, Awaits, Over
<1>5. CASE StoresCounter(p)
  BY <1>0, <1>5, GoesPost DEF StoresCounter, TypeOK, askVars, eventVars, States, Awaits
<1>6. CASE Reads(p)
  <2> DEFINE pos == post[p].start + post[p].got + 1
  <2> DEFINE c == Chunk(pos, File(p), post[p].from + post[p].got + 1)
  <2>1. [post[p] EXCEPT !.got = @ + 1] \in Handlers
    BY <1>0 DEF Handlers
  <2>2. post' = [post EXCEPT ![p] = [post[p] EXCEPT !.got = @ + 1]]
    BY <1>0, <1>6 DEF Reads
  <2>3. c \in Chunks
    BY <1>0 DEF Chunk, Chunks
  <2>4. disk' = [disk EXCEPT ![Path(p)] = {d \in @ : d.pos # pos} \cup {c}]
    BY <1>6 DEF Reads
  <2>5. disk' \in [Paths -> SUBSET Chunks]
    BY <1>0, <2>3, <2>4 DEF TypeOK
  <2>6. received' \in [Files -> Nat]
    BY <1>0, <1>6 DEF Reads, TypeOK
  <2> QED
    BY <1>0, <1>6, <2>1, <2>2, <2>5, <2>6 DEF Reads, TypeOK, askVars, eventVars
<1>7. CASE LosesChunk(p)
  <2>1. [post[p] EXCEPT !.got = @ + 1, !.lost = TRUE] \in Handlers
    <3>1. [post[p] EXCEPT !.got = @ + 1] \in Handlers
      BY <1>0 DEF Handlers
    <3>2. \A h \in Handlers : [h EXCEPT !.lost = TRUE] \in Handlers
      BY Zenon DEF Handlers
    <3> QED
      BY <1>0, <3>1, <3>2 DEF Handlers
  <2>2. post' = [post EXCEPT ![p] = [post[p] EXCEPT !.got = @ + 1, !.lost = TRUE]]
    BY <1>0, <1>7 DEF LosesChunk
  <2>3. received' \in [Files -> Nat]
    BY <1>0, <1>7 DEF LosesChunk, TypeOK
  <2> QED
    BY <1>0, <1>7, <2>1, <2>2, <2>3 DEF LosesChunk, TypeOK, askVars, eventVars
<1>8. CASE Completes(p)
  BY <1>0, <1>8, GoesPost DEF Completes, TypeOK, askVars, States
<1>9. CASE LooksForRest(p)
  BY <1>1, <1>9 DEF LooksForRest, States, Over
<1>10. CASE EndsSession(p)
  <2>1. "ok" \in States
    BY DEF States, Over
  <2>2. Goes(p, "ok") /\ told' = told + 1 /\ open' = FALSE
    BY <1>10 DEF EndsSession
  <2>3. post' \in [Posts -> Handlers]
    BY <2>1, <2>2, GoesPost
  <2> QED
    <3>1. told' \in Nat
      BY <2>2 DEF TypeOK
    <3>2. open' \in BOOLEAN
      BY <2>2
    <3>3. UNCHANGED <<sender, request, ticket, granted, received, completed, disk, reported>>
      BY <1>10 DEF EndsSession, fileVars
    <3> QED
      BY <2>3, <3>1, <3>2, <3>3 DEF TypeOK
<1>11. CASE Dropped(p)
  BY <1>1, <1>11 DEF Dropped, States, Over
<1> QED
  BY <1>2, <1>3, <1>4, <1>5, <1>6, <1>7, <1>8, <1>9, <1>10, <1>11 DEF Receives

\* Every step keeps the types, whatever overlaps, is lost or fails.
LEMMA TypesStep == TypeOK /\ [Next]_vars => TypeOK'
<1> SUFFICES ASSUME TypeOK, [Next]_vars PROVE TypeOK'
  OBVIOUS
<1>1. CASE UNCHANGED vars
  BY <1>1 DEF vars, askVars, fileVars, eventVars, TypeOK
<1> QED
  BY <1>1, QuestionType, SendsType, ReceivesType DEF Next

----------------------------------------------------------------------------
(* The question, and the sender.                                           *)

\* Whatever the question does, it goes on after a yes alone.
LEMMA GrantedFirst ==
  ASSUME TypeOK, request \in {"approved", "accepted"} => granted, Question
  PROVE  request' \in {"approved", "accepted"} => granted'
  BY DEF TypeOK, Question, PrepareArrives, Decides, ApprovalExpires, ExpiredIsNo,
         OpensSession, AskBreaks, Cancel

\* The question disturbs none of the invariant: it opens the session of a
\* send that has not begun, or closes one.
LEMMA QuestionInv ==
  ASSUME TypeOK, TransferInv, Question
  PROVE  TransferInv'
<1> USE DEF TransferInv
<1>1. UNCHANGED <<post, received, completed, disk, reported, told>>
  BY DEF Question, PrepareArrives, Decides, ApprovalExpires, ExpiredIsNo, OpensSession,
         AskBreaks, Cancel, fileVars, eventVars
<1>2. \/ sender' = sender
      \/ sender.at = "asking" /\ sender' = [sender EXCEPT !.at = "err"]
  BY DEF Question, PrepareArrives, Decides, ApprovalExpires, ExpiredIsNo, OpensSession,
         AskBreaks, Cancel
<1>3. request' # "accepted" => request # "accepted"
  BY DEF Question, PrepareArrives, Decides, ApprovalExpires, ExpiredIsNo, OpensSession,
         AskBreaks, Cancel
<1>4. open' => open \/ (request # "accepted" /\ request' = "accepted")
  BY DEF Question, PrepareArrives, Decides, ApprovalExpires, ExpiredIsNo, OpensSession,
         AskBreaks, Cancel
<1>5. /\ sender'.file = sender.file /\ sender'.attempt = sender.attempt
      /\ sender'.at = sender.at \/ (sender.at = "asking" /\ sender'.at = "err")
      /\ Serving' = Serving
  BY <1>2 DEF TypeOK, Serving, Current
<1>6. request # "accepted" => \A p \in Posts : post[p].st = "none"
  BY DEF Consent, NotCalled
<1>7. OneHandler' /\ Sound' /\ Exact'
  BY <1>1, <1>5 DEF OneHandler, Sound, Exact
<1>8. Consent'
  BY <1>1, <1>3, <1>4, <1>5, GrantedFirst DEF Consent
<1>9. Bounded'
  BY <1>1 DEF Bounded
<1>10. Follows'
  BY <1>1, <1>4, <1>5, <1>6 DEF Follows
<1>11. InOrder'
  BY <1>1, <1>5 DEF InOrder, Delivered
<1>12. ToldOnce'
  BY <1>1, <1>4 DEF ToldOnce, Consent
<1> QED
  BY <1>7, <1>8, <1>9, <1>10, <1>11, <1>12

\* A request that starts where the receiver is, when no handler is at work and
\* the files before it are done, keeps the invariant.
LEMMA PostingInv ==
  ASSUME TypeOK, TransferInv, NEW f \in Files, NEW a \in Attempts, NEW from \in Nat,
         Posting(f, a, from),
         UNCHANGED <<request, open, granted, received, disk, reported, told>>,
         request = "accepted",
         \A q \in Posts : post[q].st \in Over,
         from <= Size[f], open => received[f] = from,
         \A g \in Files : g < f => received[g] = Size[g],
         \A g \in Files : g > f => received[g] = 0
  PROVE  TransferInv'
<1> USE DEF TransferInv
<1>a. /\ <<f, a>> \in Posts
      /\ post'[<<f, a>>] = [NotCalled EXCEPT !.st = "new", !.from = from, !.sent = from]
      /\ \A q \in Posts : q # <<f, a>> => post'[q] = post[q]
      /\ sender' = [at |-> "posting", file |-> f, attempt |-> a]
  BY PostingPost
<1>b. f \in Nat /\ Size[f] \in Nat
  BY TransferAssumption DEF Files
<1>0. /\ f \in Nat /\ Size[f] \in Nat
      /\ \A q \in Posts : q # <<f, a>> => post'[q].st \in Over
  BY <1>a, <1>b
<1>1. /\ post'[<<f, a>>].st = "new" /\ post'[<<f, a>>].got = 0
      /\ post'[<<f, a>>].from = from /\ post'[<<f, a>>].sent = from
      /\ <<f, a>> \in Posts /\ File(<<f, a>>) = f
  BY <1>a DEF NotCalled, File
<1>2. /\ sender'.at = "posting" /\ sender'.file = f /\ sender'.attempt = a
      /\ Serving' = <<f, a>>
  BY <1>a DEF Serving, Current
<1>3. OneHandler'
  BY <1>0, <1>2 DEF OneHandler
<1>4. Consent' /\ Sound' /\ Exact'
  BY DEF Consent, Sound, Exact
<1>5. Bounded'
  <2>1. \A q \in Posts : q # <<f, a>> => post'[q].st \notin {"new", "looked", "opened", "reading"}
    BY <1>0 DEF Over
  <2> QED
    BY <1>0, <1>1, <2>1 DEF Bounded
<1>6. Follows'
  <2>1. \A q \in Posts : q # <<f, a>> =>
           post'[q].st \notin {"new", "looked", "opened", "reading"}
    BY <1>0 DEF Over
  <2> QED
    BY <1>0, <1>1, <1>2, <2>1 DEF Follows
<1>7. InOrder'
  BY <1>0, <1>2 DEF InOrder, Delivered
<1>8. ToldOnce'
  BY <1>0, <1>1 DEF ToldOnce, Over
<1> QED
  BY <1>3, <1>4, <1>5, <1>6, <1>7, <1>8

\* A failed attempt leaves its handler as the one that may be at work.
LEMMA RetryInv ==
  ASSUME TypeOK, TransferInv, sender.at = "posting", Retry,
         UNCHANGED <<request, open, granted, received, disk, reported, told>>
  PROVE  TransferInv'
<1> USE DEF TransferInv
<1>1. UNCHANGED post
  BY DEF Retry
<1>2. /\ sender'.file = sender.file
      /\ \/ /\ sender'.at = "progress" /\ sender'.attempt = sender.attempt + 1
         \/ sender'.at = "err" /\ sender'.attempt = sender.attempt
  BY DEF Retry, TypeOK
<1>3. sender.attempt \in Nat /\ sender.attempt > 0
  BY DEF TypeOK, Attempts
<1>4. Serving' = Serving
  BY <1>2, <1>3 DEF Serving, Current
<1>5. request = "accepted"
  BY DEF Consent
<1>6. OneHandler' /\ Sound' /\ Exact' /\ Bounded' /\ Follows'
  BY <1>1, <1>4 DEF OneHandler, Sound, Exact, Bounded, Follows
<1>7. Consent' /\ ToldOnce'
  BY <1>1, <1>5 DEF Consent, ToldOnce
<1>8. InOrder'
  BY <1>2, <1>3 DEF InOrder, Delivered
<1> QED
  BY <1>6, <1>7, <1>8

\* The next file, once the one before it is all counted.
LEMMA NextFileInv ==
  ASSUME TypeOK, TransferInv, NextFile, sender.at \in {"posting", "progress"},
         UNCHANGED <<request, open, granted, received, disk, reported, told>>,
         \A q \in Posts : post[q].st \in Over,
         received[sender.file] = Size[sender.file]
  PROVE  TransferInv'
<1> USE DEF TransferInv
<1>1. request = "accepted"
  BY DEF Consent
<1>2. sender.file \in 1 .. NFiles /\ NFiles \in Nat /\ \A g \in Files : g \in Nat
  BY TransferAssumption DEF TypeOK, Files
<1>3. \A g \in Files : g <= sender.file => received[g] = Size[g]
  BY <1>2 DEF InOrder, Delivered
<1>4. CASE sender.file < NFiles
  <2>1. Posting(sender.file + 1, 1, 0)
    BY <1>4 DEF NextFile
  <2>2. sender.file + 1 \in Files /\ 1 \in Attempts
    BY <1>2, <1>4, TransferAssumption DEF Files, Attempts
  <2>3. received[sender.file + 1] = 0 /\ 0 <= Size[sender.file + 1]
    BY <1>2, <2>2, TransferAssumption DEF InOrder
  <2>4. \A g \in Files : g < sender.file + 1 => received[g] = Size[g]
    BY <1>2, <1>3
  <2>5. \A g \in Files : g > sender.file + 1 => received[g] = 0
    BY <1>2 DEF InOrder
  <2> QED
    BY <1>1, <2>1, <2>2, <2>3, <2>4, <2>5, PostingInv
<1>5. CASE ~(sender.file < NFiles)
  <2>1. /\ UNCHANGED post
        /\ sender'.at = "ok" /\ sender'.file = sender.file /\ sender'.attempt = sender.attempt
    BY <1>5 DEF NextFile, TypeOK
  <2>2. \A g \in Files : g <= sender.file
    BY <1>2, <1>5 DEF Files
  <2>3. OneHandler' /\ Sound' /\ Exact' /\ Bounded'
    BY <2>1 DEF OneHandler, Sound, Exact, Bounded
  <2>4. Consent' /\ ToldOnce'
    BY <1>1, <2>1 DEF Consent, ToldOnce
  <2>5. Follows'
    <3>1. \A q \in Posts : post[q].st \notin {"new", "looked", "opened", "reading"}
      BY DEF Over
    <3>2. \A q \in Posts : q = Serving' => received[File(q)] = Size[File(q)]
      BY <2>1, TransferAssumption DEF Serving, Current, File, Posts
    <3> QED
      BY <2>1, <3>1, <3>2 DEF Follows
  <2>6. InOrder'
    BY <1>2, <1>3, <2>1, <2>2 DEF InOrder, Delivered
  <2> QED
    BY <2>3, <2>4, <2>5, <2>6
<1> QED
  BY <1>4, <1>5

\* The sender keeps the invariant when retries wait for the handler before them
\* and learn where it came to.
LEMMA SendsInv ==
  ASSUME Calm, TypeOK, TransferInv, Sends
  PROVE  TransferInv'
<1> USE DEF TransferInv
<1>0. UNCHANGED <<request, open, granted, received, completed, disk, reported, told>>
  BY DEF Sends, TakesAnswer, SendsChunk, Breaks, TakesReply, Resumes,
         askVars, fileVars, eventVars
<1>1. CASE TakesAnswer
  <2>1. CASE request = "accepted" /\ Posting(1, 1, 0)
    <3>1. 1 \in Files /\ 1 \in Attempts /\ 0 <= Size[1]
      BY TransferAssumption DEF Files, Attempts
    <3>2. /\ \A g \in Files : received[g] = 0 /\ ~(g < 1)
          /\ \A q \in Posts : post[q].st \in Over
      BY <1>1, TransferAssumption DEF TakesAnswer, InOrder, Over, Files
    <3> QED
      BY <1>0, <2>1, <3>1, <3>2, PostingInv
  <2>2. CASE sender' = [sender EXCEPT !.at = "err"] /\ UNCHANGED post
    <3>1. /\ sender'.at = "err" /\ sender'.file = sender.file
          /\ sender'.attempt = sender.attempt /\ sender.at = "asking"
      BY <1>1, <2>2 DEF TakesAnswer, TypeOK
    <3>2. Serving' = Serving
      BY <3>1 DEF Serving, Current
    <3>3. OneHandler' /\ Sound' /\ Exact' /\ Bounded' /\ Follows'
      BY <1>0, <2>2, <3>2 DEF OneHandler, Sound, Exact, Bounded, Follows
    <3>4. Consent' /\ ToldOnce' /\ InOrder'
      BY <1>0, <2>2, <3>1 DEF Consent, ToldOnce, InOrder, Delivered
    <3> QED
      BY <3>3, <3>4
  <2> QED
    BY <1>1, <2>1, <2>2 DEF TakesAnswer
<1>2. CASE SendsChunk
  <2>0. /\ Current \in Posts /\ File(Current) = sender.file
        /\ post[Current] \in Handlers /\ post \in [Posts -> Handlers]
        /\ post[Current].sent \in Nat /\ Size[sender.file] \in Nat
    BY CurrentType, PostType DEF TypeOK
  <2>1. /\ sender' = sender /\ sender.at = "posting"
        /\ post[Current].sent < Size[sender.file]
        /\ post' = [post EXCEPT ![Current].sent = @ + 1]
    BY <1>2 DEF SendsChunk
  <2>2. /\ \A q \in Posts :
              /\ post'[q].st = post[q].st /\ post'[q].from = post[q].from
              /\ post'[q].got = post[q].got /\ post'[q].start = post[q].start
              /\ q # Current => post'[q] = post[q]
        /\ post'[Current].sent = post[Current].sent + 1
    BY <2>0, <2>1 DEF Handlers
  <2>3. OneHandler' /\ Sound' /\ Exact' /\ ToldOnce' /\ Follows'
    BY <1>0, <2>1, <2>2 DEF OneHandler, Sound, Exact, ToldOnce, Follows, Serving, Current
  <2>4. Consent'
    BY <1>0, <2>1 DEF Consent
  <2>5. InOrder'
    BY <1>0, <2>1, <2>2 DEF InOrder, Delivered
  <2>6. Bounded'
    <3>1. post[Current].from \in Nat /\ post[Current].got \in Nat
      BY <2>0, PostType
    <3>2. \A q \in Posts : post'[q].st \notin Over =>
             /\ post'[q].sent <= Size[File(q)]
             /\ post'[q].from + post'[q].got <= post'[q].sent
      BY <2>0, <2>1, <2>2, <3>1 DEF Bounded
    <3> QED
      BY <1>0, <2>2, <3>2 DEF Bounded
  <2> QED
    BY <2>3, <2>4, <2>5, <2>6
<1>3. CASE Breaks
  BY <1>0, <1>3, RetryInv DEF Breaks
<1>4. CASE TakesReply
  <2>1. CASE post[Current].st = "ok" /\ NextFile
    <3>1. sender.at = "posting" /\ Serving = Current
      BY <1>4 DEF TakesReply, Serving
    <3>2. \A q \in Posts : post[q].st \in Over
      BY <2>1, <3>1 DEF OneHandler, Over
    <3>3. received[sender.file] = Size[sender.file]
      BY <2>1, <3>1, CurrentType DEF Follows
    <3> QED
      BY <1>0, <2>1, <3>1, <3>2, <3>3, NextFileInv
  <2>2. CASE post[Current].st = "bad" /\ Retry
    BY <1>0, <1>4, <2>2, RetryInv DEF TakesReply
  <2> QED
    BY <1>4, <2>1, <2>2 DEF TakesReply
<1>5. CASE Resumes
  <2>0. /\ sender.at = "progress" /\ request = "accepted"
        /\ \A q \in Posts : post[q].st \in Over
    BY <1>5 DEF Resumes, MayRetry, Calm, Consent
  <2>1. PICK from \in Progress(sender.file) :
           IF Size[sender.file] > 0 /\ from >= Size[sender.file]
           THEN NextFile
           ELSE Posting(sender.file, sender.attempt, from)
    BY <1>5 DEF Resumes
  <2>2. /\ sender.file \in Files /\ sender.attempt \in Attempts /\ from \in Nat
        /\ Size[sender.file] \in Nat /\ received[sender.file] \in Nat
        /\ received[sender.file] <= Size[sender.file]
    BY CurrentType, ProgressType DEF TypeOK, Bounded
  <2>3. from = IF open THEN received[sender.file] ELSE 0
    BY DEF Progress, CounterOf, Calm
  <2>4. from <= Size[sender.file] /\ (open => received[sender.file] = from)
    BY <2>2, <2>3
  <2>5. /\ \A g \in Files : g < sender.file => received[g] = Size[g]
        /\ \A g \in Files : g > sender.file => received[g] = 0
    BY DEF InOrder, Delivered
  <2>6. CASE Size[sender.file] > 0 /\ from >= Size[sender.file]
    <3>1. received[sender.file] = Size[sender.file]
      BY <2>2, <2>3, <2>6
    <3> QED
      BY <1>0, <2>0, <2>1, <2>6, <3>1, NextFileInv
  <2>7. CASE ~(Size[sender.file] > 0 /\ from >= Size[sender.file])
    BY <1>0, <2>0, <2>1, <2>2, <2>4, <2>5, <2>7, PostingInv
  <2> QED
    BY <2>6, <2>7
<1> QED
  BY <1>1, <1>2, <1>3, <1>4, <1>5 DEF Sends

----------------------------------------------------------------------------
(* The receiver.                                                           *)

\* What Bounded and Follows say of the handler that serves file f.
HandlerOk(h, f, r, isOpen) ==
  /\ r <= Size[f]
  /\ h.st \notin Over => h.sent <= Size[f] /\ h.from + h.got <= h.sent
  /\ h.st \in {"new", "looked", "opened"} => h.got = 0
  /\ h.st \in {"opened", "reading"} => h.start = h.from
  /\ h.st = "new" /\ isOpen => r = h.from
  /\ h.st \in {"looked", "opened"} => r = h.from
  /\ h.st = "reading" => r = h.from + h.got
  /\ h.st \in {"flushing", "complete", "last", "ok"} => r = Size[f]

\* Only the handler being served takes a step, and only after a yes.
LEMMA ServingOnly ==
  ASSUME TypeOK, TransferInv, NEW p \in Posts, Receives(p)
  PROVE  /\ post[p].st \notin Over
         /\ p = Serving /\ File(p) = sender.file
         /\ request = "accepted"
         /\ sender.at \in {"posting", "progress", "err"}
         /\ HandlerOk(post[p], File(p), received[File(p)], open)
<1>1. post[p].st \notin Over /\ post[p].st # "none"
  BY DEF Receives, LooksUp, Opens, OpenFails, StoresCounter, Reads, LosesChunk, NoticesLoss,
         SeesCut, SeesEnd, Completes, LooksForRest, EndsSession, Dropped, At, Over, Awaits
<1>2. p = Serving /\ File(p) = sender.file
  BY <1>1, CurrentType DEF TransferInv, OneHandler
<1>3. request = "accepted"
  BY <1>1 DEF TransferInv, Consent, NotCalled
<1>4. sender.at \in {"posting", "progress", "err"}
  BY <1>1 DEF TransferInv, InOrder, TypeOK, Places, Over
<1>5. File(p) \in Files
  BY PostType
<1>6. HandlerOk(post[p], File(p), received[File(p)], open)
  BY <1>1, <1>2, <1>5 DEF TransferInv, Bounded, Follows, HandlerOk
<1> QED
  BY <1>1, <1>2, <1>3, <1>4, <1>6

\* A handler leaves the other handlers, the other files and the sender alone.
LEMMA OthersAlone ==
  ASSUME TypeOK, NEW p \in Posts, Receives(p)
  PROVE  /\ \A q \in Posts : q # p => post'[q] = post[q]
         /\ \A g \in Files : g # File(p) => received'[g] = received[g]
         /\ sender' = sender /\ request' = request /\ granted' = granted
         /\ open' => open
<1>0. File(p) \in Files /\ received \in [Files -> Nat] /\ post \in [Posts -> Handlers]
  BY PostType DEF TypeOK
<1>1. \A q \in Posts : q # p => post'[q] = post[q]
  BY <1>0 DEF Receives, LooksUp, Opens, OpenFails, StoresCounter, Reads, LosesChunk,
     NoticesLoss, SeesCut, SeesEnd, Completes, LooksForRest, EndsSession, Dropped, Goes
<1>2. \A g \in Files : g # File(p) => received'[g] = received[g]
  BY <1>0 DEF Receives, LooksUp, Opens, OpenFails, StoresCounter, Reads, LosesChunk,
     NoticesLoss, SeesCut, SeesEnd, Completes, LooksForRest, EndsSession, Dropped, fileVars
<1>3. sender' = sender /\ request' = request /\ granted' = granted /\ (open' => open)
  BY DEF Receives, LooksUp, Opens, OpenFails, StoresCounter, Reads, LosesChunk,
     NoticesLoss, SeesCut, SeesEnd, Completes, LooksForRest, EndsSession, Dropped, askVars
<1> QED
  BY <1>1, <1>2, <1>3

\* Each step of a handler leaves it one whose counter follows it.
LEMMA HandlerSteps ==
  ASSUME Calm, TypeOK, TransferInv, NEW p \in Posts, Receives(p)
  PROVE  HandlerOk(post'[p], File(p), received'[File(p)], open')
<1> DEFINE f == File(p)
<1> DEFINE h == post[p]
<1>0. /\ f \in Files /\ Size[f] \in Nat /\ received \in [Files -> Nat]
      /\ post \in [Posts -> Handlers] /\ h \in Handlers
      /\ h.from \in Nat /\ h.got \in Nat /\ h.sent \in Nat /\ h.start \in Nat
      /\ received[f] \in Nat
  BY PostType DEF TypeOK
<1>1. HandlerOk(h, f, received[f], open) /\ (open' => open)
  BY ServingOnly, OthersAlone
<1>2. ASSUME NEW s \in States, Goes(p, s)
      PROVE  /\ post'[p].st = s
             /\ post'[p].from = h.from /\ post'[p].start = h.start
             /\ post'[p].got = h.got /\ post'[p].sent = h.sent
  BY <1>2, GoesPost
<1>3. CASE LooksUp(p)
  <2>1. CASE open
    <3>1. Goes(p, "looked") /\ h.st = "new" /\ received' = received
      BY <1>3, <2>1 DEF LooksUp, At, fileVars
    <3> QED
      BY <1>0, <1>1, <1>2, <2>1, <3>1 DEF HandlerOk, States, Awaits, Over
  <2>2. CASE ~open
    <3>1. Goes(p, "bad") /\ received' = received
      BY <1>3, <2>2 DEF LooksUp, fileVars
    <3> QED
      BY <1>0, <1>1, <1>2, <3>1 DEF HandlerOk, States, Over
  <2> QED
    BY <2>1, <2>2
<1>4. CASE Opens(p)
  <2>1. /\ h.st = "looked" /\ received' = received
        /\ post' = [post EXCEPT ![p] = [h EXCEPT !.st = "opened", !.start = h.from]]
    BY <1>0, <1>4 DEF Opens, At
  <2>2. post'[p] = [h EXCEPT !.st = "opened", !.start = h.from]
    BY <1>0, <2>1
  <2>3. /\ post'[p].st = "opened" /\ post'[p].start = h.from
        /\ post'[p].from = h.from /\ post'[p].got = h.got /\ post'[p].sent = h.sent
    BY <1>0, <2>2 DEF Handlers
  <2> QED
    BY <1>0, <1>1, <2>1, <2>3 DEF HandlerOk, Over
<1>5. CASE StoresCounter(p)
  <2>1. /\ h.st = "opened" /\ Goes(p, "reading")
        /\ received'[f] = h.from
    BY <1>0, <1>5 DEF StoresCounter, At
  <2> QED
    BY <1>0, <1>1, <1>2, <2>1 DEF HandlerOk, States, Awaits, Over
<1>6. CASE Reads(p)
  <2>1. /\ h.st = "reading" /\ h.from + h.got < h.sent
        /\ received'[f] = received[f] + 1
        /\ post' = [post EXCEPT ![p] = [h EXCEPT !.got = @ + 1]]
    BY <1>0, <1>6 DEF Reads, At, Arrived
  <2>2. /\ post'[p].st = h.st /\ post'[p].start = h.start
        /\ post'[p].from = h.from /\ post'[p].got = h.got + 1 /\ post'[p].sent = h.sent
    BY <1>0, <2>1 DEF Handlers
  <2> QED
    BY <1>0, <1>1, <2>1, <2>2 DEF HandlerOk, Over
<1>7. CASE SeesEnd(p)
  <2>1. /\ h.st = "reading" /\ h.got = Size[f] - h.from /\ Goes(p, "flushing")
        /\ received' = received
    BY <1>7 DEF SeesEnd, At, Left, fileVars
  <2> QED
    BY <1>0, <1>1, <1>2, <2>1 DEF HandlerOk, States, Awaits, Over
<1>8. CASE Completes(p)
  <2>1. h.st = "flushing" /\ Goes(p, "complete") /\ received' = received
    BY <1>8 DEF Completes, At
  <2> QED
    BY <1>0, <1>1, <1>2, <2>1 DEF HandlerOk, States, Over
<1>9. CASE LooksForRest(p)
  <2>1. h.st = "complete" /\ (Goes(p, "last") \/ Goes(p, "ok")) /\ received' = received
    BY <1>9 DEF LooksForRest, At, fileVars
  <2> QED
    BY <1>0, <1>1, <1>2, <2>1 DEF HandlerOk, States, Over
<1>10. CASE EndsSession(p)
  <2>1. h.st = "last" /\ Goes(p, "ok") /\ received' = received
    BY <1>10 DEF EndsSession, At, fileVars
  <2> QED
    BY <1>0, <1>1, <1>2, <2>1 DEF HandlerOk, States, Over
<1>11. CASE NoticesLoss(p) \/ SeesCut(p)
  <2>1. Goes(p, "bad") /\ received' = received
    BY <1>11 DEF NoticesLoss, SeesCut, fileVars
  <2> QED
    BY <1>0, <1>1, <1>2, <2>1 DEF HandlerOk, States, Over
<1>12. CASE Dropped(p)
  <2>1. Goes(p, "dropped") /\ received' = received
    BY <1>12 DEF Dropped, fileVars
  <2> QED
    BY <1>0, <1>1, <1>2, <2>1 DEF HandlerOk, States, Over
<1>13. ~OpenFails(p) /\ ~LosesChunk(p)
  BY DEF OpenFails, LosesChunk, Calm
<1> QED
  BY <1>3, <1>4, <1>5, <1>6, <1>7, <1>8, <1>9, <1>10, <1>11, <1>12, <1>13 DEF Receives

\* The files delivered stay counted, the ones to come stay untouched.
LEMMA HandlerInv ==
  ASSUME Calm, TypeOK, TransferInv, NEW p \in Posts, Receives(p)
  PROVE  OneHandler' /\ Consent' /\ Bounded' /\ Follows' /\ InOrder'
<1>0. /\ p = Serving /\ File(p) = sender.file /\ request = "accepted"
      /\ sender.at \in {"posting", "progress", "err"}
      /\ File(p) \in Files /\ File(p) \in Nat
      /\ \A g \in Files : g \in Nat
  BY ServingOnly, PostType, TransferAssumption DEF Files
<1>1. /\ \A q \in Posts : q # p => post'[q] = post[q]
      /\ \A g \in Files : g # File(p) => received'[g] = received[g]
      /\ sender' = sender /\ request' = request /\ granted' = granted
      /\ (open' => open) /\ Serving' = Serving
  BY OthersAlone DEF Serving, Current
<1>2. HandlerOk(post'[p], File(p), received'[File(p)], open')
  BY HandlerSteps
<1>3. \A q \in Posts : q # p => post[q].st \in Over
  BY <1>0 DEF TransferInv, OneHandler
<1>4. OneHandler' /\ Consent'
  BY <1>0, <1>1, <1>3 DEF OneHandler, TransferInv, Consent
<1>5. Bounded'
  <2>1. \A g \in Files : received'[g] <= Size[g]
    BY <1>0, <1>1, <1>2 DEF HandlerOk, TransferInv, Bounded
  <2> QED
    BY <1>1, <1>2, <1>3, <2>1 DEF HandlerOk, Bounded, Over
<1>6. Follows'
  BY <1>0, <1>1, <1>2, <1>3 DEF HandlerOk, Follows, Over
<1>7. InOrder'
  BY <1>0, <1>1 DEF TransferInv, InOrder, Delivered
<1> QED
  BY <1>4, <1>5, <1>6, <1>7

\* A chunk is counted with its place on the disk, and a file is emptied only
\* when nothing of it is counted.
LEMMA SoundStep ==
  ASSUME Calm, TypeOK, TransferInv, NEW p \in Posts, Receives(p)
  PROVE  Sound' /\ Exact'
<1> DEFINE f == File(p)
<1> DEFINE h == post[p]
<1>0. /\ f \in Files /\ Path(p) \in Paths /\ Path(p) = PathOf[f]
      /\ h.from \in Nat /\ h.got \in Nat /\ h.start \in Nat
      /\ received \in [Files -> Nat] /\ received[f] \in Nat
      /\ disk \in [Paths -> SUBSET Chunks]
      /\ \A g \in Files : PathOf[g] \in Paths /\ (PathOf[g] = PathOf[f] => g = f)
  BY PostType, TransferAssumption DEF TypeOK, Path, File, Calm
<1>1. HandlerOk(h, f, received[f], open)
  BY ServingOnly
<1>2. Sound /\ Exact
  BY DEF TransferInv
<1>3. CASE Opens(p)
  <2>1. /\ received' = received /\ h.st = "looked"
        /\ disk' = [disk EXCEPT ![PathOf[f]] = IF h.from > 0 THEN @ ELSE {}]
    BY <1>0, <1>3 DEF Opens, At
  <2>2. received[f] = h.from
    BY <1>1, <2>1 DEF HandlerOk
  <2>3. CASE h.from > 0
    <3>1. disk' = disk
      BY <1>0, <2>1, <2>3
    <3> QED
      BY <1>2, <2>1, <3>1 DEF Sound, Exact
  <2>4. CASE ~(h.from > 0)
    <3>1. received[f] = 0
      BY <1>0, <2>2, <2>4
    <3>2. \A g \in Files : g # f => disk'[PathOf[g]] = disk[PathOf[g]]
      BY <1>0, <2>1
    <3> QED
      BY <1>2, <2>1, <3>1, <3>2 DEF Sound, Exact
  <2> QED
    BY <2>3, <2>4
<1>4. CASE StoresCounter(p)
  <2>1. /\ disk' = disk /\ h.st = "opened"
        /\ received' = [received EXCEPT ![f] = h.from]
    BY <1>4 DEF StoresCounter, At
  <2>2. received' = received
    BY <1>0, <1>1, <2>1 DEF HandlerOk
  <2> QED
    BY <1>2, <2>1, <2>2 DEF Sound, Exact
<1>5. CASE Reads(p)
  <2> DEFINE n == received[f] + 1
  <2>1. h.st = "reading"
    BY <1>5 DEF Reads, At
  <2>2. n = h.start + h.got + 1 /\ n = h.from + h.got + 1
    BY <1>0, <1>1, <2>1 DEF HandlerOk
  <2>3. /\ received' = [received EXCEPT ![f] = @ + 1]
        /\ disk' = [disk EXCEPT ![PathOf[f]] = {d \in @ : d.pos # n} \cup {Chunk(n, f, n)}]
    BY <1>0, <1>5, <2>2 DEF Reads
  <2>4. \A g \in Files : g # f =>
           received'[g] = received[g] /\ disk'[PathOf[g]] = disk[PathOf[g]]
    BY <1>0, <2>3
  <2>5. /\ received'[f] = n
        /\ disk'[PathOf[f]] = {d \in disk[PathOf[f]] : d.pos # n} \cup {Chunk(n, f, n)}
    BY <1>0, <2>3
  <2>6. \A k \in 1 .. n : Chunk(k, f, k) \in disk'[PathOf[f]]
    <3>1. SUFFICES ASSUME NEW k \in 1 .. n, k # n
                   PROVE  Chunk(k, f, k) \in disk'[PathOf[f]]
      BY <2>5
    <3>2. k \in 1 .. received[f]
      BY <1>0, <3>1
    <3>3. Chunk(k, f, k) \in disk[PathOf[f]] /\ Chunk(k, f, k).pos # n
      BY <1>0, <1>2, <3>1, <3>2 DEF Sound, Chunk
    <3> QED
      BY <2>5, <3>3
  <2>7. \A k \in 1 .. Size[f] : Chunk(k, f, k) \in disk'[PathOf[f]] => k <= n
    <3>1. SUFFICES ASSUME NEW k \in 1 .. Size[f], Chunk(k, f, k) \in disk'[PathOf[f]], k # n
                   PROVE  k <= n
      BY <1>0, TransferAssumption
    <3>2. Chunk(k, f, k) \in disk[PathOf[f]]
      BY <2>5, <3>1 DEF Chunk
    <3> QED
      BY <1>0, <1>2, <3>1, <3>2, TransferAssumption DEF Exact
  <2> QED
    BY <1>0, <1>2, <2>4, <2>5, <2>6, <2>7 DEF Sound, Exact
<1>6. CASE ~Opens(p) /\ ~StoresCounter(p) /\ ~Reads(p)
  <2>1. received' = received /\ disk' = disk
    BY <1>6 DEF Receives, LooksUp, OpenFails, LosesChunk, NoticesLoss, SeesCut, SeesEnd,
       Completes, LooksForRest, EndsSession, Dropped, fileVars, Calm
  <2> QED
    BY <1>2, <2>1 DEF Sound, Exact
<1> QED
  BY <1>3, <1>4, <1>5, <1>6

\* The session is announced by the handler that finds it open and all done, and
\* closed with the announcement.
LEMMA ToldStep ==
  ASSUME TypeOK, TransferInv, NEW p \in Posts, Receives(p)
  PROVE  ToldOnce'
<1>0. /\ \A q \in Posts : q # p => post'[q] = post[q] /\ post[q].st # "last"
      /\ (open' => open) /\ told \in Nat /\ post \in [Posts -> Handlers]
  BY ServingOnly, OthersAlone DEF TransferInv, OneHandler, Over, TypeOK
<1>1. ToldOnce
  BY DEF TransferInv
<1>2. CASE EndsSession(p)
  <2>1. /\ post[p].st = "last" /\ Goes(p, "ok")
        /\ told' = told + 1 /\ open' = FALSE
    BY <1>2 DEF EndsSession, At
  <2>2. post'[p].st = "ok"
    BY <2>1, GoesPost DEF States, Over
  <2>3. told' = 1
    BY <1>0, <1>1, <2>1 DEF ToldOnce
  <2> QED
    BY <1>0, <2>1, <2>2, <2>3 DEF ToldOnce
<1>3. CASE LooksForRest(p)
  <2>1. told' = told /\ (open \/ Goes(p, "ok"))
    BY <1>3 DEF LooksForRest, eventVars
  <2>2. CASE open
    BY <1>0, <1>1, <2>1, <2>2 DEF ToldOnce
  <2>3. CASE Goes(p, "ok")
    <3>1. post'[p].st = "ok"
      BY <2>3, GoesPost DEF States, Over
    <3> QED
      BY <1>0, <1>1, <2>1, <3>1 DEF ToldOnce
  <2> QED
    BY <2>1, <2>2, <2>3
<1>4. CASE ~EndsSession(p) /\ ~LooksForRest(p)
  <2>1. told' = told
    BY <1>4 DEF Receives, LooksUp, Opens, OpenFails, StoresCounter, Reads, LosesChunk,
       NoticesLoss, SeesCut, SeesEnd, Completes, Dropped, eventVars
  <2>2. post'[p].st # "last"
    BY <1>0, <1>4 DEF Receives, LooksUp, Opens, OpenFails, StoresCounter, Reads, LosesChunk,
       NoticesLoss, SeesCut, SeesEnd, Completes, Dropped, At, Goes, Handlers
  <2> QED
    BY <1>0, <1>1, <2>1, <2>2 DEF ToldOnce
<1> QED
  BY <1>2, <1>3, <1>4

----------------------------------------------------------------------------
(* The theorems.                                                           *)

\* The invariant holds at first.
LEMMA TransferInvInit == Init => TransferInv
<1> SUFFICES ASSUME Init PROVE TransferInv
  OBVIOUS
<1>1. /\ \A p \in Posts : post[p] = NotCalled /\ post[p].st = "none"
      /\ \A f \in Files : received[f] = 0 /\ Size[f] \in Nat /\ f \in Nat
      /\ \A x \in Paths : disk[x] = {}
      /\ told = 0 /\ ~open /\ reported = {} /\ request = "sent"
      /\ sender.at = "asking" /\ sender.file = 1 /\ sender.attempt = 1
  BY TransferAssumption DEF Init, NotCalled, Files
<1>2. OneHandler /\ Consent /\ Bounded /\ Follows /\ Sound /\ ToldOnce
  BY <1>1 DEF OneHandler, Consent, Bounded, Follows, Sound, ToldOnce, Over
<1>3. InOrder
  BY <1>1 DEF InOrder, Delivered, Files
<1>4. Exact
  BY <1>1, TransferAssumption DEF Exact
<1> QED
  BY <1>2, <1>3, <1>4 DEF TransferInv

\* Every step keeps it.
LEMMA TransferInvStep ==
  ASSUME Calm, TypeOK, TransferInv, [Next]_vars
  PROVE  TransferInv'
<1>1. CASE UNCHANGED vars
  BY <1>1 DEF vars, askVars, fileVars, eventVars, TransferInv, OneHandler, Serving, Current,
     Consent, Bounded, Follows, Sound, Exact, InOrder, Delivered, ToldOnce
<1>2. ASSUME NEW p \in Posts, Receives(p)
      PROVE  TransferInv'
  BY <1>2, HandlerInv, SoundStep, ToldStep DEF TransferInv
<1> QED
  BY <1>1, <1>2, QuestionInv, SendsInv DEF Next

\* Type correctness of both ends, whatever overlaps, is lost or fails.
THEOREM TransferTypes == Spec => []TypeOK
<1>1. Init => TypeOK
  BY TypesInit
<1>2. TypeOK /\ [Next]_vars => TypeOK'
  BY TypesStep
<1> QED
  BY <1>1, <1>2, PTL DEF Spec

\* One handler is at work, its counter follows it, what is counted is on the
\* disk, and the files are sent in order: inductive together with the types.
THEOREM TransferInvariant ==
  ASSUME Calm
  PROVE  Spec => [](TypeOK /\ TransferInv)
<1>1. Init => TypeOK /\ TransferInv
  BY TypesInit, TransferInvInit
<1>2. TypeOK /\ TransferInv /\ [Next]_vars => (TypeOK /\ TransferInv)'
  BY TypesStep, TransferInvStep
<1> QED
  BY <1>1, <1>2, PTL DEF Spec

\* What the progress endpoint answers is on the disk: no resume leaves a hole.
THEOREM ResumesAreSound ==
  ASSUME Calm
  PROVE  Spec => []ResumeIsSound
<1>1. TypeOK /\ TransferInv => ResumeIsSound
  BY DEF TransferInv, Sound, ResumeIsSound
<1> QED
  BY <1>1, TransferInvariant, PTL

\* A file whose sender was told Ok is whole at the receiver.
THEOREM DeliveredFilesAreWhole ==
  ASSUME Calm
  PROVE  Spec => []DeliveredIsWhole
<1>1. TypeOK /\ TransferInv => DeliveredIsWhole
  BY DEF TransferInv, InOrder, Sound, DeliveredIsWhole, Whole
<1> QED
  BY <1>1, TransferInvariant, PTL

\* A session is announced at most once, however the retries fall.
THEOREM AnnouncedOnce ==
  ASSUME Calm
  PROVE  Spec => []DoneOnce
<1>1. TypeOK /\ TransferInv => DoneOnce
  BY DEF TransferInv, ToldOnce, DoneOnce
<1> QED
  BY <1>1, TransferInvariant, PTL

\* Until somebody says yes no request for a file leaves and no handler runs.
LEMMA ConsentStep ==
  ASSUME TypeOK, Consent, [Next]_vars
  PROVE  Consent'
<1>1. CASE UNCHANGED vars
  BY <1>1 DEF vars, askVars, fileVars, eventVars, Consent
<1>2. CASE Question
  <2>1. UNCHANGED <<post, disk, reported, told>>
    BY <1>2 DEF Question, PrepareArrives, Decides, ApprovalExpires, ExpiredIsNo,
       OpensSession, AskBreaks, Cancel, fileVars, eventVars
  <2>2. \/ sender' = sender
        \/ sender.at = "asking" /\ sender' = [sender EXCEPT !.at = "err"]
    BY <1>2 DEF Question, PrepareArrives, Decides, ApprovalExpires, ExpiredIsNo,
       OpensSession, AskBreaks, Cancel
  <2>3. /\ sender'.attempt = sender.attempt
        /\ sender'.at = sender.at \/ sender'.at = "err"
    BY <2>2 DEF TypeOK
  <2>4. request' # "accepted" => request # "accepted" /\ (open' => open)
    BY <1>2 DEF Question, PrepareArrives, Decides, ApprovalExpires, ExpiredIsNo,
       OpensSession, AskBreaks, Cancel
  <2> QED
    BY <1>2, <2>1, <2>3, <2>4, GrantedFirst DEF Consent
<1>3. CASE Sends
  <2>1. CASE TakesAnswer /\ request # "accepted"
    <3>1. /\ sender' = [sender EXCEPT !.at = "err"]
          /\ UNCHANGED <<post, disk, reported, told, open, granted, request>>
      BY <2>1 DEF TakesAnswer, askVars, fileVars, eventVars
    <3> QED
      BY <3>1 DEF Consent, TypeOK
  <2>2. request' = request /\ granted' = granted
    BY <1>3 DEF Sends, TakesAnswer, SendsChunk, Breaks, TakesReply, Resumes, askVars
  <2> QED
    BY <1>3, <2>1, <2>2 DEF Sends, SendsChunk, Breaks, TakesReply, Resumes, Consent
<1>4. ASSUME NEW p \in Posts, Receives(p)
      PROVE  Consent'
  <2>1. request = "accepted"
    BY <1>4 DEF Consent, NotCalled, Receives, LooksUp, Opens, OpenFails, StoresCounter,
       Reads, LosesChunk, NoticesLoss, SeesCut, SeesEnd, Completes, LooksForRest,
       EndsSession, Dropped, At, Awaits
  <2>2. request' = request /\ granted' = granted
    BY <1>4, OthersAlone
  <2> QED
    BY <2>1, <2>2 DEF Consent
<1> QED
  BY <1>1, <1>2, <1>3, <1>4 DEF Next

\* Whatever overlaps, is lost or fails, nothing is on the disk and no session
\* open before somebody said yes.
THEOREM ConsentComesFirst == Spec => []NothingWithoutYes
<1>1. Init => TypeOK /\ Consent
  BY TypesInit, TransferInvInit DEF TransferInv
<1>2. TypeOK /\ Consent /\ [Next]_vars => (TypeOK /\ Consent)'
  BY TypesStep, ConsentStep
<1>3. Consent => NothingWithoutYes
  BY DEF Consent, NothingWithoutYes
<1> QED
  BY <1>1, <1>2, <1>3, PTL DEF Spec

\* Who says that the session is done has seen every file completed, and every
\* completed file was announced.
Tallied ==
  /\ \A f \in Files : completed[f] => f \in reported
  /\ \A p \in Posts : post[p].st = "last" => \A f \in Files : completed[f]
  /\ told > 0 => \A f \in Files : completed[f]

\* No step takes a completed file back.
LEMMA TalliedStep ==
  ASSUME TypeOK, Tallied, [Next]_vars
  PROVE  Tallied'
<1>1. CASE UNCHANGED vars
  BY <1>1 DEF vars, askVars, fileVars, eventVars, Tallied
<1>2. CASE Question
  <2>1. UNCHANGED <<post, completed, reported, told>>
    BY <1>2 DEF Question, PrepareArrives, Decides, ApprovalExpires, ExpiredIsNo,
       OpensSession, AskBreaks, Cancel, fileVars, eventVars
  <2> QED
    BY <2>1 DEF Tallied
<1>3. CASE Sends
  <2>1. UNCHANGED <<completed, reported, told>>
    BY <1>3 DEF Sends, TakesAnswer, SendsChunk, Breaks, TakesReply, Resumes, fileVars, eventVars
  <2>2. \A q \in Posts : post'[q].st = "last" => post[q].st = "last"
    <3>1. ASSUME NEW f \in Files, NEW a \in Attempts, NEW from \in Nat, Posting(f, a, from)
          PROVE  \A q \in Posts : post'[q].st = "last" => post[q].st = "last"
      BY <3>1, PostingPost DEF NotCalled
    <3>2. NextFile => \A q \in Posts : post'[q].st = "last" => post[q].st = "last"
      <4>1. sender.file < NFiles => sender.file + 1 \in Files /\ 1 \in Attempts /\ 0 \in Nat
        BY TransferAssumption DEF TypeOK, Files, Attempts
      <4> QED
        BY <3>1, <4>1 DEF NextFile
    <3>3. CASE TakesAnswer
      <4>1. 1 \in Files /\ 1 \in Attempts /\ 0 \in Nat
        BY TransferAssumption DEF Files, Attempts
      <4> QED
        BY <3>1, <3>3, <4>1 DEF TakesAnswer
    <3>4. CASE SendsChunk
      BY <3>4, CurrentType, PostType DEF SendsChunk, TypeOK, Handlers
    <3>5. CASE Breaks \/ TakesReply
      BY <3>2, <3>5 DEF Breaks, TakesReply, Retry
    <3>6. CASE Resumes
      <4>1. PICK from \in Progress(sender.file) :
               NextFile \/ Posting(sender.file, sender.attempt, from)
        BY <3>6 DEF Resumes
      <4>2. from \in Nat /\ sender.file \in Files /\ sender.attempt \in Attempts
        BY ProgressType, CurrentType DEF TypeOK
      <4> QED
        BY <3>1, <3>2, <4>1, <4>2
    <3> QED
      BY <1>3, <3>3, <3>4, <3>5, <3>6 DEF Sends
  <2> QED
    BY <2>1, <2>2 DEF Tallied
<1>4. ASSUME NEW p \in Posts, Receives(p)
      PROVE  Tallied'
  <2>0. /\ \A q \in Posts : q # p => post'[q] = post[q]
        /\ File(p) \in Files /\ completed \in [Files -> BOOLEAN]
        /\ post \in [Posts -> Handlers] /\ told \in Nat
    BY <1>4, OthersAlone, PostType DEF TypeOK
  <2>1. CASE Completes(p)
    <3>1. /\ completed' = [completed EXCEPT ![File(p)] = TRUE]
          /\ reported' = reported \cup {File(p)} /\ told' = told
          /\ Goes(p, "complete")
      BY <2>1 DEF Completes
    <3>2. post'[p].st = "complete"
      BY <3>1, GoesPost DEF States
    <3>3. \A f \in Files : completed[f] => completed'[f]
      BY <2>0, <3>1
    <3>4. \A f \in Files : completed'[f] => f \in reported'
      BY <2>0, <3>1 DEF Tallied
    <3> QED
      BY <2>0, <3>1, <3>2, <3>3, <3>4 DEF Tallied
  <2>2. CASE LooksForRest(p)
    <3>1. /\ UNCHANGED <<completed, reported, told>>
          /\ Goes(p, "ok") \/ (Goes(p, "last") /\ \A f \in Files : completed[f])
      BY <2>2 DEF LooksForRest, fileVars, eventVars
    <3>2. post'[p].st = "ok" \/ \A f \in Files : completed[f]
      BY <3>1, GoesPost DEF States, Over
    <3> QED
      BY <2>0, <3>1, <3>2 DEF Tallied
  <2>3. CASE EndsSession(p)
    <3>1. /\ UNCHANGED <<completed, reported>> /\ post[p].st = "last" /\ Goes(p, "ok")
      BY <2>3 DEF EndsSession, fileVars, At
    <3> QED
      BY <2>0, <3>1 DEF Tallied
  <2>4. CASE ~Completes(p) /\ ~LooksForRest(p) /\ ~EndsSession(p)
    <3>1. UNCHANGED <<completed, reported, told>>
      BY <1>4, <2>4 DEF Receives, LooksUp, Opens, OpenFails, StoresCounter, Reads,
         LosesChunk, NoticesLoss, SeesCut, SeesEnd, Dropped, fileVars, eventVars
    <3>2. post'[p].st # "last"
      BY <1>4, <2>0, <2>4 DEF Receives, LooksUp, Opens, OpenFails, StoresCounter, Reads,
         LosesChunk, NoticesLoss, SeesCut, SeesEnd, Dropped, At, Goes, Handlers
    <3> QED
      BY <2>0, <3>1, <3>2 DEF Tallied
  <2> QED
    BY <2>1, <2>2, <2>3, <2>4
<1> QED
  BY <1>1, <1>2, <1>3, <1>4 DEF Next

\* Whatever overlaps, is lost or fails, a session is announced only when every
\* file of it was.
THEOREM AnnouncedWhenAll == Spec => []DoneMeansAll
<1>1. Init => TypeOK /\ Tallied
  BY TypesInit DEF Init, Tallied, NotCalled
<1>2. TypeOK /\ Tallied /\ [Next]_vars => (TypeOK /\ Tallied)'
  BY TypesStep, TalliedStep
<1>3. TypeOK /\ Tallied => DoneMeansAll
  BY DEF TypeOK, Tallied, DoneMeansAll
<1> QED
  BY <1>1, <1>2, <1>3, PTL DEF Spec

\* A file is announced as complete in the step of its handler, whole.
LEMMA AnnouncedWhole ==
  ASSUME TypeOK, TransferInv, [Next]_vars, NEW f \in reported' \ reported
  PROVE  Whole(f)'
<1>1. PICK p \in Posts : Completes(p)
  BY DEF Next, vars, eventVars, Question, PrepareArrives, Decides, ApprovalExpires,
     ExpiredIsNo, OpensSession, AskBreaks, Cancel, Sends, TakesAnswer, SendsChunk, Breaks,
     TakesReply, Resumes, Receives, LooksUp, Opens, OpenFails, StoresCounter, Reads,
     LosesChunk, NoticesLoss, SeesCut, SeesEnd, LooksForRest, EndsSession, Dropped
<1>2. Receives(p) /\ f = File(p) /\ disk' = disk /\ post[p].st = "flushing"
  BY <1>1 DEF Receives, Completes, At
<1>3. received[f] = Size[f]
  BY <1>2, ServingOnly DEF HandlerOk
<1>4. f \in Files
  BY <1>2, PostType
<1> QED
  BY <1>2, <1>3, <1>4 DEF TransferInv, Sound, Whole

\* What is announced as verified is whole.
THEOREM VerifiedFilesAreWhole ==
  ASSUME Calm
  PROVE  Spec => VerifiedIsWhole
<1>1. TypeOK /\ TransferInv /\ [Next]_vars
         => [\A f \in reported' \ reported : Whole(f)']_vars
  BY AnnouncedWhole
<1> QED
  BY <1>1, TransferInvariant, PTL DEF Spec, VerifiedIsWhole
----------------------------------------------------------------------------
(* The delivery.                                                           *)

\* A file is whole exactly when all of it is counted.
LEMMA WholeIsCounted ==
  TypeOK /\ TransferInv => \A f \in Files : Whole(f) <=> received[f] = Size[f]
<1> SUFFICES ASSUME TypeOK, TransferInv, NEW f \in Files
             PROVE  Whole(f) <=> received[f] = Size[f]
  OBVIOUS
<1>1. received[f] \in Nat /\ Size[f] \in Nat /\ received[f] <= Size[f]
  BY TransferAssumption DEF TypeOK, TransferInv, Bounded
<1>2. received[f] = Size[f] => Whole(f)
  BY DEF TransferInv, Sound, Whole
<1>3. ASSUME received[f] # Size[f] PROVE ~Whole(f)
  <2>1. Size[f] \in 1 .. Size[f] /\ ~(Size[f] <= received[f])
    BY <1>1, <1>3
  <2> QED
    BY <2>1 DEF TransferInv, Exact, Whole
<1> QED
  BY <1>2, <1>3

LEMMA WholeIsCountedNext ==
  (TypeOK /\ TransferInv)' => (\A f \in Files : Whole(f) <=> received[f] = Size[f])'
  BY WholeIsCounted, PTL

\* The sender goes on to the next file only when the one before it is all counted.
LEMMA SendsDelivers ==
  ASSUME Calm, TypeOK, TransferInv, Sends
  PROVE  \/ /\ sender'.file = sender.file
            /\ sender'.at = "ok" <=> sender.at = "ok"
         \/ /\ sender.at # "ok" /\ granted /\ received[sender.file] = Size[sender.file]
            /\ IF sender.file < NFiles
               THEN sender'.file = sender.file + 1 /\ sender'.at # "ok"
               ELSE sender'.at = "ok"
<1>1. ASSUME NextFile, sender.at # "ok"
      PROVE  IF sender.file < NFiles
             THEN sender'.file = sender.file + 1 /\ sender'.at # "ok"
             ELSE sender'.at = "ok"
  BY <1>1 DEF NextFile, Posting, TypeOK
<1>2. sender.at \in {"posting", "progress"} => granted
  BY DEF TransferInv, Consent
<1>3. CASE TakesAnswer
  BY <1>3 DEF TakesAnswer, Posting, TypeOK, TransferInv, InOrder
<1>4. CASE SendsChunk
  BY <1>4 DEF SendsChunk
<1>5. ASSUME Retry, sender.at # "ok"
      PROVE  sender'.file = sender.file /\ sender'.at # "ok"
  BY <1>5 DEF Retry, TypeOK
<1>6. CASE Breaks
  BY <1>5, <1>6 DEF Breaks
<1>7. CASE TakesReply
  <2>1. sender.at = "posting"
    BY <1>7 DEF TakesReply
  <2>2. ASSUME post[Current].st = "ok" PROVE received[sender.file] = Size[sender.file]
    BY <2>1, <2>2, CurrentType DEF TransferInv, Follows, Serving
  <2> QED
    BY <1>1, <1>2, <1>5, <1>7, <2>1, <2>2 DEF TakesReply
<1>8. CASE Resumes
  <2>1. /\ sender.at = "progress"
        /\ \E from \in Progress(sender.file) :
              IF Size[sender.file] > 0 /\ from >= Size[sender.file]
              THEN NextFile
              ELSE Posting(sender.file, sender.attempt, from)
    BY <1>8 DEF Resumes
  <2>2. PICK from \in Progress(sender.file) :
              IF Size[sender.file] > 0 /\ from >= Size[sender.file]
              THEN NextFile
              ELSE Posting(sender.file, sender.attempt, from)
    BY <2>1
  <2>3. from = 0 \/ from = received[sender.file]
    BY <2>2 DEF Progress, CounterOf
  <2>4. CASE Size[sender.file] > 0 /\ from >= Size[sender.file]
    <3>1. received[sender.file] = Size[sender.file]
      BY <2>3, <2>4, CurrentType DEF TransferInv, Bounded, TypeOK
    <3> QED
      BY <1>1, <1>2, <2>1, <2>2, <2>4, <3>1
  <2>5. CASE ~(Size[sender.file] > 0 /\ from >= Size[sender.file])
    BY <2>1, <2>2, <2>5 DEF Posting
  <2> QED
    BY <2>4, <2>5
<1> QED
  BY <1>3, <1>4, <1>6, <1>7, <1>8 DEF Sends

\* A handler that takes a step is that of the file being sent, after a yes.
LEMMA ReceivesForTheSender ==
  ASSUME TypeOK, TransferInv, NEW p \in Posts, Receives(p)
  PROVE  File(p) = sender.file /\ sender.at # "ok" /\ granted
<1>1. post[p].st \notin Over
  BY ServingOnly
<1>2. File(p) = sender.file
  BY <1>1, CurrentType DEF TransferInv, OneHandler
<1>3. post[p] # NotCalled
  BY <1>1 DEF NotCalled, Over
<1> QED
  BY <1>1, <1>2, <1>3 DEF TransferInv, InOrder, Consent

\* Every step is one of the delivery, or changes nothing that it promises.
LEMMA StepDelivers ==
  ASSUME Calm, TypeOK, TransferInv, Tallied, [Next]_vars
  PROVE  [Promise!Next]_(Promise!vars)
<1>0. TypeOK' /\ TransferInv'
  BY TypesStep, TransferInvStep
<1>1. \A f \in Files : /\ Whole(f) <=> received[f] = Size[f]
                       /\ Whole(f)' <=> received'[f] = Size[f]
  BY <1>0, WholeIsCounted, WholeIsCountedNext
<1>2. received' = received => {f \in Files : Whole(f)}' = {f \in Files : Whole(f)}
  BY <1>1
<1>3. /\ sender.file \in Files /\ Files = 1 .. NFiles /\ NFiles \in Nat /\ sender.file \in Nat
      /\ granted \in BOOLEAN
  BY CurrentType, TransferAssumption DEF TypeOK, Files
<1> DEFINE count == IF sender.at = "ok" THEN NFiles ELSE sender.file - 1
<1>4. CASE UNCHANGED vars
  BY <1>2, <1>4 DEF vars, askVars, fileVars, eventVars, Promise!vars
<1>5. CASE Question
  <2>1. /\ UNCHANGED <<received, reported, told>>
        /\ granted' = granted \/ granted' = TRUE
        /\ sender'.file = sender.file /\ (sender'.at = "ok" <=> sender.at = "ok")
    BY <1>3, <1>5 DEF Question, PrepareArrives, Decides, ApprovalExpires, ExpiredIsNo,
       OpensSession, AskBreaks, Cancel, fileVars, eventVars, TypeOK
  <2>2. count' = count
    BY <2>1
  <2> QED
    BY <1>2, <2>1, <2>2 DEF Promise!vars, Promise!Next, Promise!Agrees
<1>6. CASE Sends
  <2>1. UNCHANGED <<granted, received, reported, told>>
    BY <1>6 DEF Sends, TakesAnswer, SendsChunk, Breaks, TakesReply, Resumes, askVars,
       fileVars, eventVars
  <2>2. \/ count' = count
        \/ /\ granted /\ received[sender.file] = Size[sender.file]
           /\ count + 1 = sender.file /\ count' = sender.file
    BY <1>3, <1>6, SendsDelivers
  <2>3. received[sender.file] = Size[sender.file] => sender.file \in {f \in Files : Whole(f)}
    BY <1>1, <1>3
  <2> QED
    BY <1>2, <2>1, <2>2, <2>3
    DEF Promise!vars, Promise!Next, Promise!Delivers, Promise!Sending
<1>7. ASSUME NEW p \in Posts, Receives(p)
      PROVE  [Promise!Next]_(Promise!vars)
  <2>1. /\ File(p) = sender.file /\ count + 1 = sender.file /\ granted
    BY <1>3, <1>7, ReceivesForTheSender
  <2>2. UNCHANGED <<sender, granted>> /\ count' = count
    BY <1>7 DEF Receives, LooksUp, Opens, OpenFails, StoresCounter, Reads, LosesChunk,
       NoticesLoss, SeesCut, SeesEnd, Completes, LooksForRest, EndsSession, Dropped, askVars
  <2>3. HandlerOk(post[p], File(p), received[File(p)], open)
    BY <1>7, ServingOnly
  <2>4. CASE Reads(p)
    <3>1. /\ received' = [received EXCEPT ![sender.file] = @ + 1]
          /\ UNCHANGED <<reported, told>>
      BY <2>1, <2>4 DEF Reads, eventVars
    <3>2. \A f \in Files : f # sender.file => received'[f] = received[f]
      BY <3>1 DEF TypeOK
    <3>3. received[sender.file] # Size[sender.file]
      BY <1>0, <1>3, <3>1, TransferAssumption DEF TypeOK, TransferInv, Bounded
    <3>4. \/ {f \in Files : Whole(f)}' = {f \in Files : Whole(f)}
          \/ /\ sender.file \in Files \ {f \in Files : Whole(f)}
             /\ {f \in Files : Whole(f)}' = {f \in Files : Whole(f)} \cup {sender.file}
      <4>1. sender.file \in Files \ {f \in Files : Whole(f)}
        BY <1>1, <1>3, <3>3
      <4>2. \A f \in Files : f # sender.file => (Whole(f)' <=> Whole(f))
        BY <1>1, <3>2
      <4> QED
        BY <1>3, <4>1, <4>2
    <3>5. Files = Promise!Files
      BY DEF Files, Promise!Files
    <3> QED
      BY <2>1, <2>2, <3>1, <3>4, <3>5
      DEF Promise!vars, Promise!Next, Promise!Arrives, Promise!Sending
  <2>5. CASE Completes(p)
    <3>1. /\ UNCHANGED <<received, told>> /\ reported' = reported \cup {sender.file}
          /\ post[p].st = "flushing"
      BY <2>1, <2>5 DEF Completes, At
    <3>2. sender.file \in {f \in Files : Whole(f)}
      BY <1>1, <1>3, <2>1, <2>3, <3>1 DEF HandlerOk
    <3> QED
      BY <1>2, <2>1, <2>2, <3>1, <3>2
      DEF Promise!vars, Promise!Next, Promise!Announces, Promise!Sending
  <2>6. CASE EndsSession(p)
    <3>1. UNCHANGED <<received, reported>> /\ told' = told + 1 /\ post[p].st = "last"
      BY <2>6 DEF EndsSession, fileVars, At
    <3>2. told \in Nat /\ told <= 1 /\ told # 1
      BY <3>1 DEF TypeOK, TransferInv, ToldOnce
    <3>3. told = 0 /\ told' = 1
      BY <3>1, <3>2
    <3>4. reported = Files
      BY <3>1 DEF Tallied, TypeOK
    <3>5. Files = Promise!Files
      BY DEF Files, Promise!Files
    <3> QED
      BY <1>2, <2>2, <3>1, <3>3, <3>4, <3>5 DEF Promise!Next, Promise!Finishes
  <2>7. CASE ~Reads(p) /\ ~Completes(p) /\ ~EndsSession(p)
    <3>1. received' = received \/ StoresCounter(p)
      BY <1>7, <2>7 DEF Receives, LooksUp, Opens, OpenFails, LosesChunk, NoticesLoss,
         SeesCut, SeesEnd, LooksForRest, Dropped, fileVars, Calm
    <3>2. StoresCounter(p) => received' = received
      BY <2>3 DEF StoresCounter, HandlerOk, At, TypeOK
    <3>3. UNCHANGED <<reported, told>>
      BY <1>7, <2>7 DEF Receives, LooksUp, Opens, OpenFails, StoresCounter, LosesChunk,
         NoticesLoss, SeesCut, SeesEnd, LooksForRest, Dropped, eventVars
    <3> QED
      BY <1>2, <2>2, <3>1, <3>2, <3>3 DEF Promise!vars
  <2> QED
    BY <2>4, <2>5, <2>6, <2>7
<1> QED
  BY <1>4, <1>5, <1>6, <1>7 DEF Next

\* Every calm send is a delivery: a file once whole stays whole whatever is retried,
\* and what either side is told follows what arrived, in the order of the files.
THEOREM SendImplementsDelivery ==
  ASSUME Calm
  PROVE  Spec => ImplementsDelivery
<1>1. Init => Promise!Init
  <2> SUFFICES ASSUME Init PROVE Promise!Init
    OBVIOUS
  <2>1. TypeOK /\ TransferInv /\ \A f \in Files : received[f] = 0
    BY TypesInit, TransferInvInit DEF Init
  <2>2. {f \in Files : Whole(f)} = {f \in Files : Size[f] = 0}
    BY <2>1, WholeIsCounted
  <2> QED
    BY <2>2 DEF Init, Promise!Init
<1>2. Init => TypeOK /\ TransferInv /\ Tallied
  BY TypesInit, TransferInvInit DEF Init, Tallied, NotCalled
<1>3. TypeOK /\ TransferInv /\ Tallied /\ [Next]_vars => (TypeOK /\ TransferInv /\ Tallied)'
  BY TypesStep, TransferInvStep, TalliedStep
<1>4. TypeOK /\ TransferInv /\ Tallied /\ [Next]_vars => [Promise!Next]_(Promise!vars)
  BY StepDelivers
<1> QED
  BY <1>1, <1>2, <1>3, <1>4, PTL DEF Spec, ImplementsDelivery, Promise!Spec
=============================================================================
