---------------------------- MODULE ClipboardSync ----------------------------
(***************************************************************************)
(* The shared clipboard (clipboard_sync.rs, the poller of lib.rs, and the  *)
(* two handlers of http_server.rs).  Every machine polls its clipboard; a  *)
(* clip it has not seen and did not just receive is posted, by a task of   *)
(* its own, to each partner, who accepts it if it opted in as well, notes  *)
(* it against echoes and only then writes it to its own clipboard.         *)
(*                                                                         *)
(* A text and an image differ in which memory of the poller they use; what *)
(* they contain, the limits on their size and the encoding are left out.   *)
(***************************************************************************)
EXTENDS Naturals, SequencesExt

CONSTANTS Machines, Texts, Images,
          Nothing,     \* what is on a clipboard that holds neither, and in an empty slot
          Partners,    \* the pairs <<m, p>>: m opted in to p at the start
          Calm,        \* the user copies only when everything has come to rest
          InOrder,     \* posts to a partner do not overtake each other
          WriteFails,  \* writing the clipboard of the system may fail
          MaxCopies, MaxToggles  \* bounds

Clips == Texts \cup Images

ASSUME ClipboardAssumption ==
  /\ Texts \cap Images = {} /\ Nothing \notin Clips /\ IsFiniteSet(Machines)
  /\ Partners \subseteq Machines \X Machines
  /\ {Calm, InOrder, WriteFails} \subseteq BOOLEAN
  /\ MaxCopies \in Nat /\ MaxToggles \in Nat

VARIABLES enabled,   \* the peers each machine opted in to
          slot,      \* last_synced_hash
          clip,      \* what the clipboard of the system holds, and whence
          fresh,     \* the sequence number is not the one last consumed
          poll,      \* how far the poller is: step, what it read of the gates
          last_text, last_image,  \* its memories
          queue,     \* the clips handed over to be fanned out
          posts,     \* the posts under way, oldest first
          copies, toggles,
          latest     \* history: the last copy of a user, [at, clip], and whether
                     \* its machine did not remember it, every opt-in stayed as it was
                     \* since and no system refused to write it

memory == <<last_text, last_image>>
bounds == <<copies, toggles>>
vars == <<enabled, slot, clip, fresh, poll, memory, queue, posts, bounds, latest>>

\* What a clipboard holds: copied on this machine or received from another, and
\* copied while this machine had opted in to nobody.
Held == [what : Clips \cup {Nothing}, from : Machines, private : BOOLEAN]
Blank(m) == [what |-> Nothing, from |-> m, private |-> FALSE]
Resting(m) == [step |-> "idle", has |-> FALSE, moved |-> FALSE, read |-> Blank(m)]

Init ==
  /\ enabled = [m \in Machines |-> {p \in Machines : <<m, p>> \in Partners}]
  /\ slot = [m \in Machines |-> Nothing]
  /\ clip = [m \in Machines |-> Blank(m)]
  /\ fresh = [m \in Machines |-> FALSE]
  /\ poll = [m \in Machines |-> Resting(m)]
  /\ last_text = [m \in Machines |-> Nothing] /\ last_image = [m \in Machines |-> Nothing]
  /\ queue = [m \in Machines |-> <<>>] /\ posts = <<>>
  /\ copies = 0 /\ toggles = 0 /\ latest = [at |-> Nothing, clip |-> Nothing, settled |-> TRUE]

\* Nothing is polled, waits or is under way.
Rest == /\ posts = <<>>
        /\ \A m \in Machines : ~fresh[m] /\ queue[m] = <<>> /\ poll[m].step = "idle"

\* The clipboard of m changes, and with it the sequence number.
Writes(m, held) ==
  /\ clip' = [clip EXCEPT ![m] = held]
  /\ fresh' = [fresh EXCEPT ![m] = TRUE]
  /\ poll' = [poll EXCEPT ![m].moved = TRUE]

\* What the poller saw last time, by kind.
Seen(m, c) == c = IF c \in Texts THEN last_text[m] ELSE last_image[m]
-----------------------------------------------------------------------------
(* The user. *)

Copies(m) ==
  /\ copies < MaxCopies /\ (Calm => Rest)
  /\ \E c \in Clips :
       /\ Writes(m, [what |-> c, from |-> m, private |-> enabled[m] = {}])
       /\ latest' = [at |-> m, clip |-> c, settled |-> slot[m] # c /\ ~Seen(m, c)]
  /\ copies' = copies + 1
  /\ UNCHANGED <<enabled, slot, memory, queue, posts, toggles>>

\* set_clipboard_sync
Toggles(m, p) ==
  /\ toggles < MaxToggles /\ m # p
  /\ enabled' = [enabled EXCEPT ![m] = IF p \in @ THEN @ \ {p} ELSE @ \cup {p}]
  /\ toggles' = toggles + 1
  /\ latest' = [latest EXCEPT !.settled = FALSE]
  /\ UNCHANGED <<slot, clip, fresh, poll, memory, queue, posts, copies>>
-----------------------------------------------------------------------------
(* The thread that polls, every 1.2 s. *)

\* It asks who opted in before it looks at the sequence number.
Wakes(m) ==
  /\ poll[m].step = "idle" /\ fresh[m]
  /\ poll' = [poll EXCEPT ![m].step = "woken", ![m].has = enabled[m] # {}]
  /\ UNCHANGED <<enabled, slot, clip, fresh, memory, queue, posts, bounds, latest>>

\* Seeded bug: what was copied while nobody opted in stays unseen.
LooksUnseeing(m) ==
  /\ poll[m].step = "woken"
  /\ poll' = [poll EXCEPT ![m] = IF poll[m].has THEN [@ EXCEPT !.step = "reading", !.moved = FALSE]
                                 ELSE Resting(m)]
  /\ UNCHANGED <<enabled, slot, clip, fresh, memory, queue, posts, bounds, latest>>

\* With nobody opted in the change counts as seen; or else it is read.
Looks(m) ==
  /\ poll[m].step = "woken"
  /\ IF poll[m].has
     THEN /\ poll' = [poll EXCEPT ![m].step = "reading", ![m].moved = FALSE]
          /\ fresh' = fresh
     ELSE /\ poll' = [poll EXCEPT ![m] = Resting(m)]
          /\ fresh' = [fresh EXCEPT ![m] = FALSE]
  /\ UNCHANGED <<enabled, slot, clip, memory, queue, posts, bounds, latest>>

\* The change that was looked at is consumed, and no later one.
Consumes(m) == /\ fresh' = [fresh EXCEPT ![m] = poll[m].moved]
               /\ poll' = [poll EXCEPT ![m] = Resting(m)]

\* Seeded bug: one memory for both kinds.
RemembersTogether(m, c) == /\ last_text' = [last_text EXCEPT ![m] = c]
                           /\ UNCHANGED last_image

\* It remembers this clip, and forgets what it saw of the other kind.
Remembers(m, c) ==
  /\ last_text' = [last_text EXCEPT ![m] = IF c \in Texts THEN c ELSE Nothing]
  /\ last_image' = [last_image EXCEPT ![m] = IF c \in Texts THEN Nothing ELSE c]

\* Files and other things, and what it saw before, are not for sending;
ReadsKnown(m) ==
  /\ poll[m].step = "reading"
  /\ LET c == clip[m].what IN c = Nothing \/ Seen(m, c)
  /\ Consumes(m)
  /\ UNCHANGED <<enabled, slot, clip, memory, queue, posts, bounds, latest>>

\* nor is what the slot holds, which this machine received or sent;
ReadsEcho(m) ==
  LET c == clip[m].what IN
  /\ poll[m].step = "reading" /\ c # Nothing /\ ~Seen(m, c)
  /\ slot[m] = c
  /\ Remembers(m, c) /\ Consumes(m)
  /\ UNCHANGED <<enabled, slot, clip, queue, posts, bounds, latest>>

\* anything else is new.
ReadsNew(m) ==
  LET c == clip[m].what IN
  /\ poll[m].step = "reading" /\ c # Nothing /\ ~Seen(m, c)
  /\ slot[m] # c
  /\ Remembers(m, c)
  /\ poll' = [poll EXCEPT ![m].step = "noting", ![m].read = clip[m]]
  /\ UNCHANGED <<enabled, slot, clip, fresh, queue, posts, bounds, latest>>

\* A clipboard that another program holds open is read again at the next tick.
ReadFails(m) ==
  /\ poll[m].step = "reading"
  /\ poll' = [poll EXCEPT ![m] = Resting(m)]
  /\ UNCHANGED <<enabled, slot, clip, fresh, memory, queue, posts, bounds, latest>>

Notes(m) ==
  /\ poll[m].step = "noting" /\ Len(queue[m]) < 4
  /\ slot' = [slot EXCEPT ![m] = poll[m].read.what]
  /\ queue' = [queue EXCEPT ![m] = Append(@, poll[m].read)]
  /\ Consumes(m)
  /\ UNCHANGED <<enabled, clip, memory, posts, bounds, latest>>

\* One post for each machine that is opted in to when the clip is fanned out.
Post(m, p, held) == [from |-> m, to |-> p, held |-> held, stage |-> "sent"]
\* Seeded bug: the first partner is the only one.
FansOutToOne(m) ==
  /\ queue[m] # <<>>
  /\ queue' = [queue EXCEPT ![m] = Tail(@)]
  /\ posts' = posts \o IF enabled[m] = {} THEN <<>>
                       ELSE << Post(m, CHOOSE p \in enabled[m] : TRUE, Head(queue[m])) >>
  /\ UNCHANGED <<enabled, slot, clip, fresh, poll, memory, bounds, latest>>

FansOut(m) ==
  /\ queue[m] # <<>>
  /\ queue' = [queue EXCEPT ![m] = Tail(@)]
  /\ posts' = posts \o SetToSeq({Post(m, p, Head(queue[m])) : p \in enabled[m]})
  /\ UNCHANGED <<enabled, slot, clip, fresh, poll, memory, bounds, latest>>
-----------------------------------------------------------------------------
(* The handler of a post at its receiver. *)

First(i) == \A j \in 1 .. i - 1 :
              posts[j].from # posts[i].from \/ posts[j].to # posts[i].to

\* Seeded bug: the receiver writes without noting the clip first.
AcceptsUnnoted(i) ==
  LET p == posts[i] IN
  /\ p.stage = "sent" /\ (InOrder => First(i))
  /\ p.from \in enabled[p.to]
  /\ posts' = [posts EXCEPT ![i].stage = "noted"]
  /\ UNCHANGED <<enabled, slot, clip, fresh, poll, memory, queue, bounds, latest>>

\* Who opted in to the sender notes the clip before it is written.
Accepts(i) ==
  LET p == posts[i] IN
  /\ p.stage = "sent" /\ (InOrder => First(i))
  /\ p.from \in enabled[p.to]
  /\ slot' = [slot EXCEPT ![p.to] = p.held.what]
  /\ posts' = [posts EXCEPT ![i].stage = "noted"]
  /\ UNCHANGED <<enabled, clip, fresh, poll, memory, queue, bounds, latest>>

Refuses(i) ==
  /\ posts[i].stage = "sent" /\ posts[i].from \notin enabled[posts[i].to]
  /\ posts' = RemoveAt(posts, i)
  /\ UNCHANGED <<enabled, slot, clip, fresh, poll, memory, queue, bounds, latest>>

WritesReceived(i) ==
  LET p == posts[i] IN
  /\ p.stage = "noted"
  /\ posts' = RemoveAt(posts, i)
  /\ Writes(p.to, [what |-> p.held.what, from |-> p.from, private |-> FALSE])
  /\ UNCHANGED <<enabled, slot, memory, queue, bounds, latest>>

\* The system refuses; a text is answered with OK all the same.
WriteRefused(i) ==
  /\ WriteFails /\ posts[i].stage = "noted"
  /\ posts' = RemoveAt(posts, i)
  /\ latest' = [latest EXCEPT !.settled = FALSE]
  /\ UNCHANGED <<enabled, slot, clip, fresh, poll, memory, queue, bounds>>
-----------------------------------------------------------------------------
Polls(m) == \/ Wakes(m) \/ Looks(m) \/ ReadsKnown(m) \/ ReadsEcho(m) \/ ReadsNew(m)
            \/ ReadFails(m) \/ Notes(m) \/ FansOut(m)
Handles(i) == Accepts(i) \/ Refuses(i) \/ WritesReceived(i) \/ WriteRefused(i)

Next == \/ \E m \in Machines : Copies(m) \/ Polls(m)
        \/ \E m, p \in Machines : Toggles(m, p)
        \/ \E i \in 1 .. Len(posts) : Handles(i)
Spec == Init /\ [][Next]_vars

\* The poller ticks, the tasks run, a locked clipboard is released in time and
\* posts are handled; nobody makes the user copy.
FairSpec ==
  /\ Spec
  /\ \A m \in Machines :
       /\ WF_vars(Wakes(m) \/ Looks(m) \/ Notes(m)) /\ WF_vars(FansOut(m))
       /\ SF_vars(ReadsKnown(m) \/ ReadsEcho(m) \/ ReadsNew(m))
  /\ WF_vars(\E i \in 1 .. Len(posts) : Handles(i))
-----------------------------------------------------------------------------
\* Every variable holds values of its kind.
TypeOK ==
  /\ enabled \in [Machines -> SUBSET Machines]
  /\ slot \in [Machines -> Clips \cup {Nothing}] /\ clip \in [Machines -> Held]
  /\ fresh \in [Machines -> BOOLEAN]
  /\ poll \in [Machines -> [step : {"idle", "woken", "reading", "noting"},
                            has : BOOLEAN, moved : BOOLEAN, read : Held]]
  /\ last_text \in [Machines -> Texts \cup {Nothing}]
  /\ last_image \in [Machines -> Images \cup {Nothing}]
  /\ queue \in [Machines -> Seq(Held)] /\ \A m \in Machines : Len(queue[m]) <= 4
  /\ posts \in Seq([from : Machines, to : Machines, held : Held, stage : {"sent", "noted"}])
  /\ copies \in 0 .. MaxCopies /\ toggles \in 0 .. MaxToggles
  /\ latest \in [at : Machines \cup {Nothing}, clip : Clips \cup {Nothing}, settled : BOOLEAN]

\* What a machine received is never sent on as if it had been copied there: the
\* slot breaks "the broadcast -> receive -> re-broadcast loop".
NoEcho == \A i \in 1 .. Len(posts) : posts[i].held.from = posts[i].from

\* "content copied while sync was OFF isn't retroactively sent when the user
\* later enables a peer"
NotRetroactive == \A i \in 1 .. Len(posts) : ~posts[i].held.private

\* "When BOTH ends enable sync with each other, the locally copied text
\* propagates to the peer's clipboard": when everything has come to rest, who
\* shares with the machine of the last copy holds that copy, if it is not what
\* that machine remembers to have seen, sent or received last.
LastCopySpreads ==
  Rest /\ latest.at # Nothing /\ latest.settled =>
    \A p \in enabled[latest.at] :
      latest.at \in enabled[p] => clip[p].what = latest.clip

\* Whatever is copied, the machines come to rest: no clip goes round for ever.
Settles == []<>Rest
=============================================================================
