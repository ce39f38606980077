------------------------------- MODULE Delivery -------------------------------
(***************************************************************************)
(* What a send of several files promises to those who use it, whatever     *)
(* breaks on the way: nothing happens before a yes; the files arrive one   *)
(* after the other, each once and never less of it afterwards; a file is   *)
(* announced, and the sender told that it is there, when all of it is; the *)
(* session is announced when every file was, once.                         *)
(***************************************************************************)
EXTENDS Naturals

CONSTANTS NFiles, \* files of the send, in the order they are sent
          Empty   \* those of no bytes: nothing of them has to arrive

Files == 1 .. NFiles

VARIABLES agreed,    \* the receiver said yes
          whole,     \* files all of which is at the receiver
          announced, \* files the receiver was told of
          delivered, \* how many files the sender was told are there
          done       \* the receiver was told that the session is complete

vars == <<agreed, whole, announced, delivered, done>>

Init == /\ agreed = FALSE /\ whole = Empty
        /\ announced = {} /\ delivered = 0 /\ done = 0

Agrees == /\ agreed' = TRUE
          /\ UNCHANGED <<whole, announced, delivered, done>>

\* The file being sent: the one after those the sender knows to be there.
Sending == delivered + 1

Arrives == /\ agreed /\ Sending \in Files \ whole
           /\ whole' = whole \cup {Sending}
           /\ UNCHANGED <<agreed, announced, delivered, done>>

Announces == /\ agreed /\ Sending \in whole
             /\ announced' = announced \cup {Sending}
             /\ UNCHANGED <<agreed, whole, delivered, done>>

Delivers == /\ agreed /\ Sending \in whole
            /\ delivered' = Sending
            /\ UNCHANGED <<agreed, whole, announced, done>>

Finishes == /\ announced = Files /\ done = 0
            /\ done' = 1
            /\ UNCHANGED <<agreed, whole, announced, delivered>>

Next == Agrees \/ Arrives \/ Announces \/ Delivers \/ Finishes
Spec == Init /\ [][Next]_vars
=============================================================================
