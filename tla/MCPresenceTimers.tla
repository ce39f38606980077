-------------------------- MODULE MCPresenceTimers --------------------------
(* Conditions under which PresenceTimers is looked at.                        *)
EXTENDS PresenceTimers

\* Only datagrams, one of two lost; only probes, with dead peers in the passes;
\* the same with a peer that goes and comes back; and a user who rescans.
Some == {[hellos |-> TRUE, lost |-> 1, answers |-> FALSE, slowest |-> 0,
          dead |-> TRUE, rescans |-> TRUE, flips |-> 0],
         [hellos |-> FALSE, lost |-> 0, answers |-> TRUE, slowest |-> 3,
          dead |-> TRUE, rescans |-> FALSE, flips |-> 2],
         [hellos |-> FALSE, lost |-> 0, answers |-> TRUE, slowest |-> 3,
          dead |-> FALSE, rescans |-> TRUE, flips |-> 2]}

\* Two datagrams in a row are lost; an answer takes four seconds.
Worse == {[hellos |-> TRUE, lost |-> 2, answers |-> FALSE, slowest |-> 0,
           dead |-> FALSE, rescans |-> FALSE, flips |-> 0],
          [hellos |-> FALSE, lost |-> 0, answers |-> TRUE, slowest |-> 4,
           dead |-> TRUE, rescans |-> FALSE, flips |-> 0]}
=============================================================================
