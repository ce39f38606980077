------------------------------ MODULE SavedValue ------------------------------
(***************************************************************************)
(* What a store of json_store.rs promises to those who use it: a value in  *)
(* memory, and a file that is replaced as a whole by what memory holds, or *)
(* not at all.  A process that dies loses what it did not save and no more;*)
(* a file that cannot be parsed counts as the default and stays as it is.  *)
(***************************************************************************)
CONSTANTS Values, Default,
          Unreadable   \* a file that does not parse

VARIABLES memory, file,
          ok           \* the last change of memory was saved

vars == <<memory, file, ok>>

Parsed == IF file = Unreadable THEN Default ELSE file

Init == /\ file \in Values \cup {Unreadable}
        /\ memory = Default /\ ok = FALSE

\* A change that is still being saved, or whose save failed.
Changes == /\ memory' \in Values /\ ok' = FALSE /\ file' = file
Saves == /\ file' = memory /\ ok' = TRUE /\ memory' = memory
Restarts == /\ memory' = Parsed /\ ok' = FALSE /\ file' = file
\* Something outside the program spoils the file.
Spoiled == /\ file' = Unreadable /\ ok' = FALSE /\ memory' = memory

Next == Changes \/ Saves \/ Restarts \/ Spoiled
Spec == Init /\ [][Next]_vars
=============================================================================
