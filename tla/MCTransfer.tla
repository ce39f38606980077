------------------------------ MODULE MCTransfer ------------------------------
(* Small instances of Transfer for TLC.                                      *)
EXTENDS Transfer, TLC

CONSTANTS photo, notes, memo  \* paths

\* Sizes, in chunks, of the files of a send.
FullAndEmpty == <<2, 1, 0>>
OneAndOne == <<1, 1>>
Three == <<3>>

\* Where they are saved.
Apart == <<photo, notes, memo>>
SameName == <<photo, photo>>
ApartTwo == <<photo, notes>>
Alone == <<photo>>
=============================================================================
