--------------------------- MODULE MCClipboardSync ---------------------------
(* Two machines that share with each other, and three of which the one in the *)
(* middle shares with both ends; the third opted in to the first in vain.     *)
EXTENDS ClipboardSync

Two == {<<"a", "b">>, <<"b", "a">>}
Chain == {<<"a", "b">>, <<"b", "a">>, <<"b", "c">>, <<"c", "b">>, <<"c", "a">>}
None == {}
=============================================================================
