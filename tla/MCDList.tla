------------------------------ MODULE MCDList -------------------------------
(* Lists of up to MAX_ITEMS items over two values, so that equal values,    *)
(* reused items, single items and both ends occur.                          *)
EXTENDS DList
MCValues == {11, 22}
=============================================================================
