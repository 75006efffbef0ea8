----------------------------- MODULE MCEditText -----------------------------
(* An instance of EditText for TLC: the second of three lines is replaced, *)
(* and its change is kept in the review.                                   *)
EXTENDS EditText

MCReviewed == {<<"a", "nl", "b", "nl", "c", "nl">>}
MCProposed == {<<"a", "nl", "d", "nl", "c", "nl">>}
=============================================================================
