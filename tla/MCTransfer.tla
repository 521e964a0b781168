----------------------------- MODULE MCTransfer ----------------------------
(* Two contents of two chunks and a shorter one, two transfers to two        *)
(* destinations.                                                             *)
EXTENDS Transfer

MCFiles == {<<"a", "b">>, <<"c">>}
MCExpected == <<"a", "b">>
=============================================================================
