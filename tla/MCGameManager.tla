---------------------------- MODULE MCGameManager ----------------------------
(***************************************************************************)
(* main on a small board, with batches of one game.                        *)
(***************************************************************************)
EXTENDS GameManager

BatchSizes == <<1, 1>>
=============================================================================
