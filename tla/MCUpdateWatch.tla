---------------------------- MODULE MCUpdateWatch ----------------------------
(***************************************************************************)
(* Versions 1.9, 1.10, 1.10.0, 1.10-b and 1.1b: a carry in the numeric     *)
(* order, a missing segment, a word, and a segment that mixes digits with  *)
(* a letter.                                                               *)
(***************************************************************************)
EXTENDS UpdateWatch

MCVersions == {<<<<1>>, <<9>>>>, <<<<1>>, <<1, 0>>>>, <<<<1>>, <<1, 0>>, <<0>>>>,
               <<<<1>>, <<1, 0>>, <<11>>>>, <<<<1>>, <<1, 11>>>>}
===============================================================================
