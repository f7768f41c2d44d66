---------------------------- MODULE MC_SelfmaFile ----------------------------
(* Small instances of SelfmaFile for TLC; the bounds are in the cfg files.  *)
EXTENDS SelfmaFile

\* Texts are only compared.
AlikeTexts == Permutations(Texts)
=============================================================================
