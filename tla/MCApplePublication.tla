------------------------ MODULE MCApplePublication ------------------------
(* Instances of ApplePublication for TLC.                                  *)
EXTENDS ApplePublication, TLC
=============================================================================
