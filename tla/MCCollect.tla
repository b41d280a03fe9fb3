----------------------------- MODULE MCCollect -----------------------------
(* Instances of Collect for TLC: two instances that share an image and one *)
(* with its own, and one image per instance.                               *)
EXTENDS Collect

SharedImages == <<"a", "a", "b">>
OneImageEach == <<"a", "b">>
=============================================================================
