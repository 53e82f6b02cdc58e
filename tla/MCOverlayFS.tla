---------------------------- MODULE MCOverlayFS ----------------------------
(* OverlayFS over a base with a directory, a file in it and a file beside it. *)
EXTENDS OverlayFS, TLC

MCNames == {"d", "f"}
MCBase == <<"d">> :> "dir" @@ <<"d", "f">> :> "old" @@ <<"f">> :> "old"

\* States past a torn window are not explored: what they promise is nothing.
Untorn == Whole
=============================================================================
