------------------------------ MODULE MCLayout ------------------------------
(* TLC instance of Layout: a whole disk of five tracks, and images cut off   *)
(* at a sector, inside one, and before the first.                            *)
EXTENDS Layout

MCTrackCount == 5
MCImageLengths == {0, 255, 10240, 20479, 24832, 51200}

LayoutRests ==
  image_length = 0 /\ track = TRACK_COUNT + 1 /\ ordinal = 0 /\ copied = {}
=============================================================================
