------------------------ MODULE MCEncoderSettings ------------------------
EXTENDS EncoderSettings
MCGiven ==
  [s \in {"rec", "rtsp"} |-> [fps |-> IF s = "rec" THEN 3 ELSE 2,
                              gop |-> IF s = "rec" THEN 0 ELSE 2, bps |-> 1]]
MCConfigurations ==
  {[dual |-> d, streams |-> S, given |-> MCGiven] :
     d \in BOOLEAN, S \in {{"rtsp"}, {"rec", "rtsp"}}}
=============================================================================
