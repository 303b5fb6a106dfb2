----------------------------- MODULE RecordingMC ----------------------------
(* Stereo audio for Recording: the split of a file counts samples in one   *)
(* place and frames in another, which are the same only for mono.          *)
EXTENDS Recording

MCAudioFormats == {[channels |-> 2, rate |-> 1]}
=============================================================================
