----------------------------- MODULE MCPlayback ------------------------------
(* A buffer of four cells that starts to play when less than half is free, *)
(* and a stream long enough to fill it, wrap, stop and start again.        *)
EXTENDS Playback

ASSUME MCPlaybackAssumption == PlaybackAssumption

MCN == 4
MCMaxChunk == 2
MCMaxBytes == 7
MCStartBelow == 2
==============================================================================
