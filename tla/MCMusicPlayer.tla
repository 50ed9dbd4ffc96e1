--------------------------- MODULE MCMusicPlayer ---------------------------
(* The first two of three tracks are the same file.                        *)
EXTENDS MusicPlayer

CONSTANTS song, tune
TwoMedia    == {song, tune}
BothAudio   == [m \in TwoMedia |-> "audio"]
ThreeTracks == <<song, song, tune>>
=============================================================================
