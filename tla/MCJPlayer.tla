----------------------------- MODULE MCJPlayer -----------------------------
(* A song, a film and a media that this browser cannot play.               *)
EXTENDS JPlayer

CONSTANTS song, film, odd
ThreeMedia == {song, film, odd}
ThreeKinds == [m \in ThreeMedia |-> CASE m = song -> "audio" [] m = film -> "video"
                                      [] m = odd -> "none"]
=============================================================================
