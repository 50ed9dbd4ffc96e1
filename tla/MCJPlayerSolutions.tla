------------------------ MODULE MCJPlayerSolutions -------------------------
(* Four formats, one that Flash plays and one that it does not of each     *)
(* kind; browsers that play some of them; options with a name twice and    *)
(* names that jPlayer does not know.                                       *)
EXTENDS JPlayerSolutions

FourFormats  == {"mp3", "oga", "m4v", "ogv"}
SomeBrowsers == [html : {{"mp3"}, {"m4v"}, {"oga", "ogv"}, FourFormats},
                 flash : BOOLEAN, strict : BOOLEAN]
SomeOptions  ==
  [supplied : {<<"mp3", "oga">>, <<"m4v", "oga", "m4v">>, <<"ogv", "mp3", "divx">>,
               <<"mp3", "m4v", "oga", "ogv">>},
   solution : {<<"html", "flash">>, <<"flash", "html">>, <<"silverlight", "html">>},
   preload : BOOLEAN]
SomeMedias   == {{"mp3"}, {"m4v", "oga"}, {"mp3", "oga"}, {"m4v", "ogv"}, FourFormats}
=============================================================================
