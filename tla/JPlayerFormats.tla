-------------------------- MODULE JPlayerFormats ---------------------------
(***************************************************************************)
(* How jPlayer's _init finds out, from the options supplied and solution   *)
(* and from the browser, which formats each solution supports, and how     *)
(* setMedia picks one for a media.  Options are the sequences of names     *)
(* that are left when the strings are split and trimmed.                   *)
(***************************************************************************)
EXTENDS Naturals, SequencesExt

VideoFormats == {"m4v", "ogv", "webmv", "flv"}
AudioFormats == {"mp3", "m4a", "oga", "wav", "webma", "fla"}
Format       == AudioFormats \cup VideoFormats
FlashFormats == {"mp3", "m4a", "fla", "m4v", "flv"}
Solution     == {"html", "flash"}

KindOf(f) == IF f \in VideoFormats THEN "video" ELSE "audio"

(* The name that has priority among those in S.  The arrays leave out a    *)
(* name that is not valid or comes again: neither is ever the first.       *)
Earliest(names, S) ==
  LET i == SelectInSeq(names, LAMBDA n : n \in S) IN IF i = 0 THEN "none" ELSE names[i]

(* b.html are the formats an element of the browser says it can play,      *)
(* b.flash whether Flash is installed.                                     *)
Formats(o)   == ToSet(o.supplied) \cap Format
Solutions(o) == ToSet(o.solution) \cap Solution

CanPlay(b, o, s) ==
  {f \in Formats(o) : IF s = "html" THEN f \in b.html ELSE b.flash /\ f \in FlashFormats}

Required(o) == {KindOf(f) : f \in Formats(o)}

(* solutions[0], and the kinds that it plays some format of.               *)
Preferred(o) == Earliest(o.solution, Solution)
Covered(b, o) == {KindOf(f) : f \in CanPlay(b, o, Preferred(o))}

(* Mutation of Desired: the second solution must be needed for every kind. *)
DesiredForAll(b, o) ==
  {s \in Solutions(o) : s = Preferred(o) \/ Required(o) \cap Covered(b, o) = {}}

(* The first solution, and another one when there is a kind of media that  *)
(* the first cannot play at all.                                           *)
Desired(b, o) ==
  {s \in Solutions(o) : s = Preferred(o) \/ Required(o) \ Covered(b, o) # {}}

Support(b, o, s) == IF s \in Desired(b, o) THEN CanPlay(b, o, s) ELSE {}

Used(b, o) == {s \in Solutions(o) : Support(b, o, s) # {}}

(* setMedia: the first format that has a URL and a solution, and for it    *)
(* the first solution.  urls are the formats for which a URL is given.     *)
Supporting(b, o, f)  == {s \in Solution : f \in Support(b, o, s)}
Playable(b, o, urls) == {f \in urls \cap Formats(o) : Supporting(b, o, f) # {}}
FormatOf(b, o, urls) == Earliest(o.supplied, Playable(b, o, urls))
SolutionOf(b, o, f)  == Earliest(o.solution, Supporting(b, o, f))

(* Mutation of FormatFor: the support of the solution is not asked for.    *)
FormatForAny(b, o, s, urls) == Earliest(o.supplied, urls)

(* _html_setAudio, _html_setVideo and their Flash counterparts look for    *)
(* the format again.                                                       *)
FormatFor(b, o, s, urls) == Earliest(o.supplied, urls \cap Support(b, o, s))
=============================================================================
