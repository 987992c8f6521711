---------------------------- MODULE MCRadarStream ----------------------------
(* A magic word of three bytes, a header of five, frames of up to twelve; a  *)
(* byte, and so the width of a length, is five bits.                         *)
EXTENDS RadarStream

MCMagic == <<2, 1, 4>>

\* The start of the magic word at the end of a frame; the magic word and a length
\* behind a list that is empty; a list in front of presence zones; a list of no
\* known struct; zones behind another TLV, one byte missing; a length whose sum
\* wraps around to 0, and one that takes the walk to the end of what an offset
\* can be, behind a type that no length can be.
MCPayloads ==
  {<<1, 0, 2, 1>>, <<8, 0, 2, 1, 4, 6>>, <<8, 2, 0, 0, 15, 0>>,
   <<8, 3, 0, 0, 0>>, <<9, 0, 15, 2, 5, 1>>, <<8, 25, 1>>, <<13, 23>>}

MCDone == <<7, 3>>
MCPrompt == <<3, 5, 5>>
\* Accepted, refused, both tokens in one another's way, and no answer.
MCReplies == {<<9, 7, 3, 9, 3, 5, 5>>, <<9, 9, 3, 5, 5>>, <<7, 3, 5, 5>>, <<9>>}
=============================================================================
