------------------------------- MODULE Chunking -------------------------------
(***************************************************************************)
(* How the ingestor cuts a section into overlapping pieces of words.       *)
(*                                                                         *)
(* A section is the number of words of its title, 0 if it is "General",    *)
(* and of its body.  A title is one item in front of the words of the body,*)
(* however many words it has, so pieces are ranges of items.               *)
(***************************************************************************)
EXTENDS Integers

CONSTANTS
  Size,      \* items of a piece (400)
  Overlap,   \* items a piece shares with the one before (50)
  MinWords   \* shorter pieces are dropped (8)

ASSUME ChunkAssumption ==
  /\ Size \in Nat \ {0} /\ Overlap \in 0..(Size - 1)
  /\ MinWords \in 1..(Overlap + 1)

Section == [title : Nat, body : Nat]

Step == Size - Overlap

Items(section) == section.body + (IF section.title > 0 THEN 1 ELSE 0)

\* Where _chunk_section starts a piece: at every multiple of Step, until a
\* piece has reached the end of the section.
Starts(section) ==
  {s \in 0..(Items(section) - 1) :
     s % Step = 0 /\ (s = 0 \/ s - Step + Size < Items(section))}

Piece(section, s) ==
  [from |-> s, to |-> IF s + Size < Items(section) THEN s + Size ELSE Items(section)]

WordsIn(section, piece) ==
  piece.to - piece.from
    + (IF piece.from = 0 /\ section.title > 0 THEN section.title - 1 ELSE 0)

\* Mutant of LongEnough: off by one.
MoreThanEnough(section, piece) == WordsIn(section, piece) > MinWords

LongEnough(section, piece) == WordsIn(section, piece) >= MinWords

\* What coverage means: an item is in a piece; a section is worth indexing.
Holds(piece, item) == piece.from <= item /\ item < piece.to

Worthwhile(section) == WordsIn(section, [from |-> 0, to |-> Items(section)]) >= MinWords
=============================================================================
