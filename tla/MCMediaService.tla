--------------------------- MODULE MCMediaService ---------------------------
(* Small containers: a tape with every damage, two with one kind each, one with *)
(* more files than entries and a file too long to gather; a disc; and neither.  *)
EXTENDS MediaService

Block(name, number, data) ==
  [form |-> "whole", name |-> name, number |-> number, data |-> data,
   locked |-> FALSE, headerCrc |-> TRUE, dataCrc |-> TRUE]
Chunk(blocks) == [type |-> "data", overrun |-> FALSE, blocks |-> blocks]
Gap == [type |-> "gap", overrun |-> FALSE, blocks |-> <<>>]
Tape(chunks) == [magic |-> TRUE, chunks |-> chunks]

\* Two files of one name, one of them in two chunks; then bytes that are no
\* block, and a chunk that runs past the image.
Worn == Tape(<<Chunk(<<Block("a", 0, <<1, 2>>), Block("a", 1, <<3>>)>>), Gap,
               Chunk(<<Block("a", 2, <<>>), Block("a", 0, <<4>>),
                       [Block("b", 0, <<5>>) EXCEPT !.form = "short"],
                       Block("b", 0, <<6>>)>>),
               [Chunk(<<Block("c", 0, <<7>>)>>) EXCEPT !.overrun = TRUE]>>)

\* A chunk that turns bad after its first block, and one that is bad from the
\* start: the first of them is the only issue.
Frayed == Tape(<<Chunk(<<Block("d", 0, <<8>>), [Block("e", 0, <<9>>) EXCEPT !.form = "short"]>>),
                 Chunk(<<[Block("f", 0, <<9>>) EXCEPT !.form = "short"]>>)>>)

\* A well-formed tape whose last chunk is cut off.
Short == Tape(<<Chunk(<<Block("g", 0, <<10>>)>>),
                [Chunk(<<Block("g", 1, <<10>>)>>) EXCEPT !.overrun = TRUE]>>)

\* The second file is too long, the third finds no entry.
Long == Tape(<<Chunk(<<Block("p", 1, <<11, 12, 13>>),
                       [Block("q", 0, <<14, 15, 16>>) EXCEPT !.dataCrc = FALSE],
                       Block("q", 1, <<17, 18>>), Block("r", 0, <<19>>),
                       Block("r", 1, <<20>>)>>)>>)

Disc == [magic |-> FALSE, bytes |-> <<21, 22, 23, 24, 25, 26>>, fileBytes |-> 16, sectors |-> 1,
         dir |-> <<[name |-> "x", printable |-> TRUE, start |-> 2, length |-> 2,
                    locked |-> TRUE],
                   [name |-> "y", printable |-> TRUE, start |-> 1, length |-> 5,
                    locked |-> FALSE]>>]

\* Not a whole number of sectors.
Scrap == [Disc EXCEPT !.bytes = Tail(@)]

MCImages == {Worn, Frayed, Short, Long, Disc, Scrap}
=============================================================================
