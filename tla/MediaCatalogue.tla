--------------------------- MODULE MediaCatalogue ---------------------------
(***************************************************************************)
(* The container decoder of pi-side/pi1mhz/overlay/src/media_catalogue.c:   *)
(* which files a UEF tape or a DFS disc image holds, and the bytes of one.  *)
(*                                                                         *)
(* A UEF image is its chunks, a data chunk the cassette blocks it starts    *)
(* with: [form, name, number, data, locked, headerCrc, dataCrc].  A form    *)
(* other than "whole" stands for bytes that are not a block.  A disc image  *)
(* is its bytes and its directory.  Titles and text layout are left out.    *)
(***************************************************************************)
EXTENDS Integers, FiniteSets, SequencesExt

CONSTANTS
  Sector,       \* DFS_SECTOR
  MaxFiles,     \* DFS_MAX_FILES
  MaxEntries,   \* MEDIA_MAX_ENTRIES
  Gather        \* capacity of the extraction buffer (stream_data)

ASSUME CatalogueAssumption ==
  Sector \in Nat \ {0} /\ MaxFiles \in Nat /\ MaxEntries \in Nat /\ Gather \in Nat

Upto(k, n) == IF k < n THEN k ELSE n

-----------------------------------------------------------------------------
(* UEF cassette streams.                                                    *)

\* No asterisk, a name without its end, or a header or data past the chunk.
Malformed(b) == b.form # "whole"

cfs_decode_block(b) ==
  [name |-> b.name, number |-> b.number, data |-> b.data, locked |-> b.locked,
   crc_ok |-> b.headerCrc /\ (b.data # <<>> => b.dataCrc)]

\* The blocks of a chunk before the first bytes that are none.
Decoded(chunk) ==
  LET bad == SelectInSeq(chunk.blocks, Malformed)
      all == IF chunk.type = "data" THEN chunk.blocks ELSE <<>>
  IN  [i \in 1..Len(IF bad = 0 THEN all ELSE SubSeq(all, 1, bad - 1))
         |-> cfs_decode_block(all[i])]

\* The chunks before the first that runs past the image.
Walked(image) ==
  LET cut == SelectInSeq(image.chunks, LAMBDA c : c.overrun)
  IN  IF cut = 0 THEN image.chunks ELSE SubSeq(image.chunks, 1, cut - 1)

\* What uef_walk hands to its visitor, in order.
uef_walk(image) ==
  FlattenSeq([i \in 1..Len(Walked(image)) |-> Decoded(Walked(image)[i])])

\* What it counts: a chunk that turns bad after a block, a chunk that overruns.
Damaged(chunk) == chunk.type = "data" /\ Len(Decoded(chunk)) \in 1..Len(chunk.blocks) - 1

\* Mutant: a chunk that turns bad is left quietly.
CountsOverrunOnly(image) == IF Len(Walked(image)) < Len(image.chunks) THEN 1 ELSE 0

uef_issues(image) ==
  Len(SelectSeq(Walked(image), Damaged))
    + (IF Len(Walked(image)) < Len(image.chunks) THEN 1 ELSE 0)

\* A block that begins a file: a new name, or block number zero.
NoName == "none"
StartsFile(current, b) == current # b.name \/ b.number = 0

EntryOf(b) ==
  [name |-> b.name, length |-> Len(b.data), offset |-> 0, locked |-> b.locked,
   crc_ok |-> b.crc_ok]

\* Mutant: block number zero does not begin a file.
GroupByName(g, b) ==
  IF g.current # b.name /\ Len(g.entries) < MaxEntries
    THEN [entries |-> Append(g.entries, EntryOf(b)), total |-> g.total + 1,
          current |-> b.name, open |-> TRUE]
    ELSE [g EXCEPT !.entries[Len(g.entries)].length = @ + Len(b.data)]

\* The visitor of the catalogue.  open: the last entry takes continuations.
uef_group_block(g, b) ==
  IF StartsFile(g.current, b)
    THEN LET room == Len(g.entries) < MaxEntries
         IN  [entries |-> IF room THEN Append(g.entries, EntryOf(b)) ELSE g.entries,
              total |-> g.total + 1, current |-> b.name, open |-> room]
  ELSE IF g.open
    THEN [g EXCEPT !.entries[Len(g.entries)].length = @ + Len(b.data),
                   !.entries[Len(g.entries)].crc_ok = @ /\ b.crc_ok]
  ELSE g

uef_group(image) ==
  FoldLeft(uef_group_block, [entries |-> <<>>, total |-> 0, current |-> NoName,
                             open |-> FALSE], uef_walk(image))

\* The visitor of an extraction: it counts files and keeps the wanted one's data.
uef_copy_block(c, b) ==
  LET new  == StartsFile(c.current, b)
      seen == IF new /\ c.current # NoName THEN c.seen + 1 ELSE c.seen
      fits == Len(c.out) + Len(b.data) <= Gather
  IN  [c EXCEPT !.current = b.name, !.seen = seen,
                !.out = IF seen = c.want /\ fits THEN @ \o b.data ELSE @,
                !.overflow = @ \/ (seen = c.want /\ b.data # <<>> /\ ~fits)]

uef_copy(image, index) ==
  FoldLeft(uef_copy_block, [want |-> index, seen |-> 0, current |-> NoName,
                            out |-> <<>>, overflow |-> FALSE], uef_walk(image))

-----------------------------------------------------------------------------
(* DFS disc images: bytes, and of the catalogue the byte with the number of  *)
(* files, the number of sectors, and the directory.                          *)

dfs_plausible(image) ==
  /\ Len(image.bytes) >= 2 * Sector
  /\ Len(image.bytes) % Sector = 0
  /\ image.fileBytes % 8 = 0
  /\ image.fileBytes \div 8 <= MaxFiles
  /\ \A i \in 1..image.fileBytes \div 8 : image.dir[i].printable

\* An entry may claim more than the image holds; it is listed as unsound.
dfs_entry(image, f) ==
  [name |-> f.name, length |-> f.length, offset |-> f.start * Sector,
   locked |-> f.locked, crc_ok |-> f.start * Sector + f.length <= Len(image.bytes)]

dfs_catalogue(image) ==
  LET files == image.fileBytes \div 8
  IN  [entries |-> [i \in 1..Upto(files, MaxEntries) |-> dfs_entry(image, image.dir[i])],
       total |-> files,
       issues |-> Cardinality({i \in 1..files : ~dfs_entry(image, image.dir[i]).crc_ok})
                    + Cardinality({i \in 1..files : /\ image.sectors # 0
                                                   /\ image.dir[i].start > image.sectors})]

-----------------------------------------------------------------------------
(* The entry points.                                                        *)

media_identify(image) ==
  IF image.magic THEN "uef" ELSE IF dfs_plausible(image) THEN "ssd" ELSE "unknown"

media_catalogue(image) ==
  IF media_identify(image) = "uef"
    THEN [entries |-> uef_group(image).entries, total |-> uef_group(image).total,
          issues |-> uef_issues(image)]
    ELSE dfs_catalogue(image)

Refused(status) == [status |-> status, data |-> <<>>]

media_extract(image, index) ==
  IF image.magic
    THEN LET c == uef_copy(image, index)
         IN  IF c.overflow \/ c.current = NoName \/ c.seen < index
               THEN Refused("range")
               ELSE [status |-> "ok", data |-> c.out]
    ELSE LET e == dfs_catalogue(image).entries[index + 1]
         IN  IF index >= Len(dfs_catalogue(image).entries) THEN Refused("range")
             ELSE IF e.offset + e.length > Len(image.bytes) THEN Refused("truncated")
             ELSE IF e.length > Gather THEN Refused("range")
             ELSE [status |-> "ok", data |-> SubSeq(image.bytes, e.offset + 1,
                                                    e.offset + e.length)]

-----------------------------------------------------------------------------
(* What the two walks have to agree on, for an image that is identified.    *)

Listed(image) == 1..Len(media_catalogue(image).entries)
File(image, i) == media_extract(image, i - 1)

\* The length the catalogue gives is the number of bytes an extraction returns.
LengthsAgree(image) ==
  \A i \in Listed(image) : File(image, i).status = "ok" =>
    Len(File(image, i).data) = media_catalogue(image).entries[i].length

\* Every byte of every block belongs to exactly one file, in tape order.
Covers(image) ==
  LET files  == [i \in 1..media_catalogue(image).total |-> File(image, i)]
      blocks == uef_walk(image)
  IN  (\A i \in DOMAIN files : files[i].status = "ok") =>
        FlattenSeq([i \in DOMAIN files |-> files[i].data])
          = FlattenSeq([i \in DOMAIN blocks |-> blocks[i].data])

\* Without issues nothing was passed over, but for data chunks in which not even
\* the first block can be decoded: those the code does not count.
HeadedByBlock(c) == c.type = "data" /\ c.blocks # <<>> /\ ~Malformed(Head(c.blocks))
NothingDropped(image) ==
  LET chunks == SelectSeq(image.chunks, HeadedByBlock)
  IN  uef_issues(image) = 0 =>
        Len(uef_walk(image)) = Len(FlattenSeq([i \in DOMAIN chunks |-> chunks[i].blocks]))
=============================================================================
