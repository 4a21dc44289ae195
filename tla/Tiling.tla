------------------------------- MODULE Tiling -------------------------------
(***************************************************************************)
(* The geometry of an upload, app/imaging.py: what the header of a file    *)
(* says before it is decoded, and the tiles an image is cut into, which    *)
(* the reaper computes again from the stored size.  Pixels are not         *)
(* modelled, only where they are.                                          *)
(***************************************************************************)
EXTENDS Naturals, Sequences, FiniteSets

CONSTANTS
    MIN_TILE,       \* a tile narrower or lower than this is skipped (16)
    MAX_TILES,
    HEADER_BYTES    \* how much of the file is read for the probe (65536)

ASSUME TilingAssumption ==
    /\ MIN_TILE \in Nat
    /\ MAX_TILES \in Nat
    /\ HEADER_BYTES \in Nat

Least(a, b) == IF a < b THEN a ELSE b

----------------------------------------------------------------------------
(* probe_image_dimensions()                                                *)

\* Mutant: the length counts its own two bytes, and they are added once more.
SegmentBytesLong(length) == 4 + length

\* A segment with a length: its marker, and what the length counts.
SegmentBytes(length) == 2 + length

StartOfFrame == (192..207) \ {196, 200, 204}    \* SOFn, but not DHT, JPG, DAC
BareMarkers == {1, 216} \cup 208..215           \* TEM, SOI and RSTn: no length

\* Two bytes of data, as they are counted from 0.
Word(data, pos) == 256 * data[pos + 1] + data[pos + 2]

\* The size in the first frame header of a JPEG the scan comes across.  A byte
\* that starts no marker is skipped; two bytes FF in a row are read as a marker
\* with a length, although the first may be a fill byte.
ScanJpeg(data) ==
    LET from[pos \in Nat] ==
            IF pos + 4 > Len(data) THEN {}
            ELSE IF data[pos + 1] # 255 THEN from[pos + 1]
            ELSE LET marker == data[pos + 2]
                 IN CASE marker \in StartOfFrame ->
                            IF pos + 9 > Len(data) THEN {}
                            ELSE {<<Word(data, pos + 7), Word(data, pos + 5)>>}
                      [] marker \in BareMarkers -> from[pos + 2]
                      [] OTHER -> from[pos + SegmentBytes(Word(data, pos + 2))]
    IN from[2]

\* A file has its format, the size cv2.imread() would decode, and its bytes, each
\* a number below 256; of a PNG and a BMP only how many there are matters.
\* The answer is a set of one size, or empty for None.
Probed(file) ==
    LET data == SubSeq(file.bytes, 1, Least(Len(file.bytes), HEADER_BYTES))
        size == <<file.width, file.height>>
    IN CASE file.format = "png"  -> IF Len(data) < 24 THEN {} ELSE {size}
         [] file.format = "bmp"  -> IF Len(data) < 26 THEN {} ELSE {size}
         [] file.format = "jpeg" -> ScanJpeg(data)
         [] OTHER -> {}

----------------------------------------------------------------------------
(* tile_geometries() and split_image_into_tiles()                          *)

Ceil(n, d) == (n + d - 1) \div d

\* The cell at (x, y): the last ones are cut by the edge of the image.
Cell(x, y, width, height, tile_size) ==
    [x |-> x, y |-> y,
     width |-> Least(x + tile_size, width) - x,
     height |-> Least(y + tile_size, height) - y]

\* The cells of the two loops, by row and column, and their order.
Cells(width, height, tile_size) ==
    [c \in (0..Ceil(height, tile_size) - 1) \X (0..Ceil(width, tile_size) - 1) |->
        Cell(c[2] * tile_size, c[1] * tile_size, width, height, tile_size)]

Earlier(c, d) == c[1] < d[1] \/ (c[1] = d[1] /\ c[2] < d[2])

BigEnough(cell) == cell.width >= MIN_TILE /\ cell.height >= MIN_TILE

\* A tile is numbered by the tiles of the list before it.
tile_geometries(width, height, tile_size) ==
    LET cells == Cells(width, height, tile_size)
        big == {c \in DOMAIN cells : BigEnough(cells[c])}
    IN {[tile_id |-> Cardinality({d \in big : Earlier(d, c)}), at |-> cells[c]] :
           c \in big}

\* The check comes before the tiny cells are skipped.
TooManyTiles(width, height, tile_size) ==
    Ceil(width, tile_size) * Ceil(height, tile_size) > MAX_TILES

----------------------------------------------------------------------------
(* reconstruct_image_from_tiles(): the pixels a tile is pasted on.         *)

Pixels(cell) ==
    (cell.x .. cell.x + cell.width - 1) \X (cell.y .. cell.y + cell.height - 1)

Painted(tiles) == UNION {Pixels(tile.at) : tile \in tiles}
=============================================================================
