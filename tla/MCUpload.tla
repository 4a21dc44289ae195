------------------------------ MODULE MCUpload ------------------------------
(* Upload for TLC.  The sizes are scaled down: tiles of 3 or 4 pixels, a       *)
(* smallest tile of 2, images of 4 to 9 pixels and 5 tiles at most, and 30     *)
(* bytes of a file that are read for its header.                               *)
EXTENDS Upload, TLC

Bytes(n) == [i \in 1..n |-> 0]

\* A start of frame (C0) with its length, its precision and its size, and a
\* segment APP0 (E0) whose length is given, below 256.
Sof(width, height) == <<255, 192, 0, 17, 8, 0, height, 0, width>>
App(length) == <<255, 224, 0, length>> \o Bytes(length - 2)

Jpeg(width, height, before, filled) ==
    [format |-> "jpeg", width |-> width, height |-> height,
     bytes |-> <<255, 216>> \o before \o Sof(width, height) \o Bytes(10),
     sof_end |-> 2 + Len(before) + 9, filled |-> filled]

Plain(format, width, height, bytes) ==
    [format |-> format, width |-> width, height |-> height, bytes |-> Bytes(bytes),
     sof_end |-> 0, filled |-> FALSE]

\* A PNG that fits, with a thin remainder below or on the right, and a BMP that
\* fits with tiles of 4 only, since it is six tiles of 3.  Too large: a JPEG with a
\* stray byte, a bare marker and a segment, whose frame header ends with the last
\* byte that is read (2 + 1 + 2 + 16 + 9 = 30); one whose frame header ends a byte
\* later; and one with a fill byte before it.
Files ==
    {Plain("png", 5, 4, 40), Plain("bmp", 5, 7, 40),
     Jpeg(9, 11, <<0, 255, 208>> \o App(14), FALSE),
     Jpeg(11, 5, App(18), FALSE), Jpeg(11, 9, <<255>>, TRUE)}

Symmetry == Permutations(Request) \cup Permutations(Client)
=============================================================================
