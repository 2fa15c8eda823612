--------------------------- MODULE MCFileIoHelper ---------------------------
\* Views begin at multiples of 4, pages have 2 bytes, DWORDs 3 bits: a view of
\* 7 bytes that starts at 3 overflows.
EXTENDS FileIoHelper
MCHandles == 1 .. 3
MCSizes == {0, 3, 10}
MCRanges == {<<0, 0>>, <<1, 3>>, <<2, 4>>, <<3, 7>>, <<9, 3>>}
=============================================================================
