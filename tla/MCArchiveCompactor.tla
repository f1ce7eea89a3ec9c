------------------------- MODULE MCArchiveCompactor -------------------------
(* ArchiveCompactor with the daily loop and an operator's --once.           *)
EXTENDS ArchiveCompactor

CONSTANTS daily, once

\* Hour 0 is empty (opened just before a crash); hours 1 and 2 hold lines;
\* hour 3 is corrupt.
MCLines == [h \in Hours |-> IF h = 0 THEN 0 ELSE IF h = 1 THEN 2 ELSE 1]
=============================================================================
