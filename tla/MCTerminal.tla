----------------------------- MODULE MCTerminal -----------------------------
(***************************************************************************)
(* Terminals of three by two and two by three cells: a line of three       *)
(* characters fits the one and not the other, and so do three lines.       *)
(***************************************************************************)
EXTENDS Terminal

MCInitialSize == <<3, 2>>

MCSizes == {<<3, 2>>, <<2, 3>>}

MCEscapes == {"CUU", "CUD", "CUF", "CUB", "CHA", "CUP", "VPA", "ED", "EL", "IL", "DL",
              "ICH", "DCH", "ECH", "REP", "SU", "SD", "RI", "DECSTBM", "DECSC", "DECRC",
              "1049"}
=============================================================================
