--------------------------- MODULE MCDictManager ---------------------------
(***************************************************************************)
(* Three files, two of which share their bookname, and room for the old    *)
(* and the new objects of a reload.                                        *)
(***************************************************************************)
EXTENDS DictManager

MCBookName == [f \in Files |-> IF f = "c" THEN "Other" ELSE "Same"]
=============================================================================
