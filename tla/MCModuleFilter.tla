--------------------------- MODULE MCModuleFilter ---------------------------
(* A byte is two fields of five values, so that four MVEs are the most a     *)
(* title filter counts and 24 bytes the most a list holds; ids and raw bytes *)
(* are two bytes, keys one.  126 is <<5, 1>> in the order of the wire.       *)
EXTENDS ModuleFilter

MCTitle(id, mode, n) ==
  [title_id |-> id, send_mode |-> mode,
   mve_list |-> [i \in 1 .. n |-> <<i, 0, 24>>]]
MCTitleFilters == {MCTitle(126, 3, 1), MCTitle(1, 2, 4), MCTitle(1, 3, 5)}
\* A filter is made of one byte or of two, and not of three.  What the
\* constructor leaves to chance: a length that fits and one that does not.
MCRawBytes == {<<1>>, <<20, 1, 1>>}
MCRawFilters == [cmp_length : {2, 20}, raw_bytes : {<<1, 20>>, <<20, 1>>}]
MCKeys == {<<20>>}
=============================================================================
