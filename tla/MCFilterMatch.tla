---------------------------- MODULE MCFilterMatch ----------------------------
(* Few title filters, which differ in id, send mode and one MVE; raw bytes   *)
(* filters of two bytes, that compare 1 and, as may be received, 3 of them.   *)
EXTENDS FilterMatch

MCTitle(id, mode, list) ==
  [title_id |-> id, send_mode |-> mode, mve_list |-> list]
MCMVE(m, v, e) == [mask |-> m, value |-> v, expectation |-> e]

MCTitleFilters ==
  {MCTitle(1, SEND_RECV, <<>>),
   MCTitle(1, RECV_ONLY, <<MCMVE({0}, {}, {0})>>),
   MCTitle(1, SEND_RECV, <<MCMVE({1}, {0, 1}, {})>>),
   MCTitle(2, SEND_ONLY, <<MCMVE({}, {0}, {0})>>)}

MCRawFilters ==
  {[cmp_length |-> 1, raw_bytes |-> <<0, 0>>],
   [cmp_length |-> 1, raw_bytes |-> <<0, 1>>],
   [cmp_length |-> 3, raw_bytes |-> <<1, 1>>]}
=============================================================================
