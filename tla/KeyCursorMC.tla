---------------------------- MODULE KeyCursorMC ----------------------------
(***************************************************************************)
(* Instances of KeyCursor: a two-segment index and a one-segment index.    *)
(***************************************************************************)
EXTENDS KeyCursor

Records == {<<1, 1>>, <<1, 2>>, <<2, 1>>}
AllFilters == {Record, {<<1, 2>>, <<2, 1>>}}
NoFilter == {Record}
KeyBuffers == {<<1, 1>>, <<1, 2>>, <<2, 2>>, <<1, 0>>, <<0, 1>>, <<1>>, <<2>>}

\* The second segment of the first index is descending.
MixedIndexes ==
    <<[num |-> 1, segs |-> <<1, 2>>, desc |-> <<FALSE, TRUE>>],
      [num |-> 2, segs |-> <<2>>, desc |-> <<>>]>>

DescendingIndex == <<[num |-> 1, segs |-> <<1>>, desc |-> <<TRUE>>]>>

\* One field.
ThreeValues == {<<1>>, <<2>>, <<3>>}
OneKey      == {<<1>>, <<2>>}
=============================================================================
