----------------------------- MODULE MC_BadgerDB -----------------------------
(* Keys over the bytes 0 and 1 with a shared prefix (0 and 0 1), so that  *)
(* an iteration under the prefix 0 has to stop before a key without it    *)
(* (1), and a start key 1 puts its seek key (0 1) past the first key with  *)
(* the prefix; one value buffer, and values of different lengths.  A     *)
(* badger transaction takes one entry and a batch two operations, so the   *)
(* second Put or Delete of a batch makes badger commit the first early.   *)
EXTENDS BadgerDB

CONSTANT b1

MC_Byte == {0, 1}

MC_Key == {<<0>>, <<0, 1>>, <<1>>}

MC_Value == {<<0>>, <<1, 1>>}

MC_Prefix == {<<0>>}

MC_Start == {<<>>, <<1>>}

=============================================================================
