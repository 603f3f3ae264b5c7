---------------------------- MODULE BadgerDBProofs ----------------------------
(***************************************************************************)
(* Proofs about the badger batch: across badger's early commits of full    *)
(* transactions, the WriteBatch holds exactly the latest operations of     *)
(* batch.ops until Write, for every set of keys, values and buffers, every *)
(* transaction limit and every batch size.                                 *)
(***************************************************************************)
EXTENDS BadgerDB, TLAPS

USE BadgerAssumption

(* The invariant holds for a new batch.                                    *)
LEMMA InitBatchIInv == Init => BatchIInv
  BY DEF Init, BatchIInv, BatchHoldsTail

(* Appending one element to a sequence appends it to every tail of the    *)
(* sequence.                                                               *)
LEMMA AppendToTail ==
    ASSUME NEW S, NEW s \in Seq(S), NEW e \in S, NEW k \in 0 .. Len(s)
    PROVE  Append(SubSeq(s, Len(s) - k + 1, Len(s)), e)
             = SubSeq(Append(s, e), Len(s) - k + 1, Len(s) + 1)
  OBVIOUS

(* batch.Put and batch.Delete append the same entry to batch.ops and to    *)
(* the WriteBatch; when badger's transaction is full, it commits what the  *)
(* WriteBatch held, which leaves the new entry alone, the last one of ops. *)
LEMMA AddBatchIInv ==
    ASSUME BatchIInv, NEW e \in Entry, ~wb.done,
           WbAdd(e), ops' = Append(ops, e)
    PROVE  BatchIInv'
  <1>1. ops' \in Seq(Entry) /\ Len(ops') = Len(ops) + 1
    BY DEF BatchIInv
  <1>2. CASE Len(wb.pending) < TxnLimit
    <2>1. wb' = [pending |-> Append(wb.pending, e), done |-> wb.done]
      BY <1>2 DEF WbAdd, BatchIInv
    <2>2. wb' \in [pending : Seq(Entry), done : BOOLEAN]
      BY <2>1 DEF BatchIInv
    <2>3. Len(wb.pending) \in 0 .. Len(ops)
      BY DEF BatchIInv, BatchHoldsTail
    <2>4. wb'.pending = SubSeq(ops', Len(ops') - Len(wb'.pending) + 1, Len(ops'))
      <3>1. wb'.pending = Append(SubSeq(ops, Len(ops) - Len(wb.pending) + 1, Len(ops)), e)
        BY <2>1 DEF BatchIInv, BatchHoldsTail
      <3>2. Len(wb'.pending) = Len(wb.pending) + 1
        BY <2>1 DEF BatchIInv
      <3>3. Append(SubSeq(ops, Len(ops) - Len(wb.pending) + 1, Len(ops)), e)
              = SubSeq(Append(ops, e), Len(ops) - Len(wb.pending) + 1, Len(ops) + 1)
        <4>1. ops \in Seq(Entry)
          BY DEF BatchIInv
        <4> QED
          BY <2>3, <4>1, AppendToTail
      <3>4. Len(ops') - Len(wb'.pending) + 1 = Len(ops) - Len(wb.pending) + 1
        BY <1>1, <2>3, <3>2 DEF BatchIInv
      <3> QED
        BY <1>1, <3>1, <3>3, <3>4
    <2>5. Len(wb'.pending) <= Len(ops') /\ wb'.pending # <<>>
      BY <1>1, <2>1, <2>3 DEF BatchIInv
    <2> QED
      BY <1>1, <2>2, <2>4, <2>5 DEF BatchIInv, BatchHoldsTail
  <1>3. CASE ~(Len(wb.pending) < TxnLimit)
    <2>1. wb' = [pending |-> <<e>>, done |-> wb.done]
      BY <1>3 DEF WbAdd, BatchIInv
    <2>2. wb' \in [pending : Seq(Entry), done : BOOLEAN]
      BY <2>1 DEF BatchIInv
    <2>3. <<e>> = SubSeq(ops', Len(ops') - 1 + 1, Len(ops'))
      BY <1>1 DEF BatchIInv
    <2> QED
      BY <1>1, <2>1, <2>2, <2>3 DEF BatchIInv, BatchHoldsTail
  <1> QED
    BY <1>2, <1>3

(* The strengthened invariant is inductive.                                *)
LEMMA NextBatchIInv == BatchIInv /\ [Next]_vars => BatchIInv'
  <1> SUFFICES ASSUME BatchIInv, [Next]_vars PROVE BatchIInv'
    OBVIOUS
  <1>1. ASSUME NEW k \in Key, NEW b \in Buf, BatchPut(k, b) PROVE BatchIInv'
    <2>1. [op |-> "put", key |-> k, buf |-> b] \in Entry
      BY DEF Entry
    <2> QED
      BY <1>1, <2>1, AddBatchIInv DEF BatchPut
  <1>2. ASSUME NEW k \in Key, BatchDelete(k) PROVE BatchIInv'
    <2>1. [op |-> "del", key |-> k, buf |-> NoBuf] \in Entry
      BY DEF Entry
    <2> QED
      BY <1>2, <2>1, AddBatchIInv DEF BatchDelete
  <1>3. CASE BatchWrite
    <2>1. CASE ~wb.done
      <3>1. wb' = [pending |-> <<>>, done |-> TRUE] /\ UNCHANGED ops
        BY <1>3, <2>1 DEF BatchWrite
      <3> QED
        BY <3>1 DEF BatchIInv, BatchHoldsTail
    <2>2. CASE wb.done
      BY <1>3, <2>2 DEF BatchWrite, BatchIInv, BatchHoldsTail
    <2> QED
      BY <2>1, <2>2
  <1>4. CASE BatchReset
    BY <1>4 DEF BatchReset, BatchIInv, BatchHoldsTail
  <1>5. CASE UNCHANGED <<wb, ops>>
    BY <1>5 DEF BatchIInv, BatchHoldsTail
  <1> QED
    BY <1>1, <1>2, <1>3, <1>4, <1>5
       DEF Next, vars, DbPut, DbDelete, Scribble, NewIterator, IterNext,
           IterRelease

(* For every set of keys, values and buffers, every transaction limit and *)
(* every batch size, batch.Put, Delete and Reset keep the WriteBatch equal *)
(* to the latest operations of batch.ops, and non-empty while ops is, from *)
(* one badger early commit to the next and up to Write: the two copies of *)
(* one batch the code keeps side by side never drift apart.              *)
THEOREM BatchHoldsTailTheorem == Spec => []BatchHoldsTail
  <1>1. BatchIInv => BatchHoldsTail
    BY DEF BatchIInv
  <1> QED
    BY <1>1, InitBatchIInv, NextBatchIInv, PTL DEF Spec

=============================================================================
