------------------------------ MODULE BadgerDB ------------------------------
(***************************************************************************)
(* The key-value store of every node's chain database: the badger wrapper  *)
(* of package ethdb/badger (Database, batch, badgerIterator, snapshot).    *)
(*                                                                         *)
(* Database.Put and Delete commit one write transaction each.  A batch     *)
(* writes through a badger WriteBatch and keeps, besides, its own list of  *)
(* operations for Replay and a byte count for ValueSize.  Both keep the    *)
(* caller's key and value slices by reference, so a value is modelled as a *)
(* buffer whose content the caller may change after handing it over.      *)
(*                                                                         *)
(* badger itself is the environment, with the behaviour its documentation  *)
(* gives: a WriteBatch commits what it holds when its transaction reaches  *)
(* its size limit (ErrTxnTooBig, here TxnLimit entries), Flush commits the *)
(* rest and finishes the batch (a later Set or Flush fails), Cancel drops  *)
(* what is not committed, and an iterator reads the snapshot of the read   *)
(* transaction it was opened in, positioned by Seek on the first key at or *)
(* after the seek key and Valid while the key has the iterator's prefix.   *)
(***************************************************************************)
EXTENDS Naturals, Sequences, SequencesExt

CONSTANTS
    Byte,      \* the bytes keys are made of
    Key,       \* the keys the callers write (byte sequences)
    Value,     \* the contents a value buffer can have (byte sequences)
    Buf,       \* the callers' value buffers
    Prefix,    \* the prefixes NewIterator is called with
    Start,     \* the start keys NewIterator is called with
    Absent,    \* the content of a key that is not stored
    NoBuf,     \* the buffer field of a removal
    TxnLimit,  \* entries one badger transaction takes before ErrTxnTooBig
    MaxOps     \* operations a batch takes before the caller resets it

ASSUME BadgerAssumption ==
    /\ Key \subseteq Seq(Byte) /\ Value \subseteq Seq(Byte)
    /\ Absent \notin Value /\ NoBuf \notin Buf
    /\ TxnLimit \in Nat \ {0} /\ MaxOps \in Nat

VARIABLES
    store,    \* the committed contents: key -> value or Absent
    mem,      \* mem[b]: what the caller's buffer b holds now
    wb,       \* the badger WriteBatch: [pending: entries, done: flushed]
    ops,      \* batch.ops: the entries Put and Delete recorded
    size,     \* batch.size
    it,       \* the open iterator, or [pc |-> "none"]
    out       \* the keys the caller's Next/Key loop has read

vars == <<store, mem, wb, ops, size, it, out>>

(* An operation of a batch: putOperation or deleteOepration of a key; a    *)
(* put refers to the caller's buffer.                                      *)
Entry == [op : {"put"}, key : Key, buf : Buf] \cup
         [op : {"del"}, key : Key, buf : {NoBuf}]

(* Applies one write to a key-value map; a put reads the buffer content   *)
(* given by cont.                                                          *)
ApplyEntry(kv, e, cont) ==
    [kv EXCEPT ![e.key] = IF e.op = "put" THEN cont[e.buf] ELSE Absent]

(* The map after a sequence of entries, the buffers read as in cont.       *)
ApplyAll(kv, es, cont) ==
    FoldLeft(LAMBDA m, e : ApplyEntry(m, e, cont), kv, es)

(* Byte-wise (binary-alphabetical) order of keys.                          *)
LexLess(a, b) ==
    \E k \in 0 .. Len(a) :
        /\ k <= Len(b) /\ SubSeq(a, 1, k) = SubSeq(b, 1, k)
        /\ \/ k = Len(a) /\ k < Len(b)
           \/ k < Len(a) /\ k < Len(b) /\ a[k + 1] < b[k + 1]

(* The keys of a map that are stored, in key order.                        *)
SortedKeys(kv) == SetToSortSeq({k \in Key : kv[k] # Absent}, LexLess)

-----------------------------------------------------------------------------
Init ==
    /\ store = [k \in Key |-> Absent]
    /\ mem \in [Buf -> Value]
    /\ wb = [pending |-> <<>>, done |-> FALSE]
    /\ ops = <<>> /\ size = 0
    /\ it = [pc |-> "none"] /\ out = <<>>

(* Database.Put: a write transaction sets the key and commits.             *)
DbPut(k, v) ==
    /\ store' = [store EXCEPT ![k] = v]
    /\ UNCHANGED <<mem, wb, ops, size, it, out>>

(* Database.Delete: a write transaction deletes the key and commits.       *)
DbDelete(k) ==
    /\ store' = [store EXCEPT ![k] = Absent]
    /\ UNCHANGED <<mem, wb, ops, size, it, out>>

(* b.b.Set / b.b.Delete: the WriteBatch takes the entry; when its          *)
(* transaction is full it first commits what it holds.                     *)
WbAdd(e) ==
    IF Len(wb.pending) < TxnLimit
       THEN /\ wb' = [wb EXCEPT !.pending = Append(@, e)]
            /\ UNCHANGED store
       ELSE /\ store' = ApplyAll(store, wb.pending, mem)
            /\ wb' = [wb EXCEPT !.pending = <<e>>]

(* batch.Put: the Set, then the operation is recorded and counted.  On a  *)
(* flushed WriteBatch the Set fails and Put returns its error.            *)
BatchPut(k, b) ==
    /\ Len(ops) < MaxOps /\ ~wb.done
    /\ WbAdd([op |-> "put", key |-> k, buf |-> b])
    /\ ops' = Append(ops, [op |-> "put", key |-> k, buf |-> b])
    /\ size' = size + Len(k) + Len(mem[b])
    /\ UNCHANGED <<mem, it, out>>

(* batch.Delete: the same for a removal.                                   *)
BatchDelete(k) ==
    /\ Len(ops) < MaxOps /\ ~wb.done
    /\ WbAdd([op |-> "del", key |-> k, buf |-> NoBuf])
    /\ ops' = Append(ops, [op |-> "del", key |-> k, buf |-> NoBuf])
    /\ size' = size + Len(k)
    /\ UNCHANGED <<mem, it, out>>

(* The caller reuses a buffer it passed to the batch.                      *)
Scribble(b, v) ==
    /\ mem[b] # v
    /\ mem' = [mem EXCEPT ![b] = v]
    /\ UNCHANGED <<store, wb, ops, size, it, out>>

(* batch.Write: b.b.Flush commits the pending entries, reading the buffers *)
(* as they are now, and finishes the WriteBatch; on a finished one Flush   *)
(* fails and nothing is written.                                           *)
BatchWrite ==
    /\ \/ /\ ~wb.done
          /\ store' = ApplyAll(store, wb.pending, mem)
          /\ wb' = [pending |-> <<>>, done |-> TRUE]
       \/ /\ wb.done
          /\ UNCHANGED <<store, wb>>
    /\ UNCHANGED <<mem, ops, size, it, out>>

(* Mutant of BatchReset: b.ops is not cleared.                             *)
BatchResetKeepOps ==
    /\ wb' = [pending |-> <<>>, done |-> FALSE]
    /\ size' = 0
    /\ UNCHANGED <<store, mem, ops, it, out>>

(* batch.Reset: b.b.Cancel drops what is not committed, a new WriteBatch   *)
(* replaces it, and the operations and the size start again.              *)
BatchReset ==
    /\ wb' = [pending |-> <<>>, done |-> FALSE]
    /\ ops' = <<>> /\ size' = 0
    /\ UNCHANGED <<store, mem, it, out>>

-----------------------------------------------------------------------------
(* Whether the iterator's cursor is on a key: badger's Valid, with the     *)
(* Prefix option, is false past the keys that have the prefix.             *)
IterValid(pos) ==
    pos <= Len(it.keys) /\ IsPrefix(it.prefix, it.keys[pos])

(* Database.NewIterator: a read transaction (the snapshot of the store),   *)
(* an iterator over it with the prefix, Seek(prefix ++ start) to the first *)
(* key at or after it, and moved = true.                                   *)
NewIterator(p, s) ==
    /\ it.pc = "none"
    /\ LET keys == SortedKeys(store)
           lower == p \o s
           at == {i \in 1 .. Len(keys) : ~LexLess(keys[i], lower)}
       IN  it' = [pc |-> "open", keys |-> keys, kv |-> store, prefix |-> p,
                  lower |-> lower, moved |-> TRUE,
                  pos |-> IF at = {} THEN Len(keys) + 1
                          ELSE CHOOSE i \in at : \A l \in at : i <= l]
    /\ UNCHANGED <<store, mem, wb, ops, size, out>>

(* The caller's loop: for it.Next() { keys = append(keys, it.Key()) }.     *)
(* A true Next is followed by Key, a false one ends the loop.              *)
Consume(pos, valid) ==
    IF valid THEN /\ out' = Append(out, it.keys[pos])
                  /\ it' = [it EXCEPT !.pos = pos, !.moved = FALSE]
             ELSE /\ it' = [it EXCEPT !.pos = pos, !.moved = FALSE, !.pc = "done"]
                  /\ UNCHANGED out

(* Mutant of IterNext: the first call advances past the key Seek found.   *)
IterNextNoMoved ==
    /\ it.pc = "open"
    /\ IF ~IterValid(it.pos) THEN Consume(it.pos, FALSE)
                             ELSE Consume(it.pos + 1, IterValid(it.pos + 1))
    /\ UNCHANGED <<store, mem, wb, ops, size>>

(* badgerIterator.Next: the first call reports the key Seek found; later  *)
(* calls stop at an invalid cursor or advance and report the next key.    *)
IterNext ==
    /\ it.pc = "open"
    /\ IF it.moved THEN Consume(it.pos, IterValid(it.pos))
       ELSE IF ~IterValid(it.pos) THEN Consume(it.pos, FALSE)
       ELSE Consume(it.pos + 1, IterValid(it.pos + 1))
    /\ UNCHANGED <<store, mem, wb, ops, size>>

(* badgerIterator.Release: iter.Close(); the caller drops what it read.    *)
IterRelease ==
    /\ it.pc \in {"open", "done"}
    /\ it' = [pc |-> "none"] /\ out' = <<>>
    /\ UNCHANGED <<store, mem, wb, ops, size>>

Next ==
    \/ \E k \in Key : \/ \E v \in Value : DbPut(k, v)
                      \/ DbDelete(k) \/ BatchDelete(k)
                      \/ \E b \in Buf : BatchPut(k, b)
    \/ \E b \in Buf, v \in Value : Scribble(b, v)
    \/ BatchWrite \/ BatchReset
    \/ \E p \in Prefix, s \in Start : NewIterator(p, s)
    \/ IterNext \/ IterRelease

Spec == Init /\ [][Next]_vars

-----------------------------------------------------------------------------
TypeOK ==
    /\ store \in [Key -> Value \cup {Absent}] /\ mem \in [Buf -> Value]
    /\ wb.pending \in Seq(Entry) /\ wb.done \in BOOLEAN
    /\ ops \in Seq(Entry) /\ size \in Nat

(* badger commits a WriteBatch's transaction as soon as it is full, so a  *)
(* batch reaches the store in parts, not at Write as the comment on batch  *)
(* says.  What the wrapper must keep across those commits: until Write,   *)
(* the WriteBatch holds exactly the latest operations of batch.ops, in     *)
(* order, and holds some as soon as ops has any, so that Put, Delete and   *)
(* Reset never leave an operation that Replay reads outside both the store *)
(* and the WriteBatch, nor one that is in the WriteBatch alone.            *)
BatchHoldsTail ==
    ~wb.done =>
        /\ Len(wb.pending) <= Len(ops)
        /\ wb.pending = SubSeq(ops, Len(ops) - Len(wb.pending) + 1, Len(ops))
        /\ (wb.pending = <<>> => ops = <<>>)

(* The inductive strengthening of BatchHoldsTail: the shapes of the       *)
(* WriteBatch and of the operation list.                                   *)
BatchIInv ==
    /\ wb \in [pending : Seq(Entry), done : BOOLEAN]
    /\ ops \in Seq(Entry)
    /\ BatchHoldsTail

(* batch.Replay: every recorded operation, in order, is written to the    *)
(* writer w, whose contents were kv; the buffers are read as they are now. *)
BatchReplay(kv) == ApplyAll(kv, ops, mem)

(* The ethdb iterator contract: the keys a loop over Next reads are the    *)
(* keys with the prefix, at or after prefix ++ start, that were stored     *)
(* when the iterator was opened, each once, in byte order, whatever was    *)
(* written meanwhile.                                                      *)
IteratorYieldsRange ==
    it.pc = "done" =>
        out = SetToSortSeq({k \in Key : /\ it.kv[k] # Absent
                                        /\ IsPrefix(it.prefix, k)
                                        /\ ~LexLess(k, it.lower)}, LexLess)

=============================================================================
