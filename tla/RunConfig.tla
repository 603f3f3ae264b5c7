------------------------------ MODULE RunConfig ------------------------------
(***************************************************************************)
(* The run descriptor as the harness reads it (emu/types.go) and the       *)
(* transaction-interval arithmetic that writes it (cmd/ethemu/gencmd.go,   *)
(* generateConfig).  Period and the intervals are uint64 in Go; Width is   *)
(* the word width, so that the wrap-around of a subtraction and the        *)
(* reinterpretation of a uint64 as an int keep their meaning in a model    *)
(* with small numbers (only the sign bit of the result matters below).     *)
(***************************************************************************)
EXTENDS Naturals, Integers

CONSTANTS
    Node,       \* the addresses of the roster that "gen" wrote
    Width       \* bits of uint64 and of int (64 in the code)

ASSUME WidthAssumption == Width \in Nat /\ Width >= 2

Word == 2 ^ Width

(* uint64 arithmetic: every result is taken modulo 2^Width.                *)
U64(x) == x % Word

(* int(x) for a uint64 x: the same bits read as a two's complement int.    *)
IntOfU64(x) == IF x >= Word \div 2 THEN x - Word ELSE x

(* emu.Global.MinTxInterval = Period * 1000 / uint64(MaxTx): the shortest  *)
(* gap in milliseconds comes from the highest rate.  A zero rate is a Go   *)
(* division by zero, so the caller only passes positive rates.             *)
GenMinTxInterval(period, maxTx) == U64(period * 1000) \div maxTx

(* emu.Global.MaxTxInterval = Period * 1000 / uint64(MinTx).              *)
GenMaxTxInterval(period, minTx) == U64(period * 1000) \div minTx

(* Mutant of TimerArg: the operands of the subtraction are swapped.       *)
TimerArgSwapped(sleepMin, sleepMax) == IntOfU64(U64(sleepMin - sleepMax))

(* The argument of rand.Intn in the transaction task:                     *)
(* int(sleepMax - sleepMin), a uint64 subtraction read as an int.          *)
(* rand.Intn panics when its argument is not positive.                     *)
TimerArg(sleepMin, sleepMax) == IntOfU64(U64(sleepMax - sleepMin))

(* LoadConfig: when config.json cannot be read or decoded the error is     *)
(* returned, and every caller drops it, so emu.Global keeps its zero       *)
(* value: the roster is then empty.                                        *)
LoadConfig(ok) == IF ok THEN Node ELSE {}

=============================================================================
