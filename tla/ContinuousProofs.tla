--------------------------- MODULE ContinuousProofs ---------------------------
(***************************************************************************)
(* Proofs about the continuous workload harness: the type invariant, the   *)
(* validity of every submitted pair and the sealing task's Work() calls,   *)
(* for every roster, both versions of main.go and every flag.              *)
(***************************************************************************)
EXTENDS Continuous, TLAPS

USE FlagsAssumption

(* The descriptor and the command line are fixed for the whole process,   *)
(* so are the senders and the nodes that should mine.                      *)
LEMMA ConfFixed ==
    ASSUME conf' = conf
    PROVE  /\ Senders' = Senders
           /\ \A n \in Node : MiningEnabled(n)' = MiningEnabled(n)
  BY DEF Senders, MiningEnabled, MiningEnabledV1, MiningEnabledV3

(* Every node of the miner set should mine, in both versions.              *)
LEMMA MinerMines ==
    ASSUME NEW n \in conf.miner PROVE MiningEnabled(n)
  BY DEF MiningEnabled, MiningEnabledV1, MiningEnabledV3

(* The invariant holds when the process starts.                            *)
LEMMA InitIInv == Init => IInv
  <1> SUFFICES ASSUME Init PROVE IInv
    OBVIOUS
  <1> DEFINE C(ok, p, lo, hi, m, b, v, x) ==
                [roster |-> LoadConfig(ok), miner |-> m, noBase |-> b,
                 sleepMin |-> GenMinTxInterval(p, hi),
                 sleepMax |-> GenMaxTxInterval(p, lo),
                 version |-> v, exitSync |-> x]
  <1>1. PICK ok \in BOOLEAN, p \in Periods, lo \in Rates, hi \in Rates :
             \E m \in SUBSET LoadConfig(ok) : \E b \in SUBSET m :
             \E v \in {1, 3} : \E x \in IF v = 3 THEN BOOLEAN ELSE {FALSE} :
                conf = C(ok, p, lo, hi, m, b, v, x)
    BY DEF Init
  <1>2. PICK m \in SUBSET LoadConfig(ok) : \E b \in SUBSET m :
             \E v \in {1, 3} : \E x \in IF v = 3 THEN BOOLEAN ELSE {FALSE} :
                conf = C(ok, p, lo, hi, m, b, v, x)
    BY <1>1
  <1>3. PICK b \in SUBSET m, v \in {1, 3} :
             \E x \in IF v = 3 THEN BOOLEAN ELSE {FALSE} :
                conf = C(ok, p, lo, hi, m, b, v, x)
    BY <1>2
  <1>4. PICK x \in IF v = 3 THEN BOOLEAN ELSE {FALSE} :
                conf = C(ok, p, lo, hi, m, b, v, x)
    BY <1>3
  <1>5. x \in BOOLEAN
    BY <1>4
  <1>6. LoadConfig(ok) \in {{}, Node}
    BY DEF LoadConfig
  <1>7. TypeOK
    BY <1>2, <1>3, <1>4, <1>5, <1>6 DEF Init, TypeOK, Stopped
  <1>8. QED
    BY <1>7 DEF Init, IInv, TaskState, SentPairsValid, WorkOnMiningNodes

(* One iteration of the setup loop, its failure, or the sync goroutine    *)
(* closing a node: the tasks have not started, or are left as they are.    *)
LEMMA SetupIInv ==
    ASSUME NEW n \in Node, IInv,
           SetupNode(n) \/ SetupFails(n) \/ SyncClose(n)
    PROVE  IInv'
  <1>1. conf' = conf
    BY DEF SetupNode, SetupFails, SyncClose
  <1>2. /\ Senders' = Senders
        /\ \A m \in Node : MiningEnabled(m)' = MiningEnabled(m)
    BY <1>1, ConfFixed
  <1>3. CASE SetupNode(n)
    <2>1. sealPc = "idle" /\ sealPc' = "idle" /\ UNCHANGED <<txs, worked>>
      BY <1>3 DEF SetupNode, IInv, TaskState
    <2>2. TypeOK'
      BY <1>1, <1>3 DEF SetupNode, IInv, TypeOK, Stopped
    <2>3. (mining = {m \in started : MiningEnabled(m)})'
      BY <1>2, <1>3 DEF SetupNode, IInv, TaskState, TypeOK, Stopped
    <2>4. QED
      BY <1>1, <1>2, <1>3, <2>1, <2>2, <2>3
         DEF SetupNode, IInv, TaskState, SentPairsValid, WorkOnMiningNodes
  <1>4. CASE SetupFails(n) \/ SyncClose(n)
    BY <1>1, <1>2, <1>4 DEF SetupFails, SyncClose, IInv, TypeOK, TaskState,
                            SentPairsValid, WorkOnMiningNodes, Stopped
  <1>5. QED
    BY <1>3, <1>4

(* Launch starts both tasks once every node is started; AllClosed ends     *)
(* the process.                                                            *)
LEMMA LaunchIInv == IInv /\ (Launch \/ AllClosed) => IInv'
  <1> SUFFICES ASSUME IInv, Launch \/ AllClosed PROVE IInv'
    OBVIOUS
  <1>1. conf' = conf
    BY DEF Launch, AllClosed
  <1>2. /\ Senders' = Senders
        /\ \A m \in Node : MiningEnabled(m)' = MiningEnabled(m)
    BY <1>1, ConfFixed
  <1>3. QED
    BY <1>1, <1>2 DEF Launch, AllClosed, IInv, TypeOK, TaskState,
                      SentPairsValid, WorkOnMiningNodes, Stopped

(* The transaction task picks from the senders, redraws the destination   *)
(* until it differs, and submits only a pair that passed the loop.         *)
LEMMA TxTaskIInv == IInv /\ TxTask => IInv'
  <1> SUFFICES ASSUME IInv, TxTask PROVE IInv'
    OBVIOUS
  <1>1. conf' = conf
    BY DEF TxTask, TxNoSenders, TxPick, TxRedraw, TxSpin, TxTimerPanic, TxArm,
           TxSend, Panic, vars
  <1>2. /\ Senders' = Senders
        /\ \A m \in Node : MiningEnabled(m)' = MiningEnabled(m)
    BY <1>1, ConfFixed
  <1>3. Senders \subseteq Node
    BY DEF IInv, TypeOK, Senders, Stopped
  <1>4. CASE TxNoSenders \/ TxTimerPanic \/ TxSpin
    BY <1>1, <1>2, <1>4 DEF TxNoSenders, TxTimerPanic, TxSpin, Panic, vars,
                            IInv, TypeOK, TaskState, SentPairsValid,
                            WorkOnMiningNodes, Stopped
  <1>5. CASE TxPick
    BY <1>1, <1>2, <1>3, <1>5 DEF TxPick, IInv, TypeOK, TaskState,
                                  SentPairsValid, WorkOnMiningNodes, Stopped
  <1>6. CASE TxRedraw
    BY <1>1, <1>2, <1>3, <1>6 DEF TxRedraw, IInv, TypeOK, TaskState,
                                  SentPairsValid, WorkOnMiningNodes, Stopped
  <1>7. CASE TxArm
    BY <1>1, <1>2, <1>7 DEF TxArm, IInv, TypeOK, TaskState, SentPairsValid,
                            WorkOnMiningNodes, Stopped
  <1>8. CASE TxSend
    <2>1. from \in Senders /\ to \in Senders /\ from # to
      BY <1>8 DEF TxSend, IInv, TaskState
    <2>2. SentPairsValid'
      BY <1>2, <1>8, <2>1 DEF TxSend, IInv, SentPairsValid
    <2>3. TypeOK'
      BY <1>1, <1>3, <1>8, <2>1 DEF TxSend, IInv, TypeOK, Stopped
    <2>4. QED
      BY <1>1, <1>2, <1>8, <2>2, <2>3 DEF TxSend, IInv, TaskState,
                                          WorkOnMiningNodes, TypeOK, Stopped
  <1>9. QED
    BY <1>4, <1>5, <1>6, <1>7, <1>8 DEF TxTask

(* The sealing task arms its timer only for a miner, and by then setup has *)
(* started every node, so the miner's startNode started mining.            *)
LEMMA SealTaskIInv == IInv /\ SealTask => IInv'
  <1> SUFFICES ASSUME IInv, SealTask PROVE IInv'
    OBVIOUS
  <1>1. conf' = conf
    BY DEF SealTask, SealNoMiners, SealPick, SealWork, Panic
  <1>2. /\ Senders' = Senders
        /\ \A m \in Node : MiningEnabled(m)' = MiningEnabled(m)
    BY <1>1, ConfFixed
  <1>3. CASE SealNoMiners
    BY <1>1, <1>2, <1>3 DEF SealNoMiners, Panic, IInv, TypeOK,
                            TaskState, SentPairsValid, WorkOnMiningNodes, Stopped
  <1>4. CASE SealPick
    <2>1. conf.miner \subseteq Node
      BY DEF IInv, TypeOK, Stopped
    <2>2. QED
      BY <1>1, <1>2, <1>4, <2>1 DEF SealPick, IInv, TypeOK, TaskState,
                                    SentPairsValid, WorkOnMiningNodes, Stopped
  <1>5. CASE SealWork
    <2>1. sealer \in conf.miner /\ started = conf.roster
      BY <1>5 DEF SealWork, IInv, TaskState
    <2>2. sealer \in Node /\ MiningEnabled(sealer)
      BY <2>1, MinerMines DEF IInv, TypeOK, Stopped
    <2>3. sealer \in mining
      BY <2>1, <2>2 DEF IInv, TaskState, TypeOK, Stopped
    <2>4. WorkOnMiningNodes' /\ TypeOK'
      BY <1>1, <1>5, <2>2, <2>3 DEF SealWork, IInv, WorkOnMiningNodes, TypeOK,
                                    Stopped
    <2>5. QED
      BY <1>1, <1>2, <1>5, <2>4 DEF SealWork, IInv, TaskState, SentPairsValid,
                                    TypeOK, Stopped
  <1>6. QED
    BY <1>3, <1>4, <1>5 DEF SealTask

(* The strengthened invariant is inductive.                                *)
LEMMA NextIInv == IInv /\ [Next]_vars => IInv'
  <1> SUFFICES ASSUME IInv, [Next]_vars PROVE IInv'
    OBVIOUS
  <1>1. ASSUME NEW n \in Node, SetupNode(n) \/ SetupFails(n) \/ SyncClose(n)
        PROVE  IInv'
    BY <1>1, SetupIInv
  <1>2. CASE Launch \/ AllClosed
    BY <1>2, LaunchIInv
  <1>3. CASE TxTask
    BY <1>3, TxTaskIInv
  <1>4. CASE SealTask
    BY <1>4, SealTaskIInv
  <1>5. CASE UNCHANGED vars
    BY <1>5, ConfFixed DEF vars, IInv, TypeOK, TaskState, SentPairsValid,
                           WorkOnMiningNodes, Stopped
  <1>6. CASE Terminated
    BY <1>5, <1>6 DEF Terminated
  <1>7. QED
    BY <1>1, <1>2, <1>3, <1>4, <1>5, <1>6 DEF Next

(* Every transaction either task version submits goes from a non-miner to *)
(* another non-miner, for every descriptor and every flag.                 *)
THEOREM SentPairsTheorem == Spec => []SentPairsValid
  <1>1. IInv => SentPairsValid
    BY DEF IInv
  <1>2. QED
    BY <1>1, InitIInv, NextIInv, PTL DEF Spec

(* The sealing task calls Work() only on nodes on which startNode started *)
(* mining: the miner set it samples and MiningEnabled of either version    *)
(* agree.                                                                  *)
THEOREM WorkOnMiningTheorem == Spec => []WorkOnMiningNodes
  <1>1. IInv => WorkOnMiningNodes
    BY DEF IInv
  <1>2. QED
    BY <1>1, InitIInv, NextIInv, PTL DEF Spec

(* The harness's variables keep their types in every reachable state.      *)
THEOREM ContinuousTypeCorrect == Spec => []TypeOK
  <1>1. IInv => TypeOK
    BY DEF IInv
  <1>2. QED
    BY <1>1, InitIInv, NextIInv, PTL DEF Spec

-----------------------------------------------------------------------------
(* The interval arithmetic of gen and the timer argument of the           *)
(* transaction task.                                                       *)

(* Dividing the same uint64 by a larger rate gives a shorter interval.     *)
LEMMA DivAntitone ==
    ASSUME NEW x \in Nat, NEW lo \in Nat \ {0}, NEW hi \in Nat \ {0}, lo <= hi
    PROVE  x \div hi <= x \div lo
  <1> DEFINE qa == x \div hi
             qb == x \div lo
  <1>1. qa \in Nat /\ qb \in Nat /\ qa * hi <= x /\ x < (qb + 1) * lo
    OBVIOUS
  <1>2. qa * lo <= qa * hi
    BY <1>1
  <1>3. qa * lo < (qb + 1) * lo
    BY <1>1, <1>2
  <1> QED
    BY <1>1, <1>3

(* With --mintx at most --maxtx, the intervals gen writes are ordered.     *)
(* Word = 2^Width is a hypothesis, not a fact the provers derive: none of  *)
(* them knows that a power of 2 is positive.                               *)
LEMMA GenIntervalsOrdered ==
    ASSUME Word \in Nat \ {0},
           NEW per \in Nat, NEW lo \in Nat \ {0}, NEW hi \in Nat \ {0}, lo <= hi
    PROVE  /\ GenMinTxInterval(per, hi) \in Nat
           /\ GenMaxTxInterval(per, lo) \in Nat
           /\ GenMinTxInterval(per, hi) <= GenMaxTxInterval(per, lo)
  <1> DEFINE x == U64(per * 1000)
  <1>1. x \in Nat
    BY DEF U64
  <1>2. x \div hi \in Nat /\ x \div lo \in Nat
    BY <1>1
  <1>3. x \div hi <= x \div lo
    BY <1>1, DivAntitone
  <1> QED
    BY <1>2, <1>3 DEF GenMinTxInterval, GenMaxTxInterval

(* int(sleepMax - sleepMin) for ordered intervals below 2^(Width-1) is the *)
(* plain difference: neither the subtraction nor the reading as int wraps. *)
LEMMA TimerArgOrdered ==
    ASSUME Word \in Nat \ {0},
           NEW a \in Nat, NEW b \in Nat, a <= b, b < Word \div 2
    PROVE  TimerArg(a, b) = b - a
  <1>1. U64(b - a) = b - a
    BY DEF U64
  <1>2. b - a < Word \div 2
    OBVIOUS
  <1> QED
    BY <1>1, <1>2 DEF TimerArg, IntOfU64

(* For every period and every pair of rates with --mintx <= --maxtx whose *)
(* longest interval fits in an int, rand.Intn(int(sleepMax - sleepMin)) in *)
(* the transaction task panics exactly when both rates round to the same   *)
(* whole number of milliseconds: TxTimerPanic is enabled by that case and  *)
(* by no other.                                                            *)
THEOREM TimerPanicIffEqual ==
    ASSUME Word \in Nat \ {0},
           NEW per \in Nat, NEW lo \in Nat \ {0}, NEW hi \in Nat \ {0}, lo <= hi,
           GenMaxTxInterval(per, lo) < Word \div 2
    PROVE  TimerArg(GenMinTxInterval(per, hi), GenMaxTxInterval(per, lo)) <= 0
             <=> GenMinTxInterval(per, hi) = GenMaxTxInterval(per, lo)
  <1> DEFINE a == GenMinTxInterval(per, hi)
             b == GenMaxTxInterval(per, lo)
  <1>1. a \in Nat /\ b \in Nat /\ a <= b
    BY GenIntervalsOrdered
  <1>2. TimerArg(a, b) = b - a
    BY <1>1, TimerArgOrdered
  <1> QED
    BY <1>1, <1>2

=============================================================================
