------------------------------ MODULE Continuous ------------------------------
(***************************************************************************)
(* The continuous workload harness: ethemu and startNode of the first and  *)
(* the third version of cmd/ethemu/main.go (lines 197-326 and 1002-1159).  *)
(*                                                                         *)
(* The run descriptor is loaded (the error is dropped), every node of the  *)
(* roster is built (makeFullNode) and started (startNode, which starts     *)
(* mining on some of them) in map order, the peers are wired, and two      *)
(* goroutines are launched: the transaction task (a random non-miner sends *)
(* to another random non-miner after a random sleep) and the sealing task  *)
(* (a random miner is told to Work after a sleep).  The main goroutine     *)
(* then waits for every node.  The stop channel is never closed, so the    *)
(* select on it always takes the timer branch and is not modelled.  A Go   *)
(* panic in either task, and utils.Fatalf during setup, end the process.   *)
(*                                                                         *)
(* The descriptor is chosen in Init among the ones "gen" can write:        *)
(* whether it loaded, which nodes are miners, which miners have no         *)
(* account for Etherbase, and the interval pair gen computed from the      *)
(* --blocktime, --mintx and --maxtx flags.  So are the version of main.go  *)
(* that runs and, for the third one, --exitwhensynced.  None of it changes *)
(* afterwards.                                                             *)
(***************************************************************************)
EXTENDS RunConfig, FiniteSets

CONSTANTS
    MiningFlag,      \* --mine
    DevFlag,         \* --dev (read by the third version only)
    LightSync,       \* --syncmode light
    Periods,         \* --blocktime values
    Rates,           \* --mintx / --maxtx values
    NoNode           \* no node picked yet

ASSUME FlagsAssumption ==
    /\ {MiningFlag, DevFlag, LightSync} \subseteq BOOLEAN
    /\ Periods \subseteq Nat /\ Rates \subseteq Nat \ {0}
    /\ NoNode \notin Node

VARIABLES
    conf,     \* the loaded descriptor [roster, miner, noBase, sleepMin,
              \* sleepMax] and the command line [version, exitSync]
    pc,       \* main goroutine: "setup", "run", "exit" (returned), "crashed"
    started,  \* nodes built and started by the setup loop
    mining,   \* nodes on which startNode called StartMining
    closed,   \* nodes closed by the ExitWhenSynced goroutine
    txPc,     \* transaction task: "idle", "pick", "redraw", "wait"
    from, to, \* the pair the transaction task is at
    txs,      \* the <<from, to>> pairs submitted with SendTransaction
    sealPc,   \* sealing task: "idle", "pick", "wait"
    sealer,   \* the miner the sealing task is at
    worked    \* the nodes whose Miner().Work() was called

vars == <<conf, pc, started, mining, closed, txPc, from, to, txs,
          sealPc, sealer, worked>>

Stopped == {"exit", "crashed"}

(* addrs of the transaction task: the non-miners of the roster.            *)
Senders == conf.roster \ conf.miner

-----------------------------------------------------------------------------
(* emu.LoadConfig(dataDir) in ethemu, on a descriptor written by gen.      *)
Init ==
    /\ \E ok \in BOOLEAN, p \in Periods, lo \in Rates, hi \in Rates :
       \E m \in SUBSET LoadConfig(ok) : \E b \in SUBSET m :
       \E v \in {1, 3} : \E x \in IF v = 3 THEN BOOLEAN ELSE {FALSE} :
          conf = [roster |-> LoadConfig(ok), miner |-> m, noBase |-> b,
                  sleepMin |-> GenMinTxInterval(p, hi),
                  sleepMax |-> GenMaxTxInterval(p, lo),
                  version |-> v, exitSync |-> x]
    /\ pc = "setup"
    /\ started = {} /\ mining = {} /\ closed = {}
    /\ txPc = "idle" /\ from = NoNode /\ to = NoNode /\ txs = {}
    /\ sealPc = "idle" /\ sealer = NoNode /\ worked = {}

(* Mutant of MiningEnabledV1: the IsMiner disjunct is lost.                *)
MiningEnabledV1Flag(n) == MiningFlag

(* First version: ctx.Bool(MiningEnabledFlag) || emuNode.IsMiner.          *)
MiningEnabledV1(n) == MiningFlag \/ n \in conf.miner

(* Third version: MiningEnabled || Developer || emuNode.IsMiner.           *)
MiningEnabledV3(n) == MiningFlag \/ DevFlag \/ n \in conf.miner

MiningEnabled(n) ==
    IF conf.version = 1 THEN MiningEnabledV1(n) ELSE MiningEnabledV3(n)

(* makeFullNode or startNode of one node fails with utils.Fatalf: node.New *)
(* or setAccountManagerBackends returns an error, or StartMining does.     *)
(* Fatalf exits the process.                                               *)
SetupFails(n) ==
    /\ pc = "setup" /\ n \in conf.roster \ started
    /\ pc' = "crashed"
    /\ UNCHANGED <<conf, started, mining, closed, txPc, from, to, txs,
                   sealPc, sealer, worked>>

(* Mutant of SetupNode: the loop ranges over every address, not over the *)
(* roster that LoadConfig left in emu.Global.Nodes.                        *)
SetupNodeAnyNode(n) ==
    /\ pc = "setup" /\ n \in Node \ started
    /\ IF MiningEnabled(n) /\ (LightSync \/ n \in conf.noBase)
          THEN /\ pc' = "crashed"
               /\ UNCHANGED <<started, mining>>
          ELSE /\ started' = started \cup {n}
               /\ mining' = IF MiningEnabled(n) THEN mining \cup {n}
                                                ELSE mining
               /\ UNCHANGED pc
    /\ UNCHANGED <<conf, closed, txPc, from, to, txs, sealPc, sealer, worked>>

(* One iteration of the setup loop: makeFullNode, then startNode, which    *)
(* starts mining when MiningEnabled holds; a light client that should mine *)
(* ends in utils.Fatalf, and so does StartMining on a node without an      *)
(* Etherbase account.                                                      *)
SetupNode(n) ==
    /\ pc = "setup" /\ n \in conf.roster \ started
    /\ IF MiningEnabled(n) /\ (LightSync \/ n \in conf.noBase)
          THEN /\ pc' = "crashed"
               /\ UNCHANGED <<started, mining>>
          ELSE /\ started' = started \cup {n}
               /\ mining' = IF MiningEnabled(n) THEN mining \cup {n}
                                                ELSE mining
               /\ UNCHANGED pc
    /\ UNCHANGED <<conf, closed, txPc, from, to, txs, sealPc, sealer, worked>>

(* The goroutine startNode spawns under --exitwhensynced (third version):  *)
(* on a downloader DoneEvent with a recent head it closes the node, at any *)
(* time after the node started.                                            *)
SyncClose(n) ==
    /\ conf.version = 3 /\ conf.exitSync
    /\ pc \notin Stopped /\ n \in started \ closed
    /\ closed' = closed \cup {n}
    /\ UNCHANGED <<conf, pc, started, mining, txPc, from, to, txs, sealPc,
                   sealer, worked>>

(* After the loop: AddPeer for every listed peer, then both tasks start.   *)
Launch ==
    /\ pc = "setup" /\ started = conf.roster
    /\ pc' = "run" /\ txPc' = "pick" /\ sealPc' = "pick"
    /\ UNCHANGED <<conf, started, mining, closed, from, to, txs, sealer,
                   worked>>

(* node.Wait() for every node returns once all are closed (at once when   *)
(* the roster is empty); ethemu returns and the process exits.             *)
AllClosed ==
    /\ pc = "run" /\ conf.roster \subseteq closed
    /\ pc' = "exit"
    /\ UNCHANGED <<conf, started, mining, closed, txPc, from, to, txs,
                   sealPc, sealer, worked>>

-----------------------------------------------------------------------------
(* A goroutine panics: the whole process dies.                             *)
Panic ==
    /\ pc' = "crashed"
    /\ UNCHANGED <<conf, started, mining, closed, txPc, from, to, txs,
                   sealPc, sealer, worked>>

(* No non-miner: make(..., len-1) with an empty roster, or                 *)
(* rand.Intn(len(addrs)) with len(addrs) = 0, panics.                      *)
TxNoSenders ==
    /\ pc = "run" /\ txPc = "pick" /\ Senders = {}
    /\ Panic

(* from := addrs[rand.Intn(len(addrs))]; to := from.                       *)
TxPick ==
    /\ pc = "run" /\ txPc = "pick"
    /\ \E f \in Senders : from' = f /\ to' = f
    /\ txPc' = "redraw"
    /\ UNCHANGED <<conf, pc, started, mining, closed, txs, sealPc, sealer,
                   worked>>

(* for from == to { to = addrs[rand.Intn(len(addrs))] }: a draw of from   *)
(* again changes nothing, so only the draw of another sender is a step.    *)
TxRedraw ==
    /\ pc = "run" /\ txPc = "redraw" /\ to = from
    /\ \E t \in Senders \ {from} : to' = t
    /\ UNCHANGED <<conf, pc, started, mining, closed, txPc, from, txs,
                   sealPc, sealer, worked>>

(* With a single sender the loop above can never exit: it spins forever.   *)
TxSpin ==
    /\ pc = "run" /\ txPc = "redraw" /\ to = from /\ Senders = {from}
    /\ UNCHANGED vars

(* The timer: rand.Intn(int(sleepMax - sleepMin)) panics unless the       *)
(* argument is positive.                                                   *)
TxTimerPanic ==
    /\ pc = "run" /\ txPc = "redraw" /\ to # from
    /\ TimerArg(conf.sleepMin, conf.sleepMax) <= 0
    /\ Panic

(* Mutant of TxArm: the loop condition from == to is not waited for.     *)
TxArmAnyTo ==
    /\ pc = "run" /\ txPc = "redraw"
    /\ TimerArg(conf.sleepMin, conf.sleepMax) > 0
    /\ txPc' = "wait"
    /\ UNCHANGED <<conf, pc, started, mining, closed, from, to, txs, sealPc,
                   sealer, worked>>

TxArm ==
    /\ pc = "run" /\ txPc = "redraw" /\ to # from
    /\ TimerArg(conf.sleepMin, conf.sleepMax) > 0
    /\ txPc' = "wait"
    /\ UNCHANGED <<conf, pc, started, mining, closed, from, to, txs, sealPc,
                   sealer, worked>>

(* The timer fires: eths[from].SendTransaction(tx); the error is dropped. *)
TxSend ==
    /\ pc = "run" /\ txPc = "wait"
    /\ txs' = txs \cup {<<from, to>>}
    /\ txPc' = "pick"
    /\ UNCHANGED <<conf, pc, started, mining, closed, from, to, sealPc,
                   sealer, worked>>

TxTask == TxNoSenders \/ TxPick \/ TxRedraw \/ TxSpin \/ TxTimerPanic
            \/ TxArm \/ TxSend

-----------------------------------------------------------------------------
(* sealers holds the IsMiner nodes: rand.Intn(0) panics when none is.     *)
SealNoMiners ==
    /\ pc = "run" /\ sealPc = "pick" /\ conf.miner = {}
    /\ Panic

(* A random sealer; the timer is armed.  sealer.Etherbase() cannot fail   *)
(* here: every miner went through StartMining, which needs an Etherbase,   *)
(* so the return on its error is not reachable and not modelled.          *)
SealPick ==
    /\ pc = "run" /\ sealPc = "pick"
    /\ \E s \in conf.miner : sealer' = s
    /\ sealPc' = "wait"
    /\ UNCHANGED <<conf, pc, started, mining, closed, txPc, from, to, txs,
                   worked>>

(* The timer fires: sealer.Miner().Work(); the report goroutine only      *)
(* prints.                                                                 *)
SealWork ==
    /\ pc = "run" /\ sealPc = "wait"
    /\ worked' = worked \cup {sealer}
    /\ sealPc' = "pick"
    /\ UNCHANGED <<conf, pc, started, mining, closed, txPc, from, to, txs,
                   sealer>>

SealTask == SealNoMiners \/ SealPick \/ SealWork

(* The process has exited: nothing changes any more.                       *)
Terminated ==
    /\ pc \in Stopped
    /\ UNCHANGED vars

Next ==
    \/ \E n \in Node : SetupFails(n) \/ SetupNode(n) \/ SyncClose(n)
    \/ Launch \/ AllClosed \/ TxTask \/ SealTask \/ Terminated

(* Goroutines are not starved by the Go scheduler; a failure of setup and  *)
(* the DoneEvent of a sync are external and get no fairness.               *)
Fairness ==
    /\ WF_vars(\E n \in Node : SetupNode(n))
    /\ WF_vars(Launch) /\ WF_vars(AllClosed)
    /\ WF_vars(TxTask) /\ WF_vars(SealTask)

Spec == Init /\ [][Next]_vars

FairSpec == Spec /\ Fairness

-----------------------------------------------------------------------------
TypeOK ==
    /\ conf.roster \in {{}, Node} /\ conf.miner \subseteq conf.roster
    /\ conf.noBase \subseteq conf.miner
    /\ conf.version \in {1, 3} /\ conf.exitSync \in BOOLEAN
    /\ pc \in {"setup", "run"} \cup Stopped
    /\ started \subseteq conf.roster /\ mining \subseteq started
    /\ closed \subseteq started
    /\ txPc \in {"idle", "pick", "redraw", "wait"}
    /\ from \in Node \cup {NoNode} /\ to \in Node \cup {NoNode}
    /\ txs \subseteq Node \X Node
    /\ sealPc \in {"idle", "pick", "wait"}
    /\ sealer \in Node \cup {NoNode} /\ worked \subseteq Node

(* Every transaction the task submitted goes from a non-miner to another  *)
(* non-miner (the resampling loop of the transaction task, over addrs).   *)
SentPairsValid ==
    \A p \in txs : p[1] \in Senders /\ p[2] \in Senders /\ p[1] # p[2]

(* The sealing task only calls Work() on a node on which startNode started *)
(* mining: the miner set the task samples and the condition under which   *)
(* startNode mines, two separate pieces of code, must agree.               *)
WorkOnMiningNodes == worked \subseteq mining

(* What the tasks hold between their steps: mining is exactly the started *)
(* nodes on which MiningEnabled holds, setup is over once a task has       *)
(* started, the sealer armed is a miner, and the pair the transaction task *)
(* is at is made of senders, distinct once the redraw loop has exited.     *)
TaskState ==
    /\ mining = {n \in started : MiningEnabled(n)}
    /\ sealPc # "idle" => started = conf.roster
    /\ sealPc = "wait" => sealer \in conf.miner
    /\ txPc \in {"redraw", "wait"} => from \in Senders /\ to \in Senders
    /\ txPc = "wait" => from # to

(* The inductive invariant behind TypeOK, SentPairsValid and              *)
(* WorkOnMiningNodes.                                                      *)
IInv == TypeOK /\ TaskState /\ SentPairsValid /\ WorkOnMiningNodes

(* The conditions the spec places on a descriptor: at least two nodes,    *)
(* two non-miners to send between, a miner, an Etherbase on every miner   *)
(* and a non-empty interval [min, max]; and a process not asked to exit    *)
(* once its nodes are synced.                                              *)
ValidConfig ==
    /\ Cardinality(conf.roster) >= 2 /\ Cardinality(Senders) >= 2
    /\ conf.miner # {} /\ conf.noBase = {}
    /\ conf.sleepMin < conf.sleepMax
    /\ ~conf.exitSync

(* The workload either fails before its tasks start (a Fatalf of setup),  *)
(* or both tasks run forever: transactions keep being submitted and Work() *)
(* keeps being called.  This is the failure discipline of the spec: a      *)
(* configuration error never surfaces as a late panic, a spin or a task    *)
(* that silently stops.                                                    *)
WorkloadLive ==
    \/ <>(pc = "crashed" /\ txPc = "idle")
    \/ []<>(txPc = "wait") /\ []<>(sealPc = "wait")

(* For a descriptor that satisfies the spec's conditions the workload      *)
(* runs as above: the transaction loop, its timer arithmetic and the       *)
(* sealing loop never panic, spin or stop.                                 *)
WorkloadLiveWhenValid == ValidConfig => WorkloadLive

=============================================================================
