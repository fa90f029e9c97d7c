------------------------------- MODULE Runner -------------------------------
(***************************************************************************)
(* scilla_runner.ml: one process per deployment or message, from the size  *)
(* of its input files to its output file or its fatal error, around the    *)
(* evaluator.  The blockchain that starts the process, keeps the state     *)
(* file and applies the output is external: it is modelled from the files  *)
(* that the runner reads and writes.                                       *)
(*                                                                         *)
(* Each `stage' is one step of main, in its order.  The service mode is    *)
(* Local: in IPC mode every query of StateService.ml fails with            *)
(* `unimplemented'.                                                        *)
(***************************************************************************)
EXTENDS Evaluator

CONSTANTS
    FileSizes,       \* sizes the input files may have, charged as gas
    InitCosts,       \* gas that initialising libraries or fields may take
    Penalty,         \* Gas.version_mismatch_penalty
    MaxGasUint,      \* largest Uint64
    Programs         \* {"contract"}, {"library"} or both

ASSUME RunnerAssumption ==
    /\ FileSizes \subseteq Nat /\ InitCosts \subseteq Nat
    /\ Penalty \in Nat /\ MaxGasUint \in Nat
    /\ MaxGas <= MaxGasUint /\ Penalty <= MaxGasUint
    /\ Programs \subseteq {"contract", "library"}

VARIABLES
    stage,           \* where main is, "idle" when no process runs
    run,             \* the command line: program, message or deployment,
                     \* amount, gas limit, and whether init.json is valid
    report,          \* what the process printed or wrote
    committed,       \* the state file: deployed, balance and fields
    outside          \* the funds the contract does not own

chain == <<committed, outside>>
runnerVars == <<vars, stage, run, report, chain>>

NoRun == [program |-> "none", message |-> FALSE, amount |-> 0, limit |-> 0,
          validInit |-> FALSE]
NoReport == [kind |-> "none", gas |-> 0, balance |-> 0,
             accepted |-> FALSE, sent |-> <<>>, state |-> <<>>]
Uninitialized == <<>>

-----------------------------------------------------------------------------
(* No message is being evaluated. *)
Idle ==
    /\ status = "idle"
    /\ opening = 0 /\ amount = 0
    /\ balance = 0 /\ accepted = FALSE /\ incoming = 0
    /\ env = ContractEnv /\ scope = ContractEnv
    /\ procs = 0 /\ componentStack = <<>> /\ frames = <<>>
    /\ emitted = <<>> /\ events = 0

BecomeIdle ==
    /\ status' = "idle"
    /\ opening' = 0 /\ amount' = 0
    /\ balance' = 0 /\ accepted' = FALSE /\ incoming' = 0
    /\ env' = ContractEnv /\ scope' = ContractEnv
    /\ procs' = 0 /\ componentStack' = <<>> /\ frames' = <<>>
    /\ emitted' = <<>> /\ events' = 0

EvaluatorIdle == UNCHANGED <<status, opening, amount, conf>>

RunnerInit ==
    /\ Idle
    /\ gas = 0
    /\ fields = Uninitialized
    /\ stage = "idle" /\ run = NoRun /\ report = NoReport
    /\ committed = [deployed |-> FALSE, balance |-> 0, fields |-> Uninitialized]
    /\ outside = Supply

(* External: the blockchain starts the runner.  A message moves at most     *)
(* what its sender owns.                                                    *)
Submit ==
    /\ stage = "idle"
    /\ \E program \in Programs, message, valid \in BOOLEAN,
          sent \in 0..outside, limit \in 0..MaxGas :
         /\ program = "contract" => message = committed.deployed
         /\ ~message => sent = 0
         /\ run' = [program |-> program, message |-> message, amount |-> sent,
                    limit |-> limit, validInit |-> valid]
         /\ gas' = limit
    /\ stage' = "files"
    /\ report' = NoReport
    /\ UNCHANGED <<fields, chain>> /\ EvaluatorIdle

(* The process ends, and with it everything it held in memory. *)
Exit(what) ==
    /\ report' = what
    /\ stage' = "exited"
    /\ BecomeIdle
    /\ gas' = 0
    /\ fields' = Uninitialized
    /\ UNCHANGED <<run, chain>>

-----------------------------------------------------------------------------
(* fatal_error_gas: print the error and the gas, exit. *)
Fatal(rest) == Exit([NoReport EXCEPT !.kind = "fatal", !.gas = rest])

(* The order of main. *)
After(s) ==
    CASE s = "files"      -> "module"
      [] s = "module"     -> "imports"
      [] s = "imports"    -> "libraries"
      [] s = "libraries"  -> "initargs"
      [] s = "initargs"   -> IF run.program = "library" THEN "written" ELSE "version"
      [] s = "version"    -> "blockchain"
      [] s = "blockchain" -> IF run.message THEN "message" ELSE "fields"
      [] s = "message"    -> "state"
      [] s = "state"      -> "fields"
      [] s = "fields"     -> IF run.message THEN "prepare" ELSE "written"

Proceed(rest) ==
    /\ stage' = After(stage)
    /\ gas' = rest
    /\ UNCHANGED <<run, report, chain>> /\ EvaluatorIdle

(* Mutant: Uint64.sub without the comparison. *)
ChargeFilesWrapped(size) ==
    /\ stage = "files"
    /\ Proceed((gas - size) % (MaxGasUint + 1)) /\ UNCHANGED fields

(* The input is charged by its size before anything is read. *)
ChargeFiles(size) ==
    /\ stage = "files"
    /\ IF gas < size THEN Fatal(0) ELSE Proceed(gas - size) /\ UNCHANGED fields

(* A parser or a JSON reader accepts its input, or the run ends. *)
ReadInput ==
    /\ stage \in {"module", "initargs", "blockchain", "message", "state"}
    /\ \/ Proceed(gas) /\ UNCHANGED fields
       \/ Fatal(gas)

(* import_lib exits with fatal_error, which reports no gas. *)
Import ==
    /\ stage = "imports"
    /\ \/ Proceed(gas) /\ UNCHANGED fields
       \/ Exit([NoReport EXCEPT !.kind = "lost"])

(* check_libs: evaluation within the gas there is. *)
InitLibraries(cost) ==
    /\ stage = "libraries"
    /\ \/ gas >= cost /\ Proceed(gas - cost) /\ UNCHANGED fields
       \/ \E rest \in 0..gas : Fatal(rest)

(* A version mismatch costs a penalty: Uint64.sub wraps around. *)
CheckVersion ==
    /\ stage = "version"
    /\ \/ Proceed(gas) /\ UNCHANGED fields
       \/ Fatal((gas - Penalty) % (MaxGasUint + 1))

(* init_module evaluates the libraries again, checks the parameters and     *)
(* evaluates the fields' initial values.  A message starts from the values  *)
(* in the state file, which StateService.initialize is given.               *)
InitModule(cost) ==
    /\ stage = "fields"
    /\ \/ /\ gas >= cost /\ run.validInit
          /\ Proceed(gas - cost)
          /\ IF run.message THEN fields' = committed.fields
                            ELSE fields' \in [Fields -> LitCosts]
       \/ \E rest \in 0..gas : Fatal(rest)

(* handle_message up to its call of stmt_eval. *)
PrepareForMessage ==
    /\ stage = "prepare"
    /\ \/ Fatal(gas)
       \/ /\ stage' = "execute"
          /\ status' = "running"
          /\ opening' = committed.balance /\ amount' = run.amount
          /\ balance' = committed.balance
          /\ accepted' = FALSE
          /\ incoming' = run.amount
          /\ env' = InitEnv /\ scope' = InitEnv
          /\ procs' \in 0..NumProcs
          /\ componentStack' = <<0>> /\ frames' = <<>>
          /\ emitted' = <<>> /\ events' = 0
          /\ UNCHANGED <<fields, gas, run, report, chain>>

Evaluate ==
    /\ stage = "execute"
    /\ Next
    /\ UNCHANGED <<stage, run, report, chain>>

(* Mutant: the error is printed with perr alone. *)
EvaluationFailedPrinted ==
    /\ stage = "execute" /\ status = "failed"
    /\ UNCHANGED runnerVars

EvaluationFailed ==
    /\ stage = "execute" /\ status = "failed"
    /\ Fatal(gas)

(* Mutant: any number of messages is output. *)
WriteEvery ==
    /\ stage = "execute" /\ status = "done"
    /\ Exit([kind |-> "output", gas |-> gas, balance |-> balance,
             accepted |-> accepted, sent |-> emitted, state |-> fields])

(* The result of a message: more than one outgoing message is fatal. *)
WriteResult ==
    /\ stage = "execute" /\ status = "done"
    /\ IF Len(emitted) > 1 THEN Fatal(gas)
       ELSE Exit([kind |-> "output", gas |-> gas, balance |-> balance,
                  accepted |-> accepted, sent |-> emitted, state |-> fields])

(* The result of a deployment: a contract's balance is zero. *)
WriteDeployed ==
    /\ stage = "written"
    /\ Exit([NoReport EXCEPT !.kind = "output", !.gas = gas, !.state = fields])

-----------------------------------------------------------------------------
(* External: the blockchain takes a result it is given, and moves the funds *)
(* the result says were accepted and sent.                                  *)
Apply ==
    /\ stage = "exited"
    /\ IF report.kind = "output" /\ run.program = "contract"
       THEN LET taken == IF report.accepted THEN run.amount ELSE 0
            IN  /\ committed' = [deployed |-> TRUE, balance |-> report.balance,
                                 fields |-> report.state]
                /\ outside' = outside + Total(report.sent) - taken
       ELSE UNCHANGED chain
    /\ stage' = "idle"
    /\ run' = NoRun /\ report' = NoReport
    /\ UNCHANGED vars

RunnerStep ==
    \/ \E size \in FileSizes : ChargeFiles(size)
    \/ ReadInput
    \/ Import
    \/ \E cost \in InitCosts : InitLibraries(cost) \/ InitModule(cost)
    \/ CheckVersion
    \/ PrepareForMessage
    \/ Evaluate
    \/ EvaluationFailed
    \/ WriteResult
    \/ WriteDeployed

RunnerNext == Submit \/ RunnerStep \/ Apply

RunnerSpec == RunnerInit /\ [][RunnerNext]_runnerVars

(* The process goes on until it exits, and the blockchain reads the result. *)
RunnerFairSpec == RunnerSpec /\ WF_runnerVars(RunnerStep) /\ WF_runnerVars(Apply)

-----------------------------------------------------------------------------
(* Properties. *)

(* The stages, the input and the result of a run and the state file.        *)
RunnerTypeOK ==
    /\ stage \in {"idle", "files", "module", "imports", "libraries", "initargs",
                  "version", "blockchain", "message", "state", "fields",
                  "prepare", "execute", "written", "exited"}
    /\ stage # "execute" => Idle
    /\ report.kind \in {"none", "output", "fatal", "lost"}
    /\ report.gas \in 0..MaxGasUint
    /\ committed.balance \in 0..Supply /\ outside \in 0..Supply
    /\ gas \in 0..MaxGas

(* The blockchain's view: each run of the many-step pipeline is one message *)
(* processed completely or not at all, and no funds appear or vanish.       *)
OnChain == INSTANCE Ledger WITH
    deployed <- committed.deployed,
    balance <- committed.balance,
    state <- committed.fields,
    States <- [Fields -> LitCosts] \cup {Uninitialized}

AtomicMessages == OnChain!Spec

(* The balance the contract computed for itself and the funds that moved on *)
(* the chain agree.                                                         *)
FundsConserved == committed.balance + outside = Supply

(* The gas left over in a result that is written is part of the gas the run *)
(* was given.                                                               *)
OutputGasWithinLimit ==
    stage = "exited" /\ report.kind = "output" => report.gas <= run.limit

(* Every run ends, whatever the program does. *)
RunsEnd == stage # "idle" ~> stage = "idle"
=============================================================================
