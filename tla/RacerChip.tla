----------------------------- MODULE RacerChip -----------------------------
(***************************************************************************)
(* RACER-Sim's chip (racer-sim/src/hardware.py): the interpreter of RACER  *)
(* programs that Chip.launch runs.  A program alternates instructions that *)
(* edit the mask of selected compute units (SET...) with compute           *)
(* instructions; every maximal run of compute instructions is an epoch,    *)
(* which is charged for latency and energy.  One action is one iteration   *)
(* of one of the loops of configSetup and executeEpoch.                    *)
(*                                                                         *)
(* Costs are integers here: the tables hold decimal fractions, and only    *)
(* sums and products of them are formed.  Python exceptions end a run.     *)
(***************************************************************************)
EXTENDS Integers, Sequences, FiniteSets, SequencesExt

CONSTANTS
    Programs,       \* the contents of instructionMemory after loadInstruction
    NumClusters,    \* dimx * dimy
    ClusterSize,    \* compute units of a cluster (64)
    opTab,          \* operation -> energyCost, latency and warm-up costs
    hopLatCost, hopEnergyCost, propLatCost, propEnergyCost, dynamicPower

Units    == 0 .. NumClusters * ClusterSize - 1
Clusters == 0 .. NumClusters - 1

ASSUME ChipAssumption ==
    /\ NumClusters \in Nat \ {0} /\ ClusterSize \in Nat \ {0}
    /\ {hopLatCost, hopEnergyCost, propLatCost, propEnergyCost, dynamicPower}
           \subseteq Nat
    /\ \A op \in DOMAIN opTab :
           opTab[op] \in [energyCost : Nat, latency : Nat,
                          warmupEnergy : Int, warmupLatency : Nat]

\* 'SET' in opCode
MaskOps == {"SETALL", "UNSETALL", "SET", "UNSET", "SETBULK", "UNSETBULK"}
LoadOps == {"LLOAD", "SLLOAD", "SGLOAD"}
BusOps  == LoadOps \cup {"STORE"}

VARIABLES
    program,            \* instructionMemory: [op, args], args are integers
    pc, mask,
    stage,              \* the loop that runs
    error,              \* the exception that ended the run
    \* locals of executeEpoch
    executionSequences, sequence, visited,
    computeInstructions, epochLatency, epochEnergy,
    \* the accounts
    latency, energy, unitEnergy, localTransfers, globalTransfers,
    \* history: how often the energy of the instruction at a position was
    \* charged to a compute unit, and how often it should have been
    charges, due

localVars   == <<executionSequences, sequence, visited, computeInstructions,
                 epochLatency, epochEnergy>>
accountVars == <<latency, energy, unitEnergy, localTransfers, globalTransfers>>
vars == <<program, pc, mask, stage, error, localVars, accountVars, charges, due>>

\* instructionMemory[self.pc]; the Python list counts from 0
Instruction(p) == program[p + 1]
AtEnd          == pc >= Len(program)
First(instr)   == instr.args[1]
Second(instr)  == instr.args[2]
Third(instr)   == instr.args[3]
\* instruction[-1] and instruction[-2] of a compute instruction
multiplicativeFactor(instr) == instr.args[Len(instr.args)]
fleetSize(instr)            == instr.args[Len(instr.args) - 1]

\* An instruction has the arguments the interpreter reads, and names units that
\* exist; the code checks neither.
Readable(instr) ==
    /\ instr.op \in {"SET", "UNSET"} => Len(instr.args) >= 1 /\ First(instr) \in Units
    /\ instr.op \in {"SETBULK", "UNSETBULK"} => Len(instr.args) >= 3 /\ Third(instr) > 0
    /\ instr.op = "SETBULK" => \/ Second(instr) = 0
                               \/ First(instr) + (Second(instr) - 1) * Third(instr) \in Units
    /\ instr.op \notin MaskOps => Len(instr.args) >= 2
    /\ instr.op = "SLLOAD" => First(instr) \in Units

ReadableProgram(p) == /\ p \in Seq([op : STRING, args : Seq(Nat)])
                      /\ \A i \in 1 .. Len(p) : Readable(p[i])

ASSUME ProgramAssumption == \A p \in Programs : ReadableProgram(p)

\* Fault: the loop runs while instructions are left.
ContinueToEnd == IF pc < Len(program) THEN "config" ELSE "done"
\* while self.pc < self.instSize - 1
Continue == IF pc < Len(program) - 1 THEN "config" ELSE "done"

Init ==
    /\ program \in Programs
    /\ pc = 0 /\ mask = <<>> /\ error = "none"
    /\ stage = IF 0 < Len(program) - 1 THEN "config" ELSE "done"
    /\ executionSequences = <<>> /\ sequence = <<>> /\ visited = 0
    /\ computeInstructions = <<>> /\ epochLatency = 0 /\ epochEnergy = 0
    /\ latency = 0 /\ energy = 0
    /\ unitEnergy = [u \in Units |-> 0]
    /\ localTransfers = [c \in Clusters |-> 0] /\ globalTransfers = 0
    /\ charges = [i \in 1 .. Len(program) |-> 0]
    /\ due = [i \in 1 .. Len(program) |-> 0]

Running(s) == stage = s /\ error = "none"

Raise(exception) ==
    /\ error' = exception
    /\ UNCHANGED <<program, pc, mask, stage, localVars, accountVars, charges, due>>

(***************************************************************************)
(* configSetup                                                             *)
(***************************************************************************)
\* range(start, stop, step)
PyRange(start, stop, step) ==
    [i \in 1 .. (IF stop > start THEN (stop - start + step - 1) \div step ELSE 0)
        |-> start + (i - 1) * step]

\* Fault: the end of the range is selected too.
SetBulkInclusive(m, instr) ==
    m \o PyRange(First(instr), First(instr) + Second(instr) * Third(instr) + 1,
                 Third(instr))
SetBulk(m, instr) ==
    m \o PyRange(First(instr), First(instr) + Second(instr) * Third(instr),
                 Third(instr))

\* UNSETBULK takes a stop, not a count.
RemoveList(instr) == PyRange(First(instr), Second(instr), Third(instr))

RemoveEach(m, units) ==
    LET left[k \in 0 .. Len(units)] ==
            IF k = 0 THEN m ELSE RemoveFirst(left[k - 1], units[k])
    IN  left[Len(units)]

NewMask(instr) ==
    CASE instr.op = "SETALL"    -> [i \in 1 .. NumClusters * ClusterSize |-> i - 1]
      [] instr.op = "UNSETALL"  -> <<>>
      [] instr.op = "SET"       -> Append(mask, First(instr))
      [] instr.op = "UNSET"     -> RemoveFirst(mask, First(instr))
      [] instr.op = "SETBULK"   -> SetBulk(mask, instr)
      [] instr.op = "UNSETBULK" -> RemoveEach(mask, RemoveList(instr))

\* list.remove raises ValueError for an absent unit
Occurrences(s, u) == Cardinality({i \in 1 .. Len(s) : s[i] = u})
RemovesAbsent(instr) ==
    \/ instr.op = "UNSET" /\ Occurrences(mask, First(instr)) = 0
    \/ /\ instr.op = "UNSETBULK"
       /\ \E u \in ToSet(RemoveList(instr)) : Occurrences(mask, u) = 0

ConfigStep ==
    /\ Running("config")
    /\ ~AtEnd
    /\ Instruction(pc).op \in MaskOps
    /\ ~RemovesAbsent(Instruction(pc))
    /\ mask' = NewMask(Instruction(pc))
    /\ pc' = pc + 1
    /\ UNCHANGED <<program, stage, error, localVars, accountVars, charges, due>>

ConfigDone ==
    /\ Running("config")
    /\ ~AtEnd
    /\ Instruction(pc).op \notin MaskOps
    /\ stage' = "split"
    /\ executionSequences' = <<>> /\ sequence' = <<>> /\ visited' = 0
    /\ UNCHANGED <<program, pc, mask, error, computeInstructions, epochLatency,
                   epochEnergy, accountVars, charges, due>>

ConfigFails ==
    /\ Running("config")
    /\ \/ AtEnd /\ Raise("IndexError")
       \/ ~AtEnd /\ Instruction(pc).op \in MaskOps
                 /\ RemovesAbsent(Instruction(pc)) /\ Raise("ValueError")

(***************************************************************************)
(* executeEpoch: execution order                                           *)
(***************************************************************************)
ClusterOf(u) == u \div ClusterSize

\* overlapList always holds the clusters of `sequence'.
overlapList == {ClusterOf(sequence[i]) : i \in 1 .. Len(sequence)}

\* Fault: the overlap list is not restarted with the new sequence's cluster,
\* so that a unit only ever conflicts with the unit before it.
OverlapsLast(u) == sequence # <<>> /\ ClusterOf(u) = ClusterOf(Last(sequence))
\* Fault: every unit starts a sequence of its own.
OverlapsAny(u) == sequence # <<>>
Overlaps(u) == ClusterOf(u) \in overlapList

SplitStep ==
    /\ Running("split")
    /\ visited < Len(mask)
    /\ visited' = visited + 1
    /\ LET u == mask[visited + 1] IN
       IF Overlaps(u)
       THEN /\ executionSequences' = Append(executionSequences, sequence)
            /\ sequence' = <<u>>
       ELSE /\ sequence' = Append(sequence, u)
            /\ UNCHANGED executionSequences
    /\ UNCHANGED <<program, pc, mask, stage, error, computeInstructions,
                   epochLatency, epochEnergy, accountVars, charges, due>>

SplitDone ==
    /\ Running("split")
    /\ visited = Len(mask)
    /\ stage' = "collect"
    /\ executionSequences' = Append(executionSequences, sequence)
    /\ computeInstructions' = <<>>
    /\ UNCHANGED <<program, pc, mask, error, sequence, visited, epochLatency,
                   epochEnergy, accountVars, charges, due>>

(***************************************************************************)
(* executeEpoch: the compute instructions, by their position               *)
(***************************************************************************)
CollectStep ==
    /\ Running("collect")
    /\ ~AtEnd
    /\ Instruction(pc).op \notin MaskOps
    /\ computeInstructions' = Append(computeInstructions, pc + 1)
    /\ due' = [due EXCEPT ![pc + 1] = @ + Len(mask)]
    /\ pc' = pc + 1
    /\ UNCHANGED <<program, mask, stage, error, executionSequences, sequence,
                   visited, epochLatency, epochEnergy, accountVars, charges>>

CollectDone ==
    /\ Running("collect")
    /\ ~AtEnd
    /\ Instruction(pc).op \in MaskOps
    /\ stage' = "charge"
    /\ visited' = 0 /\ epochLatency' = 0 /\ epochEnergy' = 0
    /\ UNCHANGED <<program, pc, mask, error, executionSequences, sequence,
                   computeInstructions, accountVars, charges, due>>

CollectFails == Running("collect") /\ AtEnd /\ Raise("IndexError")

(***************************************************************************)
(* executeEpoch: latency, and the energy of pipelined instructions         *)
(***************************************************************************)
NumSequences  == Len(executionSequences)
SelectedUnits == FlattenSeq(executionSequences)
Position      == computeInstructions[visited + 1]

pipelined(op) == opTab[op].warmupEnergy # 0 \/ opTab[op].warmupLatency # 0

\* epochLatency and epochEnergy after an instruction of this program position
Charge(instr) ==
    LET cost == opTab[instr.op] IN
    CASE instr.op \in LoadOps -> UNCHANGED <<epochLatency, epochEnergy>>
      [] instr.op = "SHIFT" ->
             /\ epochLatency' = epochLatency + First(instr) * hopLatCost
             /\ epochEnergy' = epochEnergy + Second(instr) * hopEnergyCost
      [] instr.op = "PROP" ->
             /\ epochLatency' = epochLatency + First(instr) * propLatCost
             /\ epochEnergy' = epochEnergy + Second(instr) * propEnergyCost
      [] OTHER ->
             IF pipelined(instr.op)
             THEN /\ epochLatency' = epochLatency
                         + (cost.latency * fleetSize(instr) + cost.warmupLatency)
                               * NumSequences
                  /\ epochEnergy' = epochEnergy
                         + ((cost.energyCost * fleetSize(instr) + cost.warmupEnergy)
                                * multiplicativeFactor(instr)
                            + epochLatency' * dynamicPower) * Len(SelectedUnits)
             ELSE /\ epochLatency' = epochLatency + cost.latency * NumSequences
                  /\ epochEnergy' = epochEnergy
                         + cost.latency * dynamicPower * Len(SelectedUnits)

\* Whether this pass charges the energy of the operation to the units.
ChargedHere(op) == /\ op \notin LoadOps \cup {"SHIFT", "PROP"}
                   /\ pipelined(op)

InTable(op) == op \in DOMAIN opTab

ChargeStep ==
    /\ Running("charge")
    /\ visited < Len(computeInstructions)
    /\ LET instr == program[Position] IN
       /\ InTable(instr.op) \/ instr.op \in LoadOps \cup {"SHIFT", "PROP"}
       /\ Charge(instr)
       /\ charges' = [charges EXCEPT ![Position] =
                         IF ChargedHere(instr.op) THEN @ + Len(SelectedUnits)
                                                  ELSE @]
    /\ visited' = visited + 1
    /\ UNCHANGED <<program, pc, mask, stage, error, executionSequences, sequence,
                   computeInstructions, accountVars, due>>

ChargeFails ==
    /\ Running("charge")
    /\ visited < Len(computeInstructions)
    /\ LET op == program[Position].op IN
           ~InTable(op) /\ op \notin LoadOps \cup {"SHIFT", "PROP"}
    /\ Raise("KeyError")

ChargeDone ==
    /\ Running("charge")
    /\ visited = Len(computeInstructions)
    /\ latency' = latency + epochLatency
    /\ energy' = energy + epochEnergy
    /\ visited' = 0
    /\ stage' = "units"
    /\ UNCHANGED <<program, pc, mask, error, executionSequences, sequence,
                   computeInstructions, epochLatency, epochEnergy, unitEnergy,
                   localTransfers, globalTransfers, charges, due>>

(***************************************************************************)
(* executeEpoch: every selected unit executes every instruction            *)
(***************************************************************************)
\* Iteration `visited' of the nested loops over units and instructions.
LoopUnit     == SelectedUnits[(visited \div Len(computeInstructions)) + 1]
LoopPosition == computeInstructions[(visited % Len(computeInstructions)) + 1]
LoopLength   == Len(SelectedUnits) * Len(computeInstructions)

\* Fault: the pipelined instructions are charged here too.
SkippedNever(op) == op \in {"SHIFT", "PROP"}
\* "Pipeline energy already handled from above"
Skipped(op) == \/ op \in {"SHIFT", "PROP"}
               \/ opTab[op].warmupEnergy # 0 /\ opTab[op].warmupLatency # 0

\* Chip.executeOp down to MultiWord.executeOp and MemBus.executeTransfer
ExecuteOp(instr, u) ==
    IF instr.op \notin BusOps
    THEN /\ unitEnergy' = [unitEnergy EXCEPT ![u] = @ + opTab[instr.op].energyCost
                                                  * multiplicativeFactor(instr)]
         /\ charges' = [charges EXCEPT ![LoopPosition] = @ + 1]
         /\ UNCHANGED <<localTransfers, globalTransfers>>
    ELSE /\ localTransfers' =
                IF instr.op = "SLLOAD"
                THEN [localTransfers EXCEPT ![ClusterOf(First(instr))] = @ + 1]
                ELSE localTransfers
         /\ globalTransfers' = globalTransfers + (IF instr.op = "SGLOAD" THEN 1 ELSE 0)
         /\ UNCHANGED <<unitEnergy, charges>>

UnitStep ==
    /\ Running("units")
    /\ visited < LoopLength
    /\ LET instr == program[LoopPosition] IN
       /\ InTable(instr.op) \/ instr.op \in {"SHIFT", "PROP"}
       /\ IF Skipped(instr.op)
          THEN UNCHANGED <<unitEnergy, localTransfers, globalTransfers, charges>>
          ELSE ExecuteOp(instr, LoopUnit)
    /\ visited' = visited + 1
    /\ UNCHANGED <<program, pc, mask, stage, error, executionSequences, sequence,
                   computeInstructions, epochLatency, epochEnergy, latency,
                   energy, due>>

\* A bus instruction has no row in the cost tables.
UnitFails ==
    /\ Running("units")
    /\ visited < LoopLength
    /\ LET op == program[LoopPosition].op IN
           ~InTable(op) /\ op \notin {"SHIFT", "PROP"}
    /\ Raise("KeyError")

EpochDone ==
    /\ Running("units")
    /\ visited = LoopLength
    /\ stage' = Continue
    /\ UNCHANGED <<program, pc, mask, error, localVars, accountVars, charges, due>>

\* launch has returned, or the exception has left the interpreter
Finished == /\ stage = "done" \/ error # "none"
            /\ UNCHANGED vars

Next == \/ ConfigStep \/ ConfigDone \/ ConfigFails
        \/ SplitStep \/ SplitDone
        \/ CollectStep \/ CollectDone \/ CollectFails
        \/ ChargeStep \/ ChargeFails \/ ChargeDone
        \/ UnitStep \/ UnitFails \/ EpochDone
        \/ Finished

\* The interpreter is a loop in one thread: it runs until it returns.
Spec     == Init /\ [][Next]_vars
FairSpec == Spec /\ WF_vars(Next)
-----------------------------------------------------------------------------
(***************************************************************************)
(* Properties                                                              *)
(***************************************************************************)
ComputePositions == {i \in 1 .. Len(program) : program[i].op \notin MaskOps}

\* The types of all variables; pc never passes the end of the program.
TypeOK ==
    /\ ReadableProgram(program)
    /\ pc \in 0 .. Len(program)
    /\ mask \in Seq(Units)
    /\ stage \in {"config", "split", "collect", "charge", "units", "done"}
    /\ error \in {"none", "IndexError", "ValueError", "KeyError"}
    /\ executionSequences \in Seq(Seq(Units)) /\ sequence \in Seq(Units)
    /\ visited \in Nat
    /\ computeInstructions \in Seq(ComputePositions)
    /\ epochLatency \in Nat /\ epochEnergy \in Int
    /\ latency \in Nat /\ energy \in Int
    /\ unitEnergy \in [Units -> Nat]
    /\ localTransfers \in [Clusters -> Nat] /\ globalTransfers \in Nat
    /\ charges \in [1 .. Len(program) -> Nat] /\ due \in [1 .. Len(program) -> Nat]

\* "Sort execution order (no more than 1 multi-word per cluster)": executeEpoch
\* splits the mask into sequences that use no cluster twice, and together they
\* are the mask: no unit is dropped, repeated or moved.
SequencesSplitTheMask ==
    stage \in {"collect", "charge", "units"} =>
        /\ SelectedUnits = mask
        /\ \A k \in 1 .. NumSequences :
               LET s == executionSequences[k] IN
               \A i, j \in 1 .. Len(s) : i # j => ClusterOf(s[i]) # ClusterOf(s[j])

\* A new sequence begins only where the unit's cluster is already busy, so the
\* number of sequences, which multiplies the latency, is never larger than the
\* order of the mask requires.
SequencesAreMaximal ==
    stage \in {"collect", "charge", "units"} =>
        \A k \in 1 .. NumSequences - 1 :
            \E u \in ToSet(executionSequences[k]) :
                ClusterOf(u) = ClusterOf(executionSequences[k + 1][1])

\* The energy of a compute instruction is charged once to every selected unit:
\* either by the latency pass (pipelined operations) or by the unit loop, never
\* by both and never by neither.
Computes(i) == program[i].op \notin MaskOps \cup BusOps \cup {"SHIFT", "PROP"}
ChargedOncePerUnit ==
    stage \in {"config", "done"} /\ error = "none" =>
        \A i \in 1 .. Len(program) : Computes(i) => charges[i] = due[i]

\* A program as the ones under programs/racer are written: only operations of
\* the cost table, nothing unset unit by unit, and one mask instruction closing
\* the last epoch, because launch never looks at the last instruction.
WellFormed ==
    /\ Len(program) > 1
    /\ program[Len(program)].op \in MaskOps
    /\ program[Len(program) - 1].op \notin MaskOps
    /\ \A i \in 1 .. Len(program) :
           program[i].op \in DOMAIN opTab \cup {"SHIFT", "PROP"}
                              \cup (MaskOps \ {"UNSET", "UNSETBULK"})

\* launch returns from every well-formed program, having passed over every
\* instruction but the closing one.
WellFormedProgramsFinish ==
    WellFormed ~> stage = "done" /\ pc = Len(program) - 1

-----------------------------------------------------------------------------
(***************************************************************************)
(* Why they hold                                                           *)
(***************************************************************************)
InEpoch == stage \in {"split", "collect", "charge", "units"}

\* The sequences so far, with the one that is being made.
AllSequences == IF stage = "split" THEN Append(executionSequences, sequence)
                                   ELSE executionSequences
UsesClustersOnce(s) ==
    \A i, j \in 1 .. Len(s) : i # j => ClusterOf(s[i]) # ClusterOf(s[j])
Conflict(s, t) ==
    t # <<>> /\ \E u \in ToSet(s) : ClusterOf(u) = ClusterOf(t[1])

SplitInv ==
    InEpoch =>
        /\ stage = "split" => visited <= Len(mask)
        /\ FlattenSeq(AllSequences) =
               SubSeq(mask, 1, IF stage = "split" THEN visited ELSE Len(mask))
        /\ \A k \in 1 .. Len(AllSequences) : UsesClustersOnce(AllSequences[k])
        /\ \A k \in 1 .. Len(AllSequences) - 1 :
               Conflict(AllSequences[k], AllSequences[k + 1])

\* The instructions of the epoch are the last ones pc has passed.
EpochSize == Len(computeInstructions)
CollectInv ==
    stage \in {"collect", "charge", "units"} =>
        /\ EpochSize <= pc
        /\ \A j \in 1 .. EpochSize : computeInstructions[j] = pc - EpochSize + j
        /\ stage = "charge" => visited <= EpochSize
        /\ stage = "units" => visited <= Len(mask) * EpochSize

\* How many units instruction j of the epoch has still to be charged to.  The
\* loop over units and instructions charges them in turn.
LoopTurns(j) == (visited \div EpochSize)
                + (IF j - 1 < visited % EpochSize THEN 1 ELSE 0)
StillDue(j) ==
    LET here == ChargedHere(program[computeInstructions[j]].op) IN
    CASE stage = "collect" -> Len(mask)
      [] stage = "charge"  -> IF here /\ j <= visited THEN 0 ELSE Len(mask)
      [] stage = "units"   -> IF here THEN 0 ELSE Len(mask) - LoopTurns(j)

AccountInv ==
    error = "none" =>
        \A i \in 1 .. Len(program) : Computes(i) =>
            IF /\ stage \in {"collect", "charge", "units"}
               /\ i \in pc - EpochSize + 1 .. pc
            THEN charges[i] + StillDue(i - (pc - EpochSize)) = due[i]
            ELSE charges[i] = due[i]
=============================================================================
