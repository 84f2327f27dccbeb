---------------------------- MODULE ClockDomain ----------------------------
(***************************************************************************)
(* ClockDomainCrosser::update (ClockDomain.cpp), which MARSS calls once    *)
(* per CPU cycle and which calls the memory's actual_update at the memory's*)
(* own rate.  clock1 is the memory's frequency, clock2 the CPU's, set by   *)
(* MultiChannelMemorySystem::setCPUClockSpeed.  In the time clock1*clock2  *)
(* counts as one second, a CPU cycle lasts clock1 units and a memory cycle *)
(* clock2 units; `ahead' is how far the memory's time is ahead of the      *)
(* CPU's, and no variable of the code.                                     *)
(***************************************************************************)
EXTENDS Integers

CONSTANT Frequencies    \* the frequencies the two clocks may have

ASSUME FrequencyAssumption == Frequencies \subseteq Nat \ {0}

VARIABLES clock1, clock2, counter1, counter2,
          control,      \* "idle", or "updating" in the while loop of update
          ahead

vars == <<clock1, clock2, counter1, counter2, control, ahead>>

Init == /\ clock1 \in Frequencies /\ clock2 \in Frequencies
        /\ counter1 = 0 /\ counter2 = 0
        /\ control = "idle"
        /\ ahead = 0

\* The short circuit for equal clocks: one callback, no counters.
UpdateOneToOne ==
    /\ control = "idle"
    /\ clock1 = clock2
    /\ ahead' = ahead - clock1 + clock2
    /\ UNCHANGED <<clock1, clock2, counter1, counter2, control>>

Update ==
    /\ control = "idle"
    /\ clock1 # clock2
    /\ counter1' = counter1 + clock1
    /\ control' = "updating"
    /\ ahead' = ahead - clock1
    /\ UNCHANGED <<clock1, clock2, counter2>>

\* Fault: the loop also runs when the counters are level.
BehindOrLevel == counter2 <= counter1
Behind == counter2 < counter1

\* One iteration of the while loop: the memory runs one cycle.
Callback ==
    /\ control = "updating"
    /\ Behind
    /\ counter2' = counter2 + clock2
    /\ ahead' = ahead + clock2
    /\ UNCHANGED <<clock1, clock2, counter1, control>>

\* The counters are cleared whenever they are level, which keeps them small.
UpdateDone ==
    /\ control = "updating"
    /\ ~Behind
    /\ control' = "idle"
    /\ counter1' = IF counter1 = counter2 THEN 0 ELSE counter1
    /\ counter2' = IF counter1 = counter2 THEN 0 ELSE counter2
    /\ UNCHANGED <<clock1, clock2, ahead>>

Next == UpdateOneToOne \/ Update \/ Callback \/ UpdateDone

Spec == Init /\ [][Next]_vars

-----------------------------------------------------------------------------
\* The types of all variables.
TypeOK == /\ clock1 \in Frequencies /\ clock2 \in Frequencies
          /\ counter1 \in Nat /\ counter2 \in Nat
          /\ control \in {"idle", "updating"} /\ ahead \in Int

\* Whenever update returns, the memory has run exactly the cycles that have
\* begun: it is never behind the CPU and never a whole cycle ahead, however
\* long the simulation runs and however often the counters were cleared.
MemoryKeepsPace == control = "idle" => ahead >= 0 /\ ahead < clock2

\* Why: the counters are the two times up to what clearing took off both.
CountersTrackTime == ahead = counter2 - counter1
NeverFarAhead     == ahead < clock2
NeverFarBehind    == IF control = "updating" THEN ahead >= -clock1 ELSE ahead >= 0
IndInv == TypeOK /\ CountersTrackTime /\ NeverFarAhead /\ NeverFarBehind
=============================================================================
