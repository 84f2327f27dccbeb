------------------------- MODULE ClockDomainProofs -------------------------
(* The crosser keeps the memory's time within one memory cycle of the CPU's,  *)
(* for every pair of frequencies.                                             *)
EXTENDS ClockDomain, TLAPS

\* The crosser starts with both counters at zero and no time passed.
LEMMA InitIndInv == Init => IndInv
BY FrequencyAssumption
   DEF Init, IndInv, TypeOK, CountersTrackTime, NeverFarAhead, NeverFarBehind

\* Every step of ClockDomainCrosser::update keeps the counters and the two
\* clocks' times together.
LEMMA NextIndInv == IndInv /\ [Next]_vars => IndInv'
<1> SUFFICES ASSUME IndInv, [Next]_vars PROVE IndInv'
    OBVIOUS
<1> USE FrequencyAssumption
    DEF IndInv, TypeOK, CountersTrackTime, NeverFarAhead, NeverFarBehind
<1>1. CASE UpdateOneToOne
      BY <1>1 DEF UpdateOneToOne
<1>2. CASE Update
      BY <1>2 DEF Update
<1>3. CASE Callback
      BY <1>3 DEF Callback, Behind
<1>4. CASE UpdateDone
      BY <1>4 DEF UpdateDone, Behind
<1>5. CASE UNCHANGED vars
      BY <1>5 DEF vars
<1> QED BY <1>1, <1>2, <1>3, <1>4, <1>5 DEF Next

\* However often ClockDomainCrosser::update clears its counters, their difference
\* is what the memory's time is ahead of the CPU's, and it stays within one
\* period of each clock.
THEOREM CountersKeepTime == Spec => []IndInv
BY InitIndInv, NextIndInv, PTL DEF Spec

\* ClockDomainCrosser::update never lets the memory fall behind the CPU or run
\* a whole memory cycle ahead, for any frequencies and any length of run.
THEOREM PaceTheorem == Spec => []MemoryKeepsPace
<1>1. IndInv => MemoryKeepsPace
      BY DEF IndInv, TypeOK, NeverFarAhead, NeverFarBehind, MemoryKeepsPace
<1> QED BY <1>1, InitIndInv, NextIndInv, PTL DEF Spec
=============================================================================
