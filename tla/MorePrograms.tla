---------------------------- MODULE MorePrograms ----------------------------
(***************************************************************************)
(* The CPU affinity benchmark and six smaller programs of the course, one  *)
(* behaviour of one of them at a time, as in SmallPrograms: program names  *)
(* it, and the state of the others stays as it is. What is checked here is *)
(* safety only, so that no fairness is needed.                             *)
(***************************************************************************)
EXTENDS AffinityAdvance

CONSTANTS increments,
          NumChildren, Rounds,
          alignment, ARRAY_SIZE, NUM_ITERATIONS, Granule, PtrSize, DoubleSize, MaxAddress,
          pin, Others,
          Runs, Blinks,
          NS, INTERVAL, ITERATIONS, MinStart, LongHalf, Lateness, StartTimes

ASSUME RaceAssumption == increments \in Nat
ASSUME ReaperAssumption == NumChildren \in Nat \ {0} /\ Rounds \in Nat
ASSUME AlignAssumption ==
    /\ alignment \in Nat \ {0, 1} /\ ARRAY_SIZE \in Nat /\ ARRAY_SIZE >= 4
    /\ NUM_ITERATIONS \in Nat \ {0} /\ MaxAddress \in Nat
    /\ PtrSize \in Nat /\ DoubleSize \in Nat /\ Granule \in Nat \ {0}
    /\ PtrSize <= Granule /\ alignment % Granule = 0
ASSUME PinAssumption == pin \notin Others
ASSUME BlinkAssumption == Blinks \in Nat \ {0}
ASSUME CyclicAssumption ==
    /\ NS \in Nat /\ INTERVAL \in 1 .. NS - 1 /\ ITERATIONS \in Nat /\ MinStart \in Nat
    /\ LongHalf \in Nat /\ LongHalf > NS /\ Lateness \subseteq Nat /\ StartTimes \subseteq Nat

VARIABLES program,
          phase, maker, thread, n, tmp, total, mutex, created,
          parent, round, kid, pending, handler, errno, saved_errno, printed,
          stage, test, iter, heap, aligned_data, unaligned_data, buffer, original_ptr,
          led, pinCycle, mux, OE, DATAOUT, reg_value, wishOE, wishOUT, raced,
          exported, direction, value, run, cmd, current_value, cycle, lit, was_lit,
          at, turn, keep_running, t_start, t_target, min_latency, max_latency,
          total_latency, first, samples

Race == INSTANCE RaceCounter WITH iterations <- increments
Reaper == INSTANCE ChildReaper
Align == INSTANCE MemAlign
Pin == INSTANCE PinConfig WITH at <- led, cycle <- pinCycle
Led == INSTANCE GpioLed
Cyclic == INSTANCE CyclicTest WITH i <- turn

raceVars == <<phase, maker, thread, n, tmp, total, mutex, created>>
reapVars == <<parent, round, kid, pending, handler, errno, saved_errno, printed>>
alignVars == <<stage, test, iter, heap, aligned_data, unaligned_data, buffer, original_ptr>>
pinVars == <<led, pinCycle, mux, OE, DATAOUT, reg_value, wishOE, wishOUT, raced>>
ledVars == <<exported, direction, value, run, cmd, current_value, cycle, lit, was_lit>>
cyclicVars == <<at, turn, keep_running, t_start, t_target, min_latency, max_latency,
                total_latency, first, samples>>
allVars == <<program, vars, raceVars, reapVars, alignVars, pinVars, ledVars, cyclicVars>>

AllInit == /\ program \in {"affinity", "race", "reaper", "align", "pin", "led", "cyclic"}
           /\ Init /\ Race!Init /\ Reaper!Init /\ Align!Init /\ Pin!Init /\ Cyclic!Init
           /\ IF program = "led" THEN Led!Init
              ELSE /\ exported = FALSE /\ direction = "in" /\ value = 0
                   /\ run = [r \in Runs |-> "export"] /\ cmd = [r \in Runs |-> "on"]
                   /\ current_value = [r \in Runs |-> -1]
                   /\ cycle = [r \in Runs |-> 0] /\ lit = [r \in Runs |-> {}]
                   /\ was_lit = [r \in Runs |-> 0]
           /\ program # "pin" => mux = {4} /\ OE = {pin}

\* A step of one program.
InAffinity == /\ program = "affinity" /\ Next
              /\ UNCHANGED <<program, raceVars, reapVars, alignVars, pinVars, ledVars, cyclicVars>>
InRace == /\ program = "race" /\ Race!Next
          /\ UNCHANGED <<program, vars, reapVars, alignVars, pinVars, ledVars, cyclicVars>>
InReaper == /\ program = "reaper" /\ Reaper!Next
            /\ UNCHANGED <<program, vars, raceVars, alignVars, pinVars, ledVars, cyclicVars>>
InAlign == /\ program = "align" /\ Align!Next
           /\ UNCHANGED <<program, vars, raceVars, reapVars, pinVars, ledVars, cyclicVars>>
InPin == /\ program = "pin" /\ Pin!Next
         /\ UNCHANGED <<program, vars, raceVars, reapVars, alignVars, ledVars, cyclicVars>>
InLed == /\ program = "led" /\ Led!Next
         /\ UNCHANGED <<program, vars, raceVars, reapVars, alignVars, pinVars, cyclicVars>>
InCyclic == /\ program = "cyclic" /\ Cyclic!Next
            /\ UNCHANGED <<program, vars, raceVars, reapVars, alignVars, pinVars, ledVars>>

AllNext == InAffinity \/ InRace \/ InReaper \/ InAlign \/ InPin \/ InLed \/ InCyclic

AllSpec == AllInit /\ [][AllNext]_allVars
-----------------------------------------------------------------------------
\* Race demonstration: with the mutex no increment is missing; without it at
\* least two are left, and none is counted twice.
CountsAtEnd == Race!CountsAtEnd

\* Zombie example: no child that has ended is overlooked, however many ended
\* for one SIGCHLD.
ZombiesAreSeen == Reaper!ZombiesAreSeen

\* Zombie example: the handler does not change the error of a failed fork.
ForkErrorReported == Reaper!ForkErrorReported

\* Alignment benchmark: the misaligned array and the address stored in front of
\* it lie in their block, unless malloc returned an aligned one.
UnalignedInside == Align!UnalignedInside

\* Pin configuration: the other pins of the bank keep their values, and their
\* directions unless these were written during main's load and store.
OtherPinsKept == Pin!OtherPinsKept

\* LED command: the LED is dark, even after a failed write, unless on, toggle or
\* another invocation lit it.
DarkUnlessLit == Led!DarkUnlessLit

\* Cyclic test: what it prints is true, and it divides by zero only when it was
\* stopped before the first wake-up.
StatisticsAreTrue == Cyclic!StatisticsAreTrue
=============================================================================
