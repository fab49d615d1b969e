----------------------------- MODULE MoreProofs -----------------------------
(***************************************************************************)
(* Proofs about four programs of MorePrograms: the pin configuration, the  *)
(* LED command, the zombie example and the alignment benchmark. Each has   *)
(* an inductive invariant of its own, which a step of its program keeps,   *)
(* and so does a step of any other program, since that leaves its state    *)
(* alone.                                                                  *)
(***************************************************************************)
EXTENDS MorePrograms, TLAPS

\* What a step of the whole is to each program: one of its own steps, or none.
LEMMA OneProgramSteps ==
    ASSUME [AllNext]_allVars
    PROVE  /\ Next \/ UNCHANGED vars
           /\ Race!Next \/ UNCHANGED raceVars
           /\ Reaper!Next \/ UNCHANGED reapVars
           /\ Align!Next \/ UNCHANGED alignVars
           /\ Pin!Next \/ UNCHANGED pinVars
           /\ Led!Next \/ UNCHANGED ledVars
           /\ Cyclic!Next \/ UNCHANGED cyclicVars
BY DEF AllNext, allVars, InAffinity, InRace, InReaper, InAlign, InPin, InLed, InCyclic

-----------------------------------------------------------------------------
(* The pin configuration *)

\* Between its load and its store main holds a copy of the directions that is
\* still right for the other pins, unless one of them was written meanwhile.
PinInv == /\ Pin!OtherPinsKept
          /\ led = "dirStore" /\ ~raced => reg_value \ {pin} = wishOE

\* PinInv holds at the start of configure_pin's program.
LEMMA PinInit == ASSUME AllInit PROVE PinInv
BY DEF AllInit, PinInv, Pin!Init, Pin!OtherPinsKept

\* Every step keeps PinInv, those of the other users of the bank included.
LEMMA PinNext == ASSUME PinInv, [AllNext]_allVars PROVE PinInv'
<1> USE PinAssumption DEF PinInv, Pin!OtherPinsKept, Pin!Go, Pin!theirs
<1>1. CASE UNCHANGED pinVars
  BY <1>1 DEF pinVars
<1>2. CASE Pin!map_memory \/ Pin!configure_pin \/ Pin!unmap_memory
  BY <1>2 DEF Pin!map_memory, Pin!configure_pin, Pin!unmap_memory
<1>3. CASE Pin!configure_gpio_direction
  BY <1>3 DEF Pin!configure_gpio_direction
<1>4. CASE Pin!Blink \/ Pin!LedOff
  BY <1>4 DEF Pin!Blink, Pin!LedOff, Pin!set_gpio_value
<1>5. ASSUME NEW q \in Others, Pin!OtherDirection(q) PROVE PinInv'
  BY <1>5 DEF Pin!OtherDirection
<1>6. ASSUME NEW q \in Others, Pin!OtherOutput(q) PROVE PinInv'
  BY <1>6 DEF Pin!OtherOutput
<1> QED
  BY <1>1, <1>2, <1>3, <1>4, <1>5, <1>6, OneProgramSteps DEF Pin!Next, Pin!MainStep

\* Pin configuration: for every set of other pins, their outputs are what their
\* users set, and so are their directions unless one was written between the
\* load and the store of configure_gpio_direction.
THEOREM OtherPinsAreKept == AllSpec => []OtherPinsKept
<1>1. PinInv => OtherPinsKept
  BY DEF PinInv, OtherPinsKept
<1> QED
  BY <1>1, PinInit, PinNext, PTL DEF AllSpec
-----------------------------------------------------------------------------
(* The LED command *)

\* Types; an invocation that has not returned has a cycle of blink left.
LedType ==
    /\ Led!TypeOK
    /\ \A r \in Runs : run[r] \notin {"return0", "return1"} => cycle[r] < Blinks
\* Given the types, that the LED is dark unless somebody lit it is inductive.
LedInv == LedType /\ Led!DarkUnlessLit

\* LedInv holds whatever the pin was left at.
LEMMA LedInit == ASSUME AllInit PROVE LedInv
<1>1. /\ exported \in BOOLEAN /\ direction \in {"in", "out"} /\ value \in {0, 1}
      /\ run = [r \in Runs |-> "export"] /\ current_value = [r \in Runs |-> -1]
      /\ cycle = [r \in Runs |-> 0] /\ lit = [r \in Runs |-> {}]
      /\ was_lit = [r \in Runs |-> 0]
  BY DEF AllInit, Led!Init
<1>2. cmd \in [Runs -> Led!Commands]
  BY DEF AllInit, Led!Init, Led!Commands
<1>3. LedType
  BY <1>1, <1>2, BlinkAssumption DEF LedType, Led!TypeOK
<1> QED
  BY <1>1, <1>3 DEF LedInv, Led!DarkUnlessLit

\* The functions of 00_led.c keep the types, and blink counts within Blinks.
LEMMA LedTypeNext == ASSUME LedType, Led!Next PROVE LedType'
<1> SUFFICES ASSUME NEW r \in Runs, Led!RunStep(r) PROVE LedType'
  BY DEF Led!Next
<1> USE BlinkAssumption DEF LedType, Led!TypeOK, Led!Go
<1>1. CASE Led!gpio_export(r) \/ Led!gpio_get_value(r)
  BY <1>1 DEF Led!gpio_export, Led!gpio_get_value, Led!pinVars
<1>2. CASE Led!gpio_set_direction(r)
  BY <1>2 DEF Led!gpio_set_direction, Led!WriteOut, Led!Lit
<1>3. CASE Led!Dispatch(r)
  BY <1>3 DEF Led!Dispatch, Led!pinVars, Led!Commands
<1>4. CASE Led!Switch(r)
  BY <1>4 DEF Led!Switch, Led!gpio_set_value, Led!NewValue
<1>5. CASE Led!Blink(r)
  BY <1>5 DEF Led!Blink, Led!gpio_set_value
<1> QED
  BY <1>1, <1>2, <1>3, <1>4, <1>5 DEF Led!RunStep

\* Every step of every invocation keeps LedInv.
LEMMA LedNext == ASSUME LedInv, [AllNext]_allVars PROVE LedInv'
<1>1. CASE UNCHANGED ledVars
  BY <1>1 DEF ledVars, LedInv, LedType, Led!TypeOK, Led!DarkUnlessLit
<1>2. ASSUME NEW r \in Runs, Led!RunStep(r) PROVE LedInv'
  <2>1. LedType /\ LedType'
    BY <1>2, LedTypeNext DEF LedInv, Led!Next
  <2> USE <2>1 DEF LedInv, LedType, Led!TypeOK, Led!Go, Led!DarkUnlessLit
  <2>2. CASE Led!gpio_export(r) \/ Led!gpio_get_value(r)
    BY <2>2 DEF Led!gpio_export, Led!gpio_get_value, Led!pinVars
  <2>3. CASE Led!gpio_set_direction(r)
    BY <2>3 DEF Led!gpio_set_direction, Led!WriteOut
  <2>4. CASE Led!Dispatch(r)
    BY <2>4 DEF Led!Dispatch, Led!pinVars, Led!Commands
  <2>5. CASE Led!Switch(r)
    <3>1. /\ run[r] = "set" /\ run' = [run EXCEPT ![r] = "return0"] /\ UNCHANGED cmd
          /\ \/ UNCHANGED <<value, lit>>
             \/ value' = 0 /\ UNCHANGED lit
             \/ cmd[r] \in {"on", "toggle"} /\ lit' = [q \in Runs |-> lit[q] \cup {r}]
      BY <2>5 DEF Led!Switch, Led!gpio_set_value, Led!NewValue
    <3>2. ASSUME NEW q \in Runs, value' = 1,
                 run'[q] \in {"command", "get", "set", "blinkOn", "return0"}
          PROVE  lit'[q] \ {q} # {} \/ (run'[q] = "return0" /\ cmd'[q] \in {"on", "toggle"})
      <4>1. CASE q = r
        BY <3>1, <3>2, <4>1
      <4>2. CASE q # r
        BY <3>1, <3>2, <4>2
      <4> QED
        BY <4>1, <4>2
    <3> QED
      BY <3>2
  <2>6. CASE Led!Blink(r)
    BY <2>6 DEF Led!Blink, Led!gpio_set_value
  <2> QED
    BY <1>2, <2>2, <2>3, <2>4, <2>5, <2>6 DEF Led!RunStep
<1> QED
  BY <1>1, <1>2, OneProgramSteps DEF Led!Next

\* LED command: for any number of invocations, one that has driven the pin low
\* finds and leaves it low unless on, toggle or another invocation lit it.
THEOREM LedStaysDark == AllSpec => []DarkUnlessLit
<1>1. LedInv => DarkUnlessLit
  BY DEF LedInv, DarkUnlessLit
<1> QED
  BY <1>1, LedInit, LedNext, PTL DEF AllSpec
-----------------------------------------------------------------------------
(* The zombie example *)

\* While fork's error is not printed yet it is in errno, or in the handler's copy
\* of it.
ReapInv ==
    /\ Reaper!TypeOK
    /\ parent = "fork" => round < NumChildren
    /\ parent = "work" => round <= Rounds
    /\ Reaper!ZombiesAreSeen
    /\ Reaper!ForkErrorReported
    /\ parent = "forkFailed" => (IF handler = "none" THEN errno ELSE saved_errno) = "EAGAIN"

\* ReapInv holds once the handler is installed.
LEMMA ReapInit == ASSUME AllInit PROVE ReapInv
<1>1. Reaper!Init
  BY DEF AllInit
<1>2. pending \in BOOLEAN
  BY <1>1 DEF Reaper!Init
<1>3. kid \in [Reaper!Kids -> {"none", "running", "zombie", "reaped"}]
  BY <1>1 DEF Reaper!Init
<1>4. round \in 0 .. NumChildren + Rounds
  BY <1>1, ReaperAssumption DEF Reaper!Init
<1>5. Reaper!TypeOK
  BY <1>1, <1>2, <1>3, <1>4 DEF Reaper!Init, Reaper!TypeOK, Reaper!Errors
<1> QED
  BY <1>1, <1>5, ReaperAssumption
  DEF ReapInv, Reaper!Init, Reaper!ZombiesAreSeen, Reaper!ForkErrorReported, Reaper!Zombies

\* Every step of main, of a child and of handle_sigchld keeps ReapInv.
LEMMA ReapNext == ASSUME ReapInv, [AllNext]_allVars PROVE ReapInv'
<1> USE ReaperAssumption DEF ReapInv, Reaper!TypeOK, Reaper!Errors, 
   Reaper!ZombiesAreSeen, Reaper!ForkErrorReported, Reaper!Zombies, Reaper!Kids, Reaper!At
<1>1. CASE UNCHANGED reapVars
  BY <1>1 DEF reapVars
<1>2. CASE Reaper!Fork
  BY <1>2 DEF Reaper!Fork
<1>3. CASE Reaper!ForkFails
  BY <1>3 DEF Reaper!ForkFails
<1>4. CASE Reaper!ForkError
  BY <1>4 DEF Reaper!ForkError
<1>5. CASE Reaper!Work
  BY <1>5 DEF Reaper!Work
<1>6. ASSUME NEW c \in Reaper!Kids, Reaper!ChildExits(c) PROVE ReapInv'
  BY <1>6 DEF Reaper!ChildExits
<1>7. CASE Reaper!Deliver
  BY <1>7 DEF Reaper!Deliver
<1>8. CASE Reaper!Reap
  BY <1>8 DEF Reaper!Reap, Reaper!NothingToReap
<1>9. CASE Reaper!Return
  BY <1>9 DEF Reaper!Return
<1> QED
  BY <1>1, <1>2, <1>3, <1>4, <1>5, <1>6, <1>7, <1>8, <1>9, OneProgramSteps DEF Reaper!Next

\* Zombie example: for any number of children, as long as the parent lives a
\* child that ended is found by the handler's loop or has a signal on the way.
THEOREM ZombiesAreAlwaysSeen == AllSpec => []ZombiesAreSeen
<1>1. ReapInv => ZombiesAreSeen
  BY DEF ReapInv, ZombiesAreSeen
<1> QED
  BY <1>1, ReapInit, ReapNext, PTL DEF AllSpec

\* Zombie example: perror prints the error of fork, whenever the handler runs.
THEOREM ForkErrorIsReported == AllSpec => []ForkErrorReported
<1>1. ReapInv => ForkErrorReported
  BY DEF ReapInv, ForkErrorReported
<1> QED
  BY <1>1, ReapInit, ReapNext, PTL DEF AllSpec
-----------------------------------------------------------------------------
(* The alignment benchmark *)

\* Division with remainder.
LEMMA DivMod ==
    ASSUME NEW b \in Nat, NEW d \in Nat \ {0}
    PROVE  b \div d \in Nat /\ b % d \in 0 .. d - 1 /\ b = d * (b \div d) + (b % d)
<1>1. b % d \in 0 .. d - 1
  OBVIOUS
<1>2. b \div d \in Int /\ (b \div d) >= 0
  OBVIOUS
<1>3. b = d * (b \div d) + (b % d)
  OBVIOUS
<1> QED
  BY <1>1, <1>2, <1>3

\* A positive multiple of g is at least g.
LEMMA Multiple ==
    ASSUME NEW g \in Nat \ {0}, NEW z \in Int, g * z > 0
    PROVE  g * z >= g
OBVIOUS

\* The remainder is the one there is.
LEMMA ModUnique ==
    ASSUME NEW d \in Nat \ {0}, NEW q \in Nat, NEW r \in 0 .. d - 1
    PROVE  (d * q + r) % d = r
<1> DEFINE x == d * q + r
           y == x \div d
           m == x % d
<1>1. x \in Nat
  OBVIOUS
<1>2. y \in Nat /\ m \in 0 .. d - 1 /\ x = d * y + m
  BY <1>1, DivMod
<1> HIDE DEF y, m
<1>3. /\ d * (q - y) = m - r /\ d * (y - q) = r - m
  <2>1. d * q + r = d * y + m
    BY <1>2
  <2>2. d * (q - y) = d * q - d * y /\ d * (y - q) = d * y - d * q
    BY <1>2
  <2> QED
    BY <1>2, <2>1, <2>2
<1>4. ~(m - r > 0)
  BY <1>2, <1>3, Multiple
<1>5. ~(r - m > 0)
  BY <1>2, <1>3, Multiple
<1>6. m = r
  BY <1>2, <1>4, <1>5
<1> QED
  BY <1>6 DEF m

\* Multiplication by a natural number is monotonic.
LEMMA Product ==
    ASSUME NEW x \in Nat, NEW y \in Nat, NEW z \in Nat, x <= y
    PROVE  x * z <= y * z
OBVIOUS

\* What unaligned_malloc left behind.
AlignInv ==
    unaligned_data # Align!NULL =>
      /\ buffer \in Nat \ {0} /\ buffer % Granule = 0
      /\ unaligned_data = buffer + Align!Offset(buffer)
      /\ original_ptr = unaligned_data - PtrSize

\* The offset that unaligned_malloc computes: it leads one byte behind a multiple
\* of alignment, stays within the bytes that were added to the block, and leaves
\* room for a pointer unless the block is aligned already.
LEMMA OffsetFits ==
    ASSUME NEW b \in Nat, b % Granule = 0
    PROVE  /\ Align!Offset(b) \in 1 .. alignment
           /\ (b + Align!Offset(b)) % alignment = 1
           /\ Align!Offset(b) >= PtrSize \/ b % alignment = 0
<1> DEFINE r == b % alignment
           q == b \div alignment
           o == alignment - r
<1> USE AlignAssumption
<1>1. q \in Nat /\ r \in 0 .. alignment - 1 /\ b = alignment * q + r
  BY DivMod
<1>2. Align!Offset(b) = IF o = alignment THEN 1 ELSE o + 1
  BY DEF Align!Offset
<1> HIDE DEF q, r
<1>3. CASE r = 0
  <2>1. Align!Offset(b) = 1
    BY <1>1, <1>2, <1>3
  <2>2. b + 1 = alignment * q + 1
    BY <1>1, <1>3
  <2>3. (alignment * q + 1) % alignment = 1
    BY <1>1, ModUnique
  <2> QED
    BY <1>3, <2>1, <2>2, <2>3 DEF r
<1>4. CASE r # 0
  <2>1. Align!Offset(b) = o + 1 /\ o \in 1 .. alignment - 1
    BY <1>1, <1>2, <1>4
  <2>2. b + o + 1 = alignment * (q + 1) + 1
    BY <1>1, <2>1
  <2>3. (alignment * (q + 1) + 1) % alignment = 1
    <3>1. q + 1 \in Nat /\ 1 \in 0 .. alignment - 1
      BY <1>1
    <3> QED
      BY <3>1, ModUnique
  <2>4. o >= Granule
    <3> DEFINE k == b \div Granule
               m == alignment \div Granule
    <3>1. k \in Nat /\ b = Granule * k /\ m \in Nat /\ alignment = Granule * m
      BY DivMod
    <3> HIDE DEF k, m
    <3>2. o = Granule * (m + m * q - k)
      <4>1. o = alignment + alignment * q - b
        BY <1>1
      <4>2. alignment * q = Granule * (m * q)
        BY <1>1, <3>1
      <4> QED
        BY <1>1, <3>1, <4>1, <4>2
    <3>3. m + m * q - k \in Int
      BY <1>1, <3>1
    <3> QED
      BY <2>1, <3>2, <3>3, Multiple
  <2> QED
    BY <2>1, <2>2, <2>3, <2>4
<1> QED
  BY <1>3, <1>4

\* From that the property follows, by arithmetic on the elements touched.
LEMMA AlignInside == ASSUME AlignInv PROVE Align!UnalignedInside
<1> USE AlignAssumption DEF Align!NULL, Align!data_size
<1> SUFFICES ASSUME unaligned_data # Align!NULL PROVE Align!UnalignedInside
  BY DEF Align!UnalignedInside
<1>1. /\ buffer \in Nat \ {0} /\ unaligned_data = buffer + Align!Offset(buffer)
      /\ original_ptr = unaligned_data - PtrSize
      /\ Align!Offset(buffer) \in 1 .. alignment
      /\ unaligned_data % alignment = 1
      /\ Align!Offset(buffer) >= PtrSize \/ buffer % alignment = 0
  BY OffsetFits DEF AlignInv
<1>2. ASSUME NEW k \in 0 .. 2, NEW j \in Align!Touched(k)
      PROVE  unaligned_data + (j + 1) * DoubleSize <= buffer + Align!data_size + alignment
  <2>1. j \in Nat /\ j + 1 <= ARRAY_SIZE
    <3>1. CASE j \in 0 .. ARRAY_SIZE - 1
      BY <3>1
    <3>2. CASE j \in 0 .. ARRAY_SIZE + 3 /\ j - (j % 4) < ARRAY_SIZE - 4
      BY <3>2
    <3> QED
      BY <3>1, <3>2 DEF Align!Touched
  <2>2. (j + 1) * DoubleSize <= ARRAY_SIZE * DoubleSize
    BY <2>1, Product
  <2>3. (j + 1) * DoubleSize \in Nat /\ ARRAY_SIZE * DoubleSize \in Nat
    BY <2>1
  <2> QED
    BY <1>1, <2>2, <2>3
<1>3. buffer <= original_ptr \/ buffer % alignment = 0
  BY <1>1
<1> QED
  BY <1>1, <1>2, <1>3 DEF Align!UnalignedInside

\* Before unaligned_malloc there is nothing to say.
LEMMA AlignInit == ASSUME AllInit PROVE AlignInv
BY DEF AllInit, Align!Init, AlignInv

\* Only unaligned_malloc changes the addresses.
LEMMA AlignNext == ASSUME AlignInv, [AllNext]_allVars PROVE AlignInv'
<1> DEFINE arrays == <<unaligned_data, buffer, original_ptr>>
<1>1. CASE UNCHANGED arrays
  BY <1>1 DEF AlignInv, Align!NULL, Align!Offset
<1>2. CASE Align!unaligned_malloc /\ ~UNCHANGED arrays
  <2>1. PICK b \in Align!Places(Granule, Align!data_size + alignment) :
          /\ buffer' = b /\ original_ptr' = b + Align!Offset(b) - PtrSize
          /\ unaligned_data' = b + Align!Offset(b)
    BY <1>2 DEF Align!unaligned_malloc
  <2>2. b \in Nat \ {0} /\ b % Granule = 0
    BY AlignAssumption DEF Align!Places, Align!Addresses
  <2>3. Align!Offset(b) \in Int /\ Align!Offset(buffer)' = Align!Offset(b)
    BY <2>1, <2>2, AlignAssumption, OffsetFits DEF Align!Offset
  <2> QED
    BY <2>1, <2>2, <2>3, AlignAssumption DEF AlignInv
<1>3. Align!Next => Align!unaligned_malloc \/ UNCHANGED arrays
  BY DEF Align!Next, Align!aligned_malloc, Align!Check, Align!RunTest, Align!FreeAligned,
         Align!unaligned_free
<1>4. UNCHANGED alignVars => UNCHANGED arrays
  BY DEF alignVars
<1> QED
  BY <1>1, <1>2, <1>3, <1>4, OneProgramSteps

\* Alignment benchmark: for every alignment that malloc's granule divides, every
\* size of the array and of its elements, the misaligned array and the address
\* stored in front of it lie in their block, unless that block came aligned.
THEOREM UnalignedStaysInside == AllSpec => []UnalignedInside
<1>1. AlignInv => UnalignedInside
  BY AlignInside DEF UnalignedInside
<1> QED
  BY <1>1, AlignInit, AlignNext, PTL DEF AllSpec
=============================================================================
