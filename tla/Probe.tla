-------------------------------- MODULE Probe -------------------------------
(***************************************************************************)
(* The probe of the programmer                                             *)
(* (tasks/programmer/src/ProbeController/ProbeController.cpp): its mode,   *)
(* the pins it wires, the clock and the registers of its two SPI, the      *)
(* frequency of its bus.  A method runs to its end: "No mutex checks are   *)
(* done", so one thread is to have the probe.  ~ProbeController is         *)
(* configureMode(NONE).  The fixed pins, the DMA and delayus, which keep   *)
(* no state that another method reads, are left out.                       *)
(***************************************************************************)
EXTENDS Integers, Sequences

CONSTANTS
  StClock,      \* st_clock
  WORD,         \* values of an uint32_t
  Frequencies,  \* the frequencies asked for
  Answers       \* what a read outside dividers may make setBusFrequency return

ASSUME ProbeAssumption ==
  /\ StClock \in Nat /\ WORD \in Nat /\ StClock < WORD
  /\ Frequencies \subseteq 0 .. WORD - 1
  /\ Answers \subseteq 0 .. StClock

VARIABLES
  mode,   \* mode
  pins,   \* the pins in their alternate function
  spi,    \* of each SPI: clock, SPE, and the registers that SPE locks
  asked,  \* history: the frequency asked for last, or -1
  rate,   \* history: what setBusFrequency returned for it
  held,   \* history: of each SPI: the mode that initialised it since it was last
          \* disabled, or "NONE", and the rate that was returned for it since then
  jtag    \* history: JTAG was left, and neither SWDO nor SPI after it

history == <<asked, rate, held, jtag>>
probeVars == <<mode, pins, spi, history>>

SPIs == {"spim", "spis"}
NoRate == -1      \* none was returned since
Undefined == -2   \* one was, for a frequency that reads outside dividers

\* cJTAG and ICSP set nothing, as NONE.
Modes == {"NONE", "SWD", "SWDO", "JTAG", "ICSP", "SPI"}
Pins == {"spim.sclk", "spim.mosi", "spis.sclk", "spis.mosi", "spis.miso"}
dividers == <<4, 8, 16, 32, 64, 128, 256>>

ProbeInit ==
  /\ mode = "NONE"
  /\ pins = {}
  /\ spi = [i \in SPIs |->
              [clock |-> 0, spe |-> 0, role |-> "slave", dir |-> "full", div |-> 2]]
  /\ asked = -1 /\ rate = 0
  /\ held = [i \in SPIs |-> [by |-> "NONE", rate |-> NoRate]]
  /\ jtag = FALSE

-----------------------------------------------------------------------------
\* enableClock, disableClock.
Clock(s, i, bit) == [s EXCEPT ![i].clock = bit]

\* External: LL_SPI_Enable and LL_SPI_Disable.  A register is not written while
\* the clock of its peripheral is off.
LL_SPI_Set(s, i, bit) == IF s[i].clock = 1 THEN [s EXCEPT ![i].spe = bit] ELSE s

\* External: LL_SPI_Init gives an error, and the caller logs it, if SPE is set.
LL_SPI_Init(s, i, role, dir) ==
  IF s[i].spe = 1 THEN s
  ELSE [s EXCEPT ![i].role = role, ![i].dir = dir, ![i].div = 8]

Start(s, i, role, dir) == LL_SPI_Set(LL_SPI_Init(Clock(s, i, 1), i, role, dir), i, 1)

InitAs(m, s) ==
  CASE m = "SWD" -> Start(s, "spim", "master", "tx")
    [] m = "SWDO" -> Clock(Start(s, "spim", "master", "tx"), "spis", 1)
    [] m = "JTAG" -> Start(Start(s, "spim", "master", "tx"), "spis", "slave", "full")
    [] m = "SPI" -> Start(s, "spis", "master", "full")
    [] OTHER -> s

\* Disabled before the clock goes, and after it has gone.
Stop(s, i) == Clock(LL_SPI_Set(s, i, 0), i, 0)
StopLate(s, i) == LL_SPI_Set(Clock(s, i, 0), i, 0)

\* Mutant: SWD leaves its peripheral the way JTAG does.
DeinitAsLate(m, s) ==
  CASE m = "SWD" -> StopLate(s, "spim")
    [] m = "SWDO" -> Stop(StopLate(s, "spim"), "spis")
    [] m = "JTAG" -> StopLate(StopLate(s, "spim"), "spis")
    [] m = "SPI" -> StopLate(s, "spis")
    [] OTHER -> s

DeinitAs(m, s) ==
  CASE m = "SWD" -> Stop(s, "spim")
    [] m = "SWDO" -> Stop(Stop(s, "spim"), "spis")
    [] m = "JTAG" -> StopLate(StopLate(s, "spim"), "spis")
    [] m = "SPI" -> StopLate(s, "spis")
    [] OTHER -> s

Wired(m) ==
  CASE m \in {"SWD", "SWDO"} -> {"spim.sclk", "spim.mosi"}
    [] m = "JTAG" -> Pins
    [] m = "SPI" -> {"spis.sclk", "spis.mosi", "spis.miso"}
    [] OTHER -> {}

\* Mutant: the clock of the slave is forgotten.
UnwiredSome(m) ==
  CASE m = "SWD" -> {"spim.sclk", "spim.mosi"}
    [] m = "SWDO" -> {"spim.sclk", "spim.mosi", "spis.miso"}
    [] m = "JTAG" -> {"spim.sclk", "spim.mosi", "spis.mosi"}
    [] m = "SPI" -> {"spis.sclk", "spis.mosi", "spis.miso"}
    [] OTHER -> {}

\* deinitAsJTAG resets the MOSI pin twice and the MISO pin never.  MISO is an
\* output there: SPIS is a slave.
Unwired(m) ==
  CASE m = "SWD" -> {"spim.sclk", "spim.mosi"}
    [] m = "SWDO" -> {"spim.sclk", "spim.mosi", "spis.miso"}
    [] m = "JTAG" -> {"spim.sclk", "spim.mosi", "spis.sclk", "spis.mosi"}
    [] m = "SPI" -> {"spis.sclk", "spis.mosi", "spis.miso"}
    [] OTHER -> {}

\* For the history: the peripherals that a mode clocks, initialises, and disables
\* in time when it is left.
Clocked(m) ==
  CASE m = "SWD" -> {"spim"} [] m \in {"SWDO", "JTAG"} -> SPIs
    [] m = "SPI" -> {"spis"} [] OTHER -> {}
Started(m) == IF m = "SWDO" THEN {"spim"} ELSE Clocked(m)
Disabled(m) == IF m \in {"SWD", "SWDO"} THEN Clocked(m) ELSE {}

\* The settings a peripheral holds when a mode follows another.
Held(i, m, request) ==
  LET left == IF i \in Disabled(m) THEN [by |-> "NONE", rate |-> NoRate] ELSE held[i]
  IN IF i \in Started(request) /\ left.by = "NONE"
     THEN [by |-> request, rate |-> NoRate] ELSE left

ConfigureMode(request) ==
  /\ request # mode
  /\ spi' = InitAs(request, DeinitAs(mode, spi))
  /\ pins' = (pins \ Unwired(mode)) \cup Wired(request)
  /\ mode' = request
  /\ held' = [i \in SPIs |-> Held(i, mode, request)]
  /\ jtag' = (mode = "JTAG" \/ (jtag /\ mode \notin {"SWDO", "SPI"}))
  /\ UNCHANGED <<asked, rate>>

-----------------------------------------------------------------------------
\* The rate of a divider, and a subtraction in uint32_t.
Rate(k) == StClock \div dividers[k + 1]
Minus(a, b) == IF a >= b THEN a - b ELSE a - b + WORD

\* The loop: the first divider that is slow enough, or the last one.
current_div(frequency) ==
  CHOOSE k \in 0 .. 6 :
    /\ k = 6 \/ Rate(k) <= frequency
    /\ \A j \in 0 .. k - 1 : Rate(j) > frequency

\* Mutant: the farther of the two.
BestDivFar(frequency) ==
  LET k == current_div(frequency)
  IN IF Minus(Rate(k - 1), frequency) > Minus(frequency, Rate(k)) THEN k - 1 ELSE k

\* The nearer of it and the one before it.  Below the last rate the second
\* difference wraps, and the result is the last but one.
BestDiv(frequency) ==
  LET k == current_div(frequency)
  IN IF Minus(Rate(k - 1), frequency) < Minus(frequency, Rate(k)) THEN k - 1 ELSE k

\* Mutant: the peripherals are not disabled for the change.
SetDividerLocked(s, i, div) == s

\* Disabled, given the prescaler, enabled again, unless its clock is off.
SetDivider(s, i, div) ==
  IF s[i].clock = 1 THEN [s EXCEPT ![i].div = div, ![i].spe = 1] ELSE s

SetBoth(div) == spi' = SetDivider(SetDivider(spi, "spim", div), "spis", div)

\* The history after an answer: it is meant for the peripherals that are clocked.
Answered(r) ==
  held' = [i \in SPIs |-> IF i \in Clocked(mode) THEN [held[i] EXCEPT !.rate = r] ELSE held[i]]

\* From the fastest rate on, the comparison reads dividers[-1], and what is there
\* decides: the fastest rate, or what lies at index 255 of both tables.
SetBusFrequency(frequency) ==
  /\ \/ /\ frequency < Rate(0)
        /\ LET k == BestDiv(frequency)
           IN SetBoth(dividers[k + 1]) /\ rate' = Rate(k) /\ Answered(Rate(k))
     \/ /\ frequency >= Rate(0)
        /\ \E div \in {2} \cup {dividers[k] : k \in 1 .. 7}, answer \in Answers \cup {Rate(0)} :
             SetBoth(div) /\ rate' = answer /\ Answered(Undefined)
  /\ asked' = frequency
  /\ UNCHANGED <<mode, pins, jtag>>

ToggleDirection ==
  /\ mode \in {"SWD", "SWDO"}
  /\ spi' = [spi EXCEPT !["spim"].spe = 1,
                        !["spim"].dir = IF spi["spim"].dir = "tx" THEN "rx" ELSE "tx"]
  /\ UNCHANGED <<mode, pins, history>>

ProbeNext ==
  \/ \E request \in Modes : ConfigureMode(request)
  \/ \E frequency \in Frequencies : SetBusFrequency(frequency)
  \/ ToggleDirection

ProbeSpec == ProbeInit /\ [][ProbeNext]_probeVars

-----------------------------------------------------------------------------
Registers == [clock : {0, 1}, spe : {0, 1}, role : {"master", "slave"},
              dir : {"full", "tx", "rx"}, div : Nat]

ProbeTypeOK ==
  /\ mode \in Modes
  /\ pins \subseteq Pins
  /\ spi \in [SPIs -> Registers]
  /\ asked \in Int /\ rate \in Nat
  /\ held \in [SPIs -> [by : Modes, rate : Int]]
  /\ jtag \in BOOLEAN

\* Which pins and clocks are in use, after any sequence of modes: those of the
\* mode, and one too many: MISO, which deinitAsJTAG forgets, stays wired from the
\* end of JTAG until SWDO or SPI is left.
OnlyMisoStays ==
  /\ \A i \in SPIs : spi[i].clock = 1 <=> i \in Clocked(mode)
  /\ pins = Wired(mode) \cup (IF jtag THEN {"spis.miso"} ELSE {})

\* SWD starts with a master that is enabled and talks to the target, whatever
\* mode the probe was in and whatever direction it was left in: also when
\* LL_SPI_Init refuses, because JTAG left its peripherals enabled.
SwdStartsTalking ==
  [][ mode' # mode /\ mode' \in {"SWD", "SWDO"} =>
        /\ spi'["spim"].spe = 1 /\ spi'["spim"].clock = 1
        /\ spi'["spim"].role = "master" /\ spi'["spim"].dir = "tx" ]_probeVars

Distance(a, b) == IF a >= b THEN a - b ELSE b - a

\* "Look for the best": between the slowest and the fastest rate the answer is the
\* nearest one.  Below the slowest it is not: a difference wraps, and the answer is
\* the last but one, twice the slowest.  From the fastest on nothing is said here:
\* the answer is what lies before the table.
NearestRate ==
  /\ Rate(6) <= asked /\ asked < Rate(0) =>
       \A k \in 0 .. 6 : Distance(rate, asked) <= Distance(Rate(k), asked)
  /\ 0 <= asked /\ asked < Rate(6) => rate = Rate(5)

\* What a peripheral runs as and at which rate, across modes.  SWD and SWDO disable
\* theirs, so that the next mode sets it to its role and to the divider 8, and the
\* rate that was answered is gone.  JTAG and SPI leave theirs enabled, so that the
\* next mode gets it with the role of the mode before and the rate that was
\* answered there: SPI after JTAG is a slave, JTAG after SPI has two masters.
RunsAsHeld ==
  \A i \in SPIs :
    /\ i \in Started(mode) => held[i].by # "NONE"
    /\ held[i].by = "NONE" => mode = "SWDO" \/ spi[i].spe = 0
    /\ held[i].by # "NONE" =>
         /\ spi[i].spe = 1
         /\ spi[i].role = IF i = "spis" /\ held[i].by = "JTAG" THEN "slave" ELSE "master"
         /\ held[i].rate = NoRate => spi[i].div = 8
         /\ held[i].rate \in Nat => StClock \div spi[i].div = held[i].rate

-----------------------------------------------------------------------------
(* The inductive invariant behind these properties (module DriverProofs). *)

\* An enabled SPIM is a master; only SWD and SWDO turn its bus around.
MasterKept ==
  /\ spi["spim"].spe = 1 => spi["spim"].role = "master"
  /\ spi["spim"].spe = 1 /\ mode \notin {"SWD", "SWDO"} => spi["spim"].dir = "tx"
  /\ mode \in {"SWD", "SWDO", "JTAG"} => spi["spim"].spe = 1

\* What setBusFrequency returned is what it chose.
RateIsChosen ==
  0 <= asked /\ asked < Rate(0) => rate = Rate(BestDiv(asked))

ProbeInv == ProbeTypeOK /\ OnlyMisoStays /\ MasterKept /\ RateIsChosen /\ RunsAsHeld
=============================================================================
