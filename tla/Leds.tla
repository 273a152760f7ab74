-------------------------------- MODULE Leds --------------------------------
(***************************************************************************)
(* The ring of LEDs (tasks/leds/src/Leds/LedsWS2812.cpp): a thread sets    *)
(* effects and their progress, and the thread of the ThreadX timers, which *)
(* has the highest priority, refreshes the ring at any point between.  The *)
(* colours of an effect are the number of its request.  EFFECT_VU_METER    *)
(* and EFFECT_NONE start no timer either and are as EFFECT_SOLID here;     *)
(* EFFECT_RAINBOW reads no table.                                          *)
(***************************************************************************)
EXTENDS Integers, Sequences

CONSTANTS
  LED_RING_PIXEL_NB, LED_RING_BREATH_MAX, LED_RING_BREATH_LENGTH, HEARTBEAT_SAMPLES,
  FULL,         \* the progress of a full ring: 100
  BYTE,         \* values of an uint8_t: 256
  Ticks,        \* values of tick in a request
  MaxRequests   \* bound on the accepted requests

ASSUME LedsAssumption ==
  /\ {LED_RING_PIXEL_NB, LED_RING_BREATH_MAX, HEARTBEAT_SAMPLES, FULL, MaxRequests} \subseteq Nat \ {0}
  /\ LED_RING_PIXEL_NB < 128   \* a position is an int8_t
  /\ LED_RING_BREATH_LENGTH \in Nat /\ LED_RING_BREATH_LENGTH > 2 * LED_RING_BREATH_MAX
  /\ BYTE \in Nat /\ BYTE > FULL + 1
  /\ Ticks \subseteq Nat

VARIABLES
  current,   \* current_effect: type, colours, tick and progress
  previous,  \* previous_effect: the type at the last refresh
  timer,     \* whether the timer is active
  pc,        \* where the thread is
  req,       \* the effect it sets, or the progress it has read
  since,     \* 1 if the progress was incremented after the last refresh
  drawn,     \* history: the last frame: its effect and the indices it read in its table
  asked,     \* history: the types of the accepted requests
  wanted,    \* history: the type of the last request, accepted or not
  hasty      \* history: a request for another effect than the current one was ignored

threadVars == <<pc, req, since>>
history == <<asked, wanted, hasty>>
vars == <<current, previous, timer, threadVars, drawn, history>>

Animated == {"FLASH", "SPIN", "BREATHING", "PROGRESS", "HEARTBEAT"}
Effects == Animated \cup {"SOLID"}
Effect(type, colour, tick, progress) ==
  [type |-> type, colour |-> colour, tick |-> tick, progress |-> progress]

Init ==
  /\ current = Effect("NONE", 0, 0, 0)
  /\ previous = "NONE"
  /\ timer = FALSE
  /\ pc = "idle"
  /\ req = current
  /\ since = 0
  /\ drawn = [type |-> "NONE", colour |-> 0, reads |-> {}, progress |-> 0]
  /\ asked = <<>>
  /\ wanted = "NONE" /\ hasty = FALSE

-----------------------------------------------------------------------------
\* Mutant: the timer goes on while the effect is copied.
SetEffectRunning(type, tick) ==
  /\ pc = "idle" /\ Len(asked) < MaxRequests
  /\ type # previous
  /\ req' = Effect(type, Len(asked) + 1, tick, FULL)
  /\ pc' = "copy"
  /\ asked' = Append(asked, type) /\ wanted' = type /\ hasty' = FALSE
  /\ UNCHANGED <<current, previous, timer, since, drawn>>

\* set_effect: the timer is stopped.  A request hides the ones ignored before it.
SetEffect(type, tick) ==
  /\ pc = "idle" /\ Len(asked) < MaxRequests
  /\ type # previous
  /\ timer' = FALSE
  /\ req' = Effect(type, Len(asked) + 1, tick, FULL)
  /\ pc' = "copy"
  /\ asked' = Append(asked, type) /\ wanted' = type /\ hasty' = FALSE
  /\ UNCHANGED <<current, previous, since, drawn>>

\* set_effect returns at once: the type is the one that was refreshed last.
Ignore(type) ==
  /\ pc = "idle" /\ type = previous
  /\ wanted' = type
  /\ hasty' = (type # current.type)
  /\ UNCHANGED <<current, previous, timer, threadVars, drawn, asked>>

\* The memcpy, which the timer thread could interrupt, and the timer again.
CopyType ==
  /\ pc = "copy"
  /\ current' = [current EXCEPT !.type = req.type]
  /\ pc' = "copy_rest"
  /\ UNCHANGED <<previous, timer, req, since, drawn, history>>

CopyRest ==
  /\ pc = "copy_rest"
  /\ current' = [req EXCEPT !.type = current.type]
  /\ pc' = "start"
  /\ UNCHANGED <<previous, timer, req, since, drawn, history>>

\* Mutant: the heartbeat has no case.
StartTimerSome ==
  /\ pc = "start"
  /\ timer' = (current.type \in Animated \ {"HEARTBEAT"})
  /\ pc' = "idle"
  /\ UNCHANGED <<current, previous, req, since, drawn, history>>

StartTimer ==
  /\ pc = "start"
  /\ timer' = (timer \/ current.type \in Animated)
  /\ pc' = "idle"
  /\ UNCHANGED <<current, previous, req, since, drawn, history>>

\* leds_task, set_effect_progress(): the progress is read, and written twice.
\* Bound: a running timer expires at least once between two increments (they come
\* every 500 ms, the refresh of EFFECT_PROGRESS every 100 ms).
ReadProgress ==
  /\ pc = "idle" /\ (since = 0 \/ ~timer)
  /\ req' = [req EXCEPT !.progress = (current.progress + 1) % BYTE]
  /\ since' = 1
  /\ pc' = "write"
  /\ UNCHANGED <<current, previous, timer, drawn, history>>

WriteProgress ==
  /\ pc \in {"write", "write_again"}
  /\ current' = [current EXCEPT !.progress = req.progress]
  /\ pc' = IF pc = "write" THEN "write_again" ELSE "idle"
  /\ since' = 1
  /\ UNCHANGED <<previous, timer, req, drawn, history>>

-----------------------------------------------------------------------------
\* Mutant: the ring has one position more; the samples are counted from 1.
NextTickPast(type, tick) ==
  CASE type = "SPIN" -> IF tick <= LED_RING_PIXEL_NB THEN tick + 1 ELSE 0
    [] type = "HEARTBEAT" -> IF tick + 1 > HEARTBEAT_SAMPLES THEN 0 ELSE tick + 1
    [] OTHER -> 0

\* The tick after a frame of an effect.
NextTick(type, tick) ==
  CASE type = "FLASH" -> IF tick + 1 > 10 THEN 0 ELSE tick + 1
    [] type = "SPIN" -> IF tick < LED_RING_PIXEL_NB THEN tick + 1 ELSE 0
    [] type = "BREATHING" -> IF tick + 1 >= LED_RING_BREATH_LENGTH THEN 0 ELSE tick + 1
    [] type = "HEARTBEAT" -> IF tick + 1 >= HEARTBEAT_SAMPLES THEN 0 ELSE tick + 1
    [] OTHER -> tick

\* The place of a pixel behind the head of the ring, and local_tick of a breath:
\* a ramp up, a ramp down and a hold.
tail_index(pixel, tick) == IF pixel < tick THEN pixel - tick + LED_RING_PIXEL_NB ELSE pixel - tick
Ramp(tick) ==
  IF tick <= LED_RING_BREATH_MAX THEN tick
  ELSE IF tick <= 2 * LED_RING_BREATH_MAX THEN 2 * LED_RING_BREATH_MAX - tick ELSE 0

\* What the frame reads with it: the intensities of all pixels, a place of
\* gamma_lut, a place of heartbeat_lut.
Reads(type, tick) ==
  CASE type = "SPIN" -> {tail_index(pixel, tick) : pixel \in 0 .. LED_RING_PIXEL_NB - 1}
    [] type = "BREATHING" -> {Ramp(tick)}
    [] type = "HEARTBEAT" -> {tick}
    [] OTHER -> {}

\* Mutant: a full ring starts again.
ShownProgressWraps(type, progress) ==
  IF type = "PROGRESS" /\ progress > FULL THEN 0 ELSE progress

ShownProgress(type, progress) ==
  IF type = "PROGRESS" /\ progress > FULL THEN FULL ELSE progress

\* refresh_leds, in the timer thread: a type it has not seen starts from 0.
Refresh ==
  LET new == previous # current.type
      tick == NextTick(current.type, IF new THEN 0 ELSE current.tick)
      progress == ShownProgress(current.type, IF new THEN 0 ELSE current.progress)
  IN /\ timer
     /\ previous' = current.type
     /\ current' = [current EXCEPT !.tick = tick, !.progress = progress]
     /\ drawn' = [type |-> current.type, colour |-> current.colour,
                  reads |-> Reads(current.type, tick), progress |-> progress]
     /\ since' = 0
     /\ UNCHANGED <<timer, pc, req, history>>

Next ==
  \/ \E type \in Effects : Ignore(type) \/ \E tick \in Ticks : SetEffect(type, tick)
  \/ CopyType \/ CopyRest \/ StartTimer
  \/ ReadProgress \/ WriteProgress
  \/ Refresh

\* The thread ends what it began and an active timer expires.
Fairness == WF_vars(CopyType \/ CopyRest \/ StartTimer \/ WriteProgress) /\ WF_vars(Refresh)

Spec == Init /\ [][Next]_vars /\ Fairness

-----------------------------------------------------------------------------
EffectType ==
  [type : Effects \cup {"NONE"}, colour : 0 .. MaxRequests, tick : Nat, progress : 0 .. BYTE - 1]

Frames == [type : Effects \cup {"NONE"}, colour : 0 .. MaxRequests,
           reads : SUBSET Int, progress : 0 .. BYTE - 1]

TypeOK ==
  /\ current \in EffectType /\ req \in EffectType
  /\ previous \in Effects \cup {"NONE"}
  /\ timer \in BOOLEAN
  /\ pc \in {"idle", "copy", "copy_rest", "start", "write", "write_again"}
  /\ since \in 0 .. 1
  /\ drawn \in Frames
  /\ asked \in Seq(Effects) /\ wanted \in Effects \cup {"NONE"} /\ hasty \in BOOLEAN

\* "To never refresh while computing": a frame shows one request, never the type
\* of one with the colours, the tick or the progress of another.  It is said of
\* one thread that sets effects, as there is one today; the header lets set_effect
\* "be called from anywhere".
WholeEffect == drawn.type # "NONE" => drawn.colour > 0 /\ asked[drawn.colour] = drawn.type

\* The last index of the table that a frame of an effect reads: intensities,
\* gamma_lut (one value for each intensity to LED_RING_BREATH_MAX), heartbeat_lut.
LastIndex(type) ==
  CASE type = "SPIN" -> LED_RING_PIXEL_NB - 1
    [] type = "BREATHING" -> LED_RING_BREATH_MAX
    [] type = "HEARTBEAT" -> HEARTBEAT_SAMPLES - 1
    [] OTHER -> 0

\* No frame reads outside the intensities of the ring, gamma_lut or heartbeat_lut,
\* for any of its pixels, whatever tick the request or the effect before it left.
IndexInRange == drawn.reads \subseteq 0 .. LastIndex(drawn.type)

\* The refresh is kept away from an effect that is being set: the timer is off
\* until it is whole, and the effect that is shown is one that was asked for.
SetApart ==
  /\ pc \in {"copy", "copy_rest", "start"} => ~timer
  /\ pc \in {"idle", "write", "write_again"} => (timer <=> current.type \in Animated)
  /\ pc \in {"copy", "copy_rest"} =>
       /\ req.colour = Len(asked) /\ drawn.colour < Len(asked)
       /\ asked[req.colour] = req.type
       /\ req.progress = FULL
  /\ pc = "copy_rest" => current.type = req.type
  /\ pc \notin {"copy", "copy_rest"} /\ current.type # "NONE" =>
       /\ current.colour \in 1 .. Len(asked)
       /\ asked[current.colour] = current.type
  /\ previous = drawn.type
  /\ drawn.colour \in 0 .. Len(asked)
  /\ drawn.type = "NONE" => drawn.colour = 0

\* The progress is at most one increment ahead of its frame and never behind it.
ProgressKept ==
  /\ drawn.type = "PROGRESS" => drawn.progress <= FULL
  /\ pc \notin {"copy", "copy_rest"} /\ current.type = "PROGRESS" =>
       /\ current.progress <= FULL + 1
       /\ since = 0 => current.progress <= FULL
       /\ pc \in {"write", "write_again"} =>
            current.progress <= req.progress /\ req.progress <= FULL + 1
       /\ drawn.colour = current.colour => drawn.progress <= current.progress

\* The inductive invariant of the ring (module LedsProofs): the types, the frames,
\* and what an effect that is being set, or its progress, may look like meanwhile.
LedsInv == TypeOK /\ IndexInRange /\ WholeEffect /\ SetApart /\ ProgressKept

\* While one effect is shown its progress never goes back and is never more than
\* full, although the thread reads and writes it around refreshes that clamp it.
ProgressAdvances ==
  [][ drawn'.type = "PROGRESS" =>
        /\ drawn'.progress <= FULL
        /\ drawn'.colour = drawn.colour => drawn'.progress >= drawn.progress ]_drawn

\* The last effect asked for is shown, unless it is ignored because it is the
\* one that was refreshed before the current one, or it has no timer.
WantedIsShown ==
  \A type \in Animated :
    (wanted = type /\ ~hasty) ~> (drawn.type = type \/ wanted # type \/ hasty)
=============================================================================
