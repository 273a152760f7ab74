----------------------------- MODULE LedsProofs -----------------------------
(***************************************************************************)
(* Module Leds for rings, tables and requests of any number: no frame      *)
(* mixes two requests or reads outside a table; progress never goes back.  *)
(*                                                                         *)
(* The argument: the timer is off while an effect is set, so that only     *)
(* whole effects are drawn; the thread is at most one increment ahead of   *)
(* the last frame, so that the progress that a refresh clamps is neither   *)
(* past FULL by more than one, where it could wrap, nor behind the frame.  *)
(***************************************************************************)
EXTENDS Leds, TLAPS

\* The constants, one by one.
LEMMA Constants ==
  /\ LED_RING_PIXEL_NB \in Nat /\ LED_RING_PIXEL_NB > 0
  /\ LED_RING_BREATH_MAX \in Nat /\ HEARTBEAT_SAMPLES \in Nat /\ HEARTBEAT_SAMPLES > 0
  /\ LED_RING_BREATH_LENGTH \in Nat
  /\ FULL \in Nat /\ FULL > 0 /\ BYTE \in Nat /\ BYTE > FULL + 1
  /\ MaxRequests \in Nat /\ MaxRequests > 0
BY LedsAssumption

\* The values an effect and a frame may have.
LEMMA EffectValues ==
  ASSUME NEW e \in EffectType
  PROVE  /\ e.type \in Effects \cup {"NONE"}
         /\ e.colour \in 0 .. MaxRequests /\ e.colour \in Nat
         /\ e.tick \in Nat
         /\ e.progress \in 0 .. BYTE - 1 /\ e.progress \in Nat
BY Constants DEF EffectType

LEMMA Values ==
  ASSUME TypeOK
  PROVE  /\ current \in EffectType /\ req \in EffectType
         /\ current.type \in Effects \cup {"NONE"}
         /\ current.colour \in 0 .. MaxRequests /\ current.colour \in Nat
         /\ current.tick \in Nat
         /\ current.progress \in 0 .. BYTE - 1 /\ current.progress \in Nat
         /\ req.colour \in Nat
         /\ req.progress \in 0 .. BYTE - 1 /\ req.progress \in Nat
         /\ drawn.progress \in Nat /\ drawn.colour \in Nat
         /\ Len(asked) \in Nat
<1>1. current \in EffectType /\ req \in EffectType BY DEF TypeOK
<1>2. drawn.progress \in Nat /\ drawn.colour \in Nat
  <2>1. drawn \in Frames BY DEF TypeOK
  <2>2. drawn.progress \in 0 .. BYTE - 1 /\ drawn.colour \in 0 .. MaxRequests
    BY <2>1 DEF Frames
  <2> QED BY <2>2, Constants
<1>3. Len(asked) \in Nat
  <2>1. asked \in Seq(Effects) BY DEF TypeOK
  <2> QED BY <2>1
<1> QED BY <1>1, <1>2, <1>3, EffectValues

\* Every value of a tick or progress is one of its type.
LEMMA Ranges ==
  ASSUME NEW type \in Effects \cup {"NONE"}, NEW tick \in Nat,
         NEW progress \in 0 .. BYTE - 1
  PROVE  /\ NextTick(type, tick) \in Nat
         /\ ShownProgress(type, progress) \in 0 .. BYTE - 1
         /\ ShownProgress(type, progress) <= progress
         /\ progress <= FULL => ShownProgress(type, progress) = progress
         /\ type = "PROGRESS" /\ progress > FULL => ShownProgress(type, progress) = FULL
<1> USE Constants
<1>1. NextTick(type, tick) \in Nat BY DEF NextTick
<1>2. /\ ShownProgress(type, progress) \in 0 .. BYTE - 1
      /\ ShownProgress(type, progress) <= progress
      /\ progress <= FULL => ShownProgress(type, progress) = progress
      /\ type = "PROGRESS" /\ progress > FULL => ShownProgress(type, progress) = FULL
  BY DEF ShownProgress
<1> QED BY <1>1, <1>2

\* What a frame reads with the tick that comes before it.
LEMMA Indexes ==
  ASSUME NEW type \in Effects \cup {"NONE"}, NEW tick \in Nat
  PROVE  Reads(type, NextTick(type, tick)) \subseteq 0 .. LastIndex(type)
<1> USE Constants
<1>1. CASE type = "SPIN"
  <2>1. NextTick(type, tick) \in 0 .. LED_RING_PIXEL_NB BY <1>1 DEF NextTick
  <2>2. ASSUME NEW t \in 0 .. LED_RING_PIXEL_NB, NEW pixel \in 0 .. LED_RING_PIXEL_NB - 1
        PROVE  tail_index(pixel, t) \in 0 .. LED_RING_PIXEL_NB - 1
    BY DEF tail_index
  <2> QED BY <1>1, <2>1, <2>2 DEF Reads, LastIndex
<1>2. CASE type = "BREATHING" BY <1>2 DEF NextTick, Reads, Ramp, LastIndex
<1>3. CASE type = "HEARTBEAT" BY <1>3 DEF NextTick, Reads, LastIndex
<1>4. CASE type \notin {"SPIN", "BREATHING", "HEARTBEAT"} BY <1>4 DEF Reads
<1> QED BY <1>1, <1>2, <1>3, <1>4

LEMMA SetEffectInv ==
  ASSUME LedsInv, NEW type \in Effects, NEW tick \in Ticks, SetEffect(type, tick)
  PROVE  LedsInv'
<1> USE Constants DEF LedsInv
<1>1. /\ pc = "idle" /\ pc' = "copy" /\ timer' = FALSE
      /\ Len(asked) < MaxRequests /\ asked' = Append(asked, type)
      /\ req' = Effect(type, Len(asked) + 1, tick, FULL)
      /\ UNCHANGED <<current, previous, since, drawn>>
      /\ wanted' = type /\ hasty' = FALSE
  BY DEF SetEffect
<1>2. /\ asked' \in Seq(Effects) /\ Len(asked') = Len(asked) + 1
      /\ asked'[Len(asked')] = type
      /\ \A i \in 1 .. Len(asked) : asked'[i] = asked[i]
  BY <1>1 DEF TypeOK
<1>3. /\ req' \in EffectType
      /\ req'.type = type /\ req'.colour = Len(asked') /\ req'.progress = FULL
  <2>1. /\ Len(asked) + 1 \in 0 .. MaxRequests /\ tick \in Nat
        /\ FULL \in 0 .. BYTE - 1
    BY <1>1, Values, LedsAssumption
  <2> QED BY <1>1, <1>2, <2>1 DEF Effect, EffectType
<1>4. TypeOK' BY <1>1, <1>2, <1>3 DEF TypeOK
<1>5. IndexInRange' BY <1>1 DEF IndexInRange
<1>6. drawn.colour \in 0 .. Len(asked) /\ Len(asked) \in Nat BY Values DEF SetApart
<1>7. WholeEffect' BY <1>1, <1>2, <1>6 DEF WholeEffect
<1>8. SetApart' BY <1>1, <1>2, <1>3, <1>6 DEF SetApart
<1>9. ProgressKept' BY <1>1 DEF ProgressKept
<1> QED BY <1>4, <1>5, <1>7, <1>8, <1>9

LEMMA IgnoreInv ==
  ASSUME LedsInv, NEW type \in Effects, Ignore(type)
  PROVE  LedsInv'
BY DEF LedsInv, Ignore, threadVars, TypeOK, IndexInRange, WholeEffect, SetApart,
       ProgressKept

\* The effect is copied and the timer started: nothing is drawn.
LEMMA CopyInv ==
  ASSUME LedsInv, CopyType \/ CopyRest \/ StartTimer
  PROVE  LedsInv'
<1> USE Constants DEF LedsInv
<1>1. UNCHANGED <<previous, req, since, drawn, asked, wanted, hasty>>
  BY DEF CopyType, CopyRest, StartTimer, history
<1>2. IndexInRange' /\ WholeEffect' BY <1>1 DEF IndexInRange, WholeEffect
<1>3. CASE CopyType
  <2>1. /\ pc = "copy" /\ pc' = "copy_rest" /\ timer' = timer
        /\ current' = [current EXCEPT !.type = req.type]
    BY <1>3 DEF CopyType
  <2>2. current' \in EffectType /\ current'.type = req.type
    BY <2>1 DEF TypeOK, EffectType
  <2>3. TypeOK' BY <1>1, <2>1, <2>2 DEF TypeOK
  <2>4. SetApart' BY <1>1, <2>1, <2>2 DEF SetApart
  <2>5. ProgressKept' BY <1>1, <2>1 DEF ProgressKept
  <2> QED BY <1>2, <2>3, <2>4, <2>5
<1>4. CASE CopyRest
  <2>1. /\ pc = "copy_rest" /\ pc' = "start" /\ timer' = timer
        /\ current' = [req EXCEPT !.type = current.type]
        /\ current.type = req.type
    BY <1>4 DEF CopyRest, SetApart
  <2>2. current' = req BY <2>1 DEF TypeOK, EffectType
  <2>3. TypeOK' BY <1>1, <2>1, <2>2 DEF TypeOK
  <2>4. req.colour \in Nat /\ drawn.colour \in Nat /\ Len(asked) \in Nat BY Values
  <2>5. req.colour \in 1 .. Len(asked) /\ req.progress = FULL /\ drawn.colour # req.colour
    <3>1. req.colour = Len(asked) /\ drawn.colour < Len(asked) /\ req.progress = FULL
      BY <2>1 DEF SetApart
    <3> QED BY <2>4, <3>1
  <2>6. SetApart' BY <1>1, <2>1, <2>2, <2>5 DEF SetApart
  <2>7. ProgressKept'
    <3>1. drawn'.colour # current'.colour /\ current'.progress = FULL /\ pc' = "start"
      BY <1>1, <2>1, <2>2, <2>5
    <3> QED BY <1>1, <3>1 DEF ProgressKept
  <2> QED BY <1>2, <2>3, <2>6, <2>7
<1>5. CASE StartTimer
  <2>1. /\ pc = "start" /\ pc' = "idle" /\ current' = current
        /\ timer' \in BOOLEAN /\ (timer' <=> current.type \in Animated)
    BY <1>5 DEF StartTimer, SetApart
  <2>2. TypeOK' BY <1>1, <2>1 DEF TypeOK
  <2>3. SetApart' BY <1>1, <2>1 DEF SetApart
  <2>4. ProgressKept' BY <1>1, <2>1 DEF ProgressKept
  <2> QED BY <1>2, <2>2, <2>3, <2>4
<1> QED BY <1>3, <1>4, <1>5

\* An animated effect is only incremented after a frame, so it does not wrap.
LEMMA ReadProgressInv ==
  ASSUME LedsInv, ReadProgress
  PROVE  LedsInv'
<1> USE Constants DEF LedsInv
<1>1. /\ pc = "idle" /\ pc' = "write" /\ since' = 1 /\ (since = 0 \/ ~timer)
      /\ req' = [req EXCEPT !.progress = (current.progress + 1) % BYTE]
      /\ UNCHANGED <<current, previous, timer, drawn, asked, wanted, hasty>>
  BY DEF ReadProgress, history
<1>2. current.progress \in 0 .. BYTE - 1 /\ current.progress \in Nat BY Values
<1>3. (current.progress + 1) % BYTE \in 0 .. BYTE - 1 BY <1>2
<1>4. req' \in EffectType /\ req'.progress = (current.progress + 1) % BYTE
  BY <1>1, <1>3 DEF TypeOK, EffectType
<1>5. TypeOK' BY <1>1, <1>4 DEF TypeOK
<1>6. IndexInRange' /\ WholeEffect' BY <1>1 DEF IndexInRange, WholeEffect
<1>7. SetApart' BY <1>1 DEF SetApart
<1>8. ProgressKept'
  <2>1. CASE current.type = "PROGRESS"
    <3>1. since = 0 /\ current.progress <= FULL
      BY <1>1, <2>1 DEF SetApart, ProgressKept, Animated
    <3>2. (current.progress + 1) % BYTE = current.progress + 1 BY <1>2, <3>1
    <3> QED BY <1>1, <1>2, <1>4, <3>1, <3>2 DEF ProgressKept
  <2>2. CASE current.type # "PROGRESS" BY <1>1, <2>2 DEF ProgressKept
  <2> QED BY <2>1, <2>2
<1> QED BY <1>5, <1>6, <1>7, <1>8

LEMMA WriteProgressInv ==
  ASSUME LedsInv, WriteProgress
  PROVE  LedsInv'
<1> USE Constants DEF LedsInv
<1>1. /\ pc \in {"write", "write_again"} /\ pc' \in {"write_again", "idle"}
      /\ since' = 1
      /\ current' = [current EXCEPT !.progress = req.progress]
      /\ UNCHANGED <<previous, timer, req, drawn, asked, wanted, hasty>>
  BY DEF WriteProgress, history
<1>2. /\ current' \in EffectType
      /\ current'.type = current.type /\ current'.colour = current.colour
      /\ current'.progress = req.progress
  BY <1>1 DEF TypeOK, EffectType
<1>3. TypeOK' BY <1>1, <1>2 DEF TypeOK
<1>4. IndexInRange' /\ WholeEffect' BY <1>1 DEF IndexInRange, WholeEffect
<1>5. SetApart' BY <1>1, <1>2 DEF SetApart
<1>6. ProgressKept'
  <2>1. current.progress \in Nat /\ req.progress \in Nat /\ drawn.progress \in Nat
    BY Values
  <2>2. drawn' = drawn BY <1>1
  <2>3. CASE current.type = "PROGRESS"
    <3>1. /\ current.progress <= req.progress /\ req.progress <= FULL + 1
          /\ drawn.colour = current.colour => drawn.progress <= req.progress
      BY <1>1, <2>1, <2>3 DEF ProgressKept
    <3> QED BY <1>1, <1>2, <2>1, <2>2, <3>1 DEF ProgressKept
  <2>4. CASE current.type # "PROGRESS" BY <1>2, <2>2, <2>4 DEF ProgressKept
  <2> QED BY <2>3, <2>4
<1> QED BY <1>3, <1>4, <1>5, <1>6

\* The frame and the effect after a refresh.
LEMMA Frame ==
  ASSUME LedsInv, Refresh
  PROVE  \E tick \in Nat, progress \in 0 .. current.progress :
           /\ progress = (IF previous = current.type
                          THEN ShownProgress(current.type, current.progress)
                          ELSE 0)
           /\ current' \in EffectType
           /\ current'.type = current.type /\ current'.colour = current.colour
           /\ current'.progress = progress
           /\ drawn' = [type |-> current.type, colour |-> current.colour,
                        reads |-> Reads(current.type, NextTick(current.type, tick)),
                        progress |-> progress]
<1> USE Constants DEF LedsInv
<1> DEFINE new == previous # current.type
           t == IF new THEN 0 ELSE current.tick
           p == ShownProgress(current.type, IF new THEN 0 ELSE current.progress)
<1>1. /\ current.type \in Effects \cup {"NONE"} /\ t \in Nat
      /\ current.progress \in 0 .. BYTE - 1 /\ 0 \in 0 .. BYTE - 1
  BY Values
<1>2. NextTick(current.type, t) \in Nat BY <1>1, Ranges
<1>3. /\ p \in 0 .. BYTE - 1 /\ p \in 0 .. current.progress
      /\ p = IF previous = current.type
             THEN ShownProgress(current.type, current.progress) ELSE 0
  <2>1. CASE new
    <3>1. ShownProgress(current.type, 0) = 0 BY <1>1, Ranges
    <3> QED BY <1>1, <2>1, <3>1
  <2>2. CASE ~new
    <3>1. p = ShownProgress(current.type, current.progress) BY <2>2
    <3>2. p \in 0 .. BYTE - 1 /\ p <= current.progress BY <1>1, <3>1, Ranges
    <3> QED BY <1>1, <2>2, <3>1, <3>2
  <2> QED BY <2>1, <2>2
<1>4. /\ current' = [current EXCEPT !.tick = NextTick(current.type, t), !.progress = p]
      /\ drawn' = [type |-> current.type, colour |-> current.colour,
                   reads |-> Reads(current.type, NextTick(current.type, t)),
                   progress |-> p]
  BY DEF Refresh
<1> HIDE DEF t, p
<1>5. /\ current' \in EffectType
      /\ current'.type = current.type /\ current'.colour = current.colour
      /\ current'.progress = p
  BY <1>2, <1>3, <1>4 DEF TypeOK, EffectType
<1> QED BY <1>1, <1>3, <1>4, <1>5

LEMMA RefreshInv ==
  ASSUME LedsInv, Refresh
  PROVE  LedsInv'
<1> USE Constants DEF LedsInv
<1>1. /\ timer /\ previous' = current.type /\ since' = 0
      /\ UNCHANGED <<timer, pc, req, asked, wanted, hasty>>
  BY DEF Refresh, history
<1>2. PICK tick \in Nat, p \in 0 .. current.progress :
        /\ p = (IF previous = current.type
                THEN ShownProgress(current.type, current.progress) ELSE 0)
        /\ current' \in EffectType
        /\ current'.type = current.type /\ current'.colour = current.colour
        /\ current'.progress = p
        /\ drawn' = [type |-> current.type, colour |-> current.colour,
                     reads |-> Reads(current.type, NextTick(current.type, tick)),
                     progress |-> p]
  BY Frame
<1>3. /\ current.type \in Effects \cup {"NONE"} /\ current.colour \in 0 .. MaxRequests
      /\ current.progress \in 0 .. BYTE - 1 /\ current.progress \in Nat
  BY Values
<1>4. /\ drawn'.type = current.type /\ drawn'.colour = current.colour
      /\ drawn'.progress = p
      /\ drawn'.reads = Reads(current.type, NextTick(current.type, tick))
  BY <1>2
<1>5. pc \in {"idle", "write", "write_again"} BY <1>1 DEF SetApart, TypeOK
<1>6. IndexInRange'
  <2>1. drawn'.type = current.type
        /\ drawn'.reads = Reads(current.type, NextTick(current.type, tick))
    BY <1>4
  <2> QED BY <1>3, <2>1, Indexes DEF IndexInRange
<1>7. TypeOK'
  <2>1. drawn'.reads \subseteq Int BY <1>6 DEF IndexInRange
  <2>2. drawn' \in Frames
    BY <1>2, <1>3, <1>4, <2>1 DEF Frames
  <2> QED BY <1>1, <1>2, <1>3, <2>2 DEF TypeOK
<1>8. WholeEffect' BY <1>1, <1>4, <1>5 DEF WholeEffect, SetApart
<1>9. SetApart'
  <2>1. current.type \in Animated BY <1>1, <1>5 DEF SetApart
  <2>2. /\ current.type # "NONE"
        /\ current.colour \in 1 .. Len(asked) /\ asked[current.colour] = current.type
    BY <1>5, <2>1 DEF SetApart, Animated
  <2> QED BY <1>1, <1>2, <1>4, <1>5, <2>1, <2>2 DEF SetApart
<1>10. ProgressKept'
  <2>1. CASE current.type = "PROGRESS"
    <3>1. p <= FULL BY <1>2, <1>3, <2>1, Ranges
    <3> QED BY <1>1, <1>2, <1>3, <1>4, <2>1, <3>1 DEF ProgressKept, TypeOK, EffectType
  <2>2. CASE current.type # "PROGRESS" BY <1>2, <1>4, <2>2 DEF ProgressKept
  <2> QED BY <2>1, <2>2
<1> QED BY <1>6, <1>7, <1>8, <1>9, <1>10

LEMMA InitInv ==
  ASSUME Init
  PROVE  LedsInv
<1> USE Constants
<1>1. current \in EffectType /\ current.type = "NONE"
  BY DEF Init, Effect, EffectType
<1>2. drawn \in Frames /\ drawn.type = "NONE" /\ drawn.colour = 0 /\ drawn.reads = {}
  BY DEF Init, Frames
<1>3. asked \in Seq(Effects) BY DEF Init
<1>4. TypeOK
  <2>1. req = current /\ req \in EffectType BY <1>1 DEF Init
  <2>2. timer \in BOOLEAN /\ hasty \in BOOLEAN BY DEF Init
  <2>3. since \in 0 .. 1 BY DEF Init
  <2>4. /\ previous \in Effects \cup {"NONE"} /\ wanted \in Effects \cup {"NONE"}
        /\ pc \in {"idle", "copy", "copy_rest", "start", "write", "write_again"}
    BY DEF Init
  <2> QED BY <1>1, <1>2, <1>3, <2>1, <2>2, <2>3, <2>4 DEF TypeOK
<1>5. IndexInRange BY <1>2 DEF IndexInRange, LastIndex
<1>6. WholeEffect /\ ProgressKept
  BY <1>1, <1>2 DEF WholeEffect, ProgressKept
<1>7. Len(asked) = 0 BY DEF Init
<1>8. SetApart BY <1>1, <1>2, <1>7 DEF Init, SetApart, Animated
<1> QED BY <1>4, <1>5, <1>6, <1>8 DEF LedsInv

LEMMA NextInv ==
  ASSUME LedsInv, [Next]_vars
  PROVE  LedsInv'
<1>1. CASE UNCHANGED vars
  BY <1>1 DEF vars, threadVars, history, LedsInv, TypeOK, IndexInRange, WholeEffect,
              SetApart, ProgressKept
<1> QED
  BY <1>1, SetEffectInv, IgnoreInv, CopyInv, ReadProgressInv, WriteProgressInv,
     RefreshInv DEF Next

\* A refresh never shows less of the same request.
LEMMA RefreshAdvances ==
  ASSUME LedsInv, Refresh, drawn'.type = "PROGRESS"
  PROVE  /\ drawn'.progress <= FULL
         /\ drawn'.colour = drawn.colour => drawn'.progress >= drawn.progress
<1>1. drawn'.progress <= FULL BY RefreshInv DEF LedsInv, ProgressKept
<1>2. PICK tick \in Nat, p \in 0 .. current.progress :
        /\ p = (IF previous = current.type
                THEN ShownProgress(current.type, current.progress) ELSE 0)
        /\ drawn' = [type |-> current.type, colour |-> current.colour,
                     reads |-> Reads(current.type, NextTick(current.type, tick)),
                     progress |-> p]
  BY Frame
<1>3. current.type = "PROGRESS" /\ drawn'.colour = current.colour /\ drawn'.progress = p
  BY <1>2
<1>4. ASSUME drawn.colour = current.colour
      PROVE  p >= drawn.progress
  <2>1. pc \in {"idle", "write", "write_again"}
    BY DEF Refresh, LedsInv, SetApart, TypeOK
  <2>2. current.colour \in 1 .. Len(asked) /\ asked[current.colour] = "PROGRESS"
    BY <1>3, <2>1 DEF LedsInv, SetApart
  <2>3. drawn.type = "PROGRESS" /\ previous = "PROGRESS"
    BY <1>4, <2>2, Values DEF LedsInv, SetApart, WholeEffect
  <2>4. drawn.progress <= FULL /\ drawn.progress <= current.progress
    BY <1>3, <1>4, <2>1, <2>3 DEF LedsInv, ProgressKept
  <2>5. p = ShownProgress("PROGRESS", current.progress) BY <1>2, <1>3, <2>3
  <2>6. /\ current.progress <= FULL => p = current.progress
        /\ current.progress > FULL => p = FULL
        /\ current.progress \in Nat /\ drawn.progress \in Nat /\ FULL \in Nat
    BY <1>3, <2>5, Values, Ranges, Constants DEF LedsInv
  <2> QED BY <2>4, <2>6
<1> QED BY <1>1, <1>3, <1>4

LEMMA StepAdvances ==
  ASSUME LedsInv, [Next]_vars
  PROVE  [ drawn'.type = "PROGRESS" =>
             /\ drawn'.progress <= FULL
             /\ drawn'.colour = drawn.colour => drawn'.progress >= drawn.progress ]_drawn
<1>1. CASE Refresh BY <1>1, RefreshAdvances
<1>2. CASE UNCHANGED drawn BY <1>2
<1>3. Refresh \/ UNCHANGED drawn
  BY DEF Next, SetEffect, Ignore, CopyType, CopyRest, StartTimer, ReadProgress,
         WriteProgress, vars, threadVars, history
<1> QED BY <1>1, <1>2, <1>3

\* The inductive invariant of the ring: set_effect and the timer thread.
THEOREM LedsInvariant == Spec => []LedsInv
<1>1. Init => LedsInv BY InitInv
<1>2. LedsInv /\ [Next]_vars => LedsInv' BY NextInv
<1> QED BY <1>1, <1>2, PTL DEF Spec

\* A frame never mixes the type of one request with the colours of another.
THEOREM OneRequestPerFrame == Spec => []WholeEffect
<1>1. LedsInv => WholeEffect BY DEF LedsInv
<1> QED BY <1>1, LedsInvariant, PTL

\* While one request is shown its progress is never past full and never goes back,
\* although set_effect_progress writes around refreshes that clamp it.
THEOREM ProgressNeverBack == Spec => ProgressAdvances
<1>1. LedsInv /\ [Next]_vars =>
        [ drawn'.type = "PROGRESS" =>
            /\ drawn'.progress <= FULL
            /\ drawn'.colour = drawn.colour => drawn'.progress >= drawn.progress ]_drawn
  BY StepAdvances
<1> QED BY <1>1, LedsInvariant, PTL DEF Spec, ProgressAdvances
=============================================================================
