---------------------------- MODULE DriverProofs ----------------------------
(***************************************************************************)
(* Proofs about the drivers of two chips.                                  *)
(*                                                                         *)
(* NandDriver, for every device, every set of calls and one thread that    *)
(* makes them: a call that succeeds did what it says.  The invariant says  *)
(* stage by stage what the chip, the HAL, the semaphores and the buffers   *)
(* hold; a wait that timed out leaves a HAL that polls, and nothing else.  *)
(*                                                                         *)
(* Probe, for every clock, every frequency and every order of modes: which *)
(* pins are wired, with the one that JTAG leaves; the role and the rate    *)
(* that a peripheral keeps or loses; the rate that is chosen; SWD starts   *)
(* talking.                                                                *)
(***************************************************************************)
EXTENDS Probe, NandDriver, SequenceTheorems, TLAPS

-----------------------------------------------------------------------------
(* The calls of LevelX. *)

\* One thread uses the driver at a time.
OneThread == \E t : Threads = {t}

\* What a call is made of.
LEMMA CallValues ==
  ASSUME NEW o \in Ops
  PROVE  /\ o.kind \in {"read", "write", "copy", "erase", "verify"}
         /\ o.dma \in BOOLEAN /\ o.parts \subseteq Parts
         /\ Len(o.steps) \in Nat \ {0}
         /\ DOMAIN o.steps = 1 .. Len(o.steps)
         /\ \A i \in 1 .. Len(o.steps) :
              o.steps[i].from \in Rows /\ o.steps[i].to \in Rows
              /\ o.steps[i].data \in [Parts -> Value]
<1> DEFINE S == [from : Rows, to : Rows, data : [Parts -> Value]]
<1>1. o \in Operation BY NandAssumption
<1>2. /\ o.kind \in {"read", "write", "copy", "erase", "verify"}
      /\ o.dma \in BOOLEAN /\ o.parts \subseteq Parts
      /\ o.steps \in Seq(S)
  BY <1>1 DEF Operation
<1>3. o.steps # <<>> BY NandAssumption
<1> HIDE DEF S
<1>4. /\ Len(o.steps) \in Nat \ {0} /\ DOMAIN o.steps = 1 .. Len(o.steps)
      /\ \A i \in 1 .. Len(o.steps) : o.steps[i] \in S
  BY <1>2, <1>3, EmptySeq, LenProperties, ElementOfSeq
<1>5. \A s \in S : s.from \in Rows /\ s.to \in Rows /\ s.data \in [Parts -> Value]
  BY DEF S
<1> QED BY <1>2, <1>4, <1>5

LEMMA FirstStages ==
  /\ FirstStage("write") = "load" /\ FirstStage("erase") = "enable"
  /\ FirstStage("read") = "to_cache" /\ FirstStage("verify") = "to_cache"
  /\ FirstStage("copy") = "to_cache"
BY DEF FirstStage

LEMMA ErasedType == Erased \in [Parts -> Value]
BY DEF Erased, Value

LEMMA ProgramType ==
  ASSUME NEW old \in [Parts -> Value], NEW new \in [Parts -> Value]
  PROVE  Program(old, new) \in [Parts -> Value]
BY DEF Program, And, Value

-----------------------------------------------------------------------------
(* The pages of the chip as a call goes from page to page. *)

\* Nothing is done at first, and a read never changes the chip.
LEMMA ExpectedFirst ==
  ASSUME TypeOK, NEW o \in Ops
  PROVE  Expected(o, 0) = before
<1>1. \A r : Writers(o, 0, r) = {} BY DEF Writers
<1>2. before = [r \in Rows |-> before[r]] BY DEF TypeOK
<1> QED BY <1>1, <1>2 DEF Expected

LEMMA ExpectedRead ==
  ASSUME NEW o, o.kind \in {"read", "verify"}, NEW k
  PROVE  Expected(o, k) = before
BY DEF Expected

\* One page more is written.
LEMMA ExpectedNext ==
  ASSUME NEW o \in Ops, o.kind \in {"write", "copy"},
         NEW k \in 1 .. Len(o.steps)
  PROVE  Expected(o, k) =
           [Expected(o, k - 1) EXCEPT ![o.steps[k].to] = Program(@, Written(o, k))]
<1> DEFINE to == o.steps[k].to
           one(W, r) == IF W = {} THEN before[r]
                        ELSE Program(before[r], Written(o, CHOOSE i \in W : TRUE))
           new(n, r) == one(Writers(o, n, r), r)
<1>1. Expected(o, k) = [r \in Rows |-> new(k, r)]
      /\ Expected(o, k - 1) = [r \in Rows |-> new(k - 1, r)]
  BY DEF Expected
<1>2. to \in Rows /\ DOMAIN o.steps = 1 .. Len(o.steps) /\ Len(o.steps) \in Nat
  BY CallValues
<1>3. \A i \in 1 .. Len(o.steps) : o.steps[i].to = to => i = k
  BY <1>2, NandAssumption
<1>4. Writers(o, k - 1, to) = {} /\ Writers(o, k, to) = {k}
  BY <1>2, <1>3 DEF Writers
<1>5. \A r : r # to => Writers(o, k, r) = Writers(o, k - 1, r)
  <2> TAKE r
  <2> HAVE r # to
  <2>1. Writers(o, k, r) \subseteq Writers(o, k - 1, r) BY <1>2 DEF Writers
  <2>2. Writers(o, k - 1, r) \subseteq Writers(o, k, r) BY <1>2 DEF Writers
  <2> QED BY <2>1, <2>2
<1>6. new(k - 1, to) = before[to] BY <1>4
<1>7. new(k, to) = Program(before[to], Written(o, k))
  <2>1. (CHOOSE i \in {k} : TRUE) = k OBVIOUS
  <2> QED BY <1>4, <2>1
<1>8. \A r \in Rows : r # to => new(k, r) = new(k - 1, r)
  <2> HIDE DEF one
  <2> QED BY <1>5
<1> HIDE DEF new, one, to
<1>9. Expected(o, k) = [Expected(o, k - 1) EXCEPT ![to] = Program(@, Written(o, k))]
  BY <1>1, <1>2, <1>6, <1>7, <1>8
<1> QED BY <1>9 DEF to

\* A page that is copied is still the one it was.
LEMMA ExpectedSource ==
  ASSUME NEW o \in Ops, o.kind = "copy",
         NEW k \in 0 .. Len(o.steps), NEW i \in 1 .. Len(o.steps)
  PROVE  Expected(o, k)[o.steps[i].from] = before[o.steps[i].from]
<1>1. o.steps[i].from \in Rows /\ DOMAIN o.steps = 1 .. Len(o.steps) /\ Len(o.steps) \in Nat
  BY CallValues
<1>2. \A j \in 1 .. k : o.steps[j].to # o.steps[i].from
  BY <1>1, NandAssumption
<1>3. Writers(o, k, o.steps[i].from) = {} BY <1>2 DEF Writers
<1> QED BY <1>1, <1>3 DEF Expected

\* The block is erased.
LEMMA ExpectedErased ==
  ASSUME NEW o \in Ops, o.kind = "erase"
  PROVE  /\ Len(o.steps) = 1
         /\ Expected(o, 1) = [r \in Rows |-> IF r \in RowsOf(o.steps[1].to[1])
                                             THEN Erased ELSE before[r]]
BY NandAssumption DEF Expected

LEMMA EraseIsOne == \A o \in Ops : o.kind = "erase" => Len(o.steps) = 1
BY NandAssumption

LEMMA SameHistory ==
  ASSUME UNCHANGED before
  PROVE  /\ \A o, k : Expected(o, k)' = Expected(o, k)
         /\ \A o, k : Written(o, k)' = Written(o, k)
BY DEF Expected, Written

LEMMA SameContent ==
  ASSUME UNCHANGED array
  PROVE  \A o, i : Content(o, i)' = Content(o, i)
BY DEF Content

-----------------------------------------------------------------------------
(* Steps of the thread. *)

LEMMA InCall ==
  ASSUME NandInv, NEW t \in Threads, pc[t] # "idle"
  PROVE  /\ op[t] \in Ops /\ step[t] \in 1 .. Len(op[t].steps)
         /\ Len(op[t].steps) \in Nat /\ result[t] = "none"
         /\ op[t].kind \in {"read", "write", "copy", "erase", "verify"}
         /\ op[t].dma \in BOOLEAN /\ op[t].parts \subseteq Parts
         /\ Page(t).from \in Rows /\ Page(t).to \in Rows
         /\ Page(t).data \in [Parts -> Value]
<1>1. op[t] \in Ops /\ step[t] \in 1 .. Len(op[t].steps) /\ result[t] = "none"
  BY DEF NandInv, KindFits
<1> QED BY <1>1, CallValues DEF Page

LEMMA ContentType ==
  ASSUME TypeOK, NEW o \in Ops, NEW i \in 1 .. Len(o.steps)
  PROVE  Content(o, i) \in [Parts -> Value]
<1>1. o.steps[i].from \in Rows BY CallValues
<1>2. array[o.steps[i].from] \in [Parts -> Value] BY <1>1 DEF TypeOK
<1> QED BY <1>2 DEF Content, Value

LEMMA WrittenType ==
  ASSUME TypeOK, NEW o \in Ops, NEW i \in 1 .. Len(o.steps)
  PROVE  Written(o, i) \in [Parts -> Value]
BY CallValues DEF Written, TypeOK

\* A thread that is alone keeps what it read, and what it did.
LEMMA Unfinished ==
  ASSUME OneThread, NEW t \in Threads, result'[t] \in {"none", "error"}
  PROVE  ReadReturnsPage' /\ SuccessMeansDone'
BY DEF OneThread, ReadReturnsPage, SuccessMeansDone

LEMMA ExpectedFirstNext ==
  ASSUME TypeOK'
  PROVE  \A o \in Ops : Expected(o, 0)' = before'
<1> TAKE o \in Ops
<1>1. \A r : Writers(o, 0, r) = {} BY DEF Writers
<1>2. before' = [r \in Rows |-> before'[r]] BY DEF TypeOK
<1> QED BY <1>1, <1>2 DEF Expected

LEMMA WrittenData ==
  \A o, i : o.kind # "copy" => /\ Written(o, i) = o.steps[i].data
                               /\ Written(o, i)' = o.steps[i].data
BY DEF Written

LEMMA ReceivedContent ==
  ASSUME NandInv, NEW t \in Threads, pc[t] \in {"transfer", "rx"}
  PROVE  Received(op[t].parts) = Content(op[t], step[t])
BY DEF NandInv, CacheFits, Received, Content, Page

LEMMA RefusedInv ==
  ASSUME OneThread, NandInv, NEW t \in Threads, Refused(t)
  PROVE  NandInv'
<1>1. Threads = {t} BY DEF OneThread
<1>2. TypeOK BY DEF NandInv
<1>3. /\ pc[t] \in {"to_cache", "poll", "transfer", "load", "enable", "execute"}
      /\ hal # "ready"
      /\ pc' = [pc EXCEPT ![t] = "idle"] /\ pc'[t] = "idle"
      /\ result' = [result EXCEPT ![t] = "error"] /\ result'[t] = "error"
      /\ buffer' = buffer \/ buffer' = Erased \/ buffer' = Page(t).data
      /\ flash_dma_done' \in {0, flash_dma_done}
      /\ UNCHANGED <<array, cache, busy, wel, failed, hal, flash_wip, op, step,
                     after, got, before>>
  BY <1>2 DEF Refused, TypeOK, Refused, Return, Goto, chipVars, Stages
<1>4. /\ op[t] \in Ops /\ step[t] \in 1 .. Len(op[t].steps)
      /\ Len(op[t].steps) \in Nat /\ result[t] = "none"
      /\ op[t].kind \in {"read", "write", "copy", "erase", "verify"}
      /\ op[t].dma \in BOOLEAN /\ op[t].parts \subseteq Parts
      /\ Page(t).from \in Rows /\ Page(t).to \in Rows
      /\ Page(t).data \in [Parts -> Value]
  BY <1>3, InCall
<1>5. TypeOK' BY <1>1, <1>3, <1>4, ErasedType DEF NandInv, TypeOK, Stages
<1>6. CompleteMeansIdle' BY <1>1, <1>3, <1>4 DEF CompleteMeansIdle
<1>7. HalFits' BY <1>1, <1>3, <1>4 DEF NandInv, TypeOK, HalFits, Fresh
<1>8. KindFits' BY <1>1, <1>3, <1>4 DEF KindFits, Waiting
<1>9. PagesFit' BY <1>1, <1>3, <1>4 DEF PagesFit, Fresh, Executing, Waiting
<1>10. CacheFits' BY <1>1, <1>3, <1>4 DEF CacheFits, Caching, Executing, Waiting
<1>11. BufferFits' BY <1>1, <1>3, <1>4 DEF BufferFits
<1>12. ReadReturnsPage' /\ SuccessMeansDone' BY <1>3, <1>4, Unfinished
<1> QED BY <1>5, <1>6, <1>7, <1>8, <1>9, <1>10, <1>11, <1>12 DEF NandInv

LEMMA ToCacheInv ==
  ASSUME OneThread, NandInv, NEW t \in Threads, ToCache(t)
  PROVE  NandInv'
<1>1. Threads = {t} BY DEF OneThread
<1>2. TypeOK BY DEF NandInv
<1>3. /\ pc[t] = "to_cache" /\ hal = "ready"
      /\ before' = IF Fresh(t) THEN array ELSE before
      /\ busy' = IF busy = NULL THEN [kind |-> "read", row |-> Page(t).from] ELSE busy
      /\ pc' = [pc EXCEPT ![t] = "drain"] /\ pc'[t] = "drain"
      /\ after' = [after EXCEPT ![t] = IF op[t].kind = "copy" THEN "enable" ELSE "transfer"]
      /\ after'[t] = (IF op[t].kind = "copy" THEN "enable" ELSE "transfer")
      /\ UNCHANGED <<array, cache, wel, failed, hal, buffer, flash_wip,
                     flash_dma_done, op, step, got, result>>
  BY <1>2
  DEF ToCache, TypeOK, Remember, Take, WaitThen, Goto, halVars, Waiting, Stages, Fresh
<1>4. /\ op[t] \in Ops /\ step[t] \in 1 .. Len(op[t].steps)
      /\ Len(op[t].steps) \in Nat /\ result[t] = "none"
      /\ op[t].kind \in {"read", "write", "copy", "erase", "verify"}
      /\ op[t].dma \in BOOLEAN /\ op[t].parts \subseteq Parts
      /\ Page(t).from \in Rows /\ Page(t).to \in Rows
      /\ Page(t).data \in [Parts -> Value]
  BY <1>3, InCall
<1>5. TypeOK' BY <1>1, <1>3, <1>4 DEF NandInv, TypeOK, Waiting, Stages, Commands
<1>6. CompleteMeansIdle' BY <1>1, <1>3, <1>4 DEF CompleteMeansIdle
<1>7. HalFits' BY <1>1, <1>3, <1>4 DEF NandInv, HalFits
<1>8. KindFits' BY <1>1, <1>3, <1>4 DEF NandInv, KindFits
<1>9. PagesFit'
  <2>1. \A o \in Ops : Expected(o, 0)' = before'
    BY <1>5, ExpectedFirstNext
  <2>2. Fresh(t) => step[t] = 1 BY <1>3 DEF Fresh
  <2>3. CASE Fresh(t)
    <3>1. array' = Expected(op[t], step[t] - 1)'
      BY <1>3, <1>4, <2>1, <2>2, <2>3
    <3> QED BY <1>1, <1>3, <1>4, <3>1 DEF PagesFit, Fresh, Executing, Waiting
  <2>4. CASE ~ Fresh(t)
    <3>1. UNCHANGED before BY <1>3, <2>4
    <3> QED
      BY <1>1, <1>3, <1>4, <2>4, <3>1, SameHistory, FirstStages
      DEF NandInv, PagesFit, HalFits, KindFits, Fresh, Executing, Waiting
  <2> QED BY <2>3, <2>4
<1>10. CacheFits'
  BY <1>1, <1>3, <1>4 DEF NandInv, CacheFits, HalFits, Executing, Page
<1>11. BufferFits' BY <1>1, <1>3, <1>4, SameContent DEF NandInv, BufferFits
<1>12. ReadReturnsPage' /\ SuccessMeansDone' BY <1>3, <1>4, Unfinished
<1> QED BY <1>5, <1>6, <1>7, <1>8, <1>9, <1>10, <1>11, <1>12 DEF NandInv

LEMMA EnableInv ==
  ASSUME OneThread, NandInv, NEW t \in Threads, Enable(t)
  PROVE  NandInv'
<1>1. Threads = {t} BY DEF OneThread
<1>2. TypeOK BY DEF NandInv
<1>3. /\ pc[t] = "enable" /\ hal = "ready"
      /\ before' = IF Fresh(t) THEN array ELSE before
      /\ wel' = (busy = NULL \/ wel)
      /\ pc' = [pc EXCEPT ![t] = "execute"] /\ pc'[t] = "execute"
      /\ UNCHANGED <<array, cache, busy, failed, hal, buffer, flash_wip,
                     flash_dma_done, op, step, after, got, result>>
  BY <1>2 DEF Enable, TypeOK, Remember, Goto, halVars, Stages, Fresh
<1>4. /\ op[t] \in Ops /\ step[t] \in 1 .. Len(op[t].steps)
      /\ Len(op[t].steps) \in Nat /\ result[t] = "none"
      /\ op[t].kind \in {"read", "write", "copy", "erase", "verify"}
      /\ op[t].dma \in BOOLEAN /\ op[t].parts \subseteq Parts
      /\ Page(t).from \in Rows /\ Page(t).to \in Rows
      /\ Page(t).data \in [Parts -> Value]
  BY <1>3, InCall
<1>5. TypeOK' BY <1>1, <1>3, <1>4 DEF NandInv, TypeOK, Stages
<1>6. CompleteMeansIdle' BY <1>1, <1>3, <1>4 DEF CompleteMeansIdle
<1>7. HalFits' BY <1>1, <1>3, <1>4 DEF NandInv, HalFits
<1>8. KindFits' BY <1>1, <1>3, <1>4 DEF NandInv, KindFits, Waiting
<1>9. PagesFit'
  <2>1. \A o \in Ops : Expected(o, 0)' = before'
    BY <1>5, ExpectedFirstNext
  <2>2. Fresh(t) => step[t] = 1 BY <1>3 DEF Fresh
  <2>3. CASE Fresh(t)
    <3>1. array' = Expected(op[t], step[t] - 1)'
      BY <1>3, <1>4, <2>1, <2>2, <2>3
    <3> QED BY <1>1, <1>3, <1>4, <3>1
      DEF PagesFit, Fresh, Executing, Waiting, HalFits, NandInv, KindFits
  <2>4. CASE ~ Fresh(t)
    <3>1. UNCHANGED before BY <1>3, <2>4
    <3>2. Expected(op[t], step[t] - 1)' = Expected(op[t], step[t] - 1)
      BY <1>3, <3>1, SameHistory
    <3>3. array = Expected(op[t], step[t] - 1)
      BY <1>1, <1>3, <2>4 DEF NandInv, PagesFit, Executing, Waiting
    <3>4. wel' BY <1>1, <1>3 DEF NandInv, HalFits
    <3> QED BY <1>1, <1>3, <3>2, <3>3, <3>4 DEF PagesFit, Executing, Waiting
  <2> QED BY <2>3, <2>4
<1>10. CacheFits'
  BY <1>1, <1>3, <1>4, FirstStages, SameHistory
  DEF NandInv, CacheFits, Fresh, Caching, Waiting
<1>11. BufferFits' BY <1>1, <1>3, <1>4 DEF NandInv, BufferFits, KindFits
<1>12. ReadReturnsPage' /\ SuccessMeansDone' BY <1>3, <1>4, Unfinished
<1> QED BY <1>5, <1>6, <1>7, <1>8, <1>9, <1>10, <1>11, <1>12 DEF NandInv

LEMMA ExecuteInv ==
  ASSUME OneThread, NandInv, NEW t \in Threads, Execute(t)
  PROVE  NandInv'
<1>1. Threads = {t} BY DEF OneThread
<1>2. TypeOK BY DEF NandInv
<1>3. /\ pc[t] = "execute" /\ hal = "ready"
      /\ busy' = IF busy = NULL /\ wel
                 THEN [kind |-> ExecuteOf(op[t]), row |-> Page(t).to] ELSE busy
      /\ pc' = [pc EXCEPT ![t] = "drain"] /\ pc'[t] = "drain"
      /\ after' = [after EXCEPT ![t] = "next"] /\ after'[t] = "next"
      /\ UNCHANGED <<array, cache, wel, failed, hal, buffer, flash_wip,
                     flash_dma_done, op, step, got, before, result>>
  BY <1>2
  DEF Execute, TypeOK, Take, WaitThen, Goto, halVars, Waiting, Stages, ExecuteOf
<1>4. /\ op[t] \in Ops /\ step[t] \in 1 .. Len(op[t].steps)
      /\ Len(op[t].steps) \in Nat /\ result[t] = "none"
      /\ op[t].kind \in {"read", "write", "copy", "erase", "verify"}
      /\ op[t].dma \in BOOLEAN /\ op[t].parts \subseteq Parts
      /\ Page(t).from \in Rows /\ Page(t).to \in Rows
      /\ Page(t).data \in [Parts -> Value]
  BY <1>3, InCall
<1>5. TypeOK'
  <2>1. ExecuteOf(op[t]) \in {"program", "erase"} BY DEF ExecuteOf
  <2>2. [kind |-> ExecuteOf(op[t]), row |-> Page(t).to] \in Commands
    BY <1>4, <2>1 DEF Commands
  <2>3. busy' \in Commands \cup {NULL} BY <1>2, <1>3, <2>2 DEF TypeOK
  <2> QED BY <1>2, <1>3, <2>3 DEF TypeOK, Stages, Waiting
<1>6. CompleteMeansIdle' BY <1>1, <1>3, <1>4 DEF CompleteMeansIdle
<1>7. HalFits' BY <1>1, <1>3, <1>4 DEF NandInv, HalFits
<1>8. KindFits' BY <1>1, <1>3, <1>4 DEF NandInv, KindFits
<1>9. PagesFit'
  BY <1>1, <1>3, <1>4, FirstStages, SameHistory
  DEF NandInv, PagesFit, HalFits, Fresh, Executing, Waiting, Page
<1>10. CacheFits'
  BY <1>1, <1>3, <1>4, SameHistory DEF NandInv, CacheFits, Caching
<1>11. BufferFits' BY <1>1, <1>3, <1>4 DEF NandInv, BufferFits, KindFits
<1>12. ReadReturnsPage' /\ SuccessMeansDone' BY <1>3, <1>4, Unfinished
<1> QED BY <1>5, <1>6, <1>7, <1>8, <1>9, <1>10, <1>11, <1>12 DEF NandInv

\* What was read stays right while the chip has the same pages.
LEMMA SameReads ==
  ASSUME NandInv, NEW t \in Threads, pc[t] # "idle",
         UNCHANGED <<array, op, step, got>>
  PROVE  op'[t].kind = "read" =>
           got'[t] = [i \in 1 .. step'[t] - 1 |-> Content(op[t], i)']
<1>1. (op[t])' = op[t] /\ (step[t])' = step[t] /\ (got[t])' = got[t] OBVIOUS
<1>2. \A i : Content(op[t], i)' = Content(op[t], i) BY <1>1, SameContent
<1>3. op[t].kind = "read" => got[t] = [i \in 1 .. step[t] - 1 |-> Content(op[t], i)]
  BY DEF NandInv, BufferFits
<1> QED BY <1>1, <1>2, <1>3

\* From one stage of wait_for_complete to another.
LEMMA WaitStep ==
  ASSUME OneThread, NandInv, NEW t \in Threads,
         pc[t] \in Waiting, pc'[t] \in Waiting,
         UNCHANGED <<array, cache, busy, failed, op, step, after, got, before,
                     result>>
  PROVE  /\ PagesFit' /\ CacheFits' /\ BufferFits'
         /\ ReadReturnsPage' /\ SuccessMeansDone'
<1>1. Threads = {t} BY DEF OneThread
<1>2. /\ op[t] \in Ops /\ result[t] = "none"
      /\ op[t].kind \in {"read", "write", "copy", "erase", "verify"}
  BY InCall DEF Waiting
<1>3. FirstStage(op[t].kind) \notin Waiting BY <1>2, FirstStages DEF Waiting
<1>4. /\ ~ Fresh(t) /\ ~ Fresh(t)'
      /\ (op[t])' = op[t] /\ (step[t])' = step[t]
      /\ Executing(t)' <=> Executing(t)
      /\ Caching(t)' <=> Caching(t)
  BY <1>3 DEF Fresh, Executing, Caching, Waiting
<1>5. pc'[t] \notin {"idle", "to_cache", "load", "enable", "execute", "transfer",
                     "rx", "tx", "copy_out"}
      /\ pc[t] # "idle"
  BY DEF Waiting
<1>6. PagesFit' BY <1>1, <1>4, <1>5, SameHistory DEF NandInv, PagesFit, Page
<1>7. CacheFits' BY <1>1, <1>4, <1>5, SameHistory DEF NandInv, CacheFits, Page
<1>8. BufferFits' BY <1>1, <1>5, SameReads DEF BufferFits
<1>9. ReadReturnsPage' /\ SuccessMeansDone' BY <1>2, Unfinished
<1> QED BY <1>6, <1>7, <1>8, <1>9

LEMMA DrainInv ==
  ASSUME OneThread, NandInv, NEW t \in Threads, Drain(t)
  PROVE  NandInv'
<1>1. Threads = {t} BY DEF OneThread
<1>2. TypeOK BY DEF NandInv
<1>3. /\ pc[t] = "drain" /\ flash_wip' = 0
      /\ pc' = [pc EXCEPT ![t] = "poll"] /\ pc'[t] = "poll"
      /\ UNCHANGED <<array, cache, busy, wel, failed, hal, buffer, flash_dma_done,
                     op, step, after, got, before, result>>
  BY <1>2 DEF Drain, TypeOK, Goto, chipVars
<1>4. op[t].kind \in {"read", "write", "copy", "erase", "verify"} BY <1>3, InCall
<1>5. ~ Fresh(t) BY <1>3, <1>4, FirstStages DEF Fresh
<1>6. TypeOK' BY <1>2, <1>3 DEF TypeOK, Stages, Waiting
<1>7. CompleteMeansIdle' /\ HalFits' /\ KindFits'
  BY <1>1, <1>3, <1>5 DEF NandInv, CompleteMeansIdle, HalFits, KindFits, Waiting
<1> QED BY <1>3, <1>6, <1>7, WaitStep DEF NandInv, Waiting

LEMMA PollInv ==
  ASSUME OneThread, NandInv, NEW t \in Threads, Poll(t)
  PROVE  NandInv'
<1>1. Threads = {t} BY DEF OneThread
<1>2. TypeOK BY DEF NandInv
<1>3. /\ pc[t] = "poll" /\ hal = "ready" /\ hal' = "polling"
      /\ pc' = [pc EXCEPT ![t] = "await"] /\ pc'[t] = "await"
      /\ UNCHANGED <<array, cache, busy, wel, failed, buffer, flash_wip,
                     flash_dma_done, op, step, after, got, before, result>>
  BY <1>2 DEF Poll, TypeOK, Goto, chipVars
<1>4. TypeOK' BY <1>2, <1>3 DEF TypeOK, Stages, Waiting
<1>5. CompleteMeansIdle' /\ HalFits' /\ KindFits'
  BY <1>1, <1>3 DEF NandInv, CompleteMeansIdle, HalFits, KindFits, Waiting
<1> QED BY <1>3, <1>4, <1>5, WaitStep DEF NandInv, Waiting

LEMMA AwaitInv ==
  ASSUME OneThread, NandInv, NEW t \in Threads, Await(t)
  PROVE  NandInv'
<1>1. Threads = {t} BY DEF OneThread
<1>2. TypeOK BY DEF NandInv
<1>3. /\ pc[t] = "await"
      /\ UNCHANGED <<array, cache, busy, wel, failed, hal, buffer, flash_dma_done,
                     op, after, got, before>>
  BY DEF Await, chipVars
<1>4. CASE flash_wip > 0
  <2>1. /\ flash_wip = 1 /\ flash_wip' = 0 /\ UNCHANGED <<step, result>>
        /\ pc' = [pc EXCEPT ![t] = "status"] /\ pc'[t] = "status"
    BY <1>2, <1>3, <1>4 DEF Await, TypeOK, Goto
  <2>2. hal = "ready" /\ busy = NULL
    <3>1. hal \in {"ready", "polling", "rx", "tx"} BY <1>2 DEF TypeOK
    <3> QED BY <1>3, <2>1, <3>1 DEF NandInv, HalFits
  <2>3. TypeOK' BY <1>2, <1>3, <2>1 DEF TypeOK, Stages, Waiting
  <2>4. CompleteMeansIdle' /\ HalFits' /\ KindFits'
    BY <1>1, <1>3, <2>1, <2>2
    DEF NandInv, CompleteMeansIdle, HalFits, KindFits, Waiting
  <2> QED BY <1>3, <2>1, <2>3, <2>4, WaitStep DEF NandInv, Waiting
<1>5. CASE flash_wip = 0
  <2>1. /\ UNCHANGED <<flash_wip, step>>
        /\ pc' = [pc EXCEPT ![t] = "idle"] /\ pc'[t] = "idle"
        /\ result' = [result EXCEPT ![t] = "error"] /\ result'[t] = "error"
    BY <1>2, <1>3, <1>5 DEF Await, TypeOK, Return, Goto
  <2>2. TypeOK' BY <1>2, <1>3, <2>1 DEF TypeOK, Stages
  <2>3. CompleteMeansIdle' /\ HalFits' /\ KindFits'
    BY <1>1, <1>3, <1>5, <2>1
    DEF NandInv, CompleteMeansIdle, HalFits, KindFits, Fresh, Waiting
  <2>4. PagesFit' /\ CacheFits' /\ BufferFits'
    BY <1>1, <2>1
    DEF PagesFit, CacheFits, BufferFits, Fresh, Executing, Caching, Waiting
  <2>5. ReadReturnsPage' /\ SuccessMeansDone' BY <2>1, Unfinished
  <2> QED BY <2>2, <2>3, <2>4, <2>5 DEF NandInv
<1> QED BY <1>2, <1>4, <1>5 DEF TypeOK

LEMMA TransferInv ==
  ASSUME OneThread, NandInv, NEW t \in Threads, Transfer(t)
  PROVE  NandInv'
<1>1. Threads = {t} BY DEF OneThread
<1>2. TypeOK BY DEF NandInv
<1>3. /\ pc[t] = "transfer" /\ hal = "ready"
      /\ op[t].dma => /\ flash_dma_done' = 0 /\ hal' = "rx" /\ buffer' = Erased
                      /\ pc' = [pc EXCEPT ![t] = "rx"] /\ pc'[t] = "rx"
      /\ ~ op[t].dma => /\ hal' = hal /\ flash_dma_done' = flash_dma_done
                        /\ buffer' = Received(op[t].parts)
                        /\ pc' = [pc EXCEPT ![t] = "copy_out"] /\ pc'[t] = "copy_out"
      /\ UNCHANGED <<array, cache, busy, wel, failed, flash_wip, op, step,
                     after, got, before, result>>
  BY <1>2 DEF Transfer, TypeOK, Goto, chipVars, Stages
<1>4. /\ op[t] \in Ops /\ step[t] \in 1 .. Len(op[t].steps)
      /\ Len(op[t].steps) \in Nat /\ result[t] = "none"
      /\ op[t].kind \in {"read", "write", "copy", "erase", "verify"}
      /\ op[t].dma \in BOOLEAN /\ op[t].parts \subseteq Parts
      /\ Page(t).from \in Rows /\ Page(t).to \in Rows
      /\ Page(t).data \in [Parts -> Value]
  BY <1>3, InCall
<1>5. TypeOK'
  <2>1. buffer' \in [Parts -> Value]
    <3>1. Content(op[t], step[t]) \in [Parts -> Value] BY <1>2, <1>4, ContentType
    <3> QED BY <1>3, <1>4, <3>1, ErasedType, ReceivedContent
  <2>2. pc' \in [Threads -> Stages] BY <1>2, <1>3, <1>4 DEF TypeOK, Stages
  <2>3. hal' \in {"ready", "polling", "rx", "tx"} /\ flash_dma_done' \in 0 .. 1
    BY <1>2, <1>3, <1>4 DEF TypeOK
  <2> QED BY <1>2, <1>3, <2>1, <2>2, <2>3 DEF TypeOK
<1>6. CompleteMeansIdle' BY <1>1, <1>3, <1>4 DEF CompleteMeansIdle
<1>7. HalFits' BY <1>1, <1>3, <1>4 DEF NandInv, HalFits
<1>8. KindFits' BY <1>1, <1>3, <1>4 DEF NandInv, KindFits, Waiting
<1>9. PagesFit'
  BY <1>1, <1>3, <1>4, FirstStages, SameHistory
  DEF NandInv, PagesFit, Fresh, Executing, Waiting
<1>10. CacheFits' BY <1>1, <1>3, <1>4 DEF NandInv, CacheFits, HalFits, Page
<1>11. BufferFits'
  <2>1. Received(op[t].parts) = Content(op[t], step[t]) BY <1>3, ReceivedContent
  <2> QED BY <1>1, <1>3, <1>4, <2>1, SameContent
    DEF NandInv, BufferFits, HalFits, TypeOK
<1>12. ReadReturnsPage' /\ SuccessMeansDone' BY <1>3, <1>4, Unfinished
<1> QED BY <1>5, <1>6, <1>7, <1>8, <1>9, <1>10, <1>11, <1>12 DEF NandInv

LEMMA LoadInv ==
  ASSUME OneThread, NandInv, NEW t \in Threads, Load(t)
  PROVE  NandInv'
<1>1. Threads = {t} BY DEF OneThread
<1>2. TypeOK BY DEF NandInv
<1>3. /\ pc[t] = "load" /\ hal = "ready"
      /\ before' = IF Fresh(t) THEN array ELSE before
      /\ buffer' = Page(t).data
      /\ op[t].dma => /\ flash_dma_done' = 0 /\ hal' = "tx" /\ cache' = cache
                      /\ pc' = [pc EXCEPT ![t] = "tx"] /\ pc'[t] = "tx"
      /\ ~ op[t].dma => /\ hal' = hal /\ flash_dma_done' = flash_dma_done
                        /\ cache' = Page(t).data
                        /\ pc' = [pc EXCEPT ![t] = "enable"] /\ pc'[t] = "enable"
      /\ UNCHANGED <<array, busy, wel, failed, flash_wip, op, step, after, got,
                     result>>
  BY <1>2 DEF Load, TypeOK, Remember, Goto, Stages, Fresh
<1>4. /\ op[t] \in Ops /\ step[t] \in 1 .. Len(op[t].steps)
      /\ Len(op[t].steps) \in Nat /\ result[t] = "none"
      /\ op[t].kind \in {"read", "write", "copy", "erase", "verify"}
      /\ op[t].dma \in BOOLEAN /\ op[t].parts \subseteq Parts
      /\ Page(t).from \in Rows /\ Page(t).to \in Rows
      /\ Page(t).data \in [Parts -> Value]
  BY <1>3, InCall
<1>5. TypeOK' BY <1>1, <1>3, <1>4 DEF NandInv, TypeOK, Stages
<1>6. CompleteMeansIdle' BY <1>1, <1>3, <1>4 DEF CompleteMeansIdle
<1>7. HalFits' BY <1>1, <1>3, <1>4 DEF NandInv, HalFits
<1>8. KindFits' BY <1>1, <1>3, <1>4 DEF NandInv, KindFits, Waiting
<1>9. PagesFit'
  <2>1. \A o \in Ops : Expected(o, 0)' = before'
    BY <1>5, ExpectedFirstNext
  <2>2. Fresh(t) => step[t] = 1 BY <1>3 DEF Fresh
  <2>3. CASE Fresh(t)
    <3>1. array' = Expected(op[t], step[t] - 1)'
      BY <1>3, <1>4, <2>1, <2>2, <2>3
    <3> QED BY <1>1, <1>3, <1>4, <3>1 DEF PagesFit, Fresh, Executing, Waiting
  <2>4. CASE ~ Fresh(t)
    <3>1. UNCHANGED before BY <1>3, <2>4
    <3> QED
      BY <1>1, <1>3, <1>4, <2>4, <3>1, SameHistory, FirstStages
      DEF NandInv, PagesFit, HalFits, KindFits, Fresh, Executing, Waiting
  <2> QED BY <2>3, <2>4
<1>10. CacheFits'
  <2>1. Written(op[t], step[t])' = Page(t).data
    BY <1>3, <1>4, WrittenData DEF NandInv, KindFits, Page
  <2> QED BY <1>1, <1>3, <1>4, <2>1 DEF CacheFits, Fresh, Caching, Executing, Waiting
<1>11. BufferFits'
  <2>1. Written(op[t], step[t])' = Page(t).data /\ op[t].kind = "write"
    BY <1>3, <1>4, WrittenData DEF NandInv, KindFits, Page
  <2> QED BY <1>1, <1>3, <1>4, <2>1 DEF BufferFits
<1>12. ReadReturnsPage' /\ SuccessMeansDone' BY <1>3, <1>4, Unfinished
<1> QED BY <1>5, <1>6, <1>7, <1>8, <1>9, <1>10, <1>11, <1>12 DEF NandInv

LEMMA AwaitDmaInv ==
  ASSUME OneThread, NandInv, NEW t \in Threads, AwaitDma(t)
  PROVE  NandInv'
<1>1. Threads = {t} BY DEF OneThread
<1>2. TypeOK BY DEF NandInv
<1>3. /\ pc[t] \in {"rx", "tx"} /\ flash_dma_done > 0 /\ flash_dma_done' = flash_dma_done - 1
      /\ pc[t] = "rx" => pc' = [pc EXCEPT ![t] = "copy_out"] /\ pc'[t] = "copy_out"
      /\ pc[t] = "tx" => pc' = [pc EXCEPT ![t] = "enable"] /\ pc'[t] = "enable"
      /\ UNCHANGED <<array, cache, busy, wel, failed, hal, buffer, flash_wip,
                     op, step, after, got, before, result>>
  BY <1>2 DEF AwaitDma, TypeOK, Goto, chipVars, Stages
<1>4. /\ op[t] \in Ops /\ step[t] \in 1 .. Len(op[t].steps)
      /\ Len(op[t].steps) \in Nat /\ result[t] = "none"
      /\ op[t].kind \in {"read", "write", "copy", "erase", "verify"}
      /\ op[t].dma \in BOOLEAN /\ op[t].parts \subseteq Parts
      /\ Page(t).from \in Rows /\ Page(t).to \in Rows
      /\ Page(t).data \in [Parts -> Value]
  BY <1>3, InCall
<1>5. TypeOK' BY <1>1, <1>3, <1>4 DEF NandInv, TypeOK, Stages
<1>6. CompleteMeansIdle' BY <1>1, <1>3, <1>4 DEF CompleteMeansIdle
<1>7. HalFits' BY <1>1, <1>3, <1>4 DEF NandInv, TypeOK, HalFits
<1>8. KindFits' BY <1>1, <1>3, <1>4 DEF NandInv, KindFits, Waiting
<1>9. PagesFit'
  BY <1>1, <1>3, <1>4, FirstStages, SameHistory
  DEF NandInv, PagesFit, Fresh, Executing, Waiting
<1>10. CacheFits'
  <2>1. pc[t] = "tx" => cache = Written(op[t], step[t])
    BY <1>2, <1>3 DEF NandInv, BufferFits, TypeOK
  <2> QED
    BY <1>1, <1>3, <1>4, <2>1, SameHistory
    DEF CacheFits, Caching, Executing, Waiting
<1>11. BufferFits'
  <2>1. pc[t] # "idle" /\ (pc[t] = "rx" => buffer = Content(op[t], step[t]))
    BY <1>2, <1>3 DEF NandInv, BufferFits, TypeOK
  <2>2. op'[t].kind = "read" =>
          got'[t] = [i \in 1 .. step'[t] - 1 |-> Content(op[t], i)']
    BY <1>3, <2>1, SameReads
  <2>3. (op[t])' = op[t] /\ (step[t])' = step[t] BY <1>3
  <2>4. pc[t] = "rx" => buffer' = Content(op[t], step[t])'
    BY <1>3, <2>1, <2>3, SameContent
  <2> QED BY <1>1, <1>3, <2>2, <2>4 DEF BufferFits
<1>12. ReadReturnsPage' /\ SuccessMeansDone' BY <1>3, <1>4, Unfinished
<1> QED BY <1>5, <1>6, <1>7, <1>8, <1>9, <1>10, <1>11, <1>12 DEF NandInv

\* A function on 1 .. n is a sequence of length n.
LEMMA IsSequence ==
  ASSUME NEW S, NEW n \in Nat, NEW f \in [1 .. n -> S]
  PROVE  f \in Seq(S) /\ Len(f) = n
BY SeqDef

\* One page more is read.
LEMMA AppendContent ==
  ASSUME TypeOK, NEW o \in Ops, NEW n \in 1 .. Len(o.steps)
  PROVE  Append([i \in 1 .. n - 1 |-> Content(o, i)], Content(o, n))
           = [i \in 1 .. n |-> Content(o, i)]
<1> DEFINE S == [Parts -> Value]
           f == [i \in 1 .. n - 1 |-> Content(o, i)]
           g == [i \in 1 .. n |-> Content(o, i)]
<1>1. Len(o.steps) \in Nat /\ \A i \in 1 .. n : Content(o, i) \in S
  BY CallValues, ContentType
<1>2. n - 1 \in Nat /\ f \in [1 .. n - 1 -> S] /\ g \in [1 .. n -> S] BY <1>1
<1>3. f \in Seq(S) /\ Len(f) = n - 1 /\ g \in Seq(S) /\ Len(g) = n
  <2> HIDE DEF S, f, g
  <2> QED BY <1>1, <1>2, IsSequence
<1>4. /\ \A i \in 1 .. n - 1 : f[i] = Content(o, i)
      /\ \A i \in 1 .. n : g[i] = Content(o, i)
  OBVIOUS
<1> HIDE DEF S, f, g
<1>5. /\ Append(f, Content(o, n)) \in Seq(S)
      /\ Len(Append(f, Content(o, n))) = n
      /\ \A i \in 1 .. n - 1 : Append(f, Content(o, n))[i] = f[i]
      /\ Append(f, Content(o, n))[n] = Content(o, n)
  BY <1>1, <1>3, AppendProperties
<1>6. \A i \in 1 .. n : Append(f, Content(o, n))[i] = g[i]
  BY <1>4, <1>5
<1>7. Append(f, Content(o, n)) = g BY <1>3, <1>5, <1>6, SeqEqual
<1> QED BY <1>7 DEF f, g

LEMMA StatusInv ==
  ASSUME OneThread, NandInv, NEW t \in Threads, Status(t)
  PROVE  NandInv'
<1>1. Threads = {t} BY DEF OneThread
<1>2. TypeOK BY DEF NandInv
<1>3. /\ pc[t] = "status" /\ hal = "ready" /\ busy = NULL
      /\ UNCHANGED <<array, cache, wel, hal, buffer, flash_wip, flash_dma_done,
                     op, after, got, before>>
  BY DEF Status, halVars, NandInv, CompleteMeansIdle
<1>4. /\ op[t] \in Ops /\ step[t] \in 1 .. Len(op[t].steps)
      /\ Len(op[t].steps) \in Nat /\ result[t] = "none"
      /\ op[t].kind \in {"read", "write", "copy", "erase", "verify"}
      /\ flash_dma_done = 0
  <2>1. flash_dma_done = 0
    <3>1. flash_dma_done \in 0 .. 1 BY <1>2 DEF TypeOK
    <3>2. flash_dma_done # 1 BY <1>3 DEF NandInv, HalFits
    <3> QED BY <3>1, <3>2
  <2> QED BY <1>3, <2>1, InCall
<1>5. CASE failed
  <2>1. /\ failed' = FALSE /\ busy' = NULL /\ step' = step
        /\ pc' = [pc EXCEPT ![t] = "idle"] /\ pc'[t] = "idle"
        /\ result' = [result EXCEPT ![t] = "error"] /\ result'[t] = "error"
    BY <1>2, <1>3, <1>5 DEF Status, Return, Goto, TypeOK
  <2>2. TypeOK' BY <1>2, <1>3, <2>1 DEF TypeOK, Stages
  <2>3. CompleteMeansIdle' /\ HalFits' /\ KindFits' /\ PagesFit' /\ CacheFits' /\ BufferFits'
    BY <1>1, <1>3, <1>4, <2>1
    DEF CompleteMeansIdle, HalFits, KindFits, PagesFit, CacheFits, BufferFits,
        Fresh, Executing, Caching, Waiting
  <2>4. ReadReturnsPage' /\ SuccessMeansDone' BY <2>1, Unfinished
  <2> QED BY <2>2, <2>3, <2>4 DEF NandInv
<1>6. CASE ~ failed /\ after[t] # "next"
  <2>1. /\ failed' = failed /\ busy' = NULL /\ step' = step /\ result' = result
        /\ pc' = [pc EXCEPT ![t] = after[t]] /\ pc'[t] = after[t]
        /\ after[t] \in {"enable", "transfer"}
    BY <1>2, <1>3, <1>6 DEF Status, Goto, TypeOK
  <2>2. /\ after[t] = "enable" => op[t].kind = "copy"
        /\ after[t] = "transfer" => op[t].kind \in {"read", "verify"}
    BY <1>3, <1>6 DEF NandInv, KindFits, Waiting
  <2>3. cache = array[Page(t).from] /\ array = Expected(op[t], step[t] - 1)
    <3>1. Caching(t) /\ ~ Executing(t) BY <1>3, <1>6, <2>1 DEF Caching, Executing, Waiting
    <3>2. ~ Fresh(t) BY <1>3, <1>4, FirstStages DEF Fresh
    <3>3. [kind |-> "read", row |-> Page(t).from] # NULL
      BY <1>3, InCall, NandAssumption DEF Commands
    <3>4. cache = array[Page(t).from] BY <1>3, <3>1, <3>3 DEF NandInv, CacheFits
    <3>5. array = Expected(op[t], step[t] - 1) BY <3>1, <3>2 DEF NandInv, PagesFit
    <3> QED BY <3>4, <3>5
  <2>4. op[t].kind = "copy" => cache = Written(op[t], step[t])
    <3> HAVE op[t].kind = "copy"
    <3>1. array[Page(t).from] = before[Page(t).from]
      BY <1>4, <2>3, ExpectedSource DEF Page
    <3> QED BY <2>3, <3>1 DEF Written, Page
  <2>5. TypeOK' BY <1>2, <1>3, <2>1 DEF TypeOK, Stages
  <2>6. CompleteMeansIdle' /\ HalFits' /\ KindFits'
    BY <1>1, <1>3, <1>4, <2>1, <2>2 DEF CompleteMeansIdle, HalFits, KindFits, Waiting
  <2>7. PagesFit'
    BY <1>1, <1>3, <2>1, <2>3, SameHistory DEF PagesFit, Executing, Waiting
  <2>8. CacheFits'
    BY <1>1, <1>3, <2>1, <2>2, <2>3, <2>4, SameHistory
    DEF CacheFits, Page, Caching, Executing, Waiting
  <2>9. BufferFits'
    BY <1>1, <1>3, <1>4, <2>1, SameContent DEF NandInv, BufferFits
  <2>10. ReadReturnsPage' /\ SuccessMeansDone' BY <1>4, <2>1, Unfinished
  <2> QED BY <2>5, <2>6, <2>7, <2>8, <2>9, <2>10 DEF NandInv
<1>7. CASE ~ failed /\ after[t] = "next"
  <2>1. failed' = failed /\ busy' = NULL /\ NextPage(t)
    BY <1>3, <1>7 DEF Status
  <2>2. op[t].kind \in {"write", "copy", "erase"} /\ array = Expected(op[t], step[t])
    <3>1. op[t].kind \in {"write", "copy", "erase"}
      BY <1>3, <1>7 DEF NandInv, KindFits, Waiting
    <3>2. Executing(t) BY <1>3, <1>7 DEF Executing, Waiting
    <3>3. [kind |-> ExecuteOf(op[t]), row |-> Page(t).to] # NULL
      BY <1>3, InCall, NandAssumption DEF Commands, ExecuteOf
    <3>4. array = Expected(op[t], step[t])
      BY <1>3, <1>7, <3>2, <3>3 DEF NandInv, PagesFit
    <3> QED BY <3>1, <3>4
  <2>3. CASE step[t] = Len(op[t].steps)
    <3>1. /\ step' = step
          /\ pc' = [pc EXCEPT ![t] = "idle"] /\ pc'[t] = "idle"
          /\ result' = [result EXCEPT ![t] = "success"] /\ result'[t] = "success"
      BY <1>2, <2>1, <2>3 DEF NextPage, Return, Goto, TypeOK
    <3>2. TypeOK' BY <1>2, <1>3, <2>1, <3>1 DEF TypeOK, Stages
    <3>3. CompleteMeansIdle' /\ HalFits' /\ KindFits' /\ PagesFit' /\ CacheFits' /\ BufferFits'
      BY <1>1, <1>3, <1>4, <2>1, <3>1
      DEF CompleteMeansIdle, HalFits, KindFits, PagesFit, CacheFits, BufferFits,
          Fresh, Executing, Caching, Waiting
    <3>4. ReadReturnsPage' BY <1>1, <1>3, <2>2 DEF ReadReturnsPage
    <3>5. SuccessMeansDone'
      BY <1>1, <1>3, <2>2, <2>3, SameHistory DEF SuccessMeansDone
    <3> QED BY <3>2, <3>3, <3>4, <3>5 DEF NandInv
  <2>4. CASE step[t] # Len(op[t].steps)
    <3>1. /\ step' = [step EXCEPT ![t] = step[t] + 1] /\ step'[t] = step[t] + 1
          /\ pc' = [pc EXCEPT ![t] = FirstStage(op[t].kind)]
          /\ pc'[t] = FirstStage(op[t].kind)
          /\ result' = result
      BY <1>2, <2>1, <2>4 DEF NextPage, Goto, TypeOK
    <3>2. /\ op[t].kind \in {"write", "copy"}
          /\ op[t].kind = "write" => pc'[t] = "load"
          /\ op[t].kind = "copy" => pc'[t] = "to_cache"
          /\ step[t] \in Nat /\ step[t] + 1 \in 2 .. Len(op[t].steps)
      <4>1. step[t] \in Nat /\ step[t] + 1 \in 2 .. Len(op[t].steps) BY <1>4, <2>4
      <4>2. op[t].kind # "erase"
        <5> SUFFICES ASSUME op[t].kind = "erase" PROVE FALSE
          OBVIOUS
        <5>1. Len(op[t].steps) = 1 BY <1>4, EraseIsOne
        <5> QED BY <1>4, <2>4, <5>1
      <4> QED BY <2>2, <3>1, <4>1, <4>2, FirstStages
    <3>3. TypeOK' BY <1>2, <1>3, <2>1, <3>1, <3>2 DEF TypeOK, Stages
    <3>4. CompleteMeansIdle' /\ HalFits' /\ KindFits'
      BY <1>1, <1>3, <1>4, <2>1, <3>1, <3>2
      DEF CompleteMeansIdle, HalFits, KindFits, Waiting
    <3>5. PagesFit'
      <4>2. step'[t] - 1 = step[t] BY <3>1, <3>2
      <4>3. (op[t])' = op[t] /\ (step[t] - 1)' = step[t] BY <1>3, <4>2
      <4>4. Expected(op[t], step[t] - 1)' = Expected(op[t], step[t])
        BY <1>3, <4>3, SameHistory
      <4> QED BY <1>1, <1>3, <2>2, <3>1, <3>2, <4>4 DEF PagesFit, Executing, Waiting
    <3>6. CacheFits' /\ BufferFits'
      BY <1>1, <1>3, <3>1, <3>2 DEF CacheFits, BufferFits, Caching, Executing, Waiting
    <3>7. ReadReturnsPage' /\ SuccessMeansDone' BY <1>4, <3>1, Unfinished
    <3> QED BY <3>3, <3>4, <3>5, <3>6, <3>7 DEF NandInv
  <2> QED BY <2>3, <2>4
<1> QED BY <1>5, <1>6, <1>7

LEMMA CopyOutInv ==
  ASSUME OneThread, NandInv, NEW t \in Threads, CopyOut(t)
  PROVE  NandInv'
<1>1. Threads = {t} BY DEF OneThread
<1>2. TypeOK BY DEF NandInv
<1>3. /\ pc[t] = "copy_out"
      /\ got' = [got EXCEPT ![t] = Append(got[t], buffer)]
      /\ got'[t] = Append(got[t], buffer)
      /\ UNCHANGED <<array, cache, busy, wel, failed, hal, buffer, flash_wip,
                     flash_dma_done, op, after, before>>
  BY <1>2 DEF CopyOut, chipVars, halVars, TypeOK
<1>4. /\ op[t] \in Ops /\ step[t] \in 1 .. Len(op[t].steps)
      /\ Len(op[t].steps) \in Nat /\ result[t] = "none"
  BY <1>3, InCall
<1>5. /\ hal = "ready" /\ busy = NULL /\ flash_dma_done = 0
      /\ op[t].kind \in {"read", "verify"}
      /\ array = before /\ buffer = Content(op[t], step[t])
      /\ op[t].kind = "read" => got[t] = [i \in 1 .. step[t] - 1 |-> Content(op[t], i)]
  <2>1. /\ op[t].kind \in {"read", "verify"} /\ buffer = Content(op[t], step[t])
        /\ op[t].kind = "read" => got[t] = [i \in 1 .. step[t] - 1 |-> Content(op[t], i)]
    BY <1>3 DEF NandInv, KindFits, BufferFits
  <2>2. array = Expected(op[t], step[t] - 1)
    BY <1>3, <2>1, FirstStages DEF NandInv, PagesFit, Fresh, Executing, Waiting
  <2>3. array = before BY <2>1, <2>2, ExpectedRead
  <2>4. hal = "ready" /\ busy = NULL /\ flash_dma_done = 0
    <3>1. ~ Fresh(t) BY <1>3, <2>1, FirstStages DEF Fresh
    <3>2. hal = "ready" BY <1>2, <1>3, <3>1 DEF NandInv, HalFits, TypeOK
    <3>3. busy = NULL BY <1>3, <3>2 DEF NandInv, HalFits
    <3>4. flash_dma_done \in 0 .. 1 BY <1>2 DEF TypeOK
    <3>5. flash_dma_done # 1 BY <1>3 DEF NandInv, HalFits
    <3> QED BY <3>2, <3>3, <3>4, <3>5
  <2> QED BY <2>1, <2>3, <2>4
<1>6. got' \in [Threads -> Seq([Parts -> Value])]
  BY <1>2, <1>3, AppendProperties DEF TypeOK
<1>7. op[t].kind = "read" => got'[t] = [i \in 1 .. step[t] |-> Content(op[t], i)]
  BY <1>2, <1>3, <1>4, <1>5, AppendContent
<1>8. CASE Return(t, "error") \/ (Return(t, "success") /\ step[t] = Len(op[t].steps))
  <2>1. /\ step' = step /\ pc' = [pc EXCEPT ![t] = "idle"] /\ pc'[t] = "idle"
        /\ \/ result' = [result EXCEPT ![t] = "error"] /\ result'[t] = "error"
           \/ /\ result' = [result EXCEPT ![t] = "success"] /\ result'[t] = "success"
              /\ step[t] = Len(op[t].steps)
    BY <1>2, <1>8 DEF Return, Goto, TypeOK
  <2>2. TypeOK' BY <1>2, <1>3, <1>6, <2>1 DEF TypeOK, Stages
  <2>3. CompleteMeansIdle' /\ HalFits' /\ KindFits' /\ PagesFit' /\ CacheFits' /\ BufferFits'
    BY <1>1, <1>3, <1>4, <1>5, <2>1
    DEF CompleteMeansIdle, HalFits, KindFits, PagesFit, CacheFits, BufferFits,
        Fresh, Executing, Caching, Waiting
  <2>4. ReadReturnsPage'
    BY <1>1, <1>3, <1>7, <2>1, SameContent DEF ReadReturnsPage
  <2>5. SuccessMeansDone'
    <3>1. Expected(op[t], Len(op[t].steps)) = before BY <1>5, ExpectedRead
    <3> QED BY <1>1, <1>3, <1>5, <3>1, SameHistory DEF SuccessMeansDone
  <2> QED BY <2>2, <2>3, <2>4, <2>5 DEF NandInv
<1>9. CASE NextPage(t) /\ step[t] # Len(op[t].steps)
  <2>1. /\ step' = [step EXCEPT ![t] = step[t] + 1] /\ step'[t] = step[t] + 1
        /\ pc' = [pc EXCEPT ![t] = "to_cache"] /\ pc'[t] = "to_cache"
        /\ result' = result
    BY <1>2, <1>5, <1>9, FirstStages DEF NextPage, Goto, TypeOK
  <2>2. step[t] \in Nat /\ step[t] + 1 \in 2 .. Len(op[t].steps) BY <1>4, <1>9
  <2>3. TypeOK' BY <1>2, <1>3, <1>6, <2>1, <2>2 DEF TypeOK, Stages
  <2>4. CompleteMeansIdle' /\ HalFits' /\ KindFits'
    BY <1>1, <1>3, <1>4, <1>5, <2>1, <2>2
    DEF CompleteMeansIdle, HalFits, KindFits, Waiting
  <2>5. PagesFit'
    <3>1. (op[t])' = op[t] BY <1>3
    <3>2. \A k : Expected(op[t], k)' = before BY <1>3, <1>5, <3>1, ExpectedRead, SameHistory
    <3> QED BY <1>1, <1>3, <1>5, <2>1, <3>2 DEF PagesFit, Executing, Waiting
  <2>6. CacheFits' BY <1>1, <1>3, <2>1 DEF CacheFits, Caching, Executing, Waiting
  <2>7. BufferFits'
    <3>1. (step[t] - 1)' = step[t] /\ (op[t])' = op[t] BY <1>3, <2>1, <2>2
    <3>2. \A i : Content(op[t], i)' = Content(op[t], i) BY <1>3, <3>1, SameContent
    <3>3. op[t].kind = "read" =>
            got'[t] = [i \in 1 .. (step[t] - 1)' |-> Content(op[t], i)']
      BY <1>7, <3>1, <3>2
    <3> QED BY <1>1, <1>3, <2>1, <3>1, <3>3 DEF BufferFits
  <2>8. ReadReturnsPage' /\ SuccessMeansDone' BY <1>4, <2>1, Unfinished
  <2> QED BY <2>3, <2>4, <2>5, <2>6, <2>7, <2>8 DEF NandInv
<1> QED BY <1>8, <1>9 DEF CopyOut, NextPage

LEMMA BeginInv ==
  ASSUME OneThread, NandInv, NEW t \in Threads, NEW o \in Ops, Begin(t, o)
  PROVE  NandInv'
<1>1. Threads = {t} BY DEF OneThread
<1>2. TypeOK BY DEF NandInv
<1>3. /\ pc[t] = "idle"
      /\ op' = [op EXCEPT ![t] = o] /\ op'[t] = o
      /\ step' = [step EXCEPT ![t] = 1] /\ step'[t] = 1
      /\ got' = [got EXCEPT ![t] = <<>>] /\ got'[t] = <<>>
      /\ result' = [result EXCEPT ![t] = "none"] /\ result'[t] = "none"
      /\ pc' = [pc EXCEPT ![t] = FirstStage(o.kind)] /\ pc'[t] = FirstStage(o.kind)
      /\ UNCHANGED <<array, cache, busy, wel, failed, hal, buffer, flash_wip,
                     flash_dma_done, after, before>>
  BY <1>2 DEF Begin, Goto, chipVars, halVars, TypeOK
<1>4. Len(o.steps) \in Nat \ {0} /\ o.kind \in {"read", "write", "copy", "erase", "verify"}
  BY CallValues
<1>5. pc'[t] \in {"load", "enable", "to_cache"} BY <1>3, <1>4, FirstStages
<1>6. TypeOK' BY <1>2, <1>3, <1>5, EmptySeq DEF TypeOK, Stages
<1>7. CompleteMeansIdle' /\ HalFits'
  BY <1>1, <1>2, <1>3, <1>5 DEF NandInv, CompleteMeansIdle, HalFits, Fresh
<1>8. KindFits' BY <1>1, <1>3, <1>4, <1>5, FirstStages DEF KindFits, Waiting
<1>9. PagesFit' /\ CacheFits'
  BY <1>1, <1>3, <1>4, <1>5
  DEF PagesFit, CacheFits, Fresh, Caching, Executing, Waiting
<1>10. BufferFits'
  <2>1. <<>> = [i \in 1 .. 0 |-> Content(o, i)'] OBVIOUS
  <2> QED BY <1>1, <1>3, <1>5, <2>1 DEF BufferFits
<1>11. ReadReturnsPage' /\ SuccessMeansDone' BY <1>3, Unfinished
<1> QED BY <1>6, <1>7, <1>8, <1>9, <1>10, <1>11 DEF NandInv

-----------------------------------------------------------------------------
(* The chip and the interrupts. *)

\* With an operation in the chip the thread waits for it, or has not sent a
\* command since a wait that timed out.
LEMMA BusyMeans ==
  ASSUME NandInv, NEW t \in Threads, busy # NULL
  PROVE  /\ pc[t] # "idle" => result[t] = "none"
         /\ result[t] # "success"
         /\ \/ Fresh(t) /\ pc[t] \in {"idle", "load", "enable", "to_cache"}
            \/ /\ ~ Fresh(t) /\ pc[t] \in {"drain", "poll", "await"}
               /\ Executing(t) \/ Caching(t)
         /\ flash_dma_done # 1
<1>1. /\ pc[t] # "idle" => op[t] \in Ops /\ result[t] = "none"
      /\ pc[t] \in Waiting => after[t] \in {"next", "enable", "transfer"}
  BY DEF NandInv, KindFits
<1>2. result[t] # "success"
  BY <1>1 DEF NandInv, KindFits, HalFits
<1>3. hal = "polling" \/ pc[t] \in {"drain", "poll"} BY DEF NandInv, HalFits
<1>4. pc[t] = "await" \/ Fresh(t) \/ pc[t] \in {"drain", "poll"}
  BY <1>3 DEF NandInv, HalFits
<1>5. pc[t] # "idle" /\ Fresh(t) => pc[t] \in {"load", "enable", "to_cache"}
  <2> HAVE pc[t] # "idle" /\ Fresh(t)
  <2>1. op[t].kind \in {"read", "write", "copy", "erase", "verify"} BY <1>1, CallValues
  <2>2. pc[t] = FirstStage(op[t].kind) BY DEF Fresh
  <2> QED BY <2>1, <2>2, FirstStages
<1>6. flash_dma_done # 1
  <2>1. ASSUME flash_dma_done = 1 PROVE FALSE
    <3>1. hal = "ready" /\ pc[t] \in {"rx", "tx"} BY <2>1 DEF NandInv, HalFits
    <3> QED BY <1>3, <3>1
  <2> QED BY <2>1
<1>7. ~ Fresh(t) => Executing(t) \/ Caching(t)
  BY <1>1, <1>4 DEF Executing, Caching, Waiting
<1> QED BY <1>1, <1>2, <1>4, <1>5, <1>6, <1>7

LEMMA FinishInv ==
  ASSUME OneThread, NandInv, Finish
  PROVE  NandInv'
<1>1. TypeOK /\ busy \in Commands BY DEF NandInv, Finish, TypeOK
<1>2. /\ busy # NULL /\ busy' = NULL
      /\ UNCHANGED <<hal, buffer, flash_wip, flash_dma_done, pc, op, step, after,
                     got, before, result>>
  BY DEF Finish, halVars, threadVars
<1>3. TypeOK'
  <2>1. busy.row \in Rows /\ busy.kind \in {"read", "program", "erase"} BY <1>1 DEF Commands
  <2>2. array[busy.row] \in [Parts -> Value] BY <1>1, <2>1 DEF TypeOK
  <2>3. Program(array[busy.row], cache) \in [Parts -> Value]
    BY <1>1, <2>2, ProgramType DEF TypeOK
  <2>4. [p \in Parts |-> GARBLED] \in [Parts -> Value] BY DEF Value
  <2>5. CASE busy.kind = "read"
    BY <1>1, <1>2, <2>2, <2>5 DEF Finish, TypeOK
  <2>6. CASE busy.kind = "program"
    BY <1>1, <1>2, <2>1, <2>3, <2>4, <2>6 DEF Finish, TypeOK
  <2>7. CASE busy.kind = "erase"
    <3>1. [r \in Rows |-> IF r \in RowsOf(busy.row[1]) THEN Erased ELSE array[r]]
             \in [Rows -> [Parts -> Value]]
      BY <1>1, ErasedType DEF TypeOK
    <3> QED BY <1>1, <1>2, <2>7, <3>1 DEF Finish, TypeOK
  <2> QED BY <2>1, <2>5, <2>6, <2>7
<1>4. CompleteMeansIdle' /\ HalFits' BY <1>2 DEF NandInv, CompleteMeansIdle, HalFits, Fresh
<1>5. KindFits' BY <1>2 DEF NandInv, KindFits
<1>6. ReadReturnsPage' /\ SuccessMeansDone'
  BY <1>2, BusyMeans DEF ReadReturnsPage, SuccessMeansDone
<1>7. ASSUME NEW t \in Threads, Caching(t), ~ Fresh(t)
      PROVE  array' = array /\ cache' = array[Page(t).from] /\ ~ Executing(t)
  <2>1. busy = [kind |-> "read", row |-> Page(t).from]
    BY <1>2, <1>7 DEF NandInv, CacheFits
  <2> QED BY <1>7, <2>1 DEF Finish, Caching, Executing
<1>8. ASSUME NEW t \in Threads, Executing(t), ~ Fresh(t)
      PROVE  failed' \/ array' = Expected(op[t], step[t])
  <2>1. /\ busy = [kind |-> ExecuteOf(op[t]), row |-> Page(t).to]
        /\ array = Expected(op[t], step[t] - 1)
    BY <1>2, <1>8 DEF NandInv, PagesFit
  <2>2. /\ op[t] \in Ops /\ step[t] \in 1 .. Len(op[t].steps)
        /\ op[t].kind \in {"write", "copy", "erase"}
    BY <1>8, InCall DEF NandInv, KindFits, Executing, Waiting
  <2>3. busy.kind = ExecuteOf(op[t]) /\ busy.row = Page(t).to BY <2>1
  <2>4. CASE op[t].kind = "erase"
    <3>0. Len(op[t].steps) = 1 BY <2>2, <2>4, EraseIsOne
    <3>1. Len(op[t].steps) = 1 /\ step[t] = 1 BY <2>2, <3>0
    <3>2. array = before BY <1>1, <2>1, <2>2, <3>1, ExpectedFirst
    <3>3. Expected(op[t], step[t]) = [r \in Rows |-> IF r \in RowsOf(Page(t).to[1])
                                                     THEN Erased ELSE array[r]]
      BY <2>2, <2>4, <3>1, <3>2, ExpectedErased DEF Page
    <3>4. busy.kind = "erase" BY <2>3, <2>4 DEF ExecuteOf
    <3> QED BY <2>3, <3>3, <3>4 DEF Finish
  <2>5. CASE op[t].kind \in {"write", "copy"}
    <3>1. cache = Written(op[t], step[t])
      BY <1>2, <1>8, <2>5 DEF NandInv, CacheFits
    <3>2. Expected(op[t], step[t]) =
            [Expected(op[t], step[t] - 1) EXCEPT
               ![op[t].steps[step[t]].to] = Program(@, Written(op[t], step[t]))]
      BY <2>2, <2>5, ExpectedNext
    <3>3. Expected(op[t], step[t]) =
            [array EXCEPT ![Page(t).to] = Program(@, cache)]
      BY <2>1, <3>1, <3>2 DEF Page
    <3>4. busy.kind = "program" BY <2>3, <2>5 DEF ExecuteOf
    <3> QED BY <2>3, <3>3, <3>4 DEF Finish
  <2> QED BY <2>2, <2>4, <2>5
<1>9. \A t \in Threads : Fresh(t)' <=> Fresh(t) BY <1>2 DEF Fresh
<1>10. PagesFit'
  <2> SUFFICES ASSUME NEW t \in Threads
      PROVE  /\ ~ Fresh(t)' /\ ~ Executing(t)' => array' = Expected(op[t], step[t] - 1)'
             /\ Executing(t)' =>
                  /\ busy' = NULL
                  /\ failed' \/ array' = Expected(op[t], step[t])'
             /\ pc'[t] # "execute"
    BY DEF PagesFit
  <2>1. /\ Executing(t)' <=> Executing(t)
        /\ Fresh(t)' <=> Fresh(t)
        /\ (op[t])' = op[t] /\ (step[t])' = step[t] /\ pc'[t] = pc[t]
    BY <1>2, <1>9 DEF Executing
  <2>2. \A k : Expected(op[t], k)' = Expected(op[t], k) BY <1>2, <2>1, SameHistory
  <2>3. Executing(t) => ~ Fresh(t) BY <1>2, BusyMeans DEF Executing, Waiting
  <2>4. ~ Fresh(t) /\ ~ Executing(t) => array' = Expected(op[t], step[t] - 1)
    BY <1>2, <1>7, BusyMeans DEF NandInv, PagesFit
  <2> QED BY <1>2, <1>8, <2>1, <2>2, <2>3, <2>4, BusyMeans
<1>11. CacheFits'
  <2> SUFFICES ASSUME NEW t \in Threads
      PROVE  /\ Caching(t)' => busy' = NULL /\ cache' = array'[Page(t).from']
             /\ pc'[t] \notin {"transfer", "rx", "execute"}
             /\ ~ (pc'[t] = "enable" /\ ~ Fresh(t)')
    BY <1>2 DEF CacheFits
  <2>1. Caching(t)' => Caching(t) /\ ~ Fresh(t) /\ Page(t)' = Page(t)
    BY <1>2, BusyMeans DEF Caching, Waiting, Page
  <2> QED BY <1>2, <1>7, <1>9, <2>1, BusyMeans
<1>12. BufferFits'
  <2> SUFFICES ASSUME NEW t \in Threads
      PROVE  /\ pc'[t] \notin {"tx", "rx", "copy_out"}
             /\ pc'[t] # "idle" /\ op'[t].kind = "read" =>
                  got'[t] = [i \in 1 .. step'[t] - 1 |-> Content(op[t], i)']
    BY DEF BufferFits
  <2>1. pc'[t] \notin {"tx", "rx", "copy_out"} BY <1>2, BusyMeans
  <2>2. pc[t] # "idle" /\ op[t].kind = "read" =>
          got[t] = [i \in 1 .. step[t] - 1 |-> Content(op[t], i)]
    BY DEF NandInv, BufferFits
  <2>3. CASE pc[t] # "idle" /\ Fresh(t)
    <3>1. step[t] - 1 = 0 BY <2>3 DEF Fresh
    <3>2. [i \in 1 .. 0 |-> Content(op[t], i)] = [i \in 1 .. 0 |-> Content(op[t], i)']
      OBVIOUS
    <3> QED BY <1>2, <2>1, <2>2, <3>1, <3>2
  <2>4. CASE ~ Fresh(t) /\ op[t].kind = "read"
    <3>1. ~ Executing(t)
      BY <2>4 DEF NandInv, KindFits, Executing, Waiting
    <3>2. array' = array BY <1>2, <1>7, <2>4, <3>1, BusyMeans
    <3>3. \A i : Content(op[t], i)' = Content(op[t], i) BY <1>2, <3>2 DEF Content
    <3> QED BY <1>2, <2>1, <2>2, <3>3
  <2> QED BY <1>2, <2>1, <2>3, <2>4
<1> QED BY <1>3, <1>4, <1>5, <1>6, <1>10, <1>11, <1>12 DEF NandInv

LEMMA PollingCompleteInv ==
  ASSUME OneThread, NandInv, flash_polling_complete
  PROVE  NandInv'
<1>1. /\ hal = "polling" /\ busy = NULL /\ hal' = "ready"
      /\ flash_wip' = flash_wip + 1
      /\ UNCHANGED <<array, cache, busy, wel, failed, buffer, flash_dma_done, pc,
                     op, step, after, got, before, result>>
  BY DEF flash_polling_complete, chipVars, threadVars
<1>2. \A t \in Threads : /\ flash_wip = 0 /\ (pc[t] = "await" \/ Fresh(t))
                         /\ pc[t] \notin {"poll", "status", "rx", "tx"}
                         /\ flash_dma_done # 1
  <2> SUFFICES ASSUME NEW t \in Threads
               PROVE  /\ flash_wip = 0 /\ (pc[t] = "await" \/ Fresh(t))
                      /\ pc[t] \notin {"poll", "status", "rx", "tx"}
                      /\ flash_dma_done # 1
    OBVIOUS
  <2>1. flash_wip = 0 /\ (pc[t] = "await" \/ Fresh(t)) /\ flash_dma_done # 1
    BY <1>1 DEF NandInv, HalFits
  <2>2. pc[t] # "idle" => FirstStage(op[t].kind) \in {"load", "enable", "to_cache"}
    BY InCall, FirstStages
  <2> QED BY <2>1, <2>2 DEF Fresh
<1>3. TypeOK'
  <2>1. flash_wip' = 1 BY <1>1, <1>2 DEF OneThread
  <2> QED BY <1>1, <2>1 DEF NandInv, TypeOK
<1>4. CompleteMeansIdle' /\ HalFits' /\ KindFits'
  BY <1>1, <1>2 DEF NandInv, CompleteMeansIdle, HalFits, KindFits
<1>5. (\A t : (op[t])' = op[t] /\ (step[t])' = step[t] /\ (Fresh(t)' <=> Fresh(t))
         /\ (Executing(t)' <=> Executing(t)) /\ (Caching(t)' <=> Caching(t)))
  BY <1>1 DEF Fresh, Executing, Caching
<1>6. PagesFit' /\ CacheFits' /\ BufferFits'
  BY <1>1, <1>5, SameHistory, SameContent
  DEF NandInv, PagesFit, CacheFits, BufferFits, Page
<1>7. ReadReturnsPage' /\ SuccessMeansDone'
  BY <1>1, <1>5, SameHistory, SameContent
  DEF NandInv, ReadReturnsPage, SuccessMeansDone
<1> QED BY <1>3, <1>4, <1>6, <1>7 DEF NandInv

\* With a transfer under way nothing else is.
LEMMA TransferMeans ==
  ASSUME NandInv, hal \in {"rx", "tx"}, NEW t \in Threads
  PROVE  /\ pc[t] = hal /\ busy = NULL /\ flash_dma_done = 0 /\ result[t] = "none"
         /\ op[t] \in Ops /\ ~ Fresh(t)
<1>1. pc[t] = hal /\ busy = NULL BY DEF NandInv, HalFits
<1>2. flash_dma_done = 0
  <2>1. flash_dma_done \in 0 .. 1 BY DEF NandInv, TypeOK
  <2>2. flash_dma_done # 1 BY DEF NandInv, HalFits
  <2> QED BY <2>1, <2>2
<1>3. op[t] \in Ops /\ result[t] = "none" BY <1>1 DEF NandInv, KindFits
<1>4. FirstStage(op[t].kind) \in {"load", "enable", "to_cache"}
  BY <1>3, CallValues, FirstStages
<1> QED BY <1>1, <1>2, <1>3, <1>4 DEF Fresh

LEMMA RxCompleteInv ==
  ASSUME OneThread, NandInv, flash_rx_complete
  PROVE  NandInv'
<1>1. PICK t \in Threads : pc[t] = "rx" /\ buffer' = Received(op[t].parts)
  BY DEF flash_rx_complete
<1>2. Threads = {t} BY DEF OneThread
<1>3. /\ hal = "rx" /\ hal' = "ready" /\ flash_dma_done' = flash_dma_done + 1
      /\ UNCHANGED <<array, cache, busy, wel, failed, flash_wip, pc, op, step,
                     after, got, before, result>>
  BY DEF flash_rx_complete, chipVars, threadVars
<1>4. /\ busy = NULL /\ flash_dma_done' = 1 /\ result[t] = "none" /\ ~ Fresh(t)
      /\ op[t] \in Ops /\ step[t] \in 1 .. Len(op[t].steps)
  BY <1>1, <1>3, TransferMeans, InCall
<1>5. /\ buffer' = Content(op[t], step[t]) /\ buffer' = Content(op[t], step[t])'
      /\ buffer' \in [Parts -> Value]
  <2>1. buffer' = Content(op[t], step[t]) BY <1>1, ReceivedContent
  <2>2. (op[t])' = op[t] /\ (step[t])' = step[t] BY <1>3
  <2>3. \A o, i : Content(o, i)' = Content(o, i) BY <1>3, SameContent
  <2>4. Content(op[t], step[t]) \in [Parts -> Value] BY <1>4, ContentType DEF NandInv
  <2> QED BY <2>1, <2>2, <2>3, <2>4
<1>6. TypeOK' BY <1>3, <1>4, <1>5 DEF NandInv, TypeOK
<1>7. CompleteMeansIdle' /\ HalFits' /\ KindFits'
  BY <1>1, <1>2, <1>3, <1>4 DEF NandInv, CompleteMeansIdle, HalFits, KindFits
<1>8. /\ (op[t])' = op[t] /\ (step[t])' = step[t] /\ (Fresh(t)' <=> Fresh(t))
      /\ (Executing(t)' <=> Executing(t)) /\ (Caching(t)' <=> Caching(t))
  BY <1>3 DEF Fresh, Executing, Caching
<1>9. PagesFit' /\ CacheFits'
  BY <1>2, <1>3, <1>8, SameHistory DEF NandInv, PagesFit, CacheFits, Page
<1>10. BufferFits'
  <2>1. pc[t] # "idle" /\ pc'[t] = "rx" BY <1>1, <1>3
  <2>2. op'[t].kind = "read" =>
          got'[t] = [i \in 1 .. step'[t] - 1 |-> Content(op[t], i)']
    BY <1>3, <2>1, SameReads
  <2> QED BY <1>2, <1>5, <2>1, <2>2 DEF BufferFits
<1>11. ReadReturnsPage' /\ SuccessMeansDone' BY <1>3, <1>4, Unfinished
<1> QED BY <1>6, <1>7, <1>9, <1>10, <1>11 DEF NandInv

LEMMA TxCompleteInv ==
  ASSUME OneThread, NandInv, flash_tx_complete
  PROVE  NandInv'
<1>1. /\ hal = "tx" /\ hal' = "ready" /\ flash_dma_done' = flash_dma_done + 1
      /\ cache' = buffer
      /\ UNCHANGED <<array, busy, wel, failed, buffer, flash_wip, pc, op, step,
                     after, got, before, result>>
  BY DEF flash_tx_complete, threadVars
<1>2. flash_dma_done \in 0 .. 1 BY DEF NandInv, TypeOK
<1>3. ASSUME NEW t \in Threads
      PROVE  /\ pc[t] = "tx" /\ busy = NULL /\ flash_dma_done = 0
             /\ result[t] = "none" /\ ~ Fresh(t)
  BY <1>1, TransferMeans
<1>4. PICK t \in Threads : Threads = {t} BY DEF OneThread
<1>5. TypeOK' BY <1>1, <1>3, <1>4 DEF NandInv, TypeOK
<1>6. CompleteMeansIdle' /\ HalFits' /\ KindFits'
  BY <1>1, <1>3, <1>4 DEF NandInv, CompleteMeansIdle, HalFits, KindFits
<1>7. /\ (op[t])' = op[t] /\ (step[t])' = step[t] /\ (Fresh(t)' <=> Fresh(t))
      /\ ~ Executing(t)' /\ ~ Caching(t)' /\ ~ Executing(t)
  BY <1>1, <1>3 DEF Fresh, Executing, Caching, Waiting
<1>8. PagesFit' BY <1>1, <1>3, <1>4, <1>7, SameHistory DEF NandInv, PagesFit
<1>9. CacheFits' BY <1>1, <1>3, <1>4, <1>7 DEF CacheFits
<1>10. BufferFits'
  <2>1. pc[t] # "idle" /\ pc'[t] = "tx" /\ cache' = buffer' BY <1>1, <1>3
  <2>2. op'[t].kind = "read" =>
          got'[t] = [i \in 1 .. step'[t] - 1 |-> Content(op[t], i)']
    BY <1>1, <2>1, SameReads
  <2>3. buffer = Written(op[t], step[t]) BY <1>3 DEF NandInv, BufferFits
  <2>4. buffer' = Written(op[t], step[t])' BY <1>1, <1>7, <2>3, SameHistory
  <2> QED BY <1>4, <2>1, <2>2, <2>4 DEF BufferFits
<1>11. ReadReturnsPage' /\ SuccessMeansDone' BY <1>1, <1>3, <1>4, Unfinished
<1> QED BY <1>5, <1>6, <1>8, <1>9, <1>10, <1>11 DEF NandInv

LEMMA DmaErrorInv ==
  ASSUME OneThread, NandInv, DmaError
  PROVE  NandInv'
<1>1. /\ hal \in {"rx", "tx"} /\ hal' = "ready"
      /\ UNCHANGED <<array, cache, busy, wel, failed, buffer, flash_wip,
                     flash_dma_done, pc, op, step, after, got, before, result>>
  BY DEF DmaError, chipVars, threadVars
<1>2. TypeOK' BY <1>1 DEF NandInv, TypeOK
<1>3. CompleteMeansIdle' /\ HalFits' /\ KindFits'
  BY <1>1, TransferMeans DEF NandInv, CompleteMeansIdle, HalFits, KindFits
<1>4. (\A t : (op[t])' = op[t] /\ (step[t])' = step[t] /\ (Fresh(t)' <=> Fresh(t))
         /\ (Executing(t)' <=> Executing(t)) /\ (Caching(t)' <=> Caching(t)))
  BY <1>1 DEF Fresh, Executing, Caching
<1>5. PagesFit' /\ CacheFits' /\ BufferFits'
  BY <1>1, <1>4, SameHistory, SameContent
  DEF NandInv, PagesFit, CacheFits, BufferFits, Page
<1>6. ReadReturnsPage' /\ SuccessMeansDone'
  BY <1>1, <1>4, SameHistory, SameContent
  DEF NandInv, ReadReturnsPage, SuccessMeansDone
<1> QED BY <1>2, <1>3, <1>5, <1>6 DEF NandInv

-----------------------------------------------------------------------------
(* The theorems about the flash driver. *)

LEMMA NandInit == Init => NandInv
<1> SUFFICES ASSUME Init PROVE NandInv
  OBVIOUS
<1>1. TypeOK
  <2>1. array \in [Rows -> [Parts -> Value]] /\ before = array
        /\ cache \in [Parts -> Value] /\ buffer \in [Parts -> Value]
    BY ErasedType DEF Init
  <2>2. got \in [Threads -> Seq([Parts -> Value])]
    <3>1. <<>> \in Seq([Parts -> Value]) BY EmptySeq
    <3> HIDE DEF Parts, Value
    <3> QED BY <3>1 DEF Init
  <2>3. /\ busy = NULL /\ wel \in BOOLEAN /\ failed \in BOOLEAN
        /\ hal = "ready" /\ flash_wip = 0 /\ flash_dma_done = 0
    BY DEF Init
  <2>4. /\ pc \in [Threads -> Stages]
        /\ op \in [Threads -> Ops \cup {NULL}]
        /\ step \in [Threads -> Nat]
        /\ after \in [Threads -> {"next", "enable", "transfer"}]
        /\ result \in [Threads -> {"none", "success", "error"}]
    BY DEF Init, Stages
  <2> QED BY <2>1, <2>2, <2>3, <2>4 DEF TypeOK
<1>2. CompleteMeansIdle /\ HalFits /\ KindFits
  BY DEF Init, CompleteMeansIdle, HalFits, KindFits, Waiting
<1>3. PagesFit /\ CacheFits /\ BufferFits
  BY DEF Init, PagesFit, CacheFits, BufferFits, Fresh, Executing, Caching, Waiting
<1>4. ReadReturnsPage /\ SuccessMeansDone
  BY DEF Init, ReadReturnsPage, SuccessMeansDone
<1> QED BY <1>1, <1>2, <1>3, <1>4 DEF NandInv

LEMMA NandStutter ==
  ASSUME NandInv, UNCHANGED vars
  PROVE  NandInv'
<1>1. UNCHANGED <<array, cache, busy, wel, failed, hal, buffer, flash_wip,
                  flash_dma_done, pc, op, step, after, got, before, result>>
  BY DEF vars, chipVars, halVars, threadVars
<1>2. TypeOK' /\ CompleteMeansIdle' /\ HalFits' /\ KindFits'
  <2>1. TypeOK' BY <1>1 DEF NandInv, TypeOK
  <2> QED BY <1>1, <2>1 DEF NandInv, CompleteMeansIdle, HalFits, KindFits, Fresh
<1>3. (\A t : (op[t])' = op[t] /\ (step[t])' = step[t] /\ (Fresh(t)' <=> Fresh(t))
         /\ (Executing(t)' <=> Executing(t)) /\ (Caching(t)' <=> Caching(t)))
  BY <1>1 DEF Fresh, Executing, Caching
<1>4. PagesFit' /\ CacheFits' /\ BufferFits'
  BY <1>1, <1>3, SameHistory, SameContent
  DEF NandInv, PagesFit, CacheFits, BufferFits, Page
<1>5. ReadReturnsPage' /\ SuccessMeansDone'
  BY <1>1, <1>3, SameHistory, SameContent
  DEF NandInv, ReadReturnsPage, SuccessMeansDone
<1> QED BY <1>2, <1>4, <1>5 DEF NandInv

LEMMA NandNext == OneThread /\ NandInv /\ [Next]_vars => NandInv'
<1> SUFFICES ASSUME OneThread, NandInv, [Next]_vars PROVE NandInv'
  OBVIOUS
<1>1. ASSUME NEW t \in Threads, driver(t) PROVE NandInv'
  BY <1>1, RefusedInv, ToCacheInv, EnableInv, ExecuteInv, DrainInv, PollInv,
     AwaitInv, StatusInv, TransferInv, LoadInv, AwaitDmaInv, CopyOutInv
  DEF driver
<1>2. ASSUME NEW t \in Threads, NEW o \in Ops, Begin(t, o) PROVE NandInv'
  BY <1>2, BeginInv
<1>3. CASE environment
  BY <1>3, FinishInv, PollingCompleteInv, RxCompleteInv, TxCompleteInv, DmaErrorInv
  DEF environment
<1>4. CASE UNCHANGED vars
  BY <1>4, NandStutter
<1> QED BY <1>1, <1>2, <1>3, <1>4 DEF Next

\* For a thread that has the driver to itself, whatever calls it makes on
\* whatever device, and whenever the chip answers or fails: the chip, the HAL,
\* the semaphores and the buffers fit together.
THEOREM NandInvariant == OneThread /\ Spec => []NandInv
<1> SUFFICES ASSUME OneThread PROVE Spec => []NandInv
  OBVIOUS
<1>1. Init => NandInv BY NandInit
<1>2. NandInv /\ [Next]_vars => NandInv' BY NandNext
<1> QED BY <1>1, <1>2, PTL DEF Spec

\* A read that returns LX_SUCCESS (read.c) returns what the pages hold.
THEOREM ReadsReturnPages == OneThread /\ Spec => []ReadReturnsPage
<1>1. NandInv => ReadReturnsPage BY DEF NandInv
<1> QED BY <1>1, NandInvariant, PTL

\* A call that returns LX_SUCCESS has written, copied or erased its pages and
\* left the others as they were (wait_for_complete, common.c).
THEOREM SuccessIsDone == OneThread /\ Spec => []SuccessMeansDone
<1>1. NandInv => SuccessMeansDone BY DEF NandInv
<1> QED BY <1>1, NandInvariant, PTL

-----------------------------------------------------------------------------
(* The probe: the choice of a divider. *)

\* The rates are numbers, each at most the one before.
LEMMA Rates ==
  /\ \A k \in 0 .. 6 : Rate(k) \in Nat /\ Rate(k) <= StClock
  /\ \A j, k \in 0 .. 6 : j <= k => Rate(k) <= Rate(j)
<1> USE ProbeAssumption
<1>1. /\ Rate(0) = StClock \div 4 /\ Rate(1) = StClock \div 8
      /\ Rate(2) = StClock \div 16 /\ Rate(3) = StClock \div 32
      /\ Rate(4) = StClock \div 64 /\ Rate(5) = StClock \div 128
      /\ Rate(6) = StClock \div 256
  BY DEF Rate, dividers
<1>2. /\ Rate(0) \in Nat /\ Rate(1) \in Nat /\ Rate(2) \in Nat /\ Rate(3) \in Nat
      /\ Rate(4) \in Nat /\ Rate(5) \in Nat /\ Rate(6) \in Nat
  BY <1>1
<1>3. /\ Rate(6) <= Rate(5) /\ Rate(5) <= Rate(4) /\ Rate(4) <= Rate(3)
      /\ Rate(3) <= Rate(2) /\ Rate(2) <= Rate(1) /\ Rate(1) <= Rate(0)
      /\ Rate(0) <= StClock
  BY <1>1
<1>4. \A k \in 0 .. 6 : k = 0 \/ k = 1 \/ k = 2 \/ k = 3 \/ k = 4 \/ k = 5 \/ k = 6
  OBVIOUS
<1>5. \A k \in 0 .. 6 : Rate(k) \in Nat /\ Rate(k) <= StClock
  <2> SUFFICES ASSUME NEW k \in 0 .. 6 PROVE Rate(k) \in Nat /\ Rate(k) <= StClock
    OBVIOUS
  <2> QED BY <1>2, <1>3, <1>4
<1>6. \A j, k \in 0 .. 6 : j <= k => Rate(k) <= Rate(j)
  <2> SUFFICES ASSUME NEW j \in 0 .. 6, NEW k \in 0 .. 6, j <= k PROVE Rate(k) <= Rate(j)
    OBVIOUS
  <2> QED BY <1>2, <1>3, <1>4
<1> QED BY <1>5, <1>6

\* The loop stops at the first rate that is not above the frequency.
LEMMA LoopResult ==
  ASSUME NEW f \in Nat
  PROVE  /\ current_div(f) \in 0 .. 6
         /\ current_div(f) = 6 \/ Rate(current_div(f)) <= f
         /\ \A j \in 0 .. current_div(f) - 1 : Rate(j) > f
<1> DEFINE P(k) == /\ k = 6 \/ Rate(k) <= f
                   /\ \A j \in 0 .. k - 1 : Rate(j) > f
<1>1. \E k \in 0 .. 6 : P(k)
  <2> DEFINE high(j) == Rate(j) > f
  <2> HIDE DEF high
  <2>0. \A j \in 0 .. 6 : high(j) \/ Rate(j) <= f
    BY Rates DEF high
  <2>1. CASE ~high(0)
    <3>1. P(0) BY <2>0, <2>1
    <3> QED BY <3>1
  <2>2. CASE high(0) /\ ~high(1)
    <3>1. P(1) BY <2>0, <2>2 DEF high
    <3> QED BY <3>1
  <2>3. CASE high(0) /\ high(1) /\ ~high(2)
    <3>1. P(2) BY <2>0, <2>3 DEF high
    <3> QED BY <3>1
  <2>4. CASE high(0) /\ high(1) /\ high(2) /\ ~high(3)
    <3>1. P(3) BY <2>0, <2>4 DEF high
    <3> QED BY <3>1
  <2>5. CASE high(0) /\ high(1) /\ high(2) /\ high(3) /\ ~high(4)
    <3>1. P(4) BY <2>0, <2>5 DEF high
    <3> QED BY <3>1
  <2>6. CASE high(0) /\ high(1) /\ high(2) /\ high(3) /\ high(4) /\ ~high(5)
    <3>1. P(5) BY <2>0, <2>6 DEF high
    <3> QED BY <3>1
  <2>7. CASE high(0) /\ high(1) /\ high(2) /\ high(3) /\ high(4) /\ high(5)
    <3>1. P(6) BY <2>7 DEF high
    <3> QED BY <3>1
  <2> QED BY <2>1, <2>2, <2>3, <2>4, <2>5, <2>6, <2>7
<1> HIDE DEF P
<1>2. current_div(f) = CHOOSE k \in 0 .. 6 : P(k)
  BY DEF current_div, P
<1>3. current_div(f) \in 0 .. 6 /\ P(current_div(f))
  BY <1>1, <1>2
<1> QED BY <1>3 DEF P

\* Below the fastest rate the loop went on.
LEMMA LoopGoesOn ==
  ASSUME NEW f \in Nat, f < Rate(0)
  PROVE  /\ current_div(f) \in 1 .. 6 /\ f < Rate(current_div(f) - 1)
         /\ BestDiv(f) \in {current_div(f) - 1, current_div(f)}
<1> PICK c \in 0 .. 6 : c = current_div(f)
  BY LoopResult
<1>1. c = 6 \/ Rate(c) <= f
  BY LoopResult
<1>2. c > 0
  BY <1>1, Rates
<1>3. c - 1 \in 0 .. c - 1
  BY <1>2
<1>4. f < Rate(c - 1)
  <2>1. Rate(c - 1) > f BY <1>3, LoopResult
  <2> QED BY <2>1, <1>2, Rates
<1> QED BY <1>2, <1>4 DEF BestDiv

\* Between the rates, the divider that is chosen has the nearest one.
LEMMA BestDivNearest ==
  ASSUME NEW f \in Nat, Rate(6) <= f, f < Rate(0)
  PROVE  \A k \in 0 .. 6 : Distance(Rate(BestDiv(f)), f) <= Distance(Rate(k), f)
<1> PICK c \in 1 .. 6 : c = current_div(f)
  BY LoopGoesOn
<1>1. Rate(c) <= f /\ f < Rate(c - 1) /\ c - 1 \in 0 .. 6
  BY LoopResult, LoopGoesOn
<1>2. Rate(c) \in Nat /\ Rate(c - 1) \in Nat
  BY <1>1, Rates
<1>3. BestDiv(f) = IF Rate(c - 1) - f < f - Rate(c) THEN c - 1 ELSE c
  BY <1>1, <1>2 DEF BestDiv, Minus
<1>4. ASSUME NEW k \in 0 .. 6
      PROVE  Distance(Rate(BestDiv(f)), f) <= Distance(Rate(k), f)
  <2>0. Rate(k) \in Nat BY Rates
  <2>1. CASE k >= c
    <3>1. Rate(k) <= Rate(c) BY <2>1, Rates
    <3> QED BY <3>1, <2>0, <1>1, <1>2, <1>3 DEF Distance
  <2>2. CASE k <= c - 1
    <3>1. Rate(c - 1) <= Rate(k) BY <2>2, <1>1, Rates
    <3> QED BY <3>1, <2>0, <1>1, <1>2, <1>3 DEF Distance
  <2> QED BY <2>1, <2>2
<1> QED BY <1>4

\* Below all of them the loop ends at the last divider, the second difference
\* wraps, and the one before the last is taken.
LEMMA BestDivWraps ==
  ASSUME NEW f \in Nat, f < Rate(6)
  PROVE  BestDiv(f) = 5
<1>1. /\ Rate(6) \in Nat /\ Rate(5) \in Nat /\ Rate(6) <= Rate(5) /\ f < Rate(0)
      /\ 2 * Rate(5) <= StClock
  <2>1. Rate(5) = StClock \div 128 /\ StClock \in Nat BY ProbeAssumption DEF Rate, dividers
  <2>2. 2 * Rate(5) <= StClock BY <2>1
  <2>3. Rate(6) \in Nat /\ Rate(5) \in Nat /\ Rate(0) \in Nat BY Rates
  <2>4. Rate(6) <= Rate(5) /\ Rate(6) <= Rate(0) BY Rates
  <2> QED BY <2>2, <2>3, <2>4
<1>2. current_div(f) = 6
  <2>1. PICK c \in 0 .. 6 : c = current_div(f) BY LoopResult
  <2>2. c = 6 \/ Rate(c) <= f BY <2>1, LoopResult
  <2>3. Rate(6) <= Rate(c) /\ Rate(c) \in Nat BY Rates
  <2> QED BY <2>1, <2>2, <2>3, <1>1
<1>3. Minus(Rate(5), f) = Rate(5) - f /\ Minus(f, Rate(6)) = f - Rate(6) + WORD
  BY <1>1 DEF Minus
<1>4. Rate(5) - f < f - Rate(6) + WORD
  BY <1>1, ProbeAssumption
<1> QED BY <1>2, <1>3, <1>4 DEF BestDiv

-----------------------------------------------------------------------------
(* What the two halves of a mode change do with the registers. *)

\* r is s but for the registers of i.
OthersKept(r, s, i) == r \in [SPIs -> Registers] /\ \A j \in SPIs \ {i} : r[j] = s[j]
SameSettings(r, s, i) ==
  r[i].role = s[i].role /\ r[i].dir = s[i].dir /\ r[i].div = s[i].div

\* Each method writes the registers of one peripheral and no other.
LEMMA ClockFacts ==
  ASSUME NEW s \in [SPIs -> Registers], NEW i \in SPIs, NEW bit \in {0, 1}
  PROVE  /\ OthersKept(Clock(s, i, bit), s, i) /\ SameSettings(Clock(s, i, bit), s, i)
         /\ Clock(s, i, bit)[i].clock = bit
         /\ Clock(s, i, bit)[i].spe = s[i].spe
  BY DEF Clock, Registers, OthersKept, SameSettings

LEMMA SetFacts ==
  ASSUME NEW s \in [SPIs -> Registers], NEW i \in SPIs, NEW bit \in {0, 1}
  PROVE  /\ OthersKept(LL_SPI_Set(s, i, bit), s, i)
         /\ SameSettings(LL_SPI_Set(s, i, bit), s, i)
         /\ LL_SPI_Set(s, i, bit)[i].clock = s[i].clock
         /\ LL_SPI_Set(s, i, bit)[i].spe = IF s[i].clock = 1 THEN bit ELSE s[i].spe
<1>1. CASE s[i].clock = 1
  BY <1>1 DEF LL_SPI_Set, Registers, OthersKept, SameSettings
<1>2. CASE s[i].clock # 1
  BY <1>2 DEF LL_SPI_Set, OthersKept, SameSettings
<1> QED BY <1>1, <1>2

\* The settings after an initialisation that an enabled peripheral refuses.
Settings(r, s, i, role, dir) ==
  /\ s[i].spe = 1 => SameSettings(r, s, i)
  /\ s[i].spe # 1 => r[i].role = role /\ r[i].dir = dir /\ r[i].div = 8

LEMMA LLInitFacts ==
  ASSUME NEW s \in [SPIs -> Registers], NEW i \in SPIs,
         NEW role \in {"master", "slave"}, NEW dir \in {"full", "tx", "rx"}
  PROVE  /\ OthersKept(LL_SPI_Init(s, i, role, dir), s, i)
         /\ LL_SPI_Init(s, i, role, dir)[i].clock = s[i].clock
         /\ LL_SPI_Init(s, i, role, dir)[i].spe = s[i].spe
         /\ Settings(LL_SPI_Init(s, i, role, dir), s, i, role, dir)
<1>1. CASE s[i].spe = 1
  BY <1>1 DEF LL_SPI_Init, OthersKept, Settings, SameSettings
<1>2. CASE s[i].spe # 1
  BY <1>2 DEF LL_SPI_Init, Registers, OthersKept, Settings
<1> QED BY <1>1, <1>2

LEMMA StopFacts ==
  ASSUME NEW s \in [SPIs -> Registers], NEW i \in SPIs, s[i].clock = 1
  PROVE  /\ OthersKept(Stop(s, i), s, i) /\ SameSettings(Stop(s, i), s, i)
         /\ Stop(s, i)[i].clock = 0 /\ Stop(s, i)[i].spe = 0
<1> DEFINE off == LL_SPI_Set(s, i, 0)
<1>1. OthersKept(off, s, i) /\ SameSettings(off, s, i) /\ off[i].spe = 0
  BY SetFacts
<1>2. Stop(s, i) = Clock(off, i, 0)
  BY DEF Stop
<1> HIDE DEF off
<1>3. /\ OthersKept(Clock(off, i, 0), off, i) /\ SameSettings(Clock(off, i, 0), off, i)
      /\ Clock(off, i, 0)[i].clock = 0 /\ Clock(off, i, 0)[i].spe = off[i].spe
  BY <1>1, ClockFacts DEF OthersKept
<1> QED BY <1>1, <1>2, <1>3 DEF OthersKept, SameSettings

LEMMA StopLateFacts ==
  ASSUME NEW s \in [SPIs -> Registers], NEW i \in SPIs
  PROVE  /\ OthersKept(StopLate(s, i), s, i) /\ SameSettings(StopLate(s, i), s, i)
         /\ StopLate(s, i)[i].clock = 0
         /\ StopLate(s, i)[i].spe = s[i].spe
<1> DEFINE off == Clock(s, i, 0)
<1>1. /\ OthersKept(off, s, i) /\ SameSettings(off, s, i)
      /\ off[i].clock = 0 /\ off[i].spe = s[i].spe
  BY ClockFacts
<1>2. StopLate(s, i) = off
  BY <1>1 DEF StopLate, LL_SPI_Set
<1> QED BY <1>1, <1>2

LEMMA StartFacts ==
  ASSUME NEW s \in [SPIs -> Registers], NEW i \in SPIs,
         NEW role \in {"master", "slave"}, NEW dir \in {"full", "tx", "rx"}
  PROVE  /\ OthersKept(Start(s, i, role, dir), s, i)
         /\ Start(s, i, role, dir)[i].clock = 1 /\ Start(s, i, role, dir)[i].spe = 1
         /\ Settings(Start(s, i, role, dir), s, i, role, dir)
<1> DEFINE one == Clock(s, i, 1)
<1> DEFINE two == LL_SPI_Init(one, i, role, dir)
<1> DEFINE three == LL_SPI_Set(two, i, 1)
<1>1. /\ OthersKept(one, s, i) /\ SameSettings(one, s, i)
      /\ one[i].clock = 1 /\ one[i].spe = s[i].spe
  BY ClockFacts
<1>2. Start(s, i, role, dir) = three
  BY DEF Start
<1> HIDE DEF one
<1>3. /\ OthersKept(two, one, i)
      /\ two[i].clock = one[i].clock
      /\ Settings(two, one, i, role, dir)
  BY <1>1, LLInitFacts DEF OthersKept
<1> HIDE DEF two
<1>4. /\ OthersKept(three, two, i) /\ SameSettings(three, two, i)
      /\ three[i].clock = 1 /\ three[i].spe = 1
  BY <1>1, <1>3, SetFacts DEF OthersKept
<1> HIDE DEF three
<1>5. OthersKept(three, s, i)
  BY <1>1, <1>3, <1>4 DEF OthersKept
<1>6. Settings(three, s, i, role, dir)
  BY <1>1, <1>3, <1>4 DEF Settings, SameSettings
<1> QED BY <1>2, <1>4, <1>5, <1>6

\* The clocks a mode needs, and the sets of peripherals of each mode.
ClocksOf(s, m) == \A i \in SPIs : s[i].clock = 1 <=> i \in Clocked(m)

LEMMA ModeSets ==
  /\ Clocked("SWD") = {"spim"} /\ Started("SWD") = {"spim"} /\ Disabled("SWD") = {"spim"}
  /\ Clocked("SWDO") = SPIs /\ Started("SWDO") = {"spim"} /\ Disabled("SWDO") = SPIs
  /\ Clocked("JTAG") = SPIs /\ Started("JTAG") = SPIs /\ Disabled("JTAG") = {}
  /\ Clocked("SPI") = {"spis"} /\ Started("SPI") = {"spis"} /\ Disabled("SPI") = {}
  /\ \A m \in {"NONE", "ICSP"} : Clocked(m) = {} /\ Started(m) = {} /\ Disabled(m) = {}
BY DEF Clocked, Started, Disabled

\* The two peripherals after a mode is left, and after one is entered.
Left(r, s, m) ==
  /\ r \in [SPIs -> Registers]
  /\ \A i \in SPIs : /\ r[i].clock = 0
                     /\ SameSettings(r, s, i)
                     /\ r[i].spe = IF i \in Disabled(m) THEN 0 ELSE s[i].spe

RoleIn(m, i) == IF i = "spis" /\ m = "JTAG" THEN "slave" ELSE "master"
DirIn(i) == IF i = "spim" THEN "tx" ELSE "full"

Entered(r, s, m) ==
  /\ r \in [SPIs -> Registers] /\ ClocksOf(r, m)
  /\ \A i \in Started(m) : r[i].spe = 1 /\ Settings(r, s, i, RoleIn(m, i), DirIn(i))
  /\ \A i \in SPIs \ Started(m) : r[i].spe = s[i].spe /\ SameSettings(r, s, i)

\* Leaving a mode stops both clocks; SWD and SWDO also disable their peripherals.
LEMMA LeaveMode ==
  ASSUME NEW s \in [SPIs -> Registers], NEW m \in Modes, ClocksOf(s, m)
  PROVE  Left(DeinitAs(m, s), s, m)
<1> USE DEF OthersKept, SameSettings, SPIs
<1>0. s["spim"].clock \in {0, 1} /\ s["spis"].clock \in {0, 1}
  BY DEF Registers
<1>1. CASE m = "SWD"
  <2>1. DeinitAs(m, s) = Stop(s, "spim") BY <1>1 DEF DeinitAs
  <2>2. s["spim"].clock = 1 /\ s["spis"].clock = 0 /\ Disabled(m) = {"spim"}
    BY <1>0, <1>1, ModeSets DEF ClocksOf
  <2> QED BY <2>1, <2>2, StopFacts DEF Left
<1>2. CASE m = "SWDO"
  <2> DEFINE one == Stop(s, "spim")
  <2>1. DeinitAs(m, s) = Stop(one, "spis") BY <1>2 DEF DeinitAs
  <2>2. s["spim"].clock = 1 /\ s["spis"].clock = 1 /\ Disabled(m) = SPIs
    BY <1>2, ModeSets DEF ClocksOf
  <2>3. /\ one \in [SPIs -> Registers] /\ SameSettings(one, s, "spim")
        /\ one["spim"].clock = 0 /\ one["spim"].spe = 0 /\ one["spis"] = s["spis"]
    BY <2>2, StopFacts
  <2> HIDE DEF one
  <2>4. /\ Stop(one, "spis") \in [SPIs -> Registers]
        /\ Stop(one, "spis")["spim"] = one["spim"]
        /\ Stop(one, "spis")["spis"].clock = 0 /\ Stop(one, "spis")["spis"].spe = 0
        /\ SameSettings(Stop(one, "spis"), one, "spis")
    BY <2>2, <2>3, StopFacts
  <2> QED BY <2>1, <2>2, <2>3, <2>4 DEF Left
<1>3. CASE m = "JTAG"
  <2> DEFINE one == StopLate(s, "spim")
  <2>1. DeinitAs(m, s) = StopLate(one, "spis") BY <1>3 DEF DeinitAs
  <2>2. /\ one \in [SPIs -> Registers] /\ SameSettings(one, s, "spim")
        /\ one["spim"].clock = 0 /\ one["spim"].spe = s["spim"].spe
        /\ one["spis"] = s["spis"]
    BY StopLateFacts
  <2> HIDE DEF one
  <2>3. /\ StopLate(one, "spis") \in [SPIs -> Registers]
        /\ StopLate(one, "spis")["spim"] = one["spim"]
        /\ StopLate(one, "spis")["spis"].clock = 0
        /\ StopLate(one, "spis")["spis"].spe = one["spis"].spe
        /\ SameSettings(StopLate(one, "spis"), one, "spis")
    BY <2>2, StopLateFacts
  <2>4. Disabled(m) = {} BY <1>3, ModeSets
  <2> QED BY <2>1, <2>2, <2>3, <2>4 DEF Left
<1>4. CASE m = "SPI"
  <2>1. DeinitAs(m, s) = StopLate(s, "spis") BY <1>4 DEF DeinitAs
  <2>2. s["spim"].clock = 0 /\ Disabled(m) = {}
    BY <1>0, <1>4, ModeSets DEF ClocksOf
  <2> QED BY <2>1, <2>2, StopLateFacts DEF Left
<1>5. CASE m \in {"NONE", "ICSP"}
  <2>1. DeinitAs(m, s) = s BY <1>5 DEF DeinitAs
  <2>2. s["spim"].clock = 0 /\ s["spis"].clock = 0 /\ Disabled(m) = {}
    BY <1>0, <1>5, ModeSets DEF ClocksOf
  <2> QED BY <2>1, <2>2 DEF Left
<1> QED BY <1>1, <1>2, <1>3, <1>4, <1>5 DEF Modes

\* Entering one from there: what is initialised is set up, unless it is enabled.
LEMMA EnterMode ==
  ASSUME NEW s \in [SPIs -> Registers], NEW m \in Modes,
         s["spim"].clock = 0, s["spis"].clock = 0
  PROVE  Entered(InitAs(m, s), s, m)
<1> USE DEF SPIs
<1> DEFINE master == Start(s, "spim", "master", "tx")
<1>1. /\ master \in [SPIs -> Registers]
      /\ master["spis"] = s["spis"]
      /\ master["spim"].clock = 1 /\ master["spim"].spe = 1
      /\ Settings(master, s, "spim", "master", "tx")
  BY StartFacts DEF OthersKept
<1> HIDE DEF master
<1>2. CASE m = "SWD"
  <2>1. InitAs(m, s) = master BY <1>2 DEF InitAs, master
  <2>2. Clocked(m) = {"spim"} /\ Started(m) = {"spim"} BY <1>2, ModeSets
  <2> QED BY <2>1, <2>2, <1>1 DEF ClocksOf, Entered, SameSettings, RoleIn, DirIn
<1>3. CASE m = "SWDO"
  <2>1. InitAs(m, s) = Clock(master, "spis", 1) BY <1>3 DEF InitAs, master
  <2>2. Clocked(m) = SPIs /\ Started(m) = {"spim"} BY <1>3, ModeSets
  <2>3. /\ Clock(master, "spis", 1) \in [SPIs -> Registers]
        /\ Clock(master, "spis", 1)["spim"] = master["spim"]
        /\ Clock(master, "spis", 1)["spis"].clock = 1
        /\ Clock(master, "spis", 1)["spis"].spe = s["spis"].spe
        /\ SameSettings(Clock(master, "spis", 1), s, "spis")
    BY <1>1, ClockFacts DEF OthersKept, SameSettings
  <2> QED BY <2>1, <2>2, <2>3, <1>1
          DEF ClocksOf, Entered, Settings, SameSettings, RoleIn, DirIn
<1>4. CASE m = "JTAG"
  <2> DEFINE both == Start(master, "spis", "slave", "full")
  <2>1. InitAs(m, s) = both BY <1>4 DEF InitAs, master
  <2>2. Clocked(m) = SPIs /\ Started(m) = SPIs BY <1>4, ModeSets
  <2>3. /\ both \in [SPIs -> Registers]
        /\ both["spim"] = master["spim"]
        /\ both["spis"].clock = 1 /\ both["spis"].spe = 1
        /\ Settings(both, master, "spis", "slave", "full")
    BY <1>1, StartFacts DEF OthersKept
  <2> HIDE DEF both
  <2>4. /\ Settings(both, s, "spis", "slave", "full")
        /\ Settings(both, s, "spim", "master", "tx")
    BY <2>3, <1>1 DEF Settings, SameSettings
  <2> QED BY <2>1, <2>2, <2>3, <2>4, <1>1, <1>4 DEF ClocksOf, Entered, RoleIn, DirIn
<1>5. CASE m = "SPI"
  <2> DEFINE one == Start(s, "spis", "master", "full")
  <2>1. InitAs(m, s) = one BY <1>5 DEF InitAs
  <2>2. Clocked(m) = {"spis"} /\ Started(m) = {"spis"} BY <1>5, ModeSets
  <2>3. /\ one \in [SPIs -> Registers]
        /\ one["spim"] = s["spim"]
        /\ one["spis"].clock = 1 /\ one["spis"].spe = 1
        /\ Settings(one, s, "spis", "master", "full")
    BY StartFacts DEF OthersKept
  <2> HIDE DEF one
  <2> QED BY <2>1, <2>2, <2>3, <1>5 DEF ClocksOf, Entered, SameSettings, RoleIn, DirIn
<1>6. CASE m \in {"NONE", "ICSP"}
  <2>1. InitAs(m, s) = s BY <1>6 DEF InitAs
  <2>2. Clocked(m) = {} /\ Started(m) = {} BY <1>6, ModeSets
  <2> QED BY <2>1, <2>2 DEF ClocksOf, Entered, SameSettings
<1> QED BY <1>2, <1>3, <1>4, <1>5, <1>6 DEF Modes

-----------------------------------------------------------------------------
(* The invariant. *)

LEMMA ProbeInitInv == ProbeInit => ProbeInv
<1> SUFFICES ASSUME ProbeInit PROVE ProbeInv OBVIOUS
<1>1. ProbeTypeOK
  <2>1. spi \in [SPIs -> Registers] BY DEF ProbeInit, Registers
  <2>2. held \in [SPIs -> [by : Modes, rate : Int]] BY DEF ProbeInit, Modes, NoRate
  <2>3. mode \in Modes /\ pins \subseteq Pins /\ jtag \in BOOLEAN
    BY DEF ProbeInit, Modes
  <2>4. asked \in Int /\ rate \in Nat BY DEF ProbeInit
  <2> QED BY <2>1, <2>2, <2>3, <2>4 DEF ProbeTypeOK
<1>2. OnlyMisoStays
  <2>1. Clocked(mode) = {} BY ModeSets DEF ProbeInit
  <2>2. \A i \in SPIs : spi[i].clock = 0 BY DEF ProbeInit
  <2>3. pins = {} /\ Wired(mode) = {} /\ ~jtag BY DEF ProbeInit, Wired
  <2> QED BY <2>1, <2>2, <2>3 DEF OnlyMisoStays
<1>3. MasterKept BY DEF ProbeInit, MasterKept, SPIs
<1>4. RateIsChosen BY DEF ProbeInit, RateIsChosen
<1>5. RunsAsHeld
  <2>1. Started(mode) = {} BY ModeSets DEF ProbeInit
  <2>2. \A i \in SPIs : spi[i].spe = 0 /\ held[i].by = "NONE" BY DEF ProbeInit
  <2> QED BY <2>1, <2>2 DEF RunsAsHeld
<1> QED BY <1>1, <1>2, <1>3, <1>4, <1>5 DEF ProbeInv

\* The registers of the new mode, from the two halves.
LEMMA ModeChange ==
  ASSUME ProbeInv, NEW request \in Modes, ConfigureMode(request)
  PROVE  \E left \in [SPIs -> Registers] : Left(left, spi, mode) /\ Entered(spi', left, request)
<1>1. spi \in [SPIs -> Registers] /\ mode \in Modes /\ ClocksOf(spi, mode)
  BY DEF ProbeInv, ProbeTypeOK, OnlyMisoStays, ClocksOf
<1> PICK left \in [SPIs -> Registers] : left = DeinitAs(mode, spi)
  BY <1>1, LeaveMode DEF Left
<1>2. Left(left, spi, mode)
  BY <1>1, LeaveMode
<1>3. spi' = InitAs(request, left)
  BY DEF ConfigureMode
<1>4. Entered(spi', left, request)
  BY <1>2, <1>3, EnterMode DEF Left, SPIs
<1> QED BY <1>2, <1>4

\* What a peripheral holds for the next mode.
LEMMA HeldNext ==
  ASSUME ProbeTypeOK, NEW request \in Modes, NEW i \in SPIs,
         ConfigureMode(request)
  PROVE  /\ held'[i] \in [by : Modes, rate : Int]
         /\ i \in Disabled(mode) /\ i \in Started(request) =>
              held'[i].by = request /\ held'[i].rate = NoRate
         /\ i \in Disabled(mode) /\ i \notin Started(request) => held'[i].by = "NONE"
         /\ i \notin Disabled(mode) /\ held[i].by = "NONE" /\ i \in Started(request) =>
              held'[i].by = request /\ held'[i].rate = NoRate
         /\ i \notin Disabled(mode) /\ (held[i].by # "NONE" \/ i \notin Started(request)) =>
              held'[i] = held[i]
<1> DEFINE fresh == [by |-> "NONE", rate |-> NoRate]
<1> DEFINE new == [by |-> request, rate |-> NoRate]
<1>1. held'[i] = Held(i, mode, request)
  BY DEF ConfigureMode
<1>2. /\ held[i] \in [by : Modes, rate : Int]
      /\ fresh \in [by : Modes, rate : Int] /\ new \in [by : Modes, rate : Int]
  BY DEF ProbeTypeOK, NoRate, Modes
<1>3. CASE i \in Disabled(mode)
  <2>1. Held(i, mode, request) = IF i \in Started(request) THEN new ELSE fresh
    BY <1>3 DEF Held
  <2> QED BY <2>1, <1>1, <1>2, <1>3
<1>4. CASE i \notin Disabled(mode)
  <2>1. Held(i, mode, request) =
          IF i \in Started(request) /\ held[i].by = "NONE" THEN new ELSE held[i]
    BY <1>4 DEF Held
  <2> QED BY <2>1, <1>1, <1>2, <1>4
<1> QED BY <1>3, <1>4

\* Whatever a mode finds, it runs as it holds: one peripheral.
Runs(s, h, m, i) ==
  /\ i \in Started(m) => h[i].by # "NONE"
  /\ h[i].by = "NONE" => m = "SWDO" \/ s[i].spe = 0
  /\ h[i].by # "NONE" =>
       /\ s[i].spe = 1
       /\ s[i].role = IF i = "spis" /\ h[i].by = "JTAG" THEN "slave" ELSE "master"
       /\ h[i].rate = NoRate => s[i].div = 8
       /\ h[i].rate \in Nat => StClock \div s[i].div = h[i].rate

LEMMA RunsNext ==
  ASSUME ProbeTypeOK, NEW request \in Modes, ConfigureMode(request), NEW i \in SPIs,
         Runs(spi, held, mode, i),
         NEW left \in [SPIs -> Registers],
         Left(left, spi, mode), Entered(spi', left, request)
  PROVE  Runs(spi', held', request, i)
<1>1. request # "NONE" \/ i \notin Started(request)
  BY ModeSets
<1>2. /\ SameSettings(left, spi, i)
      /\ left[i].spe = IF i \in Disabled(mode) THEN 0 ELSE spi[i].spe
  BY DEF Left
<1>3. /\ i \in Started(request) =>
           spi'[i].spe = 1 /\ Settings(spi', left, i, RoleIn(request, i), DirIn(i))
      /\ i \notin Started(request) => spi'[i].spe = left[i].spe /\ SameSettings(spi', left, i)
  BY DEF Entered
<1>4. mode = "SWDO" => i \in Disabled(mode)
  BY ModeSets
<1>5. CASE i \in Disabled(mode) /\ i \in Started(request)
  <2>1. held'[i].by = request /\ held'[i].rate = NoRate BY <1>5, HeldNext
  <2>2. /\ spi'[i].spe = 1 /\ spi'[i].role = RoleIn(request, i) /\ spi'[i].div = 8
    BY <1>2, <1>3, <1>5 DEF Settings
  <2>3. NoRate \notin Nat BY DEF NoRate
  <2> QED BY <2>1, <2>2, <2>3, <1>1, <1>5 DEF Runs, RoleIn
<1>6. CASE i \in Disabled(mode) /\ i \notin Started(request)
  <2>1. held'[i].by = "NONE" BY <1>6, HeldNext
  <2>2. spi'[i].spe = 0 BY <1>2, <1>3, <1>6
  <2> QED BY <2>1, <2>2, <1>6 DEF Runs
<1>7. CASE i \notin Disabled(mode) /\ held[i].by = "NONE" /\ i \in Started(request)
  <2>1. held'[i].by = request /\ held'[i].rate = NoRate BY <1>7, HeldNext
  <2>2. spi[i].spe = 0 BY <1>4, <1>7 DEF Runs
  <2>3. /\ spi'[i].spe = 1 /\ spi'[i].role = RoleIn(request, i) /\ spi'[i].div = 8
    BY <1>2, <1>3, <1>7, <2>2 DEF Settings
  <2>4. NoRate \notin Nat BY DEF NoRate
  <2> QED BY <2>1, <2>3, <2>4, <1>1, <1>7 DEF Runs, RoleIn
<1>8. CASE i \notin Disabled(mode) /\ held[i].by = "NONE" /\ i \notin Started(request)
  <2>1. held'[i] = held[i] BY <1>8, HeldNext
  <2>2. spi'[i].spe = 0 BY <1>2, <1>3, <1>4, <1>8 DEF Runs
  <2> QED BY <2>1, <2>2, <1>8 DEF Runs
<1>9. CASE i \notin Disabled(mode) /\ held[i].by # "NONE"
  <2>1. held'[i] = held[i] BY <1>9, HeldNext
  <2>2. left[i].spe = 1 BY <1>2, <1>9 DEF Runs
  <2>3. spi'[i].spe = 1 /\ SameSettings(spi', left, i)
    BY <2>2, <1>3 DEF Settings
  <2>4. spi'[i].role = spi[i].role /\ spi'[i].div = spi[i].div
    BY <2>3, <1>2 DEF SameSettings
  <2> QED BY <2>1, <2>3, <2>4, <1>9 DEF Runs
<1> QED BY <1>5, <1>6, <1>7, <1>8, <1>9

LEMMA RunsIsHeld == RunsAsHeld <=> \A i \in SPIs : Runs(spi, held, mode, i)
  BY DEF RunsAsHeld, Runs

LEMMA ConfigureModeInv ==
  ASSUME ProbeInv, NEW request \in Modes, ConfigureMode(request)
  PROVE  ProbeInv'
<1> PICK left \in [SPIs -> Registers] : Left(left, spi, mode) /\ Entered(spi', left, request)
  BY ModeChange
<1>1. mode' = request /\ asked' = asked /\ rate' = rate
  BY DEF ConfigureMode
<1>2. /\ pins' = (pins \ Unwired(mode)) \cup Wired(request)
      /\ jtag' = (mode = "JTAG" \/ (jtag /\ mode \notin {"SWDO", "SPI"}))
  BY DEF ConfigureMode
<1>3. ProbeTypeOK /\ OnlyMisoStays /\ MasterKept /\ RateIsChosen /\ RunsAsHeld
  BY DEF ProbeInv
<1>4. ProbeTypeOK'
  <2>1. pins' \subseteq Pins
    BY <1>2, <1>3 DEF ProbeTypeOK, Wired, Pins
  <2>2. held' \in [SPIs -> [by : Modes, rate : Int]]
    <3>1. held' = [i \in SPIs |-> Held(i, mode, request)] BY DEF ConfigureMode
    <3>2. \A i \in SPIs : held'[i] \in [by : Modes, rate : Int] BY <1>3, HeldNext
    <3> QED BY <3>1, <3>2
  <2>3. spi' \in [SPIs -> Registers] BY DEF Entered
  <2>4. jtag' \in BOOLEAN BY <1>2
  <2> QED BY <2>1, <2>2, <2>3, <2>4, <1>1, <1>3 DEF ProbeTypeOK
<1>5. OnlyMisoStays'
  <2>1. pins = Wired(mode) \cup (IF jtag THEN {"spis.miso"} ELSE {}) /\ mode \in Modes
    BY <1>3 DEF OnlyMisoStays, ProbeTypeOK
  <2>2. Wired(mode) \ Unwired(mode) = IF mode = "JTAG" THEN {"spis.miso"} ELSE {}
    BY <2>1 DEF Modes, Wired, Unwired, Pins
  <2>3. "spis.miso" \in Unwired(mode) <=> mode \in {"SWDO", "SPI"}
    BY <2>1 DEF Modes, Unwired
  <2>4. pins \ Unwired(mode) = IF jtag' THEN {"spis.miso"} ELSE {}
    BY <2>1, <2>2, <2>3, <1>2
  <2>5. pins' = Wired(request) \cup (IF jtag' THEN {"spis.miso"} ELSE {})
    BY <2>4, <1>2
  <2> QED BY <2>5, <1>1 DEF OnlyMisoStays, Entered, ClocksOf
<1>6. RunsAsHeld'
  <2>1. \A i \in SPIs : Runs(spi', held', request, i)
    BY <1>3, RunsNext, RunsIsHeld
  <2> QED BY <2>1, <1>1 DEF RunsAsHeld, Runs
<1>7. MasterKept'
  <2>1. spi'["spim"].spe = 1 => spi'["spim"].role = "master" /\ spi'["spim"].dir = "tx"
    <3>1. "spim" \in SPIs BY DEF SPIs
    <3>2. left["spim"].spe = 1 => left["spim"].role = "master" /\ left["spim"].dir = "tx"
      <4>1. mode \in {"SWD", "SWDO"} => "spim" \in Disabled(mode) BY ModeSets, <3>1
      <4> QED BY <4>1, <3>1, <1>3 DEF Left, SameSettings, MasterKept
    <3>3. RoleIn(request, "spim") = "master" /\ DirIn("spim") = "tx" BY DEF RoleIn, DirIn
    <3> QED BY <3>1, <3>2, <3>3 DEF Entered, Settings, SameSettings
  <2>2. request \in {"SWD", "SWDO", "JTAG"} => spi'["spim"].spe = 1
    <3>1. request \in {"SWD", "SWDO", "JTAG"} => "spim" \in Started(request)
      BY ModeSets DEF SPIs
    <3> QED BY <3>1 DEF Entered
  <2> QED BY <2>1, <2>2, <1>1 DEF MasterKept
<1>8. RateIsChosen'
  BY <1>1, <1>3 DEF RateIsChosen, Rate, BestDiv, current_div, Minus
<1> QED BY <1>4, <1>5, <1>6, <1>7, <1>8 DEF ProbeInv

\* The prescaler of a peripheral with a clock.
LEMMA SetBothFacts ==
  ASSUME spi \in [SPIs -> Registers], NEW div \in Nat, SetBoth(div)
  PROVE  /\ spi' \in [SPIs -> Registers]
         /\ \A i \in SPIs :
              /\ spi'[i].clock = spi[i].clock
              /\ spi'[i].role = spi[i].role /\ spi'[i].dir = spi[i].dir
              /\ spi[i].clock = 1 => spi'[i].div = div /\ spi'[i].spe = 1
              /\ spi[i].clock # 1 => spi'[i] = spi[i]
<1>1. ASSUME NEW s \in [SPIs -> Registers], NEW i \in SPIs
      PROVE  /\ SetDivider(s, i, div) \in [SPIs -> Registers]
             /\ \A j \in SPIs \ {i} : SetDivider(s, i, div)[j] = s[j]
             /\ SetDivider(s, i, div)[i].clock = s[i].clock
             /\ SetDivider(s, i, div)[i].role = s[i].role
             /\ SetDivider(s, i, div)[i].dir = s[i].dir
             /\ s[i].clock = 1 => SetDivider(s, i, div)[i].div = div /\ SetDivider(s, i, div)[i].spe = 1
             /\ s[i].clock # 1 => SetDivider(s, i, div)[i] = s[i]
  BY DEF SetDivider, SPIs, Registers
<1> PICK half \in [SPIs -> Registers] : half = SetDivider(spi, "spim", div)
  BY <1>1 DEF SPIs
<1>2. spi' = SetDivider(half, "spis", div)
  BY DEF SetBoth
<1>3. /\ half["spis"] = spi["spis"]
      /\ half["spim"].clock = spi["spim"].clock
      /\ half["spim"].role = spi["spim"].role /\ half["spim"].dir = spi["spim"].dir
      /\ spi["spim"].clock = 1 => half["spim"].div = div /\ half["spim"].spe = 1
      /\ spi["spim"].clock # 1 => half["spim"] = spi["spim"]
  BY <1>1 DEF SPIs
<1>4. spi' \in [SPIs -> Registers] /\ spi'["spim"] = half["spim"]
  BY <1>1, <1>2 DEF SPIs
<1> QED BY <1>1, <1>2, <1>3, <1>4 DEF SPIs

\* After a new prescaler, or none, an answer keeps the rest of the invariant.
LEMMA SetBothInv ==
  ASSUME ProbeInv, NEW div \in Nat \ {0}, SetBoth(div), NEW r \in Int, Answered(r),
         mode' = mode, pins' = pins, jtag' = jtag,
         r = Undefined \/ r = StClock \div div
  PROVE  /\ spi' \in [SPIs -> Registers] /\ held' \in [SPIs -> [by : Modes, rate : Int]]
         /\ OnlyMisoStays' /\ MasterKept' /\ RunsAsHeld'
<1>1. /\ spi \in [SPIs -> Registers] /\ OnlyMisoStays /\ MasterKept /\ RunsAsHeld
      /\ mode \in Modes /\ held \in [SPIs -> [by : Modes, rate : Int]]
  BY DEF ProbeInv, ProbeTypeOK
<1>2. \A i \in SPIs :
        /\ spi'[i].clock = spi[i].clock
        /\ spi'[i].role = spi[i].role /\ spi'[i].dir = spi[i].dir
        /\ spi[i].clock = 1 => spi'[i].div = div /\ spi'[i].spe = 1
        /\ spi[i].clock # 1 => spi'[i] = spi[i]
  BY <1>1, SetBothFacts
<1>3. spi' \in [SPIs -> Registers]
  BY <1>1, SetBothFacts
<1>4. \A i \in SPIs : spi[i].clock = 1 <=> i \in Clocked(mode)
  BY <1>1 DEF OnlyMisoStays
<1>5. OnlyMisoStays'
  BY <1>1, <1>2 DEF OnlyMisoStays
<1>6. \A i \in SPIs :
        /\ held'[i] \in [by : Modes, rate : Int] /\ held'[i].by = held[i].by
        /\ i \in Clocked(mode) => held'[i].rate = r
        /\ i \notin Clocked(mode) => held'[i] = held[i]
  BY <1>1 DEF Answered
<1>7. held' \in [SPIs -> [by : Modes, rate : Int]]
  BY <1>6 DEF Answered
<1>8. MasterKept'
  <2>1. "spim" \in SPIs BY DEF SPIs
  <2>2. CASE spi["spim"].clock = 1
    <3>1. mode \in {"SWD", "SWDO", "JTAG"}
      BY <2>1, <2>2, <1>1, <1>4, ModeSets DEF Modes
    <3> QED BY <3>1, <2>1, <2>2, <1>1, <1>2 DEF MasterKept
  <2>3. CASE spi["spim"].clock # 1
    BY <2>1, <2>3, <1>1, <1>2 DEF MasterKept
  <2> QED BY <2>2, <2>3
<1>9. RunsAsHeld'
  <2>1. ASSUME NEW i \in SPIs PROVE Runs(spi', held', mode, i)
    <3>1. Runs(spi, held, mode, i) BY <1>1, RunsIsHeld
    <3>2. CASE i \in Clocked(mode)
      <4>1. /\ spi'[i].div = div /\ spi'[i].spe = 1 /\ spi'[i].role = spi[i].role
            /\ held'[i].by = held[i].by /\ held'[i].rate = r
        BY <3>2, <1>2, <1>4, <1>6
      <4>2. Undefined # NoRate /\ Undefined \notin Nat /\ NoRate \notin Nat
        BY DEF Undefined, NoRate
      <4>3. r # NoRate /\ (r \in Nat => StClock \div div = r)
        <5>1. CASE r = Undefined BY <5>1, <4>2
        <5>2. CASE r # Undefined
          <6>1. r = StClock \div div /\ StClock \in Nat BY <5>2, ProbeAssumption
          <6>2. StClock \div div \in Nat BY <6>1
          <6> QED BY <6>1, <6>2, <4>2
        <5> QED BY <5>1, <5>2
      <4>4. held[i].by = "NONE" => mode = "SWDO"
        <5>1. i \in Clocked(mode) /\ i \notin Started(mode) => mode = "SWDO"
          BY DEF Started
        <5> QED BY <5>1, <3>1, <3>2 DEF Runs
      <4> QED BY <4>1, <4>3, <4>4, <3>1 DEF Runs
    <3>3. CASE i \notin Clocked(mode)
      <4>1. spi'[i] = spi[i] /\ held'[i] = held[i] BY <3>3, <1>2, <1>4, <1>6
      <4> QED BY <4>1, <3>1 DEF Runs
    <3> QED BY <3>2, <3>3
  <2> QED BY <2>1 DEF RunsAsHeld, Runs
<1> QED BY <1>3, <1>5, <1>7, <1>8, <1>9

LEMMA SetBusFrequencyInv ==
  ASSUME ProbeInv, NEW frequency \in Frequencies, SetBusFrequency(frequency)
  PROVE  ProbeInv'
<1>0. frequency \in Nat /\ Rate(0) \in Nat
  BY ProbeAssumption, Rates
<1>1. mode' = mode /\ pins' = pins /\ asked' = frequency /\ jtag' = jtag
  BY DEF SetBusFrequency
<1>2. mode \in Modes /\ pins \subseteq Pins /\ jtag \in BOOLEAN
  BY DEF ProbeInv, ProbeTypeOK
<1>3. CASE frequency < Rate(0)
  <2> PICK k \in 0 .. 6 : k = BestDiv(frequency)
    <3>1. current_div(frequency) \in 1 .. 6 BY <1>0, <1>3, LoopGoesOn
    <3>2. BestDiv(frequency) \in {current_div(frequency) - 1, current_div(frequency)}
      BY <1>0, <1>3, LoopGoesOn
    <3> QED BY <3>1, <3>2
  <2>1. dividers[k + 1] \in Nat \ {0}
    BY DEF dividers
  <2>2. SetBoth(dividers[k + 1]) /\ rate' = Rate(k) /\ Answered(Rate(k))
    BY <1>0, <1>3 DEF SetBusFrequency
  <2>3. rate' \in Nat /\ Rate(k) \in Int
    BY <2>2, Rates
  <2>4. Rate(k) = StClock \div dividers[k + 1]
    BY DEF Rate
  <2>5. /\ spi' \in [SPIs -> Registers] /\ held' \in [SPIs -> [by : Modes, rate : Int]]
        /\ OnlyMisoStays' /\ MasterKept' /\ RunsAsHeld'
    BY <1>1, <2>1, <2>2, <2>3, <2>4, SetBothInv
  <2>6. ProbeTypeOK'
    BY <1>0, <1>1, <1>2, <2>3, <2>5 DEF ProbeTypeOK
  <2>7. RateIsChosen'
    <3>1. rate' = Rate(BestDiv(frequency)) BY <2>2
    <3> QED BY <3>1, <1>1 DEF RateIsChosen, Rate, BestDiv, current_div, Minus
  <2> QED BY <2>5, <2>6, <2>7 DEF ProbeInv
<1>4. CASE frequency >= Rate(0)
  <2>1. PICK div \in {2} \cup {dividers[k] : k \in 1 .. 7}, answer \in Answers \cup {Rate(0)} :
          SetBoth(div) /\ rate' = answer /\ Answered(Undefined)
    BY <1>0, <1>4 DEF SetBusFrequency
  <2>2. div \in Nat \ {0}
    BY DEF dividers
  <2>3. rate' \in Nat /\ Undefined \in Int
    BY <2>1, Rates, ProbeAssumption DEF Undefined
  <2>4. /\ spi' \in [SPIs -> Registers] /\ held' \in [SPIs -> [by : Modes, rate : Int]]
        /\ OnlyMisoStays' /\ MasterKept' /\ RunsAsHeld'
    BY <1>1, <2>1, <2>2, <2>3, SetBothInv
  <2>5. ProbeTypeOK'
    BY <1>0, <1>1, <1>2, <2>3, <2>4 DEF ProbeTypeOK
  <2>6. RateIsChosen'
    BY <1>0, <1>1, <1>4 DEF RateIsChosen, Rate
  <2> QED BY <2>4, <2>5, <2>6 DEF ProbeInv
<1> QED BY <1>0, <1>3, <1>4

LEMMA ToggleDirectionInv ==
  ASSUME ProbeInv, ToggleDirection
  PROVE  ProbeInv'
<1>1. /\ mode \in {"SWD", "SWDO"} /\ mode' = mode /\ pins' = pins
      /\ asked' = asked /\ rate' = rate /\ held' = held /\ jtag' = jtag
  BY DEF ToggleDirection, history
<1>2. spi \in [SPIs -> Registers]
  BY DEF ProbeInv, ProbeTypeOK
<1> PICK turned \in {"tx", "rx"} : turned = IF spi["spim"].dir = "tx" THEN "rx" ELSE "tx"
  OBVIOUS
<1>3. spi' = [spi EXCEPT !["spim"] = [spi["spim"] EXCEPT !.spe = 1, !.dir = turned]]
  BY <1>2 DEF ToggleDirection, SPIs
<1>4. spi["spim"] \in Registers
  BY <1>2 DEF SPIs
<1>5. [spi["spim"] EXCEPT !.spe = 1, !.dir = turned] \in Registers
  BY <1>4 DEF Registers
<1>6. /\ spi' \in [SPIs -> Registers]
      /\ spi'["spis"] = spi["spis"]
      /\ spi'["spim"] = [spi["spim"] EXCEPT !.spe = 1, !.dir = turned]
  BY <1>2, <1>3, <1>5 DEF SPIs
<1>7. /\ spi'["spim"].clock = spi["spim"].clock /\ spi'["spim"].spe = 1
      /\ spi'["spim"].role = spi["spim"].role /\ spi'["spim"].div = spi["spim"].div
  BY <1>4, <1>6 DEF Registers
<1>8. ProbeTypeOK'
  BY <1>1, <1>6 DEF ProbeInv, ProbeTypeOK
<1>9. OnlyMisoStays'
  BY <1>1, <1>6, <1>7 DEF ProbeInv, OnlyMisoStays, SPIs
<1>10. MasterKept'
  BY <1>1, <1>7 DEF ProbeInv, MasterKept
<1>11. RateIsChosen'
  BY <1>1 DEF ProbeInv, RateIsChosen, Rate, BestDiv, current_div, Minus
<1>12. RunsAsHeld'
  <2>1. "spim" \in Started(mode) BY <1>1, ModeSets
  <2>2. spi["spim"].spe = 1 BY <2>1 DEF ProbeInv, RunsAsHeld, SPIs
  <2>3. ASSUME NEW i \in SPIs PROVE Runs(spi', held', mode, i)
    <3>1. Runs(spi, held, mode, i) BY RunsIsHeld DEF ProbeInv
    <3>2. /\ spi'[i].spe = spi[i].spe /\ spi'[i].role = spi[i].role
          /\ spi'[i].div = spi[i].div
      BY <2>2, <1>6, <1>7 DEF SPIs
    <3> QED BY <3>1, <3>2, <1>1 DEF Runs
  <2> QED BY <2>3, <1>1 DEF RunsAsHeld, Runs
<1> QED BY <1>8, <1>9, <1>10, <1>11, <1>12 DEF ProbeInv

-----------------------------------------------------------------------------
(* The theorems about the probe. *)

LEMMA ProbeNextInv == ProbeInv /\ [ProbeNext]_probeVars => ProbeInv'
<1> SUFFICES ASSUME ProbeInv, [ProbeNext]_probeVars PROVE ProbeInv'
  OBVIOUS
<1>1. ASSUME NEW request \in Modes, ConfigureMode(request) PROVE ProbeInv'
  BY <1>1, ConfigureModeInv
<1>2. ASSUME NEW frequency \in Frequencies, SetBusFrequency(frequency) PROVE ProbeInv'
  BY <1>2, SetBusFrequencyInv
<1>3. CASE ToggleDirection
  BY <1>3, ToggleDirectionInv
<1>4. CASE UNCHANGED probeVars
  BY <1>4
  DEF probeVars, history, ProbeInv, ProbeTypeOK, OnlyMisoStays, MasterKept, RateIsChosen,
      RunsAsHeld, Rate
<1> QED BY <1>1, <1>2, <1>3, <1>4 DEF ProbeNext

\* The invariant: types, clocks and pins, the state the master is left in, the
\* choice of a rate, and what each peripheral runs as.
THEOREM ProbeInvariant == ProbeSpec => []ProbeInv
<1> QED BY ProbeInitInv, ProbeNextInv, PTL DEF ProbeSpec

\* The pins and clocks of the mode are in use after every sequence of modes, and no
\* other but the MISO pin that deinitAsJTAG forgets, until SWDO or SPI is left.
THEOREM MisoStaysWired == ProbeSpec => []OnlyMisoStays
<1>1. ProbeInv => OnlyMisoStays BY DEF ProbeInv
<1> QED BY <1>1, ProbeInvariant, PTL

\* Which role and which rate of a peripheral outlive a change of the mode: the
\* ones of JTAG and of SPI, which leave it enabled, and none of SWD or SWDO.
THEOREM SettingsOutliveModes == ProbeSpec => []RunsAsHeld
<1>1. ProbeInv => RunsAsHeld BY DEF ProbeInv
<1> QED BY <1>1, ProbeInvariant, PTL

\* For every input clock: between the slowest and the fastest rate setBusFrequency
\* returns the nearest one, and below the slowest the last but one.
THEOREM RateIsNearest == ProbeSpec => []NearestRate
<1>1. ASSUME ProbeInv PROVE NearestRate
  <2>1. asked \in Int /\ Rate(6) \in Nat /\ Rate(0) \in Nat /\ Rate(6) <= Rate(0)
    BY <1>1, Rates DEF ProbeInv, ProbeTypeOK
  <2>2. 0 <= asked /\ asked < Rate(0) => asked \in Nat /\ rate = Rate(BestDiv(asked))
    BY <1>1, <2>1 DEF ProbeInv, RateIsChosen
  <2>3. Rate(6) <= asked /\ asked < Rate(0) =>
          \A k \in 0 .. 6 : Distance(rate, asked) <= Distance(Rate(k), asked)
    BY <2>1, <2>2, BestDivNearest
  <2>4. 0 <= asked /\ asked < Rate(6) => rate = Rate(5)
    BY <2>1, <2>2, BestDivWraps
  <2> QED BY <2>3, <2>4 DEF NearestRate
<1> QED BY <1>1, ProbeInvariant, PTL

\* From every state of every history of modes, SWD starts as a master that is
\* enabled and talks.
THEOREM SwdTalks == ProbeSpec => SwdStartsTalking
<1>1. ProbeInv /\ [ProbeNext]_probeVars =>
        [ mode' # mode /\ mode' \in {"SWD", "SWDO"} =>
            /\ spi'["spim"].spe = 1 /\ spi'["spim"].clock = 1
            /\ spi'["spim"].role = "master" /\ spi'["spim"].dir = "tx" ]_probeVars
  <2> SUFFICES ASSUME ProbeInv, ProbeNext, mode' # mode, mode' \in {"SWD", "SWDO"}
               PROVE  /\ spi'["spim"].spe = 1 /\ spi'["spim"].clock = 1
                      /\ spi'["spim"].role = "master" /\ spi'["spim"].dir = "tx"
    OBVIOUS
  <2>1. PICK request \in Modes : ConfigureMode(request)
    BY DEF ProbeNext, SetBusFrequency, ToggleDirection
  <2>2. mode' = request
    BY <2>1 DEF ConfigureMode
  <2>3. OnlyMisoStays' /\ MasterKept'
    BY <2>1, ConfigureModeInv DEF ProbeInv
  <2>4. spi'["spim"].spe = 1 /\ spi'["spim"].role = "master"
    BY <2>3 DEF MasterKept
  <2>5. spi'["spim"].clock = 1
    BY <2>3, ModeSets DEF OnlyMisoStays, SPIs
  <2>6. spi'["spim"].dir = "tx"
    <3>1. PICK left \in [SPIs -> Registers] :
            Left(left, spi, mode) /\ Entered(spi', left, request)
      BY <2>1, ModeChange
    <3>2. "spim" \in SPIs /\ "spim" \in Started(request)
      BY <2>2, ModeSets DEF SPIs
    <3>3. left["spim"].spe = 1 => left["spim"].dir = "tx"
      <4>1. mode \in {"SWD", "SWDO"} => "spim" \in Disabled(mode) BY ModeSets, <3>2
      <4> QED BY <4>1, <3>1, <3>2 DEF Left, SameSettings, ProbeInv, MasterKept
    <3>4. Settings(spi', left, "spim", RoleIn(request, "spim"), "tx")
      BY <3>1, <3>2 DEF Entered, DirIn
    <3> QED BY <3>3, <3>4 DEF Settings, SameSettings
  <2> QED BY <2>4, <2>5, <2>6
<1> QED BY <1>1, ProbeInvariant, PTL DEF ProbeSpec, SwdStartsTalking
=============================================================================
