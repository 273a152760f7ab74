------------------------------ MODULE VfsProofs ------------------------------
(***************************************************************************)
(* Module Vfs for any number of threads, entries and volumes, and callers  *)
(* that use the descriptor vfs_open returned (Offset = 0): VfsInv is       *)
(* inductive, and as long as two opens do not clash no call reaches a file *)
(* other than its own and a device serves one call at a time.              *)
(*                                                                         *)
(* The argument: an entry is owned by one thread from the end of vfs_open  *)
(* until vfs_close empties it, and only its owner changes it.  So the type *)
(* read before the wait for a mutex is still the type of the entry after   *)
(* it, and the mutex that was waited for is the one of the device.         *)
(***************************************************************************)
EXTENDS Vfs, TLAPS

\* One thread takes a step.
Steps(t) ==
  \/ \E e \in Entries, path \in Config : VfsGetFd(t, e, path)
  \/ \E fd \in fds[t], op \in {"use", "close"} : Begin(t, fd, op)
  \/ Fill(t) \/ Pick(t) \/ Lock(t) \/ Enter(t) \/ Finish(t) \/ Clear(t)

-----------------------------------------------------------------------------
LEMMA MutexOfType ==
  ASSUME NEW type \in Config
  PROVE  /\ VfsGetMutex(type) \in Mutexes \cup {NULL}
         /\ type # "NONE" <=> VfsGetMutex(type) \in Mutexes
         /\ type # "NONE" <=> VfsGetMutex(type) # NULL
         /\ type \in FileX => type # "NONE"
  BY VfsAssumption DEF Config, VfsGetMutex, Mutexes, FileX

LEMMA NoCallType == NoCall \in Calls /\ NoCall.op = "use"
  BY VfsAssumption DEF NoCall, Calls, Ops, Config, Entries

LEMMA CallUpdates ==
  ASSUME NEW c \in Calls
  PROVE  /\ \A hw \in Mutexes \cup {NULL} : [c EXCEPT !.hw = hw] \in Calls
         /\ \A type \in Config : [c EXCEPT !.type = type] \in Calls
  BY DEF Calls

LEMMA TypeStep ==
  ASSUME TypeOK, NEW t \in Threads, Steps(t)
  PROVE  TypeOK'
<1> USE VfsAssumption, NoCallType
<1>1. ASSUME NEW e \in Entries, NEW path \in Config, VfsGetFd(t, e, path)
      PROVE  TypeOK'
  <2>1. e \in Nat BY DEF Entries
  <2>2. [NoCall EXCEPT !.op = "open", !.entry = e, !.fd = e, !.type = path] \in Calls
    BY <2>1 DEF NoCall, Calls, Ops
  <2> QED BY <1>1, <2>2 DEF TypeOK, VfsGetFd, Goto
<1>2. ASSUME NEW fd \in fds[t], NEW op \in {"use", "close"}, Begin(t, fd, op)
      PROVE  TypeOK'
  <2>1. fd \in Nat BY DEF TypeOK
  <2>2. VfsGetMutex(table[fd - Offset]) \in Mutexes \cup {NULL}
    BY <1>2, MutexOfType DEF Begin, TypeOK
  <2>3. [op |-> op, entry |-> fd - Offset, fd |-> fd, type |-> "NONE",
         hw |-> VfsGetMutex(table[fd - Offset])] \in Calls
    BY <1>2, <2>1, <2>2 DEF Begin, Calls, Ops, Config
  <2> QED BY <1>2, <2>3 DEF TypeOK, Begin, Goto
<1>3. CASE Fill(t)
  <2>1. call[t].type \in Config BY DEF TypeOK, Calls
  <2> QED BY <1>3, <2>1 DEF Fill, TypeOK, Goto
<1>4. CASE Pick(t)
  <2>1. VfsGetMutex(table[call[t].entry]) \in Mutexes \cup {NULL}
    BY MutexOfType DEF TypeOK, Calls
  <2>2. [call[t] EXCEPT !.hw = VfsGetMutex(table[call[t].entry])] \in Calls
    BY <2>1, CallUpdates DEF TypeOK
  <2>3. CASE Return(t) BY <1>4, <2>3 DEF Pick, TypeOK, Goto, Return
  <2>4. CASE /\ Goto(t, "wait")
             /\ call' = [call EXCEPT ![t].hw = VfsGetMutex(table[call[t].entry])]
    BY <1>4, <2>2, <2>4 DEF Pick, TypeOK, Goto
  <2> QED BY <1>4, <2>3, <2>4 DEF Pick
<1>5. CASE Lock(t) BY <1>5 DEF Lock, TypeOK, Goto
<1>6. CASE Enter(t)
  <2>1. [call[t] EXCEPT !.type = table[call[t].entry]] \in Calls
    BY CallUpdates DEF TypeOK, Calls
  <2>2. call[t].fd \in Nat BY DEF TypeOK, Calls
  <2>3. call' \in [Threads -> Calls] BY <1>6, <2>1 DEF Enter, TypeOK, Return
  <2>4. mutex' \in [Mutexes -> Threads \cup {NULL}] BY <1>6 DEF Enter, TypeOK, Put
  <2>5. fds' \in [Threads -> SUBSET Nat] BY <1>6, <2>2 DEF Enter, TypeOK
  <2> QED BY <1>6, <2>3, <2>4, <2>5 DEF Enter, TypeOK, Goto, Return
<1>7. ASSUME NEW ok \in BOOLEAN, FinishOpen(t, ok)
      PROVE  TypeOK'
  <2>1. call[t].fd \in Nat /\ call[t].entry \in Entries BY DEF TypeOK, Calls
  <2>2. linked' \in [Entries -> SUBSET Threads] BY <1>7, <2>1 DEF FinishOpen, TypeOK
  <2>3. fds' \in [Threads -> SUBSET Nat] BY <1>7, <2>1 DEF FinishOpen, TypeOK
  <2>4. owner' \in [Entries -> Threads \cup {NULL}] BY <1>7 DEF FinishOpen, TypeOK
  <2> QED BY <1>7, <2>2, <2>3, <2>4 DEF FinishOpen, TypeOK, Put, Goto, Return
<1>8. CASE FinishUse(t) BY <1>8 DEF FinishUse, TypeOK, Put, Goto, Return
<1>9. CASE FinishClose(t) BY <1>9 DEF FinishClose, TypeOK, Put, Goto
<1>10. CASE Clear(t) BY <1>10 DEF Clear, TypeOK, Goto, Return, Config
<1> QED BY <1>1, <1>2, <1>3, <1>4, <1>5, <1>6, <1>7, <1>8, <1>9, <1>10 DEF Steps, Finish

LEMMA MutexStep ==
  ASSUME TypeOK, MutexHeld, NEW t \in Threads, Steps(t)
  PROVE  MutexHeld'
<1> USE VfsAssumption
<1> SUFFICES ASSUME NEW u \in Threads
             PROVE  /\ pc'[u] \in {"wait", "enter", "inside"} => call'[u].hw \in Mutexes
                    /\ pc'[u] \in {"enter", "inside"} => mutex'[call'[u].hw] = u
  BY DEF MutexHeld
<1>1. ASSUME NEW e \in Entries, NEW path \in Config, VfsGetFd(t, e, path)
      PROVE  /\ u # t => pc'[u] = pc[u] /\ call'[u] = call[u]
             /\ pc'[t] = "fill"
             /\ mutex' = mutex
  BY <1>1 DEF VfsGetFd, Goto, TypeOK
<1>2. ASSUME NEW fd \in fds[t], NEW op \in {"use", "close"}, Begin(t, fd, op)
      PROVE  /\ u # t => pc'[u] = pc[u] /\ call'[u] = call[u]
             /\ pc'[t] = "wait" /\ call'[t].hw \in Mutexes
             /\ mutex' = mutex
  BY <1>2, MutexOfType DEF Begin, Goto, TypeOK
<1>3. CASE Fill(t) BY <1>3 DEF Fill, MutexHeld, Goto, TypeOK
<1>4. CASE Pick(t)
  <2>1. VfsGetMutex(table[call[t].entry]) \in Mutexes \cup {NULL}
    BY MutexOfType DEF TypeOK, Calls
  <2> QED BY <1>4, <2>1 DEF Pick, Return, MutexHeld, Goto, TypeOK, Calls
<1>5. CASE Lock(t) BY <1>5 DEF Lock, MutexHeld, Goto, TypeOK, Mutexes
<1>6. CASE Enter(t) BY <1>6 DEF Enter, MutexHeld, Goto, Return, Put, TypeOK, Calls
<1>7. ASSUME pc[t] = "inside", Put(t), pc' = [pc EXCEPT ![t] = pc'[t]],
             pc'[t] \in {"idle", "clear"}, \A v \in Threads \ {t} : call'[v] = call[v]
      PROVE  /\ pc'[u] \in {"wait", "enter", "inside"} => call'[u].hw \in Mutexes
             /\ pc'[u] \in {"enter", "inside"} => mutex'[call'[u].hw] = u
  BY <1>7 DEF Put, MutexHeld, TypeOK
<1>8. CASE Finish(t) BY <1>7, <1>8 DEF Finish, FinishOpen, FinishUse, FinishClose, Return, Goto, TypeOK
<1>9. CASE Clear(t) BY <1>9 DEF Clear, MutexHeld, Goto, Return, TypeOK
<1> QED BY <1>1, <1>2, <1>3, <1>4, <1>5, <1>6, <1>8, <1>9 DEF Steps, MutexHeld

-----------------------------------------------------------------------------
Fits == OpensApart /\ CallFits /\ EntriesAccounted

LEMMA GetFdStep ==
  ASSUME TypeOK, Fits, NEW t \in Threads, NEW e \in Entries, NEW path \in Config,
         VfsGetFd(t, e, path), ~clashed'
  PROVE  Fits'
<1> USE VfsAssumption
<1>1. /\ pc[t] = "idle" /\ table[e] = "NONE"
      /\ pc' = [pc EXCEPT ![t] = "fill"]
      /\ call'[t].op = "open" /\ call'[t].entry = e /\ call'[t].fd = e
      /\ \A u \in Threads \ {t} : call'[u] = call[u]
      /\ UNCHANGED <<table, linked, mutex, fds, owner>>
      /\ \A u \in Threads : ~(pc[u] \in {"fill", "pick"} /\ call[u].entry = e)
  BY DEF VfsGetFd, Goto, TypeOK, NoCall
<1>2. OpensApart' BY <1>1 DEF OpensApart, Fits, TypeOK
<1>3. CallFits' BY <1>1 DEF CallFits, Fits, TypeOK
<1>4. EntriesAccounted' BY <1>1 DEF EntriesAccounted, Opening, Closed, CallFits, Fits, TypeOK
<1> QED BY <1>2, <1>3, <1>4 DEF Fits

LEMMA BeginStep ==
  ASSUME TypeOK, Fits, Offset = 0, NEW t \in Threads, NEW fd \in fds[t],
         NEW op \in {"use", "close"}, Begin(t, fd, op)
  PROVE  Fits'
<1> USE VfsAssumption
<1>1. fd \in Nat /\ fd - Offset = fd BY DEF TypeOK
<1>2. /\ pc[t] = "idle" /\ fd \in Entries /\ table[fd] # "NONE"
      /\ pc' = [pc EXCEPT ![t] = "wait"]
      /\ call'[t].op = op /\ call'[t].entry = fd /\ call'[t].fd = fd
      /\ call'[t].hw = VfsGetMutex(table[fd])
      /\ \A u \in Threads \ {t} : call'[u] = call[u]
      /\ UNCHANGED <<table, linked, mutex, fds, owner>>
  BY <1>1 DEF Begin, Goto, TypeOK
<1>3. OpensApart' BY <1>2 DEF OpensApart, Fits, TypeOK
<1>4. CallFits' BY <1>2 DEF CallFits, EntriesAccounted, Fits, TypeOK
<1>5. EntriesAccounted' BY <1>2 DEF EntriesAccounted, Opening, Closed, CallFits, Fits, TypeOK
<1> QED BY <1>3, <1>4, <1>5 DEF Fits

LEMMA FillStep ==
  ASSUME TypeOK, Fits, NEW t \in Threads, Fill(t)
  PROVE  Fits'
<1> USE VfsAssumption
<1>1. PICK e \in Entries : e = call[t].entry BY DEF TypeOK, Calls
<1>2. /\ pc[t] = "fill" /\ call[t].op = "open" /\ call[t].fd = e /\ table[e] = "NONE"
      /\ \A u \in Threads : owner[e] # u /\ e \notin fds[u] /\ u \notin linked[e]
      /\ pc' = [pc EXCEPT ![t] = "pick"]
      /\ table' = [table EXCEPT ![e] = call[t].type]
      /\ owner' = [owner EXCEPT ![e] = IF call[t].type = "NONE" THEN NULL ELSE t]
      /\ UNCHANGED <<linked, mutex, call, fds>>
  BY <1>1 DEF Fill, Goto, CallFits, EntriesAccounted, Opening, Fits
<1>3. OpensApart' BY <1>2 DEF OpensApart, Fits, TypeOK
<1>4. CallFits' BY <1>1, <1>2 DEF CallFits, OpensApart, Fits, TypeOK
<1>5. EntriesAccounted' BY <1>1, <1>2 DEF EntriesAccounted, Opening, Closed, CallFits, Fits, TypeOK
<1> QED BY <1>3, <1>4, <1>5 DEF Fits

LEMMA PickStep ==
  ASSUME TypeOK, Fits, NEW t \in Threads, Pick(t)
  PROVE  Fits'
<1> USE VfsAssumption
<1>1. /\ pc[t] = "pick"
      /\ \A u \in Threads \ {t} : pc'[u] = pc[u] /\ call'[u] = call[u]
      /\ UNCHANGED <<table, linked, mutex, fds, owner>>
      /\ call[t].entry \in Entries /\ table[call[t].entry] \in Config
  BY DEF Pick, Goto, Return, TypeOK, Calls
<1>2. \/ /\ table[call[t].entry] = "NONE"
         /\ pc'[t] = "idle" /\ call'[t] = NoCall
      \/ /\ table[call[t].entry] # "NONE"
         /\ pc'[t] = "wait"
         /\ call'[t].op = call[t].op /\ call'[t].entry = call[t].entry /\ call'[t].fd = call[t].fd
         /\ call'[t].hw = VfsGetMutex(table[call[t].entry])
  BY <1>1, MutexOfType DEF Pick, Goto, Return, TypeOK, Calls
<1>3. OpensApart' BY <1>1, <1>2 DEF OpensApart, Fits, TypeOK
<1>4. CallFits' BY <1>1, <1>2, NoCallType DEF CallFits, Fits
<1>5. EntriesAccounted' BY <1>1, <1>2, NoCallType DEF EntriesAccounted, Opening, Closed, CallFits, Fits
<1> QED BY <1>3, <1>4, <1>5 DEF Fits

LEMMA LockStep ==
  ASSUME TypeOK, Fits, NEW t \in Threads, Lock(t)
  PROVE  Fits'
<1>1. /\ pc[t] = "wait" /\ pc' = [pc EXCEPT ![t] = "enter"]
      /\ UNCHANGED <<table, linked, call, fds, owner>>
  BY DEF Lock, Goto
<1>2. OpensApart' BY <1>1 DEF OpensApart, Fits, TypeOK
<1>3. CallFits' BY <1>1 DEF CallFits, Fits, TypeOK
<1>4. EntriesAccounted' BY <1>1 DEF EntriesAccounted, Opening, Closed, Fits, TypeOK
<1> QED BY <1>2, <1>3, <1>4 DEF Fits

LEMMA EnterStep ==
  ASSUME TypeOK, Fits, NEW t \in Threads, Enter(t)
  PROVE  Fits'
<1> USE VfsAssumption
<1>1. PICK e \in Entries : e = call[t].entry BY DEF TypeOK, Calls
<1>2. /\ pc[t] = "enter" /\ call[t].fd = e /\ owner[e] = t /\ table[e] # "NONE"
      /\ UNCHANGED <<table, linked, owner>>
      /\ \A u \in Threads \ {t} : pc'[u] = pc[u] /\ call'[u] = call[u] /\ fds'[u] = fds[u]
  BY <1>1 DEF Enter, Goto, Return, TypeOK, Fits, CallFits, EntriesAccounted
<1>3. \/ /\ pc'[t] = "inside" /\ call'[t].op = call[t].op /\ call'[t].entry = e
         /\ call'[t].fd = e /\ call'[t].hw = call[t].hw /\ call'[t].type = table[e]
         /\ call[t].op = "open" => table[e] \in FileX
         /\ fds'[t] = fds[t]
      \/ /\ pc'[t] = "idle" /\ call'[t] = NoCall
         /\ call[t].op = "open" /\ table[e] \notin FileX
         /\ fds'[t] = fds[t] \cup {e}
      \/ /\ pc'[t] = "idle" /\ call'[t] = NoCall
         /\ call[t].op = "use" /\ fds'[t] = fds[t]
  <2>1. CASE call[t].op = "open" /\ table[e] \notin FileX
    BY <1>1, <1>2, <2>1 DEF Enter, Goto, Return, TypeOK, Calls
  <2>2. CASE ~(call[t].op = "open" /\ table[e] \notin FileX)
    BY <1>1, <1>2, <2>2 DEF Enter, Goto, Return, TypeOK, Calls
  <2> QED BY <2>1, <2>2
<1>4. OpensApart' BY <1>2, <1>3 DEF OpensApart, Fits, TypeOK
<1>5. CallFits' BY <1>1, <1>2, <1>3, NoCallType DEF CallFits, Fits, TypeOK
<1>6. EntriesAccounted'
  BY <1>1, <1>2, <1>3, NoCallType DEF EntriesAccounted, CallFits, Opening, Closed, Fits, TypeOK
<1> QED BY <1>4, <1>5, <1>6 DEF Fits

LEMMA FinishOpenStep ==
  ASSUME TypeOK, Fits, NEW t \in Threads, NEW ok \in BOOLEAN, FinishOpen(t, ok)
  PROVE  Fits'
<1> USE VfsAssumption
<1>1. PICK e \in Entries : e = call[t].entry BY DEF TypeOK, Calls
<1>2. /\ pc[t] = "inside" /\ call[t].op = "open" /\ call[t].fd = e
      /\ owner[e] = t /\ table[e] \in FileX /\ e \notin fds[t]
      /\ pc' = [pc EXCEPT ![t] = "idle"] /\ call' = [call EXCEPT ![t] = NoCall]
      /\ table' = table
  BY <1>1 DEF FinishOpen, Goto, Return, Fits, CallFits, EntriesAccounted, Opening
<1>3. CASE ok
  <2>1. /\ linked' = [linked EXCEPT ![e] = @ \cup {t}]
        /\ fds' = [fds EXCEPT ![t] = @ \cup {e}]
        /\ owner' = owner
    BY <1>1, <1>2, <1>3 DEF FinishOpen, TypeOK
  <2>2. OpensApart' BY <1>2 DEF OpensApart, Fits, TypeOK
  <2>3. CallFits' BY <1>2, <2>1, NoCallType DEF CallFits, Fits, TypeOK
  <2>4. EntriesAccounted'
    BY <1>1, <1>2, <2>1, NoCallType DEF EntriesAccounted, Opening, Closed, Fits, TypeOK
  <2> QED BY <2>2, <2>3, <2>4 DEF Fits
<1>4. CASE ~ok
  <2>1. /\ linked' = linked /\ fds' = fds
        /\ owner' = [owner EXCEPT ![e] = NULL]
    BY <1>1, <1>2, <1>4 DEF FinishOpen, TypeOK
  <2>2. OpensApart' BY <1>2 DEF OpensApart, Fits, TypeOK
  <2>3. CallFits' BY <1>1, <1>2, <2>1, NoCallType DEF CallFits, Fits, TypeOK
  <2>4. EntriesAccounted'
    BY <1>1, <1>2, <2>1, NoCallType DEF EntriesAccounted, Opening, Closed, Fits, TypeOK
  <2> QED BY <2>2, <2>3, <2>4 DEF Fits
<1> QED BY <1>3, <1>4

LEMMA FinishUseStep ==
  ASSUME TypeOK, Fits, NEW t \in Threads, FinishUse(t)
  PROVE  Fits'
<1>1. /\ pc[t] = "inside" /\ call[t].op = "use"
      /\ pc' = [pc EXCEPT ![t] = "idle"] /\ call' = [call EXCEPT ![t] = NoCall]
      /\ UNCHANGED <<table, linked, fds, owner>>
  BY DEF FinishUse, Goto, Return
<1>2. OpensApart' BY <1>1 DEF OpensApart, Fits, TypeOK
<1>3. CallFits' BY <1>1, NoCallType DEF CallFits, Fits, TypeOK
<1>4. EntriesAccounted'
  BY <1>1, NoCallType DEF EntriesAccounted, Opening, Closed, Fits, TypeOK
<1> QED BY <1>2, <1>3, <1>4 DEF Fits

LEMMA FinishCloseStep ==
  ASSUME TypeOK, Fits, NEW t \in Threads, FinishClose(t)
  PROVE  Fits'
<1> USE VfsAssumption
<1>1. PICK e \in Entries : e = call[t].entry BY DEF TypeOK, Calls
<1>2. /\ pc[t] = "inside" /\ call[t].op = "close" /\ e \in fds[t] /\ owner[e] = t
      /\ call[t].type = table[e]
      /\ pc' = [pc EXCEPT ![t] = "clear"]
      /\ linked' = [linked EXCEPT ![e] = IF table[e] \in FileX THEN {} ELSE @]
      /\ UNCHANGED <<table, call, fds, owner>>
  BY <1>1 DEF FinishClose, Goto, Fits, CallFits
<1>3. OpensApart' BY <1>2 DEF OpensApart, Fits, TypeOK
<1>4. CallFits' BY <1>1, <1>2 DEF CallFits, Fits, TypeOK
<1>5. EntriesAccounted'
  BY <1>1, <1>2 DEF EntriesAccounted, Opening, Closed, Fits, TypeOK
<1> QED BY <1>3, <1>4, <1>5 DEF Fits

LEMMA ClearStep ==
  ASSUME TypeOK, Fits, NEW t \in Threads, Clear(t)
  PROVE  Fits'
<1> USE VfsAssumption
<1>1. PICK e \in Entries : e = call[t].entry BY DEF TypeOK, Calls
<1>2. /\ pc[t] = "clear" /\ call[t].fd = e /\ owner[e] = t /\ e \in fds[t]
      /\ pc' = [pc EXCEPT ![t] = "idle"] /\ call' = [call EXCEPT ![t] = NoCall]
      /\ table' = [table EXCEPT ![e] = "NONE"]
      /\ owner' = [owner EXCEPT ![e] = NULL]
      /\ fds' = [fds EXCEPT ![t] = @ \ {e}]
      /\ linked' = linked
  BY <1>1 DEF Clear, Goto, Return, Fits, CallFits
<1>3. \A u \in Threads : u \notin linked[e]
  BY <1>1, <1>2 DEF Fits, EntriesAccounted, Closed
<1>4. OpensApart' BY <1>2 DEF OpensApart, Fits, TypeOK
<1>5. CallFits' BY <1>1, <1>2, NoCallType DEF CallFits, EntriesAccounted, Fits, TypeOK
<1>6. EntriesAccounted'
  BY <1>1, <1>2, <1>3, NoCallType DEF EntriesAccounted, Opening, Closed, Fits, TypeOK, FileX
<1> QED BY <1>4, <1>5, <1>6 DEF Fits

-----------------------------------------------------------------------------
LEMMA ClashStays ==
  ASSUME TypeOK, NEW t \in Threads, Steps(t), ~clashed'
  PROVE  ~clashed
  BY DEF Steps, VfsGetFd, Begin, Fill, Pick, Lock, Enter, Finish, FinishOpen,
         FinishUse, FinishClose, Clear

LEMMA FitsStep ==
  ASSUME Offset = 0, TypeOK, Fits, NEW t \in Threads, Steps(t), ~clashed'
  PROVE  Fits'
<1>1. ASSUME NEW e \in Entries, NEW path \in Config, VfsGetFd(t, e, path) PROVE Fits'
  BY <1>1, GetFdStep
<1>2. ASSUME NEW fd \in fds[t], NEW op \in {"use", "close"}, Begin(t, fd, op) PROVE Fits'
  BY <1>2, BeginStep
<1>3. ASSUME NEW ok \in BOOLEAN, FinishOpen(t, ok) PROVE Fits'
  BY <1>3, FinishOpenStep
<1> QED
  BY <1>1, <1>2, <1>3, FillStep, PickStep, LockStep, EnterStep, FinishUseStep,
     FinishCloseStep, ClearStep DEF Steps, Finish

LEMMA VfsInit ==
  ASSUME Init
  PROVE  VfsInv
<1> USE VfsAssumption
<1>1. TypeOK BY NoCallType DEF Init, TypeOK, Config
<1>2. MutexHeld BY DEF Init, MutexHeld
<1>3. OpensApart BY DEF Init, OpensApart
<1>4. CallFits BY NoCallType DEF Init, CallFits
<1>5. EntriesAccounted BY NoCallType DEF Init, EntriesAccounted, Opening, Closed
<1> QED BY <1>1, <1>2, <1>3, <1>4, <1>5 DEF VfsInv

LEMMA VfsStutter ==
  ASSUME VfsInv, UNCHANGED vars
  PROVE  VfsInv'
<1>1. TypeOK' BY DEF VfsInv, TypeOK, vars
<1>2. MutexHeld' BY DEF VfsInv, MutexHeld, vars
<1>3. clashed' = clashed BY DEF vars
<1>4. OpensApart => OpensApart' BY DEF OpensApart, vars
<1>5. CallFits => CallFits' BY DEF CallFits, vars
<1>6. EntriesAccounted => EntriesAccounted'
  BY DEF EntriesAccounted, Opening, Closed, vars
<1> QED BY <1>1, <1>2, <1>3, <1>4, <1>5, <1>6 DEF VfsInv

\* Whatever the number of threads, entries and volumes, the table, the descriptors
\* and the calls of vfs.c fit together as long as no two opens clash.
THEOREM VfsInvariant == ASSUME Offset = 0 PROVE Spec => []VfsInv
<1>1. Init => VfsInv BY VfsInit
<1>2. VfsInv /\ [Next]_vars => VfsInv'
  <2> SUFFICES ASSUME VfsInv, [Next]_vars PROVE VfsInv'
    OBVIOUS
  <2>1. CASE UNCHANGED vars BY <2>1, VfsStutter
  <2>2. ASSUME NEW t \in Threads, Steps(t) PROVE VfsInv'
    <3>1. TypeOK' /\ MutexHeld' BY <2>2, TypeStep, MutexStep DEF VfsInv
    <3>2. ASSUME ~clashed' PROVE Fits'
      <4>1. Fits BY <2>2, <3>2, ClashStays DEF VfsInv, Fits
      <4> QED BY <2>2, <3>2, <4>1, FitsStep DEF VfsInv
    <3> QED BY <3>1, <3>2 DEF VfsInv, Fits
  <2> QED BY <2>1, <2>2 DEF Next, Steps
<1> QED BY <1>1, <1>2, PTL DEF Spec

LEMMA InsideFits ==
  ASSUME VfsInv, ~clashed, NEW t \in Threads, pc[t] = "inside"
  PROVE  LET e == call[t].entry
         IN  /\ e \in Entries /\ owner[e] = t /\ table[e] = call[t].type
             /\ call[t].fd = e
             /\ call[t].type \in Config /\ call[t].type # "NONE"
             /\ call[t].hw = VfsGetMutex(call[t].type)
             /\ mutex[call[t].hw] = t
             /\ call[t].op # "open" => e \in fds[t]
  BY DEF VfsInv, TypeOK, Calls, CallFits, EntriesAccounted, MutexHeld

\* DeviceSerial: one call at a time is inside FileX or LevelX on a device.
THEOREM OneCallPerDevice == ASSUME Offset = 0 PROVE Spec => []DeviceSerial
<1>1. VfsInv => DeviceSerial
  <2> SUFFICES ASSUME VfsInv, ~clashed, NEW t \in Threads, NEW u \in Threads, t # u,
                      pc[t] = "inside", pc[u] = "inside"
               PROVE  Device(call[t].type) # Device(call[u].type)
    BY DEF DeviceSerial
  <2>1. ASSUME NEW a \in Config \ {"NONE"}, NEW b \in Config \ {"NONE"}, Device(a) = Device(b)
        PROVE  VfsGetMutex(a) = VfsGetMutex(b)
    BY <2>1, VfsAssumption DEF Config, Device, VfsGetMutex
  <2> QED BY <2>1, InsideFits
<1> QED BY <1>1, VfsInvariant, PTL

\* OwnFile: a call reaches the file its thread opened.
THEOREM ReachesOwnFile == ASSUME Offset = 0 PROVE Spec => []OwnFile
<1>1. VfsInv => OwnFile
  <2> SUFFICES ASSUME VfsInv, ~clashed, NEW t \in Threads, pc[t] = "inside"
               PROVE  /\ owner[call[t].entry] = t
                      /\ table[call[t].entry] = call[t].type
                      /\ call[t].op # "open" => call[t].fd = call[t].entry
                      /\ call[t].op # "open" /\ call[t].type \in FileX => t \in linked[call[t].entry]
    BY DEF OwnFile
  <2>1. call[t].op # "open" /\ call[t].type \in FileX => t \in linked[call[t].entry]
    BY InsideFits DEF VfsInv, EntriesAccounted, Closed
  <2> QED BY <2>1, InsideFits
<1> QED BY <1>1, VfsInvariant, PTL

\* NoWipedFile: a file that FileX has open keeps its entry.
THEOREM OpenFileKept == ASSUME Offset = 0 PROVE Spec => []NoWipedFile
<1>1. VfsInv => NoWipedFile
  BY DEF VfsInv, TypeOK, EntriesAccounted, NoWipedFile
<1> QED BY <1>1, VfsInvariant, PTL
=============================================================================
