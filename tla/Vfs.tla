-------------------------------- MODULE Vfs ---------------------------------
(***************************************************************************)
(* The table of files of the VFS (threadx/filex/app/src/vfs.c) and the     *)
(* system calls over it (vfs_syscall.c).  A call reads the type of the     *)
(* entry, waits for the mutex of that type, and reads the type again to    *)
(* choose the FileX or LevelX service.  No mutex is held while another is  *)
(* waited for.  A section under vfs_mutex makes no kernel call and is one  *)
(* step.  A file is not shared: a thread only uses the descriptors it got. *)
(***************************************************************************)
EXTENDS Integers

CONSTANTS
  Threads,                   \* the threads that call the VFS
  MAX_VFS_CONCURRENT_FILES,  \* entries of the table
  Types,                     \* the mount types that paths name
  Offset,                    \* what _read, _write, _close and _lseek subtract from what _open
                             \* returned: 3, or 0 for callers of vfs_open and vfs_read
  NULL

ASSUME VfsAssumption ==
  /\ MAX_VFS_CONCURRENT_FILES \in Nat \ {0}
  /\ Offset \in Nat
  /\ Types \subseteq {"SD", "FLASH", "SETTINGS", "BACKTRACE"}
  /\ NULL \notin Threads \cup {"sd", "flash"}

VARIABLES
  table,    \* vfs_fd_table: the type of each entry
  linked,   \* the threads with the file of an entry in the lists FileX keeps of open files
  mutex,    \* the owners of vfs_sd_mutex and vfs_flash_mutex
  pc,       \* where each thread is in a call
  call,     \* the call it makes
  fds,      \* the descriptors it holds
  owner,    \* history: the thread that is to close an entry
  clashed   \* history: an open took an entry that another one had found free

vars == <<table, linked, mutex, pc, call, fds, owner, clashed>>

Entries == 0 .. MAX_VFS_CONCURRENT_FILES - 1
FileX == {"SD", "FLASH"}
Mutexes == {"sd", "flash"}
Ops == {"open", "use", "close"}
\* _vfs_get_config: a path names a volume, or nothing ("NONE"): another prefix,
\* or a sector without its number.
Config == Types \cup {"NONE"}
Calls == [op : Ops, entry : Entries, fd : Nat, type : Config, hw : Mutexes \cup {NULL}]
NoCall == [op |-> "use", entry |-> 0, fd |-> 0, type |-> "NONE", hw |-> NULL]

\* Mutant: the raw partitions get the other mutex.
SectorsApart(type) ==
  CASE type \in {"SD", "SETTINGS", "BACKTRACE"} -> "sd"
    [] type = "FLASH" -> "flash"
    [] OTHER -> NULL

VfsGetMutex(type) ==
  CASE type = "SD" -> "sd"
    [] type \in {"FLASH", "SETTINGS", "BACKTRACE"} -> "flash"
    [] OTHER -> NULL

Init ==
  /\ table = [e \in Entries |-> "NONE"]
  /\ linked = [e \in Entries |-> {}]
  /\ mutex = [m \in Mutexes |-> NULL]
  /\ pc = [t \in Threads |-> "idle"]
  /\ call = [t \in Threads |-> NoCall]
  /\ fds = [t \in Threads |-> {}]
  /\ owner = [e \in Entries |-> NULL]
  /\ clashed = FALSE

Goto(t, label) == pc' = [pc EXCEPT ![t] = label]
Return(t) == Goto(t, "idle") /\ call' = [call EXCEPT ![t] = NoCall]
Put(t) == mutex' = [mutex EXCEPT ![call[t].hw] = NULL]

-----------------------------------------------------------------------------
\* Mutant: the scan takes a file that no call is using for a free one.
GetIdleFd(t, e, path) ==
  /\ pc[t] = "idle" /\ ~clashed
  /\ table[e] = "NONE" \/ \A u \in Threads : pc[u] = "idle"
  /\ call' = [call EXCEPT ![t] = [NoCall EXCEPT !.op = "open", !.entry = e, !.fd = e, !.type = path]]
  /\ Goto(t, "fill")
  /\ clashed' = (\E u \in Threads : pc[u] \in {"fill", "pick"} /\ call[u].entry = e)
  /\ UNCHANGED <<table, linked, mutex, fds, owner>>

\* vfs_get_fd: the first free entry, found without a lock.  path is the type
\* that _vfs_get_config will find for the path.  Bound: nothing is opened after a
\* clash, which is where the safety properties end.
VfsGetFd(t, e, path) ==
  /\ pc[t] = "idle" /\ ~clashed
  /\ table[e] = "NONE"
  /\ \A i \in Entries : i < e => table[i] # "NONE"
  /\ call' = [call EXCEPT ![t] = [NoCall EXCEPT !.op = "open", !.entry = e, !.fd = e, !.type = path]]
  /\ Goto(t, "fill")
  /\ clashed' = (\E u \in Threads : pc[u] \in {"fill", "pick"} /\ call[u].entry = e)
  /\ UNCHANGED <<table, linked, mutex, fds, owner>>

\* vfs_open under vfs_mutex: the entry is overwritten.
Fill(t) ==
  LET e == call[t].entry IN
  /\ pc[t] = "fill"
  /\ table' = [table EXCEPT ![e] = call[t].type]
  /\ owner' = [owner EXCEPT ![e] = IF call[t].type = "NONE" THEN NULL ELSE t]
  /\ Goto(t, "pick")
  /\ UNCHANGED <<linked, mutex, call, fds, clashed>>

\* vfs_open goes on: the mutex of the type it finds in the entry.
Pick(t) ==
  LET hw == VfsGetMutex(table[call[t].entry]) IN
  /\ pc[t] = "pick"
  /\ IF hw = NULL
     THEN Return(t)
     ELSE Goto(t, "wait") /\ call' = [call EXCEPT ![t].hw = hw]
  /\ UNCHANGED <<table, linked, mutex, fds, owner, clashed>>

\* _read, _write, _lseek ("use") and _close up to tx_mutex_get.  A descriptor
\* of a standard stream, past the table or of an empty entry changes nothing.
Begin(t, fd, op) ==
  LET e == fd - Offset IN
  /\ pc[t] = "idle" /\ fd \in fds[t]
  /\ e \in Entries /\ table[e] # "NONE"
  /\ call' = [call EXCEPT ![t] = [op |-> op, entry |-> e, fd |-> fd, type |-> "NONE",
                                  hw |-> VfsGetMutex(table[e])]]
  /\ Goto(t, "wait")
  /\ UNCHANGED <<table, linked, mutex, fds, owner, clashed>>

Lock(t) ==
  /\ pc[t] = "wait" /\ mutex[call[t].hw] = NULL
  /\ mutex' = [mutex EXCEPT ![call[t].hw] = t]
  /\ Goto(t, "enter")
  /\ UNCHANGED <<table, linked, call, fds, owner, clashed>>

\* The switch on the type.  Opening a sector calls nothing; an entry that was
\* emptied meanwhile is an error, and close goes on all the same.
Enter(t) ==
  LET type == table[call[t].entry] IN
  /\ pc[t] = "enter"
  /\ \/ /\ type # "NONE" /\ (call[t].op = "open" => type \in FileX)
        /\ call' = [call EXCEPT ![t].type = type]
        /\ Goto(t, "inside")
        /\ UNCHANGED <<mutex, fds>>
     \/ /\ call[t].op = "open" /\ type \notin FileX
        /\ Put(t) /\ Return(t)
        /\ fds' = [fds EXCEPT ![t] = IF type = "NONE" THEN @ ELSE @ \cup {call[t].fd}]
     \/ /\ call[t].op = "use" /\ type = "NONE"
        /\ Put(t) /\ Return(t)
        /\ UNCHANGED fds
     \/ /\ call[t].op = "close" /\ type = "NONE"
        /\ Put(t) /\ Goto(t, "clear")
        /\ UNCHANGED <<call, fds>>
  /\ UNCHANGED <<table, linked, owner, clashed>>

\* Mutant: the status of vfs_open is not tested.
FinishOpenAnyway(t, ok) ==
  LET e == call[t].entry IN
  /\ pc[t] = "inside" /\ call[t].op = "open"
  /\ linked' = [linked EXCEPT ![e] = IF ok THEN @ \cup {t} ELSE @]
  /\ fds' = [fds EXCEPT ![t] = @ \cup {call[t].fd}]
  /\ owner' = [owner EXCEPT ![e] = IF ok \/ @ # t THEN @ ELSE NULL]
  /\ Put(t) /\ Return(t)
  /\ UNCHANGED <<table, clashed>>

\* The end of vfs_open.  A failed fx_file_open leaves the entry as it is:
\* nobody is to close it any more.
FinishOpen(t, ok) ==
  LET e == call[t].entry IN
  /\ pc[t] = "inside" /\ call[t].op = "open"
  /\ linked' = [linked EXCEPT ![e] = IF ok THEN @ \cup {t} ELSE @]
  /\ fds' = [fds EXCEPT ![t] = IF ok THEN @ \cup {call[t].fd} ELSE @]
  /\ owner' = [owner EXCEPT ![e] = IF ok \/ @ # t THEN @ ELSE NULL]
  /\ Put(t) /\ Return(t)
  /\ UNCHANGED <<table, clashed>>

\* Mutant: a failed read returns before tx_mutex_put.
FinishUseHolding(t) ==
  /\ pc[t] = "inside" /\ call[t].op = "use"
  /\ Put(t) \/ UNCHANGED mutex
  /\ Return(t)
  /\ UNCHANGED <<table, linked, fds, owner, clashed>>

\* The end of vfs_read, vfs_write and vfs_seek, well or not.
FinishUse(t) ==
  /\ pc[t] = "inside" /\ call[t].op = "use"
  /\ Put(t) /\ Return(t)
  /\ UNCHANGED <<table, linked, fds, owner, clashed>>

\* Mutant: only the files of the flash are closed in FileX.
FinishCloseFlash(t) ==
  /\ pc[t] = "inside" /\ call[t].op = "close"
  /\ linked' = [linked EXCEPT ![call[t].entry] = IF call[t].type = "FLASH" THEN {} ELSE @]
  /\ Put(t) /\ Goto(t, "clear")
  /\ UNCHANGED <<table, call, fds, owner, clashed>>

\* The first part of vfs_close.  fx_file_close takes the file out of the list
\* of the media before it writes anything, so it does so even when it fails.
FinishClose(t) ==
  /\ pc[t] = "inside" /\ call[t].op = "close"
  /\ linked' = [linked EXCEPT ![call[t].entry] = IF call[t].type \in FileX THEN {} ELSE @]
  /\ Put(t) /\ Goto(t, "clear")
  /\ UNCHANGED <<table, call, fds, owner, clashed>>

\* The end of vfs_close, under vfs_mutex, whatever the status of the close.
Clear(t) ==
  LET e == call[t].entry IN
  /\ pc[t] = "clear"
  /\ table' = [table EXCEPT ![e] = "NONE"]
  /\ owner' = [owner EXCEPT ![e] = NULL]
  /\ fds' = [fds EXCEPT ![t] = @ \ {call[t].fd}]
  /\ Return(t)
  /\ UNCHANGED <<linked, mutex, clashed>>

-----------------------------------------------------------------------------
Finish(t) == (\E ok \in BOOLEAN : FinishOpen(t, ok)) \/ FinishUse(t) \/ FinishClose(t)

Next == \E t \in Threads :
  \/ \E e \in Entries, path \in Config : VfsGetFd(t, e, path)
  \/ \E fd \in fds[t], op \in {"use", "close"} : Begin(t, fd, op)
  \/ Fill(t) \/ Pick(t) \/ Lock(t) \/ Enter(t) \/ Finish(t) \/ Clear(t)

\* A call goes on; the mutexes serve their waiters first in, first out, so that
\* a waiting thread is not passed over for ever.  Nobody has to make a call.
Fairness == \A t \in Threads :
  /\ WF_vars(Fill(t) \/ Pick(t) \/ Enter(t) \/ Finish(t) \/ Clear(t))
  /\ SF_vars(Lock(t))

Spec == Init /\ [][Next]_vars /\ Fairness

-----------------------------------------------------------------------------
TypeOK ==
  /\ table \in [Entries -> Config]
  /\ linked \in [Entries -> SUBSET Threads]
  /\ mutex \in [Mutexes -> Threads \cup {NULL}]
  /\ pc \in [Threads -> {"idle", "fill", "pick", "wait", "enter", "inside", "clear"}]
  /\ call \in [Threads -> Calls]
  /\ fds \in [Threads -> SUBSET Nat]
  /\ owner \in [Entries -> Threads \cup {NULL}]
  /\ clashed \in BOOLEAN

\* The device behind a type: the volumes of the flash are partitions of one chip.
Device(type) == IF type = "SD" THEN "card" ELSE "chip"

\* "We can perform the IO operation within our safe area": although the mutex is
\* chosen from a type that is read before the wait, two threads are never inside
\* FileX or LevelX on the same device.  The one way out is two opens that found
\* the same entry free.
DeviceSerial == ~clashed =>
  \A t, u \in Threads : t # u /\ pc[t] = "inside" /\ pc[u] = "inside" =>
    Device(call[t].type) # Device(call[u].type)

\* What a call reaches is the file that its thread opened: not one that was
\* opened later in the same entry, nor one that is closed, nor another thread's.
OwnFile == ~clashed =>
  \A t \in Threads : pc[t] = "inside" =>
    /\ owner[call[t].entry] = t
    /\ table[call[t].entry] = call[t].type
    /\ call[t].op # "open" => call[t].fd = call[t].entry
    /\ call[t].op # "open" /\ call[t].type \in FileX => t \in linked[call[t].entry]

\* A file that FileX has in its list of open files is never wiped by vfs_open or
\* vfs_close, although an entry is filled before the file is opened, emptied after
\* it is closed, and emptied even when the close fails.
NoWipedFile == ~clashed =>
  \A e \in Entries : \A t \in linked[e] : table[e] \in FileX /\ owner[e] = t

\* A waiting call waits for a mutex, and a call past the wait holds it.
MutexHeld == \A t \in Threads :
  /\ pc[t] \in {"wait", "enter", "inside"} => call[t].hw \in Mutexes
  /\ pc[t] \in {"enter", "inside"} => mutex[call[t].hw] = t

\* Two opens that are not past their choice of a mutex are not on one entry.
OpensApart == \A t, u \in Threads :
  t # u /\ pc[t] \in {"fill", "pick"} /\ pc[u] \in {"fill", "pick"} =>
    call[t].entry # call[u].entry

\* A call and its entry: the type and the mutex that the call read are still the
\* ones of the entry, which is the thread's own.
CallFits == \A t \in Threads :
  /\ pc[t] = "idle" => call[t].op = "use"
  /\ pc[t] # "idle" => call[t].fd = call[t].entry
  /\ pc[t] \in {"fill", "pick"} => call[t].op = "open"
  /\ pc[t] = "fill" => table[call[t].entry] = "NONE"
  /\ pc[t] = "pick" =>
       /\ table[call[t].entry] = call[t].type
       /\ owner[call[t].entry] = IF call[t].type = "NONE" THEN NULL ELSE t
  /\ pc[t] \in {"wait", "enter", "inside", "clear"} =>
       /\ owner[call[t].entry] = t
       /\ call[t].op = "open" \/ call[t].entry \in fds[t]
  /\ pc[t] \in {"wait", "enter", "inside"} => call[t].hw = VfsGetMutex(table[call[t].entry])
  /\ pc[t] = "inside" =>
       /\ call[t].type = table[call[t].entry]
       /\ (call[t].op = "open" => call[t].type \in FileX)
  /\ pc[t] = "clear" => call[t].op = "close"

Opening(t, e) == call[t].op = "open" /\ call[t].entry = e
Closed(t, e) == pc[t] = "clear" /\ call[t].entry = e

\* An entry that is to be closed has one descriptor, or an open that is about to
\* give it one; a descriptor of FileX has its file in the list until it is closed.
EntriesAccounted == \A t \in Threads : \A e \in Entries :
  /\ e \in fds[t] => owner[e] = t /\ ~Opening(t, e)
  /\ owner[e] = t => table[e] # "NONE" /\ (e \in fds[t] \/ Opening(t, e))
  /\ e \in fds[t] /\ table[e] \in FileX => t \in linked[e] \/ Closed(t, e)
  /\ t \in linked[e] => e \in fds[t] /\ table[e] \in FileX /\ ~Closed(t, e)

\* The table, the descriptors and the calls fit together: a descriptor and the
\* entry behind it come and go together, whatever fails.
VfsInv ==
  /\ TypeOK
  /\ MutexHeld
  /\ ~clashed => OpensApart /\ CallFits /\ EntriesAccounted

\* No call waits for ever: a mutex is given back on every path, errors included,
\* even when two threads came to share an entry.
CallsReturn == \A t \in Threads : pc[t] # "idle" ~> pc[t] = "idle"
=============================================================================
