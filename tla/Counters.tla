-------------------------------- MODULE Counters --------------------------------
(***************************************************************************)
(* Processes that count in shared memory: dz7 over a System V segment,     *)
(* dz8 over a POSIX object.  The memory is made by the first process that  *)
(* comes and removed by the last that goes, as process_count says.  A      *)
(* signal sets keep_running to 0 at any moment; a process runs once.       *)
(*                                                                         *)
(* A memory stays with those who have it when it has lost its name or key, *)
(* and the next process makes a new one.  In dz7 the segment is removed by *)
(* its number, in dz8 by the name, whatever has that name by then.         *)
(***************************************************************************)
EXTENDS Integers, FiniteSets

CONSTANTS Procs,
          MAX_COUNT      \* a bound of the model: how far a counter is followed

ASSUME CountersAssumption == IsFiniteSet(Procs) /\ MAX_COUNT \in Nat

None == 0
Memories == 1..Cardinality(Procs)

VARIABLES
  program,       \* "dz7" or "dz8", never changed
  made,          \* how many memories have been made
  named,         \* the one that can be found, or None
  sized,         \* those whose size is set, by ftruncate or shmget
  counter, process_count,      \* the fields of each memory
  at,            \* the memory of each process, or None
  pc,            \* where each process is
  keep_running,
  remaining      \* what atomic_fetch_sub left of process_count

memory == <<made, named, sized>>
fields == <<counter, process_count>>
locals == <<at, remaining>>
vars == <<program, memory, fields, locals, pc, keep_running>>

Init ==
  /\ program \in {"dz7", "dz8"}
  /\ made = 0 /\ named = None /\ sized = {}
  /\ counter = [m \in Memories |-> 0] /\ process_count = [m \in Memories |-> 0]
  /\ at = [p \in Procs |-> None] /\ pc = [p \in Procs |-> "start"]
  /\ keep_running = [p \in Procs |-> TRUE]
  /\ remaining = [p \in Procs |-> 0]

Go(p, from, to) == pc[p] = from /\ pc' = [pc EXCEPT ![p] = to]

(* shmget and shm_open find the memory or make one. *)
Find(p) ==
  IF named # None THEN at' = [at EXCEPT ![p] = named] /\ UNCHANGED <<made, named>>
  ELSE /\ made' = made + 1 /\ named' = made + 1
       /\ at' = [at EXCEPT ![p] = made + 1]

Shmget(p) ==
  /\ program = "dz7" /\ Go(p, "start", "attach")
  /\ Find(p) /\ sized' = sized \cup {at'[p]}
  /\ UNCHANGED <<program, fields, remaining, keep_running>>

(* A segment that was removed while nobody had it attached is gone. *)
Attached(m) == \E p \in Procs : at[p] = m /\ pc[p] \in {"join", "count", "leave", "detach"}

Shmat(p) ==
  /\ pc[p] = "attach"
  /\ IF named = at[p] \/ Attached(at[p]) THEN Go(p, "attach", "join") ELSE Go(p, "attach", "failed")
  /\ UNCHANGED <<program, memory, fields, locals, keep_running>>

ShmOpen(p) ==
  /\ program = "dz8" /\ Go(p, "start", "stat")
  /\ Find(p)
  /\ UNCHANGED <<program, sized, fields, remaining, keep_running>>

Fstat(p) ==
  /\ Go(p, "stat", IF at[p] \in sized THEN "join" ELSE "truncate")
  /\ UNCHANGED <<program, memory, fields, locals, keep_running>>

Ftruncate(p) ==
  /\ Go(p, "truncate", "store_counter") /\ sized' = sized \cup {at[p]}
  /\ UNCHANGED <<program, made, named, fields, locals, keep_running>>

StoreCounter(p) ==
  /\ Go(p, "store_counter", "store_count")
  /\ counter' = [counter EXCEPT ![at[p]] = 0]
  /\ UNCHANGED <<program, memory, process_count, locals, keep_running>>

StoreCount(p) ==
  /\ Go(p, "store_count", "join")
  /\ process_count' = [process_count EXCEPT ![at[p]] = 0]
  /\ UNCHANGED <<program, memory, counter, locals, keep_running>>

(* Mutant: the one that makes the memory does not count itself. *)
JoinUnlessFirst(p) ==
  /\ Go(p, "join", "count")
  /\ process_count' = [process_count EXCEPT ![at[p]] = IF counter[at[p]] = 0 THEN @ ELSE @ + 1]
  /\ UNCHANGED <<program, memory, counter, locals, keep_running>>

Join(p) ==
  /\ Go(p, "join", "count")
  /\ process_count' = [process_count EXCEPT ![at[p]] = @ + 1]
  /\ UNCHANGED <<program, memory, counter, locals, keep_running>>

(* One turn of the loop; a counter at its bound is not followed further. *)
Count(p) ==
  /\ pc[p] = "count"
  /\ IF keep_running[p]
       THEN /\ counter[at[p]] < MAX_COUNT
            /\ counter' = [counter EXCEPT ![at[p]] = @ + 1] /\ UNCHANGED pc
       ELSE Go(p, "count", "leave") /\ UNCHANGED counter
  /\ UNCHANGED <<program, memory, process_count, locals, keep_running>>

(* handle_signal; before sigaction it would end the process. *)
Signal(p) ==
  /\ pc[p] \notin {"start", "ended", "failed"} /\ keep_running[p]
  /\ keep_running' = [keep_running EXCEPT ![p] = FALSE]
  /\ UNCHANGED <<program, memory, fields, locals, pc>>

(* Mutant: a process does not leave before the others. *)
LeavesLast(p) ==
  /\ Go(p, "leave", "detach") /\ process_count[at[p]] = 1
  /\ process_count' = [process_count EXCEPT ![at[p]] = @ - 1]
  /\ remaining' = [remaining EXCEPT ![p] = process_count[at[p]] - 1]
  /\ UNCHANGED <<program, memory, counter, at, keep_running>>

Leave(p) ==
  /\ Go(p, "leave", "detach")
  /\ process_count' = [process_count EXCEPT ![at[p]] = @ - 1]
  /\ remaining' = [remaining EXCEPT ![p] = process_count[at[p]] - 1]
  /\ UNCHANGED <<program, memory, counter, at, keep_running>>

(* shmdt and munmap. *)
Detach(p) ==
  /\ Go(p, "detach", IF remaining[p] = 0 THEN "remove" ELSE "ended")
  /\ UNCHANGED <<program, memory, fields, locals, keep_running>>

(* Mutant: the memory is removed only where it is the first. *)
RemoveFirstOnly(p) ==
  /\ Go(p, "remove", "ended")
  /\ named' = IF named = 1 THEN None ELSE named
  /\ UNCHANGED <<program, made, sized, fields, locals, keep_running>>

(* IPC_RMID of the own segment, or shm_unlink of the name. *)
Remove(p) ==
  /\ Go(p, "remove", "ended")
  /\ named' = IF program = "dz8" \/ named = at[p] THEN None ELSE named
  /\ UNCHANGED <<program, made, sized, fields, locals, keep_running>>

Step(p) ==
  \/ Shmget(p) \/ Shmat(p) \/ ShmOpen(p) \/ Fstat(p) \/ Ftruncate(p) \/ StoreCounter(p) \/ StoreCount(p)
  \/ Join(p) \/ Count(p) \/ Leave(p) \/ Detach(p) \/ Remove(p)

Next == \E p \in Procs : Step(p) \/ Signal(p)

(* Processes are scheduled; nobody need ever start one or send a signal. *)
Spec == Init /\ [][Next]_vars /\ \A p \in Procs : WF_vars(pc[p] # "start" /\ Step(p))
----------------------------------------------------------------------------
(* The processes that have counted themselves in and not out. *)
Members(m) == {p \in Procs : at[p] = m /\ pc[p] \in {"count", "leave"}}

(* process_count is the number of the processes that use the memory, so that   *)
(* only the last one to go removes it.  In dz8 a process that found the memory *)
(* empty stores 0 after others may have counted themselves in: it may be less  *)
(* (counter8.c:73), never more.                                                *)
MembersAreCounted ==
  \A m \in Memories :
    /\ process_count[m] <= Cardinality(Members(m))
    /\ program = "dz7" => process_count[m] = Cardinality(Members(m))

(* When everybody has gone the memory is removed (cleanup), so that the next   *)
(* count begins at 0.  In dz8 one whose process_count has become negative, for *)
(* the same reason, stays for ever.                                            *)
NothingLeftBehind ==
  (\A p \in Procs : pc[p] \in {"start", "ended", "failed"}) =>
    \/ named = None
    \/ program = "dz8" /\ process_count[named] < 0

(* A process that has been sent a signal goes home, whichever memory it is in  *)
(* and whoever removes that (the loop of main and cleanup).                    *)
SignalEndsProcess ==
  \A p \in Procs : ~keep_running[p] ~> pc[p] \in {"ended", "failed"}
=============================================================================
