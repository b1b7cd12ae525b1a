----------------------------- MODULE CountersProofs -----------------------------
(***************************************************************************)
(* Proofs about the shared counters of dz7 and dz8, for every number of    *)
(* processes that come, are sent signals and go in any order: how far      *)
(* process_count can be trusted, and that the last to go removes the       *)
(* memory.                                                                 *)
(***************************************************************************)
EXTENDS Counters, FiniteSetTheorems, TLAPS

Storing == {"stat", "truncate", "store_counter", "store_count"}
Places == {"start", "attach", "join", "count", "leave", "detach", "remove", "ended", "failed"}
            \cup Storing
Started == {p \in Procs : pc[p] # "start"}

(* Every memory has been made by a process of its own; only dz8 stores zeros. *)
Types ==
  /\ program \in {"dz7", "dz8"}
  /\ made \in Nat /\ named \in 0..made /\ made <= Cardinality(Started)
  /\ process_count \in [Memories -> Int]
  /\ at \in [Procs -> 0..made] /\ pc \in [Procs -> Places] /\ remaining \in [Procs -> Int]
  /\ \A p \in Procs : pc[p] # "start" => at[p] # None
  /\ program = "dz7" => \A p \in Procs : pc[p] \notin Storing

(* A process that will still count itself in or out, or remove the memory. *)
Active(p) == \/ pc[p] \in Storing \cup {"attach", "join", "count", "leave", "remove"}
             \/ pc[p] = "detach" /\ remaining[p] = 0

(* A memory that can be found is in use, or was counted below zero. *)
NamedIsInUse ==
  named # None => \/ \E p \in Procs : at[p] = named /\ Active(p)
                  \/ process_count[named] < 0

IInv == Types /\ MembersAreCounted /\ NamedIsInUse

----------------------------------------------------------------------------
LEMMA StartedIsFinite ==
  /\ IsFiniteSet(Started) /\ Cardinality(Started) \in Nat
  /\ Cardinality(Started) <= Cardinality(Procs) /\ Cardinality(Procs) \in Nat
<1>1. Started \subseteq Procs
  BY DEF Started
<1>. QED BY <1>1, CountersAssumption, FS_Subset, FS_CardinalityType

LEMMA MembersAreFinite ==
  \A m \in Memories : /\ IsFiniteSet(Members(m)) /\ Cardinality(Members(m)) \in Nat
                      /\ IsFiniteSet(Members(m)') /\ Cardinality(Members(m)') \in Nat
<1>. TAKE m \in Memories
<1>1. Members(m) \subseteq Procs /\ Members(m)' \subseteq Procs
  BY DEF Members
<1>. QED BY <1>1, CountersAssumption, FS_Subset, FS_CardinalityType

(* The memory of a process that has one is among those the model follows. *)
LEMMA MemoryOf ==
  ASSUME Types, NEW p \in Procs, pc[p] # "start" PROVE at[p] \in Memories /\ at[p] # None
BY StartedIsFinite DEF Types, Memories, None

(* The first call of a process is the only one that makes a memory. *)
LEMMA FindTypes ==
  ASSUME Types, NEW p \in Procs, NEW to \in Places \ {"start"}, Go(p, "start", to), Find(p),
         program = "dz7" => to \notin Storing,
         UNCHANGED <<program, process_count, remaining>>
  PROVE  Types'
<1>1. Started' = Started \cup {p} /\ p \notin Started
  BY DEF Started, Go, Types
<1>2. Cardinality(Started') = Cardinality(Started) + 1
  BY <1>1, StartedIsFinite, FS_AddElement
<1>3. made' \in {made, made + 1} /\ named' \in 1..made' /\ at' = [at EXCEPT ![p] = named']
  BY DEF Find, Types, None
<1>4. made' \in Nat /\ named' \in 0..made' /\ made' <= Cardinality(Started')
  BY <1>2, <1>3, StartedIsFinite DEF Types
<1>5. at' \in [Procs -> 0..made']
  BY <1>3 DEF Types
<1>6. pc' = [pc EXCEPT ![p] = to] /\ pc' \in [Procs -> Places]
  BY DEF Go, Types
<1>7. \A q \in Procs : pc'[q] # "start" => at'[q] # None
  BY <1>3, <1>6 DEF Types, None
<1>8. program' = "dz7" => \A q \in Procs : pc'[q] \notin Storing
  BY <1>6 DEF Types
<1>. QED BY <1>4, <1>5, <1>6, <1>7, <1>8 DEF Types

(* All other steps keep the memories or take the name away. *)
LEMMA MovesTypes ==
  ASSUME Types, NEW p \in Procs, pc[p] # "start", NEW to \in Places \ {"start"},
         pc' = [pc EXCEPT ![p] = to],
         program = "dz7" => to \notin Storing,
         named' \in {named, None}, UNCHANGED <<program, made, at>>,
         process_count' \in [Memories -> Int], remaining' \in [Procs -> Int]
  PROVE  Types'
<1>1. /\ Started' = Started /\ pc' \in [Procs -> Places]
      /\ \A q \in Procs : pc'[q] # "start" <=> pc[q] # "start"
  BY DEF Started, Types
<1>2. named' \in 0..made' /\ made' <= Cardinality(Started')
  BY <1>1 DEF Types, None
<1>3. program' = "dz7" => \A q \in Procs : pc'[q] \notin Storing
  BY DEF Types
<1>. QED BY <1>1, <1>2, <1>3 DEF Types

LEMMA TypesStep == ASSUME Types, [Next]_vars PROVE Types'
<1>1. CASE UNCHANGED vars
  BY <1>1 DEF vars, memory, fields, locals, Types, Started
<1>2. ASSUME NEW p \in Procs, Shmget(p) PROVE Types'
  BY <1>2, FindTypes DEF Shmget, fields, Places, Storing
<1>3. ASSUME NEW p \in Procs, ShmOpen(p) PROVE Types'
  BY <1>3, FindTypes DEF ShmOpen, fields, Places, Storing
<1>4. ASSUME NEW p \in Procs, Shmat(p) \/ Detach(p) \/ Count(p) \/ Remove(p) PROVE Types'
  <2>0. pc \in [Procs -> Places] /\ process_count \in [Memories -> Int] /\ remaining \in [Procs -> Int]
    BY DEF Types
  <2>1. CASE Shmat(p)
    BY <2>0, <2>1, MovesTypes DEF Shmat, Go, memory, fields, locals, Places, Storing
  <2>2. CASE Detach(p)
    BY <2>0, <2>2, MovesTypes DEF Detach, Go, memory, fields, locals, Places, Storing
  <2>3. CASE Remove(p)
    BY <2>0, <2>3, MovesTypes DEF Remove, Go, memory, fields, locals, Places, Storing
  <2>4. CASE Count(p) /\ keep_running[p]
    BY <2>4 DEF Count, memory, locals, Types, Started
  <2>5. CASE Count(p) /\ ~keep_running[p]
    BY <2>0, <2>5, MovesTypes DEF Count, Go, memory, locals, Places, Storing
  <2>. QED BY <1>4, <2>1, <2>2, <2>3, <2>4, <2>5
<1>5. ASSUME NEW p \in Procs, Fstat(p) \/ Ftruncate(p) \/ StoreCounter(p) \/ StoreCount(p)
      PROVE  Types'
  <2>0. /\ pc[p] \in Storing /\ program # "dz7" /\ remaining \in [Procs -> Int]
        /\ process_count \in [Memories -> Int]
    BY <1>5 DEF Types, Fstat, Ftruncate, StoreCounter, StoreCount, Go, Storing
  <2>1. process_count' \in [Memories -> Int]
    BY <1>5, <2>0 DEF Fstat, Ftruncate, StoreCounter, StoreCount, fields
  <2>. QED BY <1>5, <2>0, <2>1, MovesTypes
       DEF Fstat, Ftruncate, StoreCounter, StoreCount, Go, memory, fields, locals, Places, Storing
<1>6. ASSUME NEW p \in Procs, Join(p) \/ Leave(p) PROVE Types'
  <2>1. pc[p] \in {"join", "leave"}
    BY <1>6 DEF Join, Leave, Go
  <2>2. at[p] \in Memories /\ process_count \in [Memories -> Int] /\ remaining \in [Procs -> Int]
    BY <2>1, MemoryOf DEF Types
  <2>3. process_count' \in [Memories -> Int] /\ remaining' \in [Procs -> Int]
    BY <1>6, <2>2 DEF Join, Leave, locals
  <2>. QED BY <1>6, <2>3, MovesTypes DEF Join, Leave, Go, memory, locals, Places, Storing
<1>7. ASSUME NEW p \in Procs, Signal(p) PROVE Types'
  BY <1>7 DEF Signal, memory, fields, locals, Types, Started
<1>. QED BY <1>1, <1>2, <1>3, <1>4, <1>5, <1>6, <1>7 DEF Next, Step

----------------------------------------------------------------------------
(* A step after which the same processes count themselves as members. *)
LEMMA MembersKept ==
  ASSUME MembersAreCounted, UNCHANGED <<program, process_count>>,
         \A q \in Procs : pc'[q] \in {"count", "leave"} <=> pc[q] \in {"count", "leave"},
         \A q \in Procs : pc[q] \in {"count", "leave"} => at'[q] = at[q]
  PROVE  MembersAreCounted'
<1>1. \A m \in Memories : Members(m)' = Members(m)
  BY DEF Members
<1>. QED BY <1>1 DEF MembersAreCounted, Memories

LEMMA MembersStep == ASSUME Types, MembersAreCounted, [Next]_vars PROVE MembersAreCounted'
<1>0. pc \in [Procs -> Places] /\ at \in [Procs -> 0..made] /\ process_count \in [Memories -> Int]
  BY DEF Types
<1>1. CASE UNCHANGED vars
  BY <1>1, MembersKept DEF vars, fields, locals
<1>2. ASSUME NEW p \in Procs, Shmget(p) \/ ShmOpen(p) PROVE MembersAreCounted'
  <2>1. PICK to \in {"attach", "stat"} : pc[p] = "start" /\ pc' = [pc EXCEPT ![p] = to]
    BY <1>2 DEF Shmget, ShmOpen, Go
  <2>2. \A q \in Procs : q # p => at'[q] = at[q]
    BY <1>0, <1>2 DEF Shmget, ShmOpen, Find
  <2>. QED BY <1>0, <1>2, <2>1, <2>2, MembersKept DEF Shmget, ShmOpen, fields
<1>3. ASSUME NEW p \in Procs,
             Shmat(p) \/ Fstat(p) \/ Ftruncate(p) \/ StoreCounter(p) \/ Count(p) \/ Detach(p)
               \/ Remove(p) \/ Signal(p)
      PROVE  MembersAreCounted'
  <2>1. UNCHANGED <<program, process_count, at>>
    BY <1>3 DEF Shmat, Fstat, Ftruncate, StoreCounter, Count, Detach, Remove, Signal, fields, locals
  <2>2. \A q \in Procs : pc'[q] \in {"count", "leave"} <=> pc[q] \in {"count", "leave"}
    BY <1>0, <1>3 DEF Shmat, Fstat, Ftruncate, StoreCounter, Count, Detach, Remove, Signal, Go
  <2>. QED BY <2>1, <2>2, MembersKept
<1>4. ASSUME NEW p \in Procs, StoreCount(p) PROVE MembersAreCounted'
  <2>1. /\ pc[p] = "store_count" /\ pc' = [pc EXCEPT ![p] = "join"] /\ UNCHANGED <<program, at>>
        /\ process_count' = [process_count EXCEPT ![at[p]] = 0]
    BY <1>4 DEF StoreCount, Go, locals
  <2>2. \A m \in Memories : Members(m)' = Members(m)
    BY <1>0, <2>1 DEF Members
  <2>3. program # "dz7"
    BY <2>1 DEF Types, Storing
  <2>4. \A m \in Memories : process_count'[m] <= Cardinality(Members(m))
    BY <1>0, <2>1, MembersAreFinite DEF MembersAreCounted
  <2>. QED BY <2>1, <2>2, <2>3, <2>4 DEF MembersAreCounted, Memories
<1>5. ASSUME NEW p \in Procs, Join(p) PROVE MembersAreCounted'
  <2>1. pc[p] = "join" /\ pc' = [pc EXCEPT ![p] = "count"] /\ UNCHANGED <<program, at>>
    BY <1>5 DEF Join, Go, locals
  <2>2. PICK n \in Memories : n = at[p]
    BY <2>1, MemoryOf
  <2>3. process_count'[n] = process_count[n] + 1 /\ process_count[n] \in Int
    BY <1>0, <1>5, <2>2 DEF Join
  <2>4. Members(n)' = Members(n) \cup {p} /\ p \notin Members(n)
    BY <1>0, <2>1, <2>2 DEF Members
  <2>5. Cardinality(Members(n)') = Cardinality(Members(n)) + 1
    BY <2>4, MembersAreFinite, FS_AddElement
  <2>6. \A m \in Memories : m # n => process_count'[m] = process_count[m] /\ Members(m)' = Members(m)
    BY <1>0, <1>5, <2>1, <2>2 DEF Join, Members
  <2>7. /\ process_count'[n] <= Cardinality(Members(n)')
        /\ program = "dz7" => process_count'[n] = Cardinality(Members(n)')
    BY <2>3, <2>5, MembersAreFinite DEF MembersAreCounted
  <2>. QED BY <2>1, <2>6, <2>7 DEF MembersAreCounted, Memories
<1>6. ASSUME NEW p \in Procs, Leave(p) PROVE MembersAreCounted'
  <2>1. pc[p] = "leave" /\ pc' = [pc EXCEPT ![p] = "detach"] /\ UNCHANGED <<program, at>>
    BY <1>6 DEF Leave, Go
  <2>2. PICK n \in Memories : n = at[p]
    BY <2>1, MemoryOf
  <2>3. process_count'[n] = process_count[n] - 1 /\ process_count[n] \in Int
    BY <1>0, <1>6, <2>2 DEF Leave
  <2>4. Members(n)' = Members(n) \ {p} /\ p \in Members(n)
    BY <1>0, <2>1, <2>2 DEF Members
  <2>5. Cardinality(Members(n)') = Cardinality(Members(n)) - 1
    BY <2>4, MembersAreFinite, FS_RemoveElement
  <2>6. \A m \in Memories : m # n => process_count'[m] = process_count[m] /\ Members(m)' = Members(m)
    BY <1>0, <1>6, <2>1, <2>2 DEF Leave, Members
  <2>7. /\ process_count'[n] <= Cardinality(Members(n)')
        /\ program = "dz7" => process_count'[n] = Cardinality(Members(n)')
    BY <2>3, <2>5, MembersAreFinite DEF MembersAreCounted
  <2>. QED BY <2>1, <2>6, <2>7 DEF MembersAreCounted, Memories
<1>. QED BY <1>1, <1>2, <1>3, <1>4, <1>5, <1>6 DEF Next, Step

----------------------------------------------------------------------------
(* A process that is still active keeps the name of its memory in use, *)
LEMMA InUseByMe ==
  ASSUME NamedIsInUse, NEW p \in Procs, Active(p)', at' = at, named' = named,
         \A q \in Procs : q # p => pc'[q] = pc[q] /\ remaining'[q] = remaining[q],
         named # None /\ at[p] # named => process_count'[named] = process_count[named]
  PROVE  NamedIsInUse'
BY DEF NamedIsInUse, Active

(* and one that has its part done does not release it. *)
LEMMA InUseByOthers ==
  ASSUME NamedIsInUse, NEW p \in Procs, ~Active(p) \/ at[p] # named, at' = at, named' = named,
         \A q \in Procs : q # p => pc'[q] = pc[q] /\ remaining'[q] = remaining[q],
         process_count'[named] = process_count[named]
  PROVE  NamedIsInUse'
BY DEF NamedIsInUse, Active

LEMMA InUseStep == ASSUME IInv, [Next]_vars PROVE NamedIsInUse'
<1>. USE DEF IInv
<1>0. /\ pc \in [Procs -> Places] /\ at \in [Procs -> 0..made] /\ remaining \in [Procs -> Int]
      /\ process_count \in [Memories -> Int]
  BY DEF Types
<1>1. CASE UNCHANGED vars
  BY <1>1 DEF vars, memory, fields, locals, NamedIsInUse, Active
<1>2. ASSUME NEW p \in Procs, Shmget(p) \/ ShmOpen(p) PROVE NamedIsInUse'
  <2>1. PICK to \in {"attach", "stat"} : pc[p] = "start" /\ pc' = [pc EXCEPT ![p] = to]
    BY <1>2 DEF Shmget, ShmOpen, Go
  <2>2. at' = [at EXCEPT ![p] = named']
    BY <1>2 DEF Shmget, ShmOpen, Find
  <2>3. at'[p] = named' /\ Active(p)'
    BY <1>0, <2>1, <2>2 DEF Active, Storing
  <2>. QED BY <2>3 DEF NamedIsInUse
<1>3. ASSUME NEW p \in Procs,
             Shmat(p) \/ Fstat(p) \/ Ftruncate(p) \/ StoreCounter(p) \/ Count(p)
      PROVE  NamedIsInUse'
  <2>1. /\ UNCHANGED <<at, named, process_count, remaining>>
        /\ \A q \in Procs : q # p => pc'[q] = pc[q]
    BY <1>0, <1>3 DEF Shmat, Fstat, Ftruncate, StoreCounter, Count, Go, memory, fields, locals
  <2>2. pc'[p] \in Storing \cup {"attach", "join", "count", "leave"} \/ (Shmat(p) /\ at[p] # named)
    BY <1>0, <1>3 DEF Shmat, Fstat, Ftruncate, StoreCounter, Count, Go, Storing
  <2>3. CASE pc'[p] \in Storing \cup {"attach", "join", "count", "leave"}
    <3>1. Active(p)'
      BY <2>3 DEF Active
    <3>. QED BY <2>1, <3>1, InUseByMe
  <2>4. CASE Shmat(p) /\ at[p] # named
    BY <2>1, <2>4, InUseByOthers
  <2>. QED BY <2>2, <2>3, <2>4
<1>4. ASSUME NEW p \in Procs, StoreCount(p) \/ Join(p) PROVE NamedIsInUse'
  <2>0. PICK to \in {"join", "count"} : pc' = [pc EXCEPT ![p] = to]
    BY <1>4 DEF StoreCount, Join, Go
  <2>1. /\ UNCHANGED <<at, named, remaining>> /\ pc'[p] \in {"join", "count"}
        /\ \A q \in Procs : q # p => pc'[q] = pc[q]
    <3>1. UNCHANGED <<at, named, remaining>>
      BY <1>4 DEF StoreCount, Join, memory, locals
    <3>. QED BY <1>0, <2>0, <3>1
  <2>2. Active(p)'
    BY <2>1 DEF Active
  <2>3. named # None => named \in Memories
    BY StartedIsFinite DEF Types, Memories, None
  <2>4. named # None /\ at[p] # named => process_count'[named] = process_count[named]
    BY <1>0, <1>4, <2>3 DEF StoreCount, Join
  <2>. QED BY <2>1, <2>2, <2>4, InUseByMe
<1>5. ASSUME NEW p \in Procs, Leave(p) PROVE NamedIsInUse'
  <2>1. /\ pc[p] = "leave" /\ pc' = [pc EXCEPT ![p] = "detach"] /\ UNCHANGED <<at, named, program>>
        /\ \A q \in Procs : q # p => remaining'[q] = remaining[q]
    BY <1>0, <1>5 DEF Leave, Go, memory
  <2>2. PICK n \in Memories : n = at[p]
    BY <2>1, MemoryOf
  <2>3. remaining'[p] = process_count'[n] /\ process_count'[n] = process_count[n] - 1
    BY <1>0, <1>5, <2>2 DEF Leave
  <2>4. CASE n # named
    <3>1. process_count'[named] = process_count[named]
      BY <1>0, <1>5, <2>2, <2>4 DEF Leave
    <3>. QED BY <1>0, <2>1, <2>2, <2>4, <3>1, InUseByOthers
  <2>5. CASE n = named /\ remaining'[p] = 0
    <3>1. Active(p)'
      BY <1>0, <2>1, <2>5 DEF Active
    <3>. QED BY <1>0, <2>1, <2>2, <2>5, <3>1, InUseByMe
  <2>6. CASE n = named /\ process_count'[n] < 0
    BY <2>1, <2>6 DEF NamedIsInUse
  <2>7. CASE n = named /\ process_count'[n] > 0
    <3>1. process_count'[n] <= Cardinality(Members(n)')
      BY <2>1, MembersStep DEF MembersAreCounted, Memories
    <3>2. Members(n)' # {}
      BY <1>0, <2>3, <2>7, <3>1, FS_EmptySet, MembersAreFinite
    <3>3. PICK q \in Procs : at'[q] = n /\ pc'[q] \in {"count", "leave"}
      BY <3>2 DEF Members
    <3>4. Active(q)'
      BY <3>3 DEF Active
    <3>. QED BY <2>1, <2>7, <3>3, <3>4 DEF NamedIsInUse
  <2>. QED BY <1>0, <2>3, <2>4, <2>5, <2>6, <2>7
<1>6. ASSUME NEW p \in Procs, Detach(p) PROVE NamedIsInUse'
  <2>1. /\ UNCHANGED <<at, named, process_count, remaining>> /\ pc[p] = "detach"
        /\ pc' = [pc EXCEPT ![p] = IF remaining[p] = 0 THEN "remove" ELSE "ended"]
    BY <1>6 DEF Detach, Go, memory, fields, locals
  <2>2. CASE remaining[p] = 0
    <3>1. Active(p)'
      BY <1>0, <2>1, <2>2 DEF Active
    <3>. QED BY <1>0, <2>1, <3>1, InUseByMe
  <2>3. CASE remaining[p] # 0
    <3>1. ~Active(p)
      BY <2>1, <2>3 DEF Active, Storing
    <3>. QED BY <1>0, <2>1, <3>1, InUseByOthers
  <2>. QED BY <2>2, <2>3
<1>7. ASSUME NEW p \in Procs, Remove(p) PROVE NamedIsInUse'
  <2>1. /\ UNCHANGED <<at, process_count, remaining>> /\ pc' = [pc EXCEPT ![p] = "ended"]
        /\ named' = None \/ (named' = named /\ named # at[p])
    BY <1>7 DEF Remove, Go, fields, locals
  <2>2. CASE named' = None
    BY <2>2 DEF NamedIsInUse, None
  <2>3. CASE named' = named /\ named # at[p]
    BY <1>0, <2>1, <2>3, InUseByOthers
  <2>. QED BY <2>1, <2>2, <2>3
<1>8. ASSUME NEW p \in Procs, Signal(p) PROVE NamedIsInUse'
  BY <1>8 DEF Signal, memory, fields, locals, NamedIsInUse, Active
<1>. QED BY <1>1, <1>2, <1>3, <1>4, <1>5, <1>6, <1>7, <1>8 DEF Next, Step

----------------------------------------------------------------------------
LEMMA CountersInit == Init => IInv
<1>. SUFFICES ASSUME Init PROVE IInv
  OBVIOUS
<1>1. Started = {} /\ \A m \in Memories : Members(m) = {}
  BY DEF Init, Started, Members
<1>2. Types
  BY <1>1, FS_EmptySet DEF Init, Types, Places, None, Storing
<1>3. MembersAreCounted
  BY <1>1, FS_EmptySet DEF Init, MembersAreCounted
<1>4. NamedIsInUse
  BY DEF Init, NamedIsInUse
<1>. QED BY <1>2, <1>3, <1>4 DEF IInv

LEMMA CountersInvariant == Spec => []IInv
<1>1. IInv /\ [Next]_vars => IInv'
  BY TypesStep, MembersStep, InUseStep DEF IInv
<1>. QED BY <1>1, CountersInit, PTL DEF Spec

(* process_count is never more than the processes that use a memory, and in    *)
(* dz7 it is exactly their number.                                             *)
THEOREM MembersCorrect == Spec => []MembersAreCounted
<1>1. IInv => MembersAreCounted
  BY DEF IInv
<1>. QED BY <1>1, CountersInvariant, PTL

(* When all have gone no memory has a name but, in dz8, one that was counted   *)
(* below zero.                                                                 *)
THEOREM RemovalCorrect == Spec => []NothingLeftBehind
<1>1. IInv => NothingLeftBehind
  <2>. SUFFICES ASSUME IInv, \A p \in Procs : pc[p] \in {"start", "ended", "failed"}, named # None
                PROVE  program = "dz8" /\ process_count[named] < 0
    BY DEF NothingLeftBehind
  <2>1. process_count[named] < 0
    BY DEF IInv, NamedIsInUse, Active, Storing
  <2>2. named \in Memories
    BY StartedIsFinite DEF IInv, Types, Memories, None
  <2>3. program # "dz7"
    BY <2>1, <2>2, MembersAreFinite DEF IInv, MembersAreCounted
  <2>. QED BY <2>1, <2>3 DEF IInv, Types
<1>. QED BY <1>1, CountersInvariant, PTL
=============================================================================
