-------------------------- MODULE OrderLedger_proofs --------------------------
(***************************************************************************)
(* Proofs about OrderLedger, for any orders, placements, cancels and       *)
(* fills, of any sizes, and any number of restarts.                        *)
(***************************************************************************)
EXTENDS OrderLedger, Sums_proofs, SequenceTheorems, FiniteSetTheorems, WellFoundedInduction, TLAPS

-----------------------------------------------------------------------------
\* Types.  What a sweep leaves of a level list is a list again: a set of as many
\* positions as it has elements can be taken in order.

Rising(f, n) == \A i, j \in 1..n : i < j => f[i] < f[j]

\* A finite set of numbers, sorted by their order.
LEMMA OrderedAs ==
  ASSUME NEW K, K \subseteq Nat, IsFiniteSet(K)
  PROVE  \E f \in [1..Cardinality(K) -> K] : Rising(f, Cardinality(K))
<1> DEFINE R == {u \in K \X K : u[1] < u[2]}
<1>1. \A x, y \in K : <<x, y>> \in R <=> x < y
  OBVIOUS
<1>2. \A x, y, z \in K : ~(x < x) /\ (x # y => x < y \/ y < x) /\ (x < y /\ y < z => x < z)
  OBVIOUS
<1> HIDE DEF R
<1>3. PICK f \in [1..Cardinality(K) -> K] : Sorts(f, Cardinality(K), R)
  BY <1>1, <1>2, SortExists
<1> QED
  BY <1>1, <1>3 DEF Sorts, Rising

\* What a sweep leaves of an order's levels are some of them, in a list.
LEMMA RemainderAs ==
  ASSUME TypeOK, NEW o \in Orders
  PROVE  /\ Staying(o) \subseteq 1..Len(book[o]) /\ Cardinality(Staying(o)) \in Nat
         /\ DOMAIN book[o] = 1..Len(book[o]) /\ \A i \in 1..Len(book[o]) : book[o][i] \in Levels
         /\ \E at \in [1..Cardinality(Staying(o)) -> Staying(o)] :
              /\ Rising(at, Cardinality(Staying(o)))
              /\ Remainder(o) = [i \in 1..Cardinality(Staying(o)) |-> book[o][at[i]]]
<1>1. book[o] \in Seq(Levels)
  BY DEF TypeOK
<1>2. Len(book[o]) \in Nat /\ DOMAIN book[o] = 1..Len(book[o]) /\ \A i \in 1..Len(book[o]) : book[o][i] \in Levels
  BY <1>1, LenProperties, ElementOfSeq
<1> DEFINE K == Staying(o)
<1> DEFINE n == Cardinality(K)
<1>3. K \subseteq 1..Len(book[o]) /\ K \subseteq Nat
  BY <1>2 DEF Staying
<1>4. IsFiniteSet(K) /\ n \in Nat
  <2>1. 1 \in Int /\ Len(book[o]) \in Int
    BY <1>2
  <2>2. IsFiniteSet(1..Len(book[o]))
    BY <2>1, FS_Interval
  <2>3. IsFiniteSet(K)
    BY <1>3, <2>2, FS_Subset
  <2> QED
    BY <2>3, FS_CardinalityType
<1>5. \E f \in [1..n -> K] : \A i, j \in 1..n : i < j => f[i] < f[j]
  BY <1>3, <1>4, OrderedAs DEF Rising
<1> DEFINE at == CHOOSE f \in [1..n -> K] : \A i, j \in 1..n : i < j => f[i] < f[j]
<1>6. at \in [1..n -> K] /\ Rising(at, n)
  BY <1>5 DEF Rising
<1>7. Remainder(o) = [i \in 1..n |-> book[o][at[i]]]
  BY DEF Remainder
<1> HIDE DEF at
<1> QED
  BY <1>2, <1>3, <1>4, <1>6, <1>7

LEMMA RemainderIs ==
  ASSUME TypeOK, NEW o \in Orders
  PROVE  /\ Remainder(o) \in Seq(Levels)
         /\ \A i \in DOMAIN Remainder(o) : \E j \in DOMAIN book[o] : Remainder(o)[i] = book[o][j]
<1>1. PICK n, K : n = Cardinality(Staying(o)) /\ K = Staying(o) /\ n \in Nat /\ K \subseteq 1..Len(book[o])
  BY RemainderAs
<1>2. PICK at \in [1..n -> K] : Remainder(o) = [i \in 1..n |-> book[o][at[i]]]
  BY <1>1, RemainderAs
<1>3. \A i \in 1..n : at[i] \in DOMAIN book[o] /\ book[o][at[i]] \in Levels
  BY <1>1, RemainderAs
<1> QED
  BY <1>1, <1>2, <1>3

LEMMA Constants ==
  /\ \A o \in Orders : Size[o] \in Nat /\ Size[o] > 0
  /\ \A f \in Fills : FillSize[f] \in Nat /\ FillSize[f] > 0 /\ Takes[f] \in Orders
  /\ \A p \in Placements : Places[p] \in Orders /\ p \in Levels
  /\ \A c \in Cancels : Withdraws[c] \in Orders
  /\ \A f \in Fills : f \in Levels
  /\ \A o \in Orders : <<o, "hydrating">> \in Levels /\ <<o, "rehydrating">> \in Levels
  /\ IsFiniteSet(Fills) /\ MaxCrashes \in Nat
BY OrdersAssumption, FillsAssumption DEF Levels

\* The first level of a list that is not empty.
LEMMA FirstLevel ==
  ASSUME TypeOK, NEW o \in Orders, InBook(o)
  PROVE  Head(book[o]) \in Levels /\ 1 \in DOMAIN book[o] /\ Head(book[o]) = book[o][1]
<1>1. book[o] \in Seq(Levels) /\ book[o] # <<>>
  BY DEF TypeOK, InBook
<1>2. Len(book[o]) \in Nat \ {0} /\ DOMAIN book[o] = 1..Len(book[o]) /\ Head(book[o]) = book[o][1]
  BY <1>1, EmptySeq, LenProperties
<1>3. Head(book[o]) \in Levels
  BY <1>1, HeadTailProperties
<1> QED
  BY <1>2, <1>3

WorkRecord == [exec : Int, to : Statuses, level : Levels \cup {NoLevel}, rest : Int, core : BOOLEAN]

LEMMA ExecIs ==
  ASSUME NEW f \in Fills, NEW have \in Int
  PROVE  /\ Exec(f, have) \in Int /\ Exec(f, have) <= have /\ Exec(f, have) <= FillSize[f]
         /\ have >= 0 => Exec(f, have) >= 0
         /\ Exec(f, have) < FillSize[f] => Exec(f, have) = have
         /\ have - Exec(f, have) \in Int
BY Constants DEF Exec

LEMMA PlaceTypes ==
  ASSUME TypeOK, NEW p \in Placements, PlaceStep(p)
  PROVE  TypeOK'
<1> USE Constants DEF TypeOK, PlaceGoto, levels, table, fills, booting
<1>1. Places[p] \in Orders
  OBVIOUS
<1>2. \A o \in Orders : <<>> \in Seq(Levels) /\ InBook(o) => Head(book[o]) \in Levels
  BY FirstLevel
<1>3. CASE PlaceClear(p)
  BY <1>1, <1>3 DEF PlaceClear, Drop
<1>4. CASE PlaceReplace(p) \/ PlaceClose(p)
  BY <1>1, <1>4 DEF PlaceReplace, PlaceClose, WriteCancelled, Statuses
<1>5. CASE PlacePush(p)
  <2>1. Append(book[Places[p]], p) \in Seq(Levels)
    BY <1>1, AppendProperties
  <2> QED
    BY <1>1, <1>5, <2>1 DEF PlacePush
<1>6. CASE PlaceUpsert(p)
  BY <1>1, <1>6 DEF PlaceUpsert, UpsertRemaining, Statuses
<1>7. CASE PlaceAttach(p)
  BY <1>1, <1>2, <1>7 DEF PlaceAttach, AfterAttach
<1>8. CASE PlaceSave(p)
  BY <1>1, <1>8 DEF PlaceSave
<1>9. CASE PlaceUndo(p)
  BY <1>1, <1>9 DEF PlaceUndo, Drop
<1> QED
  BY <1>3, <1>4, <1>5, <1>6, <1>7, <1>8, <1>9 DEF PlaceStep

LEMMA CancelTypes ==
  ASSUME TypeOK, NEW c \in Cancels, CancelStep(c)
  PROVE  TypeOK'
<1> USE Constants DEF TypeOK, levels, table, fills, booting
<1>1. CASE CancelClear(c)
  BY <1>1 DEF CancelClear, Drop
<1>2. CASE CancelWrite(c)
  BY <1>2 DEF CancelWrite, WriteCancelled, Statuses
<1> QED
  BY <1>1, <1>2 DEF CancelStep

LEMMA ExpiryTypes ==
  ASSUME TypeOK, ExpiryStep
  PROVE  TypeOK'
<1> USE DEF TypeOK, levels, table, fills, booting
<1>1. CASE Sweep
  <2>1. \A o \in Orders : Remainder(o) \in Seq(Levels)
    BY RemainderIs
  <2> QED
    BY <1>1, <2>1 DEF Sweep
<1>2. ASSUME NEW o \in Orders, PassExpiry(o) PROVE TypeOK'
  BY <1>2 DEF PassExpiry
<1>3. ASSUME NEW o \in Orders, SweepWrite(o) PROVE TypeOK'
  BY <1>3 DEF SweepWrite, Statuses
<1> QED
  BY <1>1, <1>2, <1>3 DEF ExpiryStep

LEMMA WorkTyped ==
  ASSUME TypeOK
  PROVE  work \in [Fills -> WorkRecord] /\ \A f \in Fills :
           /\ work[f].exec \in Int /\ work[f].to \in Statuses /\ work[f].level \in Levels \cup {NoLevel}
           /\ work[f].rest \in Int /\ work[f].core \in BOOLEAN
BY DEF TypeOK, WorkRecord

\* What the steps of a fill do, with what they read of the state named.
LevelStep(f, o, l, e) ==
  /\ o = Takes[f] /\ stage[f] = "pending" /\ status[o] # "none" /\ boot \in {"started", "rehydrating", "up"}
  /\ l \in Levels /\ 1 \in DOMAIN book[o] /\ l = book[o][1]
  /\ e = Exec(f, size[l]) /\ e \in Nat /\ e <= size[l]
  /\ size' = [size EXCEPT ![l] = size[l] - e]
  /\ work' = [work EXCEPT ![f] = [exec |-> e, to |-> StatusFor(size[l] - e), level |-> l, rest |-> 0, core |-> FALSE]]
  /\ stage' = [stage EXCEPT ![f] = "writing"]
  /\ UNCHANGED <<book, dated, table, pc, cpc, expiring, overdrawn, expired, booting>>

LEMMA FillLevelIs ==
  ASSUME TypeOK, NEW f \in Fills, FillLevel(f)
  PROVE  \E o \in Orders, l \in Levels, e \in Nat : LevelStep(f, o, l, e)
<1> DEFINE o == Takes[f]
<1> DEFINE l == Head(book[o])
<1> DEFINE e == Exec(f, size[l])
<1>1. o \in Orders
  BY Constants
<1>2. l \in Levels /\ 1 \in DOMAIN book[o] /\ l = book[o][1]
  <2>1. InBook(o)
    BY DEF FillLevel
  <2> QED
    BY <1>1, <2>1, FirstLevel
<1>3. size[l] \in Nat
  BY <1>2 DEF TypeOK
<1>4. e \in Nat /\ e <= size[l]
  BY <1>3, Constants DEF Exec
<1>5. work' = [work EXCEPT ![f] = [exec |-> e, to |-> StatusFor(size[l] - e), level |-> l, rest |-> 0, core |-> FALSE]]
  BY DEF FillLevel
<1>6. /\ stage[f] = "pending" /\ status[o] # "none" /\ boot \in {"started", "rehydrating", "up"}
      /\ size' = [size EXCEPT ![l] = size[l] - e]
      /\ stage' = [stage EXCEPT ![f] = "writing"]
      /\ UNCHANGED <<book, dated, table, pc, cpc, expiring, overdrawn, expired, booting>>
  BY DEF FillLevel, Deliverable, Watching, FillGoto
<1>7. LevelStep(f, o, l, e)
  <2> HIDE DEF o, l, e
  <2>1. o = Takes[f] /\ e = Exec(f, size[l])
    BY DEF o, l, e
  <2> QED
    BY <1>2, <1>4, <1>5, <1>6, <2>1 DEF LevelStep
<1> QED
  BY <1>1, <1>2, <1>4, <1>7

ReadStep(f, o, e) ==
  /\ o = Takes[f] /\ stage[f] = "looking"
  /\ e = Exec(f, remaining[o])
  /\ work' = [work EXCEPT ![f] = [exec |-> e, to |-> StatusFor(remaining[o] - e), level |-> NoLevel,
                                  rest |-> remaining[o] - e, core |-> FALSE]]
  /\ overdrawn' = IF remaining[o] < 0 THEN overdrawn \cup {o} ELSE overdrawn
  /\ stage' = [stage EXCEPT ![f] = "reading"]
  /\ UNCHANGED <<levels, table, pc, cpc, expiring, expired, booting>>

LEMMA FillReadIs ==
  ASSUME TypeOK, NEW f \in Fills, FillRead(f)
  PROVE  \E o \in Orders, e \in Int : ReadStep(f, o, e)
<1> DEFINE o == Takes[f]
<1> DEFINE e == Exec(f, remaining[o])
<1>1. o \in Orders
  BY Constants
<1>2. remaining[o] \in Int /\ e \in Int /\ remaining[o] - e \in Int
  BY <1>1, ExecIs DEF TypeOK
<1>3. work' = [work EXCEPT ![f] = [exec |-> e, to |-> StatusFor(remaining[o] - e), level |-> NoLevel,
                                   rest |-> remaining[o] - e, core |-> FALSE]]
  BY DEF FillRead
<1>4. /\ stage[f] = "looking"
      /\ overdrawn' = IF remaining[o] < 0 THEN overdrawn \cup {o} ELSE overdrawn
      /\ stage' = [stage EXCEPT ![f] = "reading"]
      /\ UNCHANGED <<levels, table, pc, cpc, expiring, expired, booting>>
  BY DEF FillRead, FillGoto
<1>5. ReadStep(f, o, e)
  <2> HIDE DEF o, e
  <2>1. o = Takes[f] /\ e = Exec(f, remaining[o])
    BY DEF o, e
  <2> QED
    BY <1>3, <1>4, <2>1 DEF ReadStep
<1> QED
  BY <1>1, <1>2, <1>5

CoreStep(f, o, c) ==
  /\ o = Takes[f] /\ stage[f] = "reading"
  /\ c = (status[o] = "PLACED" /\ remaining[o] > 0)
  /\ work' = [work EXCEPT ![f] = [exec |-> work[f].exec, to |-> work[f].to, level |-> work[f].level,
                                  rest |-> work[f].rest, core |-> c]]
  /\ stage' = [stage EXCEPT ![f] = "writing"]
  /\ UNCHANGED <<levels, table, pc, cpc, expiring, overdrawn, expired, booting>>

LEMMA FillCoreIs ==
  ASSUME TypeOK, NEW f \in Fills, FillCore(f)
  PROVE  \E o \in Orders, c \in BOOLEAN : CoreStep(f, o, c)
<1> DEFINE o == Takes[f]
<1> DEFINE c == status[o] = "PLACED" /\ remaining[o] > 0
<1>1. o \in Orders
  BY Constants
<1>2. c \in BOOLEAN
  OBVIOUS
<1>3. work' = [work EXCEPT ![f] = [work[f] EXCEPT !.core = c]]
  BY WorkTyped DEF FillCore
<1>4. work[f] \in WorkRecord
  BY WorkTyped
<1>5. [work[f] EXCEPT !.core = c] = [exec |-> work[f].exec, to |-> work[f].to, level |-> work[f].level,
                                    rest |-> work[f].rest, core |-> c]
  <2> HIDE DEF c
  <2> QED
    BY <1>2, <1>4 DEF WorkRecord
<1>6. stage[f] = "reading" /\ stage' = [stage EXCEPT ![f] = "writing"]
      /\ UNCHANGED <<levels, table, pc, cpc, expiring, overdrawn, expired, booting>>
  BY DEF FillCore, FillGoto
<1>7. CoreStep(f, o, c)
  <2> HIDE DEF o, c
  <2>1. o = Takes[f] /\ c = (status[o] = "PLACED" /\ remaining[o] > 0)
    BY DEF o, c
  <2> QED
    BY <1>3, <1>5, <1>6, <2>1 DEF CoreStep
<1> QED
  BY <1>1, <1>2, <1>7

WriteStep(f, o) ==
  /\ o = Takes[f] /\ stage[f] = "writing"
  /\ remaining' = [remaining EXCEPT ![o] = remaining[o] - work[f].exec]
  /\ status' = [status EXCEPT ![o] = work[f].to]
  /\ stage' = [stage EXCEPT ![f] = "written"]
  /\ UNCHANGED <<levels, raw, pc, cpc, expiring, work, overdrawn, expired, booting>>

LEMMA FillWriteIs ==
  ASSUME TypeOK, NEW f \in Fills, FillWrite(f)
  PROVE  \E o \in Orders : WriteStep(f, o)
<1>1. Takes[f] \in Orders
  BY Constants
<1>2. WriteStep(f, Takes[f])
  BY <1>1 DEF FillWrite, WriteStep, FillGoto, TypeOK
<1> QED
  BY <1>1, <1>2

EndStep(f, o, list) ==
  /\ o = Takes[f] /\ stage[f] = "written"
  /\ book' = [book EXCEPT ![o] = list]
  /\ \/ list = <<>> /\ work[f].level # NoLevel /\ size[work[f].level] = 0
     \/ list = <<f>> /\ work[f].core /\ work[f].rest > 0
     \/ list = book[o] /\ ~(work[f].core /\ work[f].rest > 0)
  /\ size' = IF work[f].core /\ work[f].rest > 0 THEN [size EXCEPT ![f] = work[f].rest] ELSE size
  /\ stage' = [stage EXCEPT ![f] = "done"]
  /\ work' = [work EXCEPT ![f] = NoWork]
  /\ UNCHANGED <<dated, table, pc, cpc, expiring, overdrawn, expired, booting>>

LEMMA FillEndIs ==
  ASSUME TypeOK, NEW f \in Fills, FillEnd(f)
  PROVE  \E o \in Orders, list \in Seq(Levels) : EndStep(f, o, list)
<1> DEFINE o == Takes[f]
<1> DEFINE empty == work[f].level # NoLevel /\ size[work[f].level] = 0
<1> DEFINE hydrates == work[f].core /\ work[f].rest > 0
<1> DEFINE list == IF empty THEN <<>> ELSE IF hydrates THEN <<f>> ELSE book[o]
<1>1. o \in Orders
  BY Constants
<1>2. list \in Seq(Levels)
  <2>1. book[o] \in Seq(Levels) /\ f \in Levels
    BY <1>1, Constants DEF TypeOK
  <2>2. <<f>> \in Seq(Levels) /\ <<>> \in Seq(Levels)
    BY <2>1
  <2> QED
    BY <2>1, <2>2
<1>3. book' = [book EXCEPT ![o] = list]
  BY <1>1 DEF FillEnd, TypeOK
<1>4. /\ stage[f] = "written" /\ stage' = [stage EXCEPT ![f] = "done"] /\ work' = [work EXCEPT ![f] = NoWork]
      /\ size' = IF hydrates THEN [size EXCEPT ![f] = work[f].rest] ELSE size
      /\ UNCHANGED <<dated, table, pc, cpc, expiring, overdrawn, expired, booting>>
  BY DEF FillEnd, FillGoto
<1>5. \/ list = <<>> /\ empty
      \/ list = <<f>> /\ hydrates
      \/ list = book[o] /\ ~hydrates
  OBVIOUS
<1>6. EndStep(f, o, list)
  <2> HIDE DEF list
  <2> QED
    BY <1>3, <1>4, <1>5 DEF EndStep
<1> QED
  BY <1>1, <1>2, <1>6

LEMMA FillTypes ==
  ASSUME TypeOK, NEW f \in Fills, FillStep(f)
  PROVE  TypeOK'
<1> USE DEF levels, table, fills, booting
<1>1. \A x : StatusFor(x) \in Statuses
  BY DEF StatusFor, Statuses
<1>2. CASE FillLevel(f)
  <2>1. PICK o \in Orders, l \in Levels, e \in Nat : LevelStep(f, o, l, e)
    BY <1>2, FillLevelIs
  <2>2. size[l] - e \in Nat
    BY <2>1 DEF LevelStep, TypeOK
  <2>3. [exec |-> e, to |-> StatusFor(size[l] - e), level |-> l, rest |-> 0, core |-> FALSE] \in
          [exec : Int, to : Statuses, level : Levels \cup {NoLevel}, rest : Int, core : BOOLEAN]
    BY <1>1
  <2> QED
    BY <2>1, <2>2, <2>3 DEF LevelStep, TypeOK
<1>3. CASE FillMiss(f)
  BY <1>3 DEF FillMiss, FillGoto, TypeOK
<1>4. CASE FillRead(f)
  <2>1. PICK o \in Orders, e \in Int : ReadStep(f, o, e)
    BY <1>4, FillReadIs
  <2>2. remaining[o] - e \in Int
    BY DEF TypeOK
  <2>3. [exec |-> e, to |-> StatusFor(remaining[o] - e), level |-> NoLevel, rest |-> remaining[o] - e, core |-> FALSE] \in
          [exec : Int, to : Statuses, level : Levels \cup {NoLevel}, rest : Int, core : BOOLEAN]
    BY <1>1, <2>2
  <2> QED
    BY <2>1, <2>3 DEF ReadStep, TypeOK
<1>5. CASE FillCore(f)
  <2>1. PICK o \in Orders, c \in BOOLEAN : CoreStep(f, o, c)
    BY <1>5, FillCoreIs
  <2>2. [exec |-> work[f].exec, to |-> work[f].to, level |-> work[f].level, rest |-> work[f].rest, core |-> c] \in
          [exec : Int, to : Statuses, level : Levels \cup {NoLevel}, rest : Int, core : BOOLEAN]
    BY WorkTyped
  <2> QED
    BY <2>1, <2>2 DEF CoreStep, TypeOK
<1>6. CASE FillWrite(f)
  <2>1. PICK o \in Orders : WriteStep(f, o)
    BY <1>6, FillWriteIs
  <2>2. remaining[o] - work[f].exec \in Int /\ work[f].to \in Statuses
    BY WorkTyped DEF TypeOK
  <2> QED
    BY <2>1, <2>2 DEF WriteStep, TypeOK
<1>7. CASE FillEnd(f)
  <2>1. PICK o \in Orders, list \in Seq(Levels) : EndStep(f, o, list)
    BY <1>7, FillEndIs
  <2>2. work[f].rest > 0 => work[f].rest \in Nat
    BY WorkTyped
  <2>3. size' \in [Levels -> Nat]
    BY <2>1, <2>2, Constants DEF EndStep, TypeOK
  <2>4. NoWork \in [exec : Int, to : Statuses, level : Levels \cup {NoLevel}, rest : Int, core : BOOLEAN]
    BY DEF NoWork, Statuses
  <2> QED
    BY <2>1, <2>3, <2>4 DEF EndStep, TypeOK
<1> QED
  BY <1>2, <1>3, <1>4, <1>5, <1>6, <1>7 DEF FillStep

\* What a restart does to the stages of the fills.
Restage(f) ==
  \/ stage'[f] = stage[f] /\ stage[f] \in {"pending", "done", "lost"}
  \/ stage'[f] = "pending" /\ stage[f] \in {"looking", "reading", "writing", "written", "done"}
  \/ stage'[f] = "lost" /\ stage[f] \in {"looking", "reading", "writing"}
  \/ stage'[f] = "done" /\ stage[f] = "written"

LEMMA CrashStages ==
  ASSUME TypeOK, Crash
  PROVE  stage' = [f \in Fills |-> stage'[f]] /\ \A f \in Fills : Restage(f)
<1>1. PICK again \in SUBSET {f \in Fills : Handler[f] = "watcher" /\ stage[f] \in {"written", "done"}} :
       stage' = [f \in Fills |->
         CASE f \in again -> "pending"
           [] stage[f] \in {"looking", "reading", "writing"} ->
                IF Handler[f] = "watcher" THEN "pending" ELSE "lost"
           [] stage[f] = "written" /\ f \notin again -> "done"
           [] OTHER -> stage[f]]
  BY DEF Crash
<1>2. ASSUME NEW f \in Fills PROVE Restage(f)
  <2>1. stage[f] \in {"pending", "looking", "reading", "writing", "written", "done", "lost"}
    BY DEF TypeOK
  <2>2. stage'[f] = CASE f \in again -> "pending"
           [] stage[f] \in {"looking", "reading", "writing"} ->
                IF Handler[f] = "watcher" THEN "pending" ELSE "lost"
           [] stage[f] = "written" /\ f \notin again -> "done"
           [] OTHER -> stage[f]
    BY <1>1
  <2>3. CASE f \in again
    <3>1. stage[f] \in {"written", "done"} /\ stage'[f] = "pending"
      BY <1>1, <2>2, <2>3
    <3> QED
      BY <3>1 DEF Restage
  <2>4. CASE f \notin again
    BY <2>1, <2>2, <2>4 DEF Restage
  <2> QED
    BY <2>3, <2>4
<1> QED
  BY <1>1, <1>2

LEMMA BootTypes ==
  ASSUME TypeOK, BootStep
  PROVE  TypeOK'
<1> USE DEF levels, table, fills, booting
<1>1. CASE Crash
  <2>1. stage' \in [Fills -> {"pending", "looking", "reading", "writing", "written", "done", "lost"}]
    BY <1>1, CrashStages DEF Restage
  <2>2. crashes' \in 0..MaxCrashes
    BY <1>1, OrdersAssumption DEF Crash, TypeOK
  <2>3. work' \in [Fills -> [exec : Int, to : Statuses, level : Levels \cup {NoLevel}, rest : Int, core : BOOLEAN]]
    BY <1>1 DEF Crash, NoWork, Statuses
  <2>4. book' \in [Orders -> Seq(Levels)] /\ size' \in [Levels -> Nat] /\ stale' \in [Orders -> Nat]
    BY <1>1 DEF Crash
  <2>5. dated' \subseteq Levels /\ expiring' \subseteq Orders /\ boot' = "down"
    BY <1>1 DEF Crash
  <2>6. cpc' \in [Cancels -> {"idle", "writing", "done"}]
    BY <1>1 DEF Crash, TypeOK
  <2>7. pc' \in [Placements -> {"idle", "replacing", "pushing", "upserting", "attaching", "saving",
                            "undoing", "withdrawing", "closing", "placed", "failed"}]
    BY <1>1 DEF Crash, TypeOK
  <2> QED
    BY <1>1, <2>1, <2>2, <2>3, <2>4, <2>5, <2>6, <2>7 DEF Crash, TypeOK
<1>2. CASE BootRead
  <2>1. stale' \in [Orders -> Nat]
    BY <1>2 DEF BootRead, TypeOK
  <2> QED
    BY <1>2, <2>1 DEF BootRead, TypeOK
<1>3. CASE BootDone
  BY <1>3 DEF BootDone, TypeOK
<1>4. ASSUME NEW o \in Orders, Hydrate(o) PROVE TypeOK'
  <2>1. PICK l : l = <<o, boot>>
    OBVIOUS
  <2>2. l \in Levels
    BY <1>4, <2>1 DEF Hydrate, Levels
  <2>3. <<l>> \in Seq(Levels)
    BY <2>2
  <2>4. /\ book' = [book EXCEPT ![o] = <<l>>]
        /\ size' = [size EXCEPT ![l] = stale[o]]
        /\ dated' = IF o \in raw THEN dated \cup {l} ELSE dated
        /\ stale' = [stale EXCEPT ![o] = 0]
        /\ UNCHANGED <<table, pc, cpc, expiring, fills, expired, boot, crashes>>
    BY <1>4, <2>1 DEF Hydrate
  <2> QED
    BY <2>2, <2>3, <2>4 DEF TypeOK
<1> QED
  BY <1>1, <1>2, <1>3, <1>4 DEF BootStep

\* Only states of these types are reached; no level shrinks below zero.
THEOREM Typed == Spec => []TypeOK
<1>1. Init => TypeOK
  BY OrdersAssumption DEF Init, TypeOK, NoWork, Statuses
<1>2. TypeOK /\ [Next]_vars => TypeOK'
  <2> SUFFICES ASSUME TypeOK, [Next]_vars PROVE TypeOK'
    OBVIOUS
  <2>1. CASE UNCHANGED vars
    BY <2>1 DEF vars, levels, table, fills, booting, TypeOK
  <2>2. CASE Next
    BY <2>2, PlaceTypes, CancelTypes, ExpiryTypes, FillTypes, BootTypes DEF Next
  <2> QED
    BY <2>1, <2>2
<1> QED
  BY <1>1, <1>2, PTL DEF Spec

-----------------------------------------------------------------------------
\* What is invariant.

\* The fills of an order in a stage: those not yet measured, those measured and
\* not yet written (the rest are Applied), and what the row still owes the latter.
Mine(o, S) == {f \in Fills : Takes[f] = o /\ stage[f] \in S}
Open(o) == Mine(o, {"pending", "looking", "lost"})
Taken(o) == Mine(o, {"reading", "writing"})
Execs == [f \in Fills |-> work[f].exec]
Due(o) == Sum(Taken(o), Execs)
Left(o) == remaining[o] - Due(o)

Owns(o, l) ==
  \/ l \in Placements /\ Places[l] = o
  \/ l \in Fills /\ Takes[l] = o
  \/ l \in {o} \X {"hydrating", "rehydrating"}

\* The levels of an order that are in the book or in the hands of one of its fills.
Held(o) == {l \in Levels : \E i \in DOMAIN book[o] : book[o][i] = l}
Known(o) == Held(o) \cup ({work[f].level : f \in Mine(o, {"writing", "written"})} \ {NoLevel})

\* A fill that found no level has none, and what a fill takes is no more than it is.
WorkOK(f) ==
  /\ stage[f] = "reading" => work[f].level = NoLevel
  /\ stage[f] \in {"writing", "written"} /\ work[f].core => work[f].level = NoLevel
  /\ stage[f] \in {"reading", "writing"} =>
       /\ work[f].exec <= FillSize[f] /\ work[f].to \in {"PARTIALLY_FILLED", "FILLED"}
       /\ Takes[f] \notin overdrawn => work[f].exec >= 0

\* Nothing but placements' levels comes before the row.
Rowless(o) ==
  /\ o \notin overdrawn \cup expiring /\ remaining[o] = 0 /\ stale[o] = 0
  /\ \A f \in Fills : Takes[f] = o => stage[f] = "pending"
  /\ \A l \in Known(o) : size[l] = Size[o]

\* Whatever is to become the order's level covers what the row will have left.
Covers(o) ==
  /\ \A l \in Known(o) : Left(o) <= size[l]
  /\ \A f \in Mine(o, {"reading", "writing", "written"}) : work[f].level = NoLevel => Left(o) <= work[f].rest
  /\ stale[o] > 0 => Left(o) <= stale[o]

\* A fill cut short took all there was, and one that says FILLED left nothing.
Spent(o) ==
  /\ \A f \in Taken(o) : work[f].exec < FillSize[f] => Left(o) <= 0
  /\ status[o] = "FILLED" \/ (\E f \in Taken(o) : work[f].to = "FILLED") =>
       Left(o) <= Base(Open(o)) /\ (crashes = 0 => Left(o) <= 0)
  /\ status[o] # "none" => remaining[o] <= Size[o] - Base(Applied(o))

\* Before any restart no fill is cut short.
Exact(o) ==
  /\ boot = "up" /\ o \notin overdrawn /\ stale[o] = 0
  /\ status[o] # "none" => remaining[o] = Size[o] - Base(Applied(o))
  /\ \A f \in Taken(o) : work[f].exec = FillSize[f]
  /\ \A l \in Known(o) : size[l] >= Base(Open(o))
  /\ \A f \in Mine(o, {"reading", "writing", "written"}) : work[f].level = NoLevel => work[f].rest >= Base(Open(o))

OrderInv(o) ==
  /\ \A l \in Known(o) : Owns(o, l)
  /\ \A f \in Fills : Takes[f] = o => WorkOK(f)
  /\ status[o] = "none" => Rowless(o)
  /\ o \notin overdrawn => Covers(o) /\ Spent(o)
  /\ crashes = 0 => Exact(o)

DatedInv ==
  /\ \A l \in dated : \A o \in Orders : Owns(o, l) => status[o] # "none"
  /\ \A p \in Placements : pc[p] = "attaching" => status[Places[p]] # "none"

LedgerInv == DatedInv /\ \A o \in Orders : OrderInv(o)

\* Why an open order may be out of the book for now.
Excused(o) ==
  \/ boot = "down"
  \/ boot = "hydrating" /\ stale[o] > 0
  \/ \E p \in Placements : Places[p] = o /\ pc[p] \in
       {"replacing", "pushing", "attaching", "undoing", "withdrawing", "closing"}
  \/ \E c \in Cancels : Withdraws[c] = o /\ cpc[c] = "writing"
  \/ o \in expiring
  \/ Left(o) <= 0
AbsentInv ==
  \A o \in Orders \ overdrawn : status[o] = "PLACED" /\ remaining[o] > 0 /\ ~InBook(o) => Excused(o)

-----------------------------------------------------------------------------
\* Sums over fills.

LEMMA MineIs ==
  ASSUME NEW o, NEW S
  PROVE  Mine(o, S) \subseteq Fills /\ \A f : f \in Mine(o, S) <=> f \in Fills /\ Takes[f] = o /\ stage[f] \in S
BY DEF Mine

LEMMA SumJoins ==
  ASSUME NEW F \in SUBSET Fills, NEW f \in Fills \ F, NEW a, NEW b,
         \A x \in F : b[x] = a[x] /\ a[x] \in Nat, b[f] \in Nat
  PROVE  Sum(F \cup {f}, b) = Sum(F, a) + b[f] /\ Sum(F, a) \in Nat
<1>1. IsFiniteSet(F)
  BY Constants, FS_Subset
<1>2. Sum(F \cup {f}, b) = Sum(F, b) + b[f]
  BY <1>1, SumAdd
<1>3. Sum(F, b) = Sum(F, a)
  BY SumSame
<1>4. Sum(F, a) \in Nat
  BY <1>1, UnitsFinite
<1> QED
  BY <1>2, <1>3, <1>4

LEMMA SumLeaves ==
  ASSUME NEW F \in SUBSET Fills, NEW f \in F, NEW a, \A x \in F : a[x] \in Nat
  PROVE  Sum(F \ {f}, a) = Sum(F, a) - a[f] /\ Sum(F, a) \in Nat /\ Sum(F \ {f}, a) \in Nat
<1>1. IsFiniteSet(F)
  BY Constants, FS_Subset
<1> QED
  BY <1>1, SumRemove

\* What fills take is no more than they are.
LEMMA SumBelow ==
  ASSUME NEW F \in SUBSET Fills, NEW a, \A x \in F : a[x] \in Nat /\ a[x] <= FillSize[x]
  PROVE  Sum(F, a) <= Base(F) /\ Sum(F, a) \in Nat
<1>1. IsFiniteSet(F)
  BY Constants, FS_Subset
<1>2. \A x \in F : FillSize[x] \in Nat
  BY Constants
<1> QED
  BY <1>1, <1>2, SumGrows DEF Base

LEMMA BaseGrows ==
  ASSUME NEW F, NEW G \in SUBSET Fills, F \subseteq G
  PROVE  Base(F) <= Base(G) /\ Base(F) \in Nat /\ Base(G) \in Nat
<1>1. IsFiniteSet(G)
  BY Constants, FS_Subset
<1>2. \A x \in F : FillSize[x] \in Nat /\ FillSize[x] <= FillSize[x]
  BY Constants
<1>3. \A x \in G : FillSize[x] \in Nat
  BY Constants
<1> QED
  BY <1>1, <1>2, <1>3, SumGrows DEF Base

LEMMA BaseUnion ==
  ASSUME NEW F \in SUBSET Fills, NEW G \in SUBSET Fills, F \cap G = {}
  PROVE  Base(F \cup G) = Base(F) + Base(G) /\ Base(F) \in Nat /\ Base(G) \in Nat
<1>1. IsFiniteSet(F) /\ IsFiniteSet(G)
  BY Constants, FS_Subset
<1>2. \A x \in F \cup G : FillSize[x] \in Nat
  BY Constants
<1> QED
  BY <1>1, <1>2, SumUnion DEF Base

\* Two parts of an order's fills, or three, are together no more than its size.
LEMMA PartsFit ==
  ASSUME NEW o \in Orders, NEW A, NEW B, NEW C, A \cup B \cup C \subseteq {f \in Fills : Takes[f] = o},
         A \cap B = {}, A \cap C = {}, B \cap C = {}
  PROVE  Base(A) + Base(B) + Base(C) <= Size[o] /\ Base(A) \in Nat /\ Base(B) \in Nat /\ Base(C) \in Nat
<1>1. A \in SUBSET Fills /\ B \in SUBSET Fills /\ C \in SUBSET Fills /\ A \cup B \in SUBSET Fills
  OBVIOUS
<1>2. Base(A \cup B) = Base(A) + Base(B) /\ Base(A) \in Nat /\ Base(B) \in Nat
  BY <1>1, BaseUnion
<1>3. (A \cup B) \cap C = {}
  OBVIOUS
<1>4. Base(A \cup B \cup C) = Base(A \cup B) + Base(C) /\ Base(C) \in Nat
  BY <1>1, <1>3, BaseUnion
<1>5. {f \in Fills : Takes[f] = o} \in SUBSET Fills
  OBVIOUS
<1>6. Base(A \cup B \cup C) <= Base({f \in Fills : Takes[f] = o}) /\ Base({f \in Fills : Takes[f] = o}) \in Nat
        /\ Base(A \cup B \cup C) \in Nat
  BY <1>5, BaseGrows
<1>7. Base({f \in Fills : Takes[f] = o}) <= Size[o] /\ Size[o] \in Nat
  BY ChainAssumption, Constants
<1> QED
  BY <1>2, <1>4, <1>6, <1>7

LEMMA BaseAdds ==
  ASSUME NEW F \in SUBSET Fills, NEW f \in Fills \ F
  PROVE  Base(F \cup {f}) = Base(F) + FillSize[f] /\ Base(F) \in Nat
<1>1. \A x \in F : FillSize[x] = FillSize[x] /\ FillSize[x] \in Nat
  BY Constants
<1>2. FillSize[f] \in Nat
  BY Constants
<1> QED
  BY <1>1, <1>2, SumJoins DEF Base

LEMMA BaseLoses ==
  ASSUME NEW F \in SUBSET Fills, NEW f \in F
  PROVE  Base(F \ {f}) = Base(F) - FillSize[f] /\ Base(F) \in Nat /\ Base(F \ {f}) \in Nat
<1>1. \A x \in F : FillSize[x] \in Nat
  BY Constants
<1> QED
  BY <1>1, SumLeaves DEF Base

\* What the row still owes is a number, as long as no fill was measured below zero.
LEMMA LeftIs ==
  ASSUME TypeOK, NEW o \in Orders, OrderInv(o)
  PROVE  /\ Taken(o) \in SUBSET Fills /\ Open(o) \in SUBSET Fills /\ Applied(o) \in SUBSET Fills
         /\ remaining[o] \in Int /\ Base(Open(o)) \in Nat /\ Base(Taken(o)) \in Nat /\ Base(Applied(o)) \in Nat
         /\ Base(Open(o)) + Base(Taken(o)) + Base(Applied(o)) <= Size[o]
         /\ o \notin overdrawn =>
              /\ \A x \in Taken(o) : Execs[x] \in Nat /\ Execs[x] <= FillSize[x] /\ Execs[x] = work[x].exec
              /\ Due(o) \in Nat /\ Due(o) <= Base(Taken(o)) /\ Left(o) \in Int /\ Left(o) <= remaining[o]
<1>1. Taken(o) \in SUBSET Fills /\ Open(o) \in SUBSET Fills /\ Applied(o) \in SUBSET Fills
  BY DEF Taken, Open, Mine, Applied
<1>2. remaining[o] \in Int
  BY DEF TypeOK
<1>3. Base(Open(o)) + Base(Taken(o)) + Base(Applied(o)) <= Size[o] /\ Base(Open(o)) \in Nat
        /\ Base(Taken(o)) \in Nat /\ Base(Applied(o)) \in Nat
  <2>1. Open(o) \cup Taken(o) \cup Applied(o) \subseteq {f \in Fills : Takes[f] = o}
    BY DEF Taken, Open, Mine, Applied
  <2>2. Open(o) \cap Taken(o) = {} /\ Open(o) \cap Applied(o) = {} /\ Taken(o) \cap Applied(o) = {}
    BY DEF Taken, Open, Mine, Applied
  <2> QED
    BY <2>1, <2>2, PartsFit
<1>4. ASSUME o \notin overdrawn
      PROVE  /\ \A x \in Taken(o) : Execs[x] \in Nat /\ Execs[x] <= FillSize[x] /\ Execs[x] = work[x].exec
             /\ Due(o) \in Nat /\ Due(o) <= Base(Taken(o)) /\ Left(o) \in Int /\ Left(o) <= remaining[o]
  <2>1. ASSUME NEW x \in Taken(o)
        PROVE  Execs[x] \in Nat /\ Execs[x] <= FillSize[x] /\ Execs[x] = work[x].exec
    <3>1. x \in Fills /\ Takes[x] = o /\ stage[x] \in {"reading", "writing"}
      BY DEF Taken, Mine
    <3>2. WorkOK(x) /\ work[x].exec \in Int
      BY <3>1, WorkTyped DEF OrderInv
    <3> QED
      BY <1>4, <3>1, <3>2 DEF WorkOK, Execs
  <2>2. Due(o) \in Nat /\ Due(o) <= Base(Taken(o))
    BY <1>1, <2>1, SumBelow DEF Due
  <2> QED
    BY <1>2, <2>1, <2>2 DEF Left
<1> QED
  BY <1>1, <1>2, <1>3, <1>4

-----------------------------------------------------------------------------
\* Most steps leave what is said of an order as it was: its fills stay what they
\* are to the row, and a level that comes, or changes, covers what is left.

SameFill(f) ==
  \/ stage[f] = "written" /\ stage'[f] = "done"
  \/ /\ work'[f].exec = work[f].exec /\ work'[f].to = work[f].to
     /\ work'[f].level = work[f].level /\ work'[f].rest = work[f].rest
     /\ \/ stage'[f] = stage[f] /\ work'[f].core = work[f].core
        \/ stage[f] = "pending" /\ stage'[f] = "looking" /\ status[Takes[f]] # "none"
        \/ stage[f] = "reading" /\ stage'[f] = "writing"

Fresh(o, l) ==
  /\ status[o] = "none" => size'[l] = Size[o]
  /\ o \notin overdrawn => Left(o) <= size'[l]
  /\ crashes = 0 => size'[l] >= Base(Open(o))

SameLevels(o) ==
  /\ \A l \in Held(o)' : l \in Held(o) \/ (Owns(o, l) /\ Fresh(o, l))
  /\ \A l \in Levels : Owns(o, l) => size'[l] = size[l] \/ Fresh(o, l)

SameRow(o) ==
  /\ remaining'[o] = remaining[o]
  /\ status'[o] = "none" <=> status[o] = "none"
  /\ status'[o] = "FILLED" => status[o] = "FILLED"
  /\ o \in overdrawn' <=> o \in overdrawn
  /\ status[o] = "none" => o \notin expiring' /\ stale'[o] = 0
  /\ stale'[o] > 0 => o \in overdrawn \/ Left(o) <= stale'[o]
  /\ crashes' = crashes /\ (crashes = 0 => boot' = boot /\ stale'[o] = 0)

SameFills(o) == \A f \in Fills : Takes[f] = o => SameFill(f)

Still(o) == SameLevels(o) /\ SameRow(o) /\ SameFills(o)

LEMMA SameParts ==
  ASSUME NEW o \in Orders, SameFills(o)
  PROVE  /\ Open(o)' = Open(o) /\ Taken(o)' = Taken(o) /\ Applied(o)' = Applied(o)
         /\ \A f \in Mine(o, {"writing", "written"})' :
              /\ f \in Mine(o, {"writing", "written"}) \/ (f \in Fills /\ Takes[f] = o /\ stage[f] = "reading")
              /\ work'[f].level = work[f].level
         /\ \A f \in Mine(o, {"reading", "writing", "written"})' :
              /\ f \in Mine(o, {"reading", "writing", "written"})
              /\ work'[f].level = work[f].level /\ work'[f].rest = work[f].rest
         /\ \A f \in Taken(o) : work'[f].exec = work[f].exec /\ work'[f].to = work[f].to
         /\ Due(o)' = Due(o)
<1>1. \A f \in Fills : Takes[f] = o => SameFill(f)
  BY DEF SameFills
<1>2. Open(o)' = Open(o)
  BY <1>1 DEF Open, Mine, SameFill
<1>3. Taken(o)' = Taken(o)
  BY <1>1 DEF Taken, Mine, SameFill
<1>4. Applied(o)' = Applied(o)
  BY <1>1 DEF Applied, SameFill
<1>5. \A f \in Mine(o, {"writing", "written"})' :
        /\ f \in Mine(o, {"writing", "written"}) \/ (f \in Fills /\ Takes[f] = o /\ stage[f] = "reading")
        /\ work'[f].level = work[f].level
  BY <1>1 DEF Mine, SameFill
<1>6. \A f \in Mine(o, {"reading", "writing", "written"})' :
              /\ f \in Mine(o, {"reading", "writing", "written"})
              /\ work'[f].level = work[f].level /\ work'[f].rest = work[f].rest
  BY <1>1 DEF Mine, SameFill
<1>7. \A f \in Taken(o) : work'[f].exec = work[f].exec /\ work'[f].to = work[f].to
  BY <1>1 DEF Taken, Mine, SameFill
<1>8. Due(o)' = Due(o)
  <2>1. PICK T, a, b : T = Taken(o) /\ a = Execs /\ b = Execs'
    OBVIOUS
  <2>2. \A x \in T : b[x] = a[x]
    BY <1>7, <2>1 DEF Execs, Taken, Mine
  <2>3. Sum(T, b) = Sum(T, a)
    BY <2>2, SumSame
  <2> QED
    BY <1>3, <2>1, <2>3 DEF Due
<1> QED
  BY <1>2, <1>3, <1>4, <1>5, <1>6, <1>7, <1>8

LEMMA SameKnown ==
  ASSUME NEW o \in Orders, OrderInv(o), SameLevels(o), SameFills(o), NEW l \in Known(o)'
  PROVE  Owns(o, l) /\ ((l \in Known(o) /\ size'[l] = size[l]) \/ Fresh(o, l))
<1>1. CASE l \in Held(o)'
  <2>1. l \in Levels
    BY <1>1 DEF Held
  <2>2. CASE l \in Held(o)
    <3>1. l \in Known(o) /\ Owns(o, l)
      BY <2>2 DEF Known, OrderInv
    <3> QED
      BY <2>1, <3>1 DEF SameLevels
  <2> QED
    BY <1>1, <2>2 DEF SameLevels
<1>2. ASSUME NEW f \in Mine(o, {"writing", "written"})', l = work'[f].level, l # NoLevel
      PROVE  Owns(o, l) /\ ((l \in Known(o) /\ size'[l] = size[l]) \/ Fresh(o, l))
  <2>1. l = work[f].level
    BY <1>2, SameParts
  <2>2. f \in Mine(o, {"writing", "written"})
    <3>1. ASSUME f \in Fills, Takes[f] = o, stage[f] = "reading" PROVE FALSE
      <4>1. work[f].level = NoLevel
        BY <3>1 DEF OrderInv, WorkOK
      <4> QED
        BY <1>2, <2>1, <4>1
    <3> QED
      BY <3>1, SameParts
  <2>3. l \in Known(o) /\ Owns(o, l)
    BY <1>2, <2>1, <2>2 DEF Known, OrderInv
  <2>4. l \in Levels
    BY <2>3 DEF Owns, Levels
  <2> QED
    BY <2>3, <2>4 DEF SameLevels
<1> QED
  BY <1>1, <1>2 DEF Known

LEMMA SameWork ==
  ASSUME NEW o \in Orders, OrderInv(o), SameFills(o), SameRow(o), NEW f \in Fills, Takes[f] = o
  PROVE  WorkOK(f)'
<1>1. WorkOK(f) /\ SameFill(f)
  BY DEF OrderInv, SameFills
<1>2. CASE stage'[f] = "done"
  BY <1>2 DEF WorkOK
<1>3. CASE stage'[f] # "done"
  <2>1. /\ work'[f].exec = work[f].exec /\ work'[f].to = work[f].to /\ work'[f].level = work[f].level
        /\ \/ stage'[f] = stage[f] /\ work'[f].core = work[f].core
           \/ stage'[f] = "looking"
           \/ stage[f] = "reading" /\ stage'[f] = "writing"
    BY <1>1, <1>3 DEF SameFill
  <2> QED
    BY <1>1, <2>1 DEF WorkOK, SameRow
<1> QED
  BY <1>2, <1>3

LEMMA StillKeeps ==
  ASSUME TypeOK, NEW o \in Orders, OrderInv(o), Still(o)
  PROVE  OrderInv(o)'
<1>1. SameLevels(o) /\ SameRow(o) /\ SameFills(o)
  BY DEF Still
<1>2. \A l \in Known(o)' : Owns(o, l) /\ ((l \in Known(o) /\ size'[l] = size[l]) \/ Fresh(o, l))
  BY <1>1, SameKnown
<1>3. (\A f \in Fills : Takes[f] = o => WorkOK(f))'
  BY <1>1, SameWork
<1>4. Open(o)' = Open(o) /\ Taken(o)' = Taken(o) /\ Applied(o)' = Applied(o) /\ Due(o)' = Due(o)
  BY <1>1, SameParts
<1>5. Left(o)' = Left(o)
  BY <1>1, <1>4 DEF Left, SameRow
<1>6. Base(Open(o))' = Base(Open(o)) /\ Base(Applied(o))' = Base(Applied(o))
  BY <1>4 DEF Base
<1>7. ASSUME status'[o] = "none" PROVE Rowless(o)'
  <2>1. status[o] = "none" /\ Rowless(o)
    BY <1>1, <1>7 DEF SameRow, OrderInv
  <2>2. \A f \in Fills : Takes[f] = o => stage'[f] = "pending"
    BY <1>1, <2>1 DEF Rowless, SameFills, SameFill
  <2>3. \A l \in Known(o)' : size'[l] = Size[o]
    BY <1>2, <2>1 DEF Rowless, Fresh
  <2>4. o \notin overdrawn' \cup expiring' /\ remaining'[o] = 0 /\ stale'[o] = 0
    BY <1>1, <2>1 DEF Rowless, SameRow
  <2> QED
    BY <2>2, <2>3, <2>4 DEF Rowless
<1>8. ASSUME o \notin overdrawn' PROVE Covers(o)' /\ Spent(o)'
  <2>1. o \notin overdrawn /\ Covers(o) /\ Spent(o)
    BY <1>1, <1>8 DEF SameRow, OrderInv
  <2>2. \A l \in Known(o)' : Left(o) <= size'[l]
    BY <1>2, <2>1 DEF Covers, Fresh
  <2>3. \A f \in Mine(o, {"reading", "writing", "written"})' : work'[f].level = NoLevel => Left(o) <= work'[f].rest
    BY <1>1, <2>1, SameParts DEF Covers
  <2>4. stale'[o] > 0 => Left(o) <= stale'[o]
    BY <1>1, <2>1 DEF SameRow
  <2>5. Covers(o)'
    BY <1>5, <2>2, <2>3, <2>4 DEF Covers
  <2>6. \A f \in Taken(o) : work'[f].exec = work[f].exec /\ work'[f].to = work[f].to
    BY <1>1, SameParts
  <2>7. (\A f \in Taken(o) : work[f].exec < FillSize[f] => Left(o) <= 0)'
    BY <1>4, <1>5, <2>1, <2>6 DEF Spent
  <2>8. (status[o] = "FILLED" \/ (\E f \in Taken(o) : work[f].to = "FILLED") =>
           Left(o) <= Base(Open(o)) /\ (crashes = 0 => Left(o) <= 0))'
    BY <1>1, <1>4, <1>5, <1>6, <2>1, <2>6 DEF Spent, SameRow
  <2>9. (status[o] # "none" => remaining[o] <= Size[o] - Base(Applied(o)))'
    BY <1>1, <1>6, <2>1 DEF Spent, SameRow
  <2> QED
    BY <2>5, <2>7, <2>8, <2>9 DEF Spent
<1>9. ASSUME crashes' = 0 PROVE Exact(o)'
  <2>1. crashes = 0 /\ Exact(o)
    BY <1>1, <1>9 DEF SameRow, OrderInv
  <2>2. boot' = "up" /\ o \notin overdrawn' /\ stale'[o] = 0
    BY <1>1, <2>1 DEF SameRow, Exact
  <2>3. (status[o] # "none" => remaining[o] = Size[o] - Base(Applied(o)))'
    BY <1>1, <1>6, <2>1 DEF SameRow, Exact
  <2>4. \A f \in Taken(o)' : work'[f].exec = FillSize[f]
    BY <1>1, <1>4, <2>1, SameParts DEF Exact
  <2>5. \A l \in Known(o)' : size'[l] >= Base(Open(o))
    BY <1>2, <2>1 DEF Exact, Fresh
  <2>6. \A f \in Mine(o, {"reading", "writing", "written"})' : work'[f].level = NoLevel => work'[f].rest >= Base(Open(o))
    BY <1>1, <2>1, SameParts DEF Exact
  <2> QED
    BY <1>6, <2>2, <2>3, <2>4, <2>5, <2>6 DEF Exact
<1> QED
  BY <1>2, <1>3, <1>7, <1>8, <1>9 DEF OrderInv, Owns

-----------------------------------------------------------------------------
\* A fill is measured: it joins those the row has still to be told of.

Measured(f, o, s, e) ==
  /\ o = Takes[f] /\ stage[f] \in {"pending", "looking"}
  /\ s \in {"reading", "writing"} /\ stage' = [stage EXCEPT ![f] = s]
  /\ work'[f].exec = e /\ \A g \in Fills \ {f} : work'[g] = work[g]

LEMMA MeasuredParts ==
  ASSUME TypeOK, NEW f \in Fills, NEW o \in Orders, NEW s, NEW e \in Int, Measured(f, o, s, e), OrderInv(o)
  PROVE  /\ Open(o)' = Open(o) \ {f} /\ f \in Open(o)
         /\ Taken(o)' = Taken(o) \cup {f} /\ f \notin Taken(o)
         /\ Applied(o)' = Applied(o)
         /\ Base(Open(o)') = Base(Open(o)) - FillSize[f] /\ Base(Open(o)') \in Nat
         /\ o \notin overdrawn /\ e >= 0 => Due(o)' = Due(o) + e
<1>1. stage' \in [Fills -> {"pending", "looking", "reading", "writing", "written", "done", "lost"}]
        /\ stage'[f] = s /\ \A g \in Fills \ {f} : stage'[g] = stage[g]
  BY DEF TypeOK, Measured
<1>2. Open(o)' = Open(o) \ {f} /\ f \in Open(o)
  BY <1>1 DEF Open, Mine, Measured
<1>3. Taken(o)' = Taken(o) \cup {f} /\ f \notin Taken(o)
  BY <1>1 DEF Taken, Mine, Measured
<1>4. Applied(o)' = Applied(o)
  BY <1>1 DEF Applied, Measured
<1>5. Base(Open(o)') = Base(Open(o)) - FillSize[f] /\ Base(Open(o)') \in Nat
  <2>1. Open(o) \in SUBSET Fills
    BY DEF Open, Mine
  <2>2. PICK F : F = Open(o)
    OBVIOUS
  <2>3. Base(F \ {f}) = Base(F) - FillSize[f] /\ Base(F \ {f}) \in Nat
    BY <1>2, <2>1, <2>2, BaseLoses
  <2> QED
    BY <1>2, <2>2, <2>3
<1>6. ASSUME o \notin overdrawn, e >= 0 PROVE Due(o)' = Due(o) + e
  <2>1. PICK T, a, b : T = Taken(o) /\ a = Execs /\ b = Execs'
    OBVIOUS
  <2>2. T \in SUBSET Fills /\ \A x \in T : a[x] \in Nat
    BY <1>6, <2>1, LeftIs
  <2>3. b[f] = e /\ \A x \in T : b[x] = a[x]
    BY <1>3, <2>1, <2>2 DEF Measured, Execs
  <2>4. f \in Fills \ T
    BY <1>3, <2>1
  <2>5. b[f] \in Nat /\ \A x \in T : b[x] = a[x] /\ a[x] \in Nat
    BY <1>6, <2>2, <2>3
  <2>6. Sum(T \cup {f}, b) = Sum(T, a) + b[f]
    BY <2>2, <2>4, <2>5, SumJoins
  <2> QED
    BY <1>3, <2>1, <2>3, <2>6 DEF Due
<1> QED
  BY <1>2, <1>3, <1>4, <1>5, <1>6

LEMMA StatusForIs ==
  ASSUME NEW x \in Int
  PROVE  StatusFor(x) \in {"PARTIALLY_FILLED", "FILLED"} /\ (StatusFor(x) = "FILLED" => x <= 0)
BY DEF StatusFor

\* It is measured by a level: the level shrinks by what it takes.
LEMMA LevelStepKeeps ==
  ASSUME TypeOK, NEW f \in Fills, NEW o \in Orders, NEW l \in Levels, NEW e \in Nat, LevelStep(f, o, l, e), OrderInv(o)
  PROVE  OrderInv(o)'
<1>1. /\ o = Takes[f] /\ stage[f] = "pending" /\ status[o] # "none"
      /\ 1 \in DOMAIN book[o] /\ l = book[o][1] /\ e = Exec(f, size[l]) /\ e <= size[l]
      /\ size' = [size EXCEPT ![l] = size[l] - e] /\ stage' = [stage EXCEPT ![f] = "writing"]
      /\ book' = book /\ overdrawn' = overdrawn /\ expiring' = expiring
      /\ status' = status /\ remaining' = remaining /\ stale' = stale /\ boot' = boot /\ crashes' = crashes
  BY DEF LevelStep, table, booting
<1>2. /\ work'[f].exec = e /\ work'[f].to = StatusFor(size[l] - e) /\ work'[f].level = l /\ ~work'[f].core
      /\ \A g \in Fills \ {f} : work'[g] = work[g]
  BY DEF LevelStep, TypeOK
<1>3. /\ stage'[f] = "writing" /\ \A g \in Fills \ {f} : stage'[g] = stage[g]
  BY <1>1 DEF TypeOK
<1>4. size[l] \in Nat /\ size'[l] = size[l] - e /\ \A k \in Levels \ {l} : size'[k] = size[k]
  BY <1>1 DEF TypeOK
<1>5. e \in Int /\ e >= 0 /\ e <= FillSize[f] /\ (e < FillSize[f] => e = size[l])
  <2>1. e = IF FillSize[f] > size[l] THEN size[l] ELSE FillSize[f]
    BY <1>1 DEF Exec
  <2>2. FillSize[f] \in Nat
    BY Constants
  <2> QED
    BY <1>4, <2>1, <2>2
<1>6. Measured(f, o, "writing", e)
  BY <1>1, <1>2 DEF Measured
<1>7. /\ Open(o)' = Open(o) \ {f} /\ f \in Open(o)
      /\ Taken(o)' = Taken(o) \cup {f} /\ f \notin Taken(o)
      /\ Applied(o)' = Applied(o)
      /\ Base(Open(o)') = Base(Open(o)) - FillSize[f] /\ Base(Open(o)') \in Nat
      /\ o \notin overdrawn => Due(o)' = Due(o) + e
  BY <1>5, <1>6, MeasuredParts
<1>8. l \in Known(o) /\ l # NoLevel
  BY <1>1, LevelsAssumption DEF Known, Held
<1>9. \A k \in Known(o)' : k \in Known(o)
  <2>1. Held(o)' = Held(o)
    BY <1>1 DEF Held
  <2>2. ASSUME NEW g \in Mine(o, {"writing", "written"})', work'[g].level # NoLevel PROVE work'[g].level \in Known(o)
    <3>1. CASE g = f
      BY <1>2, <1>8, <3>1
    <3>2. CASE g # f
      BY <1>2, <1>3, <2>2, <3>2 DEF Mine, Known
    <3> QED
      BY <3>1, <3>2
  <2> QED
    BY <2>1, <2>2 DEF Known
<1>10. \A k \in Known(o) : k \in Levels /\ Owns(o, k)
  <2> TAKE k \in Known(o)
  <2>1. Owns(o, k)
    BY DEF OrderInv
  <2> QED
    BY <2>1 DEF Owns, Levels
<1>11. (\A g \in Fills : Takes[g] = o => WorkOK(g))'
  <2> SUFFICES ASSUME NEW g \in Fills, Takes[g] = o PROVE WorkOK(g)'
    OBVIOUS
  <2>1. CASE g = f
    <3>1. size[l] - e \in Int
      BY <1>4
    <3> QED
      BY <1>2, <1>3, <1>5, <2>1, <3>1, StatusForIs DEF WorkOK
  <2>2. CASE g # f
    BY <1>1, <1>2, <1>3, <2>2 DEF OrderInv, WorkOK
  <2> QED
    BY <2>1, <2>2
<1>12. \A g \in Mine(o, {"reading", "writing", "written"})' :
         work'[g].level = NoLevel => g \in Mine(o, {"reading", "writing", "written"}) /\ work'[g] = work[g]
  BY <1>2, <1>3, <1>8 DEF Mine
<1>13. ASSUME o \notin overdrawn PROVE Covers(o)' /\ Spent(o)'
  <2>1. Covers(o) /\ Spent(o)
    BY <1>13 DEF OrderInv
  <2>2. Left(o) \in Int /\ remaining[o] \in Int /\ Due(o) \in Nat
    BY <1>13, LeftIs
  <2>3. Left(o)' = Left(o) - e
    BY <1>1, <1>7, <1>13, <2>2 DEF Left
  <2>4. Left(o) <= size[l]
    BY <1>8, <2>1 DEF Covers
  <2>5. \A k \in Known(o)' : Left(o)' <= size'[k]
    <3> TAKE k \in Known(o)'
    <3>1. k \in Known(o) /\ k \in Levels /\ Left(o) <= size[k] /\ size[k] \in Nat
      BY <1>9, <1>10, <2>1 DEF Covers, TypeOK
    <3>2. CASE k = l
      BY <1>4, <2>2, <2>3, <2>4, <3>2
    <3>3. CASE k # l
      BY <1>4, <2>2, <2>3, <3>1, <3>3
    <3> QED
      BY <3>2, <3>3
  <2>6. \A g \in Mine(o, {"reading", "writing", "written"})' : work'[g].level = NoLevel => Left(o)' <= work'[g].rest
    <3> SUFFICES ASSUME NEW g \in Mine(o, {"reading", "writing", "written"})', work'[g].level = NoLevel
                 PROVE  Left(o)' <= work'[g].rest
      OBVIOUS
    <3>1. g \in Mine(o, {"reading", "writing", "written"}) /\ work'[g] = work[g] /\ g \in Fills
      BY <1>12 DEF Mine
    <3>2. Left(o) <= work[g].rest /\ work[g].rest \in Int
      BY <2>1, <3>1, WorkTyped DEF Covers
    <3> QED
      BY <2>2, <2>3, <3>1, <3>2
  <2>7. stale'[o] > 0 => Left(o)' <= stale'[o]
    <3>1. stale[o] \in Nat
      BY DEF TypeOK
    <3> QED
      BY <1>1, <2>1, <2>2, <2>3, <3>1 DEF Covers
  <2>8. e < FillSize[f] => Left(o)' <= 0
    BY <1>5, <2>2, <2>3, <2>4
  <2>9. \A g \in Taken(o)' : work'[g].exec < FillSize[g] => Left(o)' <= 0
    <3> SUFFICES ASSUME NEW g \in Taken(o)', work'[g].exec < FillSize[g] PROVE Left(o)' <= 0
      OBVIOUS
    <3>1. CASE g = f
      BY <1>2, <2>8, <3>1
    <3>2. CASE g # f
      <4>1. g \in Taken(o) /\ work'[g] = work[g]
        BY <1>2, <1>7, <3>2 DEF Taken, Mine
      <4>2. Left(o) <= 0
        BY <2>1, <4>1 DEF Spent
      <4> QED
        BY <2>2, <2>3, <4>2
    <3> QED
      BY <3>1, <3>2
  <2>10. (status[o] = "FILLED" \/ (\E g \in Taken(o) : work[g].to = "FILLED") =>
           Left(o) <= Base(Open(o)) /\ (crashes = 0 => Left(o) <= 0))'
    <3> SUFFICES ASSUME status'[o] = "FILLED" \/ (\E g \in Taken(o)' : work'[g].to = "FILLED")
                 PROVE  Left(o)' <= Base(Open(o)') /\ (crashes' = 0 => Left(o)' <= 0)
      BY DEF Base
    <3>1. CASE status[o] = "FILLED" \/ (\E g \in Taken(o) : work[g].to = "FILLED")
      <4>1. Left(o) <= Base(Open(o)) /\ (crashes = 0 => Left(o) <= 0)
        BY <2>1, <3>1 DEF Spent
      <4>2. Base(Open(o)) \in Nat /\ FillSize[f] \in Nat
        BY LeftIs, Constants
      <4>3. crashes' = 0 => Left(o)' <= 0
        BY <1>1, <2>2, <2>3, <4>1
      <4>4. CASE e < FillSize[f]
        BY <1>7, <2>2, <2>3, <2>8, <4>3, <4>4
      <4>5. CASE e = FillSize[f]
        BY <1>7, <2>2, <2>3, <4>1, <4>2, <4>3, <4>5
      <4> QED
        BY <1>5, <4>2, <4>4, <4>5
    <3>2. CASE work'[f].to = "FILLED"
      <4>1. size[l] - e \in Int
        BY <1>4
      <4>2. size[l] - e <= 0
        BY <1>2, <3>2, <4>1, StatusForIs
      <4>3. Left(o)' <= 0
        BY <1>4, <2>2, <2>3, <2>4, <4>2
      <4> QED
        BY <1>7, <2>2, <2>3, <4>3
    <3>3. ASSUME NEW g \in Taken(o)', work'[g].to = "FILLED", g # f PROVE \E h \in Taken(o) : work[h].to = "FILLED"
      <4>1. g \in Taken(o) /\ work'[g] = work[g]
        BY <1>2, <1>7, <3>3 DEF Taken, Mine
      <4> QED
        BY <3>3, <4>1
    <3> QED
      BY <1>1, <3>1, <3>2, <3>3
  <2>11. (status[o] # "none" => remaining[o] <= Size[o] - Base(Applied(o)))'
    BY <1>1, <1>7, <2>1 DEF Spent, Base
  <2> QED
    BY <2>5, <2>6, <2>7, <2>9, <2>10, <2>11 DEF Covers, Spent
<1>14. ASSUME crashes' = 0 PROVE Exact(o)'
  <2>1. crashes = 0 /\ Exact(o)
    BY <1>1, <1>14 DEF OrderInv
  <2>2. boot' = "up" /\ o \notin overdrawn' /\ stale'[o] = 0
    BY <1>1, <2>1 DEF Exact
  <2>3. (status[o] # "none" => remaining[o] = Size[o] - Base(Applied(o)))'
    BY <1>1, <1>7, <2>1 DEF Exact, Base
  <2>4. size[l] >= Base(Open(o)) /\ Base(Open(o)) \in Nat /\ FillSize[f] \in Nat
    BY <1>8, <2>1, LeftIs, Constants DEF Exact
  <2>5. e = FillSize[f]
    BY <1>4, <1>5, <1>7, <2>4
  <2>6. \A g \in Taken(o)' : work'[g].exec = FillSize[g]
    BY <1>2, <1>7, <2>1, <2>5 DEF Exact, Taken, Mine
  <2>7. \A k \in Known(o)' : size'[k] >= Base(Open(o)')
    <3> TAKE k \in Known(o)'
    <3>1. k \in Known(o) /\ k \in Levels /\ size[k] >= Base(Open(o)) /\ size[k] \in Nat
      BY <1>9, <1>10, <2>1 DEF Exact, TypeOK
    <3>2. CASE k = l
      BY <1>4, <1>7, <2>4, <2>5, <3>2
    <3>3. CASE k # l
      BY <1>4, <1>7, <2>4, <3>1, <3>3
    <3> QED
      BY <3>2, <3>3
  <2>8. \A g \in Mine(o, {"reading", "writing", "written"})' : work'[g].level = NoLevel => work'[g].rest >= Base(Open(o)')
    <3> SUFFICES ASSUME NEW g \in Mine(o, {"reading", "writing", "written"})', work'[g].level = NoLevel
                 PROVE  work'[g].rest >= Base(Open(o)')
      OBVIOUS
    <3>1. g \in Mine(o, {"reading", "writing", "written"}) /\ work'[g] = work[g] /\ g \in Fills
      BY <1>12 DEF Mine
    <3>2. work[g].rest >= Base(Open(o)) /\ work[g].rest \in Int
      BY <2>1, <3>1, WorkTyped DEF Exact
    <3> QED
      BY <1>7, <2>4, <3>1, <3>2
  <2> QED
    BY <2>2, <2>3, <2>6, <2>7, <2>8 DEF Exact, Base
<1>15. \A k \in Known(o)' : Owns(o, k)
  BY <1>9, <1>10
<1> QED
  BY <1>1, <1>11, <1>13, <1>14, <1>15 DEF OrderInv, Owns

\* It is measured by the row: what it leaves of it is what a level would be made of.
LEMMA ReadStepKeeps ==
  ASSUME TypeOK, NEW f \in Fills, NEW o \in Orders, NEW e \in Int, ReadStep(f, o, e), OrderInv(o)
  PROVE  OrderInv(o)'
<1>1. /\ o = Takes[f] /\ stage[f] = "looking" /\ e = Exec(f, remaining[o])
      /\ overdrawn' = (IF remaining[o] < 0 THEN overdrawn \cup {o} ELSE overdrawn)
      /\ size' = size /\ stage' = [stage EXCEPT ![f] = "reading"]
      /\ book' = book /\ expiring' = expiring
      /\ status' = status /\ remaining' = remaining /\ stale' = stale /\ boot' = boot /\ crashes' = crashes
  BY DEF ReadStep, table, booting, levels
<1>2. /\ work'[f].exec = e /\ work'[f].to = StatusFor(remaining[o] - e) /\ work'[f].level = NoLevel
      /\ work'[f].rest = remaining[o] - e /\ ~work'[f].core
      /\ \A g \in Fills \ {f} : work'[g] = work[g]
  BY DEF ReadStep, TypeOK
<1>3. /\ stage'[f] = "reading" /\ \A g \in Fills \ {f} : stage'[g] = stage[g]
  BY <1>1 DEF TypeOK
<1>4. remaining[o] \in Int /\ remaining[o] - e \in Int /\ FillSize[f] \in Nat
  BY Constants DEF TypeOK
<1>5. e <= FillSize[f] /\ (e < FillSize[f] => e = remaining[o]) /\ (remaining[o] >= 0 => e >= 0)
  <2>1. e = IF FillSize[f] > remaining[o] THEN remaining[o] ELSE FillSize[f]
    BY <1>1 DEF Exec
  <2> QED
    BY <1>4, <2>1
<1>6. Measured(f, o, "reading", e)
  BY <1>1, <1>2 DEF Measured
<1>7. /\ Open(o)' = Open(o) \ {f} /\ f \in Open(o)
      /\ Taken(o)' = Taken(o) \cup {f} /\ f \notin Taken(o)
      /\ Applied(o)' = Applied(o)
      /\ Base(Open(o)') = Base(Open(o)) - FillSize[f] /\ Base(Open(o)') \in Nat
      /\ o \notin overdrawn /\ e >= 0 => Due(o)' = Due(o) + e
  BY <1>6, MeasuredParts
<1>8. status[o] # "none"
  BY <1>1 DEF OrderInv, Rowless
<1>9. o \notin overdrawn' => o \notin overdrawn /\ remaining[o] >= 0 /\ e >= 0
  BY <1>1, <1>4, <1>5
<1>10. \A k \in Known(o)' : k \in Known(o) /\ size'[k] = size[k]
  <2>1. Held(o)' = Held(o)
    BY <1>1 DEF Held
  <2>2. \A g \in Mine(o, {"writing", "written"})' : g \in Mine(o, {"writing", "written"}) /\ work'[g] = work[g]
    BY <1>2, <1>3 DEF Mine
  <2> QED
    BY <1>1, <2>1, <2>2 DEF Known
<1>11. (\A g \in Fills : Takes[g] = o => WorkOK(g))'
  <2> SUFFICES ASSUME NEW g \in Fills, Takes[g] = o PROVE WorkOK(g)'
    OBVIOUS
  <2>1. CASE g = f
    BY <1>1, <1>2, <1>3, <1>4, <1>5, <1>9, <2>1, StatusForIs DEF WorkOK
  <2>2. CASE g # f
    BY <1>2, <1>3, <1>9, <2>2 DEF OrderInv, WorkOK
  <2> QED
    BY <2>1, <2>2
<1>12. \A g \in Mine(o, {"reading", "writing", "written"})' \ {f} :
         g \in Mine(o, {"reading", "writing", "written"}) /\ work'[g] = work[g] /\ g \in Fills
  BY <1>2, <1>3 DEF Mine
<1>13. ASSUME o \notin overdrawn' PROVE Covers(o)' /\ Spent(o)'
  <2>1. Covers(o) /\ Spent(o) /\ o \notin overdrawn /\ e >= 0
    BY <1>9, <1>13 DEF OrderInv
  <2>2. Left(o) \in Int /\ Due(o) \in Nat /\ Left(o) <= remaining[o]
    BY <2>1, LeftIs
  <2>3. Left(o)' = Left(o) - e
    BY <1>1, <1>4, <1>7, <2>1, <2>2 DEF Left
  <2>4. \A k \in Known(o)' : Left(o)' <= size'[k]
    <3> TAKE k \in Known(o)'
    <3>1. k \in Known(o) /\ size'[k] = size[k] /\ Left(o) <= size[k]
      BY <1>10, <2>1 DEF Covers
    <3>2. Owns(o, k)
      BY <3>1 DEF OrderInv
    <3>3. size[k] \in Nat
      BY <3>2 DEF Owns, Levels, TypeOK
    <3> QED
      BY <2>1, <2>2, <2>3, <3>1, <3>3
  <2>5. \A g \in Mine(o, {"reading", "writing", "written"})' : work'[g].level = NoLevel => Left(o)' <= work'[g].rest
    <3> SUFFICES ASSUME NEW g \in Mine(o, {"reading", "writing", "written"})', work'[g].level = NoLevel
                 PROVE  Left(o)' <= work'[g].rest
      OBVIOUS
    <3>1. CASE g = f
      BY <1>2, <1>4, <2>2, <2>3, <3>1
    <3>2. CASE g # f
      <4>1. g \in Mine(o, {"reading", "writing", "written"}) /\ work'[g] = work[g] /\ g \in Fills
        BY <1>12, <3>2
      <4>2. Left(o) <= work[g].rest /\ work[g].rest \in Int
        BY <2>1, <4>1, WorkTyped DEF Covers
      <4> QED
        BY <2>1, <2>2, <2>3, <4>1, <4>2
    <3> QED
      BY <3>1, <3>2
  <2>6. stale'[o] > 0 => Left(o)' <= stale'[o]
    <3>1. stale[o] \in Nat
      BY DEF TypeOK
    <3> QED
      BY <1>1, <2>1, <2>2, <2>3, <3>1 DEF Covers
  <2>7. e < FillSize[f] => Left(o)' <= 0
    BY <1>4, <1>5, <2>2, <2>3
  <2>8. \A g \in Taken(o)' : work'[g].exec < FillSize[g] => Left(o)' <= 0
    <3> SUFFICES ASSUME NEW g \in Taken(o)', work'[g].exec < FillSize[g] PROVE Left(o)' <= 0
      OBVIOUS
    <3>1. CASE g = f
      BY <1>2, <2>7, <3>1
    <3>2. CASE g # f
      <4>1. g \in Taken(o) /\ work'[g] = work[g]
        BY <1>2, <1>7, <3>2 DEF Taken, Mine
      <4>2. Left(o) <= 0
        BY <2>1, <4>1 DEF Spent
      <4> QED
        BY <2>1, <2>2, <2>3, <4>2
    <3> QED
      BY <3>1, <3>2
  <2>9. (status[o] = "FILLED" \/ (\E g \in Taken(o) : work[g].to = "FILLED") =>
           Left(o) <= Base(Open(o)) /\ (crashes = 0 => Left(o) <= 0))'
    <3> SUFFICES ASSUME status'[o] = "FILLED" \/ (\E g \in Taken(o)' : work'[g].to = "FILLED")
                 PROVE  Left(o)' <= Base(Open(o)') /\ (crashes' = 0 => Left(o)' <= 0)
      BY DEF Base
    <3>1. CASE status[o] = "FILLED" \/ (\E g \in Taken(o) : work[g].to = "FILLED")
      <4>1. Left(o) <= Base(Open(o)) /\ (crashes = 0 => Left(o) <= 0)
        BY <2>1, <3>1 DEF Spent
      <4>2. Base(Open(o)) \in Nat
        BY LeftIs
      <4>3. crashes' = 0 => Left(o)' <= 0
        BY <1>1, <2>1, <2>2, <2>3, <4>1
      <4>4. CASE e < FillSize[f]
        BY <1>7, <2>2, <2>3, <2>7, <4>3, <4>4
      <4>5. CASE e = FillSize[f]
        BY <1>4, <1>7, <2>2, <2>3, <4>1, <4>2, <4>3, <4>5
      <4> QED
        BY <1>4, <1>5, <4>4, <4>5
    <3>2. CASE work'[f].to = "FILLED"
      <4>1. remaining[o] - e <= 0
        BY <1>2, <1>4, <3>2, StatusForIs
      <4>2. Left(o)' <= 0
        BY <1>4, <2>2, <2>3, <4>1
      <4> QED
        BY <1>7, <2>2, <2>3, <4>2
    <3>3. ASSUME NEW g \in Taken(o)', work'[g].to = "FILLED", g # f PROVE \E h \in Taken(o) : work[h].to = "FILLED"
      <4>1. g \in Taken(o) /\ work'[g] = work[g]
        BY <1>2, <1>7, <3>3 DEF Taken, Mine
      <4> QED
        BY <3>3, <4>1
    <3> QED
      BY <1>1, <3>1, <3>2, <3>3
  <2>10. (status[o] # "none" => remaining[o] <= Size[o] - Base(Applied(o)))'
    BY <1>1, <1>7, <2>1 DEF Spent, Base
  <2> QED
    BY <2>4, <2>5, <2>6, <2>8, <2>9, <2>10 DEF Covers, Spent
<1>14. ASSUME crashes' = 0 PROVE Exact(o)'
  <2>1. crashes = 0 /\ Exact(o)
    BY <1>1, <1>14 DEF OrderInv
  <2>2. /\ Base(Open(o)) \in Nat /\ Base(Taken(o)) \in Nat /\ Base(Applied(o)) \in Nat
        /\ Base(Open(o)) + Base(Taken(o)) + Base(Applied(o)) <= Size[o] /\ Size[o] \in Nat
    BY LeftIs, Constants
  <2>3. remaining[o] = Size[o] - Base(Applied(o))
    BY <1>8, <2>1 DEF Exact
  <2>4. remaining[o] >= Base(Open(o)) /\ remaining[o] >= FillSize[f] /\ remaining[o] >= 0
    BY <1>4, <1>7, <2>2, <2>3
  <2>5. e = FillSize[f]
    BY <1>1, <1>4, <2>4 DEF Exec
  <2>6. boot' = "up" /\ o \notin overdrawn' /\ stale'[o] = 0
    BY <1>1, <1>4, <2>1, <2>4 DEF Exact
  <2>7. (status[o] # "none" => remaining[o] = Size[o] - Base(Applied(o)))'
    BY <1>1, <1>7, <2>1 DEF Exact, Base
  <2>8. \A g \in Taken(o)' : work'[g].exec = FillSize[g]
    BY <1>2, <1>7, <2>1, <2>5 DEF Exact, Taken, Mine
  <2>9. \A k \in Known(o)' : size'[k] >= Base(Open(o)')
    <3> TAKE k \in Known(o)'
    <3>1. k \in Known(o) /\ size'[k] = size[k] /\ size[k] >= Base(Open(o))
      BY <1>10, <2>1 DEF Exact
    <3>2. Owns(o, k)
      BY <3>1 DEF OrderInv
    <3>3. size[k] \in Nat
      BY <3>2 DEF Owns, Levels, TypeOK
    <3> QED
      BY <1>4, <1>7, <2>2, <3>1, <3>3
  <2>10. \A g \in Mine(o, {"reading", "writing", "written"})' : work'[g].level = NoLevel => work'[g].rest >= Base(Open(o)')
    <3> SUFFICES ASSUME NEW g \in Mine(o, {"reading", "writing", "written"})', work'[g].level = NoLevel
                 PROVE  work'[g].rest >= Base(Open(o)')
      OBVIOUS
    <3>1. CASE g = f
      BY <1>2, <1>4, <1>7, <2>2, <2>4, <2>5, <3>1
    <3>2. CASE g # f
      <4>1. g \in Mine(o, {"reading", "writing", "written"}) /\ work'[g] = work[g] /\ g \in Fills
        BY <1>12, <3>2
      <4>2. work[g].rest >= Base(Open(o)) /\ work[g].rest \in Int
        BY <2>1, <3>2, <4>1, WorkTyped DEF Exact
      <4> QED
        BY <1>4, <1>7, <2>2, <4>1, <4>2
    <3> QED
      BY <3>1, <3>2
  <2> QED
    BY <2>6, <2>7, <2>8, <2>9, <2>10 DEF Exact, Base
<1>15. \A k \in Known(o)' : Owns(o, k)
  BY <1>10 DEF OrderInv
<1> QED
  BY <1>1, <1>8, <1>11, <1>13, <1>14, <1>15 DEF OrderInv, Owns

\* A fill that is written owes no more: what the row will have left stays.
LEMMA WrittenLeft ==
  ASSUME TypeOK, NEW f \in Fills, NEW o \in Orders, WriteStep(f, o), OrderInv(o), o \notin overdrawn
  PROVE  /\ Left(o)' = Left(o) /\ Left(o)' = remaining'[o] - Due(o)'
         /\ Due(o)' <= Base(Taken(o)') /\ Due(o)' \in Nat
<1>1. /\ o = Takes[f] /\ stage[f] = "writing" /\ stage' = [stage EXCEPT ![f] = "written"]
      /\ remaining'[o] = remaining[o] - work[f].exec /\ work' = work
  BY DEF WriteStep, TypeOK
<1>2. Taken(o)' = Taken(o) \ {f} /\ f \in Taken(o)
  BY <1>1 DEF Taken, Mine, TypeOK
<1>3. remaining[o] \in Int /\ work[f].exec \in Int
  BY WorkTyped DEF TypeOK
<1>4. Due(o) \in Nat /\ \A x \in Taken(o) : Execs[x] \in Nat /\ Execs[x] <= FillSize[x] /\ Execs[x] = work[x].exec
  BY LeftIs
<1>5. Due(o)' = Due(o) - work[f].exec /\ Due(o)' <= Base(Taken(o)') /\ Due(o)' \in Nat
  <2>1. PICK T, a : T = Taken(o) /\ a = Execs
    OBVIOUS
  <2>2. T \in SUBSET Fills /\ f \in T /\ \A x \in T : a[x] \in Nat /\ a[x] <= FillSize[x]
    BY <1>2, <1>4, <2>1 DEF Taken, Mine
  <2>3. Sum(T \ {f}, a) = Sum(T, a) - a[f]
    BY <2>2, SumLeaves
  <2>4. T \ {f} \in SUBSET Fills /\ \A x \in T \ {f} : a[x] \in Nat /\ a[x] <= FillSize[x]
    BY <2>2
  <2>5. Sum(T \ {f}, a) <= Base(T \ {f}) /\ Sum(T \ {f}, a) \in Nat
    BY <2>4, SumBelow
  <2>6. Execs' = a /\ Taken(o)' = T \ {f} /\ a[f] = work[f].exec
    BY <1>1, <1>2, <1>4, <2>1 DEF Execs
  <2> QED
    BY <2>1, <2>3, <2>5, <2>6 DEF Due
<1> QED
  BY <1>1, <1>3, <1>4, <1>5 DEF Left

\* The row is told: what it will have left stays what it was.
LEMMA WriteStepKeeps ==
  ASSUME TypeOK, NEW f \in Fills, NEW o \in Orders, WriteStep(f, o), OrderInv(o)
  PROVE  OrderInv(o)'
<1>1. /\ o = Takes[f] /\ stage[f] = "writing" /\ stage' = [stage EXCEPT ![f] = "written"]
      /\ remaining'[o] = remaining[o] - work[f].exec /\ status'[o] = work[f].to
      /\ book' = book /\ size' = size /\ expiring' = expiring /\ overdrawn' = overdrawn /\ work' = work
      /\ stale' = stale /\ boot' = boot /\ crashes' = crashes
  BY DEF WriteStep, levels, booting, TypeOK
<1>2. /\ stage'[f] = "written" /\ \A g \in Fills \ {f} : stage'[g] = stage[g]
  BY <1>1 DEF TypeOK
<1>3. WorkOK(f) /\ work[f].exec \in Int
  BY <1>1, WorkTyped DEF OrderInv
<1>4. status[o] # "none" /\ status'[o] # "none"
  BY <1>1, <1>3 DEF OrderInv, Rowless, WorkOK
<1>5. Open(o)' = Open(o) /\ Taken(o)' = Taken(o) \ {f} /\ f \in Taken(o)
  BY <1>1, <1>2 DEF Open, Taken, Mine
<1>6. Applied(o)' = Applied(o) \cup {f} /\ f \notin Applied(o)
  BY <1>1, <1>2 DEF Applied
<1>7. Mine(o, {"writing", "written"})' = Mine(o, {"writing", "written"})
  BY <1>1, <1>2 DEF Mine
<1>8. Mine(o, {"reading", "writing", "written"})' = Mine(o, {"reading", "writing", "written"})
  BY <1>1, <1>2 DEF Mine
<1>9. Known(o)' = Known(o)
  BY <1>1, <1>7 DEF Known, Held
<1>10. Base(Applied(o)') = Base(Applied(o)) + FillSize[f] /\ Base(Applied(o)) \in Nat
  <2>1. PICK A : A = Applied(o)
    OBVIOUS
  <2>2. A \in SUBSET Fills /\ f \in Fills \ A
    BY <1>6, <2>1 DEF Applied
  <2>3. Base(A \cup {f}) = Base(A) + FillSize[f] /\ Base(A) \in Nat
    BY <2>2, BaseAdds
  <2> QED
    BY <1>6, <2>1, <2>3
<1>11. Base(Taken(o)') + Base(Applied(o)') <= Size[o] /\ Base(Taken(o)') \in Nat /\ Base(Applied(o)') \in Nat
  <2>1. PICK T, A : T = Taken(o)' /\ A = Applied(o)'
    OBVIOUS
  <2>2. {} \cup T \cup A \subseteq {g \in Fills : Takes[g] = o} /\ T \cap A = {}
    BY <2>1 DEF Taken, Applied, Mine
  <2>3. Base({}) + Base(T) + Base(A) <= Size[o] /\ Base({}) \in Nat /\ Base(T) \in Nat /\ Base(A) \in Nat
    BY <2>2, PartsFit
  <2>4. Base({}) = 0
    BY SumEmpty DEF Base
  <2>5. Size[o] \in Nat
    BY Constants
  <2> QED
    BY <2>1, <2>3, <2>4, <2>5
<1>12. \A k \in Known(o)' : Owns(o, k)
  BY <1>9 DEF OrderInv
<1>13. (\A g \in Fills : Takes[g] = o => WorkOK(g))'
  BY <1>1, <1>2 DEF OrderInv, WorkOK
<1>14. FillSize[f] \in Nat /\ Size[o] \in Nat /\ remaining[o] \in Int
  BY Constants DEF TypeOK
<1>15. ASSUME o \notin overdrawn' PROVE Covers(o)' /\ Spent(o)'
  <2>1. Covers(o) /\ Spent(o) /\ o \notin overdrawn
    BY <1>1, <1>15 DEF OrderInv
  <2>2. Due(o) \in Nat /\ Left(o) \in Int /\ \A x \in Taken(o) : Execs[x] \in Nat /\ Execs[x] <= FillSize[x] /\ Execs[x] = work[x].exec
    BY <2>1, LeftIs
  <2>3. Left(o)' = remaining'[o] - Due(o)' /\ Due(o)' <= Base(Taken(o)') /\ Due(o)' \in Nat
    BY <2>1, WrittenLeft
  <2>4. Left(o)' = Left(o)
    BY <2>1, WrittenLeft
  <2>5. Covers(o)'
    BY <1>1, <1>8, <1>9, <2>1, <2>4 DEF Covers
  <2>6. \A g \in Taken(o)' : g \in Taken(o) /\ work'[g] = work[g]
    BY <1>1, <1>5
  <2>7. (\A g \in Taken(o) : work[g].exec < FillSize[g] => Left(o) <= 0)'
    BY <2>1, <2>4, <2>6 DEF Spent
  <2>8. (status[o] = "FILLED" \/ (\E g \in Taken(o) : work[g].to = "FILLED") =>
           Left(o) <= Base(Open(o)) /\ (crashes = 0 => Left(o) <= 0))'
    <3>1. status'[o] = "FILLED" \/ (\E g \in Taken(o)' : work'[g].to = "FILLED") =>
            \E g \in Taken(o) : work[g].to = "FILLED"
      BY <1>1, <1>5, <2>6
    <3>2. Base(Open(o))' = Base(Open(o))
      BY <1>5 DEF Base
    <3> QED
      BY <1>1, <2>1, <2>4, <3>1, <3>2 DEF Spent
  <2>9. remaining'[o] <= Size[o] - Base(Applied(o)')
    <3>1. CASE work[f].exec < FillSize[f]
      <4>1. Left(o) <= 0
        BY <1>5, <2>1, <3>1 DEF Spent
      <4>2. remaining'[o] = Left(o) + Due(o)'
        BY <1>1, <1>3, <1>14, <2>2, <2>3, <2>4
      <4> QED
        BY <1>11, <1>14, <2>2, <2>3, <4>1, <4>2
    <3>2. CASE work[f].exec = FillSize[f]
      <4>1. remaining[o] <= Size[o] - Base(Applied(o))
        BY <1>4, <2>1 DEF Spent
      <4> QED
        BY <1>1, <1>10, <1>14, <3>2, <4>1
    <3>3. work[f].exec <= FillSize[f]
      BY <1>1, <1>3 DEF WorkOK
    <3> QED
      BY <1>3, <1>14, <3>1, <3>2, <3>3
  <2> QED
    BY <2>5, <2>7, <2>8, <2>9 DEF Spent, Base
<1>16. ASSUME crashes' = 0 PROVE Exact(o)'
  <2>1. crashes = 0 /\ Exact(o)
    BY <1>1, <1>16 DEF OrderInv
  <2>2. boot' = "up" /\ o \notin overdrawn' /\ stale'[o] = 0
    BY <1>1, <2>1 DEF Exact
  <2>3. remaining[o] = Size[o] - Base(Applied(o)) /\ work[f].exec = FillSize[f]
    BY <1>4, <1>5, <2>1 DEF Exact
  <2>4. remaining'[o] = Size[o] - Base(Applied(o)')
    BY <1>1, <1>10, <1>14, <2>3
  <2>5. \A g \in Taken(o)' : work'[g].exec = FillSize[g]
    BY <1>1, <1>5, <2>1 DEF Exact
  <2>6. Base(Open(o))' = Base(Open(o))
    BY <1>5 DEF Base
  <2> QED
    BY <1>1, <1>8, <1>9, <2>1, <2>2, <2>4, <2>5, <2>6 DEF Exact, Base
<1> QED
  BY <1>4, <1>12, <1>13, <1>15, <1>16 DEF OrderInv, Owns

\* The row comes: the levels placements have pushed are of its size.
LEMMA UpsertKeeps ==
  ASSUME TypeOK, NEW p \in Placements, NEW o \in Orders, o = Places[p], PlaceUpsert(p), status[o] = "none", OrderInv(o)
  PROVE  OrderInv(o)'
<1>1. /\ status'[o] = "PLACED" /\ remaining'[o] = Size[o]
      /\ book' = book /\ size' = size /\ expiring' = expiring /\ overdrawn' = overdrawn /\ work' = work /\ stage' = stage
      /\ stale' = stale /\ boot' = boot /\ crashes' = crashes
  BY DEF PlaceUpsert, UpsertRemaining, levels, fills, booting, TypeOK
<1>2. Rowless(o)
  BY DEF OrderInv
<1>3. \A S : Mine(o, S)' = Mine(o, S)
  BY <1>1 DEF Mine
<1>4. Known(o)' = Known(o)
  BY <1>1, <1>3 DEF Known, Held
<1>5. Taken(o)' = {} /\ Taken(o) = {} /\ Open(o)' = Open(o) /\ Applied(o)' = {}
  BY <1>1, <1>2 DEF Taken, Open, Applied, Mine, Rowless
<1>6. Mine(o, {"reading", "writing", "written"})' = {}
  BY <1>1, <1>2 DEF Mine, Rowless
<1>7. Due(o)' = 0 /\ Base(Applied(o))' = 0
  BY <1>5, SumEmpty DEF Due, Base
<1>8. Size[o] \in Nat /\ Left(o)' = Size[o]
  BY <1>1, <1>7, Constants DEF Left
<1>9. Base(Open(o))' = Base(Open(o)) /\ Base(Open(o)) \in Nat /\ Base(Open(o)) <= Size[o]
  <2>1. Base(Open(o))' = Base(Open(o))
    BY <1>5 DEF Base
  <2>2. /\ Base(Open(o)) \in Nat /\ Base(Taken(o)) \in Nat /\ Base(Applied(o)) \in Nat
        /\ Base(Open(o)) + Base(Taken(o)) + Base(Applied(o)) <= Size[o]
    BY LeftIs
  <2> QED
    BY <1>8, <2>1, <2>2
<1>10. \A k \in Known(o)' : Owns(o, k) /\ size'[k] = Size[o]
  BY <1>1, <1>2, <1>4 DEF OrderInv, Rowless
<1>11. (\A g \in Fills : Takes[g] = o => WorkOK(g))'
  BY <1>1 DEF OrderInv, WorkOK
<1>12. Covers(o)'
  BY <1>1, <1>2, <1>6, <1>8, <1>10 DEF Covers, Rowless
<1>13. Spent(o)'
  <2>1. remaining'[o] <= Size[o] - Base(Applied(o))'
    BY <1>1, <1>7, <1>8
  <2> QED
    BY <1>1, <1>5, <2>1 DEF Spent
<1>14. ASSUME crashes' = 0 PROVE Exact(o)'
  <2>1. Exact(o)
    BY <1>1, <1>14 DEF OrderInv
  <2>2. remaining'[o] = Size[o] - Base(Applied(o))'
    BY <1>1, <1>7, <1>8
  <2>3. \A k \in Known(o)' : size'[k] >= Base(Open(o))'
    BY <1>8, <1>9, <1>10
  <2> QED
    BY <1>1, <1>5, <1>6, <2>1, <2>2, <2>3 DEF Exact
<1> QED
  BY <1>1, <1>10, <1>11, <1>12, <1>13, <1>14 DEF OrderInv, Owns

\* After a restart nothing is in memory, and what was being written is open again.
LEMMA CrashKeeps ==
  ASSUME TypeOK, Crash, NEW o \in Orders, OrderInv(o)
  PROVE  OrderInv(o)'
<1>1. /\ status' = status /\ remaining' = remaining /\ overdrawn' = overdrawn
      /\ book'[o] = <<>> /\ expiring' = {} /\ stale'[o] = 0 /\ crashes' = crashes + 1
      /\ \A f \in Fills : work'[f] = NoWork
  BY DEF Crash, table
<1>2. \A f \in Fills : Restage(f)
  BY CrashStages
<1>3. Mine(o, {"writing", "written"})' = {} /\ Mine(o, {"reading", "writing", "written"})' = {} /\ Taken(o)' = {}
  BY <1>2 DEF Mine, Taken, Restage
<1>4. Known(o)' = {}
  BY <1>1, <1>3 DEF Known, Held
<1>5. Open(o) \cup Taken(o) \subseteq Open(o)' /\ Open(o)' \subseteq Fills
  BY <1>2 DEF Open, Taken, Mine, Restage
<1>6. Applied(o)' \subseteq Applied(o)
  BY <1>2 DEF Applied, Restage
<1>7. crashes' # 0
  BY <1>1, Constants DEF TypeOK
<1>8. Due(o)' = 0 /\ remaining[o] \in Int /\ Left(o)' = remaining[o]
  BY <1>1, <1>3, SumEmpty DEF Due, Left, TypeOK
<1>9. (\A g \in Fills : Takes[g] = o => WorkOK(g))'
  BY <1>2 DEF WorkOK, Restage
<1>10. ASSUME status'[o] = "none" PROVE Rowless(o)'
  <2>1. Rowless(o)
    BY <1>1, <1>10 DEF OrderInv
  <2>2. \A f \in Fills : Takes[f] = o => stage'[f] = "pending"
    BY <1>2, <2>1 DEF Rowless, Restage
  <2> QED
    BY <1>1, <1>4, <2>1, <2>2 DEF Rowless
<1>11. ASSUME o \notin overdrawn' PROVE Covers(o)' /\ Spent(o)'
  <2>1. Spent(o) /\ o \notin overdrawn
    BY <1>1, <1>11 DEF OrderInv
  <2>2. Covers(o)'
    BY <1>1, <1>3, <1>4 DEF Covers
  <2>3. /\ Due(o) \in Nat /\ Due(o) <= Base(Taken(o)) /\ Base(Open(o)) \in Nat /\ Base(Taken(o)) \in Nat
        /\ Left(o) \in Int /\ Base(Applied(o)) \in Nat
    BY <2>1, LeftIs
  <2>4. remaining[o] = Left(o) + Due(o)
    BY <1>8, <2>3 DEF Left
  <2>5. Base(Open(o)) + Base(Taken(o)) <= Base(Open(o)')
    <3>1. PICK A, T, B : A = Open(o) /\ T = Taken(o) /\ B = Open(o)'
      OBVIOUS
    <3>2. A \in SUBSET Fills /\ T \in SUBSET Fills /\ B \in SUBSET Fills /\ A \cap T = {} /\ A \cup T \subseteq B
      BY <1>5, <3>1 DEF Open, Taken, Mine
    <3>3. Base(A \cup T) = Base(A) + Base(T)
      BY <3>2, BaseUnion
    <3>4. Base(A \cup T) <= Base(B)
      BY <3>2, BaseGrows
    <3> QED
      BY <3>1, <3>3, <3>4
  <2>6. Base(Open(o)') \in Nat
    BY <1>5, BaseGrows
  <2>7. status[o] = "FILLED" => remaining[o] <= Base(Open(o)')
    <3>1. status[o] = "FILLED" => Left(o) <= Base(Open(o))
      BY <2>1 DEF Spent
    <3> QED
      BY <2>3, <2>4, <2>5, <2>6, <3>1
  <2>8. Base(Applied(o)') <= Base(Applied(o)) /\ Base(Applied(o)') \in Nat
    <3>1. Applied(o) \in SUBSET Fills
      BY DEF Applied
    <3> QED
      BY <1>6, <3>1, BaseGrows
  <2>9. status[o] # "none" => remaining[o] <= Size[o] - Base(Applied(o)')
    <3>1. status[o] # "none" => remaining[o] <= Size[o] - Base(Applied(o))
      BY <2>1 DEF Spent
    <3>2. Size[o] \in Nat
      BY Constants
    <3> QED
      BY <1>8, <2>3, <2>8, <3>1, <3>2
  <2>10. Spent(o)'
    BY <1>1, <1>3, <1>7, <1>8, <2>7, <2>9 DEF Spent, Base
  <2> QED
    BY <2>2, <2>10
<1> QED
  BY <1>4, <1>7, <1>9, <1>10, <1>11 DEF OrderInv

-----------------------------------------------------------------------------
\* Step by step.

\* A level belongs to one order.
LEMMA OwnsOne ==
  ASSUME NEW o \in Orders, NEW q \in Orders, NEW l, Owns(o, l), Owns(q, l)
  PROVE  o = q
BY LevelsAssumption DEF Owns

LEMMA HeldOwned ==
  ASSUME NEW o \in Orders, OrderInv(o), NEW l \in Held(o)
  PROVE  Owns(o, l) /\ l \in Levels
BY DEF OrderInv, Known, Held

\* Positions in order, when all stay, are the positions themselves.
LEMMA RisingAll ==
  ASSUME NEW n \in Nat, NEW f \in [1..n -> 1..n], Rising(f, n)
  PROVE  \A i \in 1..n : f[i] = i
<1>1. \A i \in 1..n : f[i] \in 1..n
  OBVIOUS
<1>2. \A i \in 1..n : f[i] >= i
  <2> DEFINE Low == {i \in 1..n : f[i] < i}
  <2> SUFFICES ASSUME NEW low \in 1..n, ~(f[low] >= low) PROVE FALSE
    OBVIOUS
  <2>1. Low \subseteq Nat /\ low \in Low
    BY <1>1
  <2>2. PICK i \in Low : \A j \in Low : i <= j
    BY <2>1, LeastOf
  <2>3. PICK k : k = f[i]
    OBVIOUS
  <2>4. i \in 1..n /\ k \in 1..n /\ k < i
    BY <1>1, <2>3
  <2>5. f[k] < k
    BY <2>3, <2>4 DEF Rising
  <2>6. k \in Low
    BY <2>4, <2>5
  <2> QED
    BY <2>2, <2>4, <2>6
<1>3. \A i \in 1..n : f[i] <= i
  <2> DEFINE High == {d \in 0..n : n - d \in 1..n /\ f[n - d] > n - d}
  <2> SUFFICES ASSUME NEW i \in 1..n, ~(f[i] <= i) PROVE FALSE
    OBVIOUS
  <2>1. n - i \in 0..n /\ n - (n - i) = i /\ f[i] > i
    BY <1>1
  <2>2. n - i \in High
    BY <2>1
  <2>3. High \subseteq Nat
    OBVIOUS
  <2>4. PICK d \in High : \A e \in High : d <= e
    BY <2>2, <2>3, LeastOf
  <2>5. PICK h, k : h = n - d /\ k = f[h]
    OBVIOUS
  <2>6. h \in 1..n /\ k \in 1..n /\ h < k /\ d \in 0..n
    BY <1>1, <2>5
  <2>7. f[h] < f[k]
    BY <2>6 DEF Rising
  <2>8. n - k \in 0..n /\ n - (n - k) = k /\ n - k < d
    <3>1. n \in Nat /\ d \in Nat /\ k \in Nat /\ h = n - d /\ h < k /\ k <= n
      BY <2>5, <2>6
    <3> QED
      BY ONLY <3>1
  <2>9. n - k \in High
    BY <2>5, <2>6, <2>7, <2>8
  <2> HIDE DEF High
  <2>10. d <= n - k
    BY <2>4, <2>9
  <2>11. d \in Nat /\ n - k \in Nat
    BY <2>6, <2>8
  <2> QED
    BY ONLY <2>8, <2>10, <2>11
<1> QED
  BY <1>1, <1>2, <1>3

\* A sweep that changes a list takes a level out of it.
LEMMA SweptLevel ==
  ASSUME TypeOK, NEW o \in Orders, Remainder(o) # book[o]
  PROVE  \E l \in Held(o) : Lapsed(o, l)
<1> SUFFICES ASSUME \A l \in Held(o) : ~Lapsed(o, l) PROVE FALSE
  OBVIOUS
<1>1. book[o] \in Seq(Levels)
  BY DEF TypeOK
<1>2. PICK n \in Nat : n = Len(book[o])
  BY <1>1, LenProperties
<1>3. DOMAIN book[o] = 1..n /\ \A i \in 1..n : book[o][i] \in Levels
  BY <1>1, <1>2, LenProperties, ElementOfSeq
<1>4. Staying(o) = 1..n
  BY <1>3 DEF Staying, Held
<1>5. Cardinality(1..n) = n
  <2>1. 1 \in Int /\ n \in Int
    OBVIOUS
  <2>2. Cardinality(1..n) = IF 1 > n THEN 0 ELSE n - 1 + 1
    BY <2>1, FS_Interval
  <2> QED
    BY <2>2
<1>6. PICK at \in [1..n -> 1..n] : Rising(at, n) /\ Remainder(o) = [i \in 1..n |-> book[o][at[i]]]
  <2>1. PICK m, K : m = Cardinality(Staying(o)) /\ K = Staying(o)
    OBVIOUS
  <2>2. m = n /\ K = 1..n
    BY <1>4, <1>5, <2>1
  <2>3. \E at \in [1..m -> K] : Rising(at, m) /\ Remainder(o) = [i \in 1..m |-> book[o][at[i]]]
    BY <2>1, RemainderAs
  <2> QED
    BY <2>2, <2>3
<1>7. \A i \in 1..n : at[i] = i
  BY <1>6, RisingAll
<1>8. Remainder(o) = [i \in 1..n |-> book[o][i]]
  BY <1>6, <1>7
<1>9. book[o] = [i \in 1..n |-> book[o][i]]
  BY <1>1, <1>3
<1> QED
  BY <1>8, <1>9

\* Nothing of the order changes.
Apart(o) ==
  /\ book'[o] = book[o] /\ status'[o] = status[o] /\ remaining'[o] = remaining[o] /\ stale'[o] = stale[o]
  /\ o \in expiring' => o \in expiring
  /\ o \in overdrawn' <=> o \in overdrawn
  /\ crashes' = crashes /\ boot' = boot
  /\ \A l \in Levels : Owns(o, l) => size'[l] = size[l]
  /\ \A f \in Fills : Takes[f] = o => stage'[f] = stage[f] /\ work'[f] = work[f]

\* Levels of the order may go, and its row may be closed or opened again.
Light(o) ==
  /\ size' = size /\ stage' = stage /\ work' = work /\ overdrawn' = overdrawn
  /\ stale' = stale /\ crashes' = crashes /\ boot' = boot
  /\ remaining'[o] = remaining[o]
  /\ Held(o)' \subseteq Held(o)
  /\ status'[o] = "none" <=> status[o] = "none"
  /\ status'[o] = "FILLED" => status[o] = "FILLED"
  /\ status[o] = "none" => o \notin expiring'

LEMMA ApartKeeps ==
  ASSUME TypeOK, NEW o \in Orders, OrderInv(o), Apart(o)
  PROVE  OrderInv(o)'
<1>1. SameLevels(o)
  BY DEF Apart, SameLevels, Held
<1>2. SameFills(o)
  BY DEF Apart, SameFills, SameFill
<1>3. SameRow(o)
  BY DEF Apart, SameRow, OrderInv, Rowless, Covers, Exact
<1> QED
  BY <1>1, <1>2, <1>3, StillKeeps DEF Still

LEMMA LightKeeps ==
  ASSUME TypeOK, NEW o \in Orders, OrderInv(o), Light(o)
  PROVE  OrderInv(o)'
<1>1. SameLevels(o)
  BY DEF Light, SameLevels
<1>2. SameFills(o)
  BY DEF Light, SameFills, SameFill
<1>3. SameRow(o)
  BY DEF Light, SameRow, OrderInv, Rowless, Covers, Exact
<1> QED
  BY <1>1, <1>2, <1>3, StillKeeps DEF Still

\* The list of levels stays or goes.
LEMMA HeldShrinks ==
  ASSUME NEW o \in Orders, book'[o] = book[o] \/ book'[o] = <<>>
  PROVE  Held(o)' \subseteq Held(o)
BY DEF Held

\* Rows once there stay, and what is dated was dated already: so it stays.
Rows == \A q \in Orders : status'[q] = "none" => status[q] = "none"

LEMMA DatedStays ==
  ASSUME DatedInv, Rows, TypeOK, dated' \subseteq dated,
         \A r \in Placements : pc'[r] = "attaching" => pc[r] = "attaching" \/ status'[Places[r]] # "none"
  PROVE  DatedInv'
<1>1. \A r \in Placements : Places[r] \in Orders
  BY Constants
<1> QED
  BY <1>1 DEF DatedInv, Rows, Owns

LEMMA WritesCancelled ==
  ASSUME TypeOK, NEW o \in Orders, WriteCancelled(o)
  PROVE  \A q \in Orders : (status'[q] = "none" <=> status[q] = "none") /\ (status'[q] = "FILLED" => status[q] = "FILLED")
BY DEF WriteCancelled, TypeOK

LEMMA PlaceKeeps ==
  ASSUME TypeOK, LedgerInv, NEW p \in Placements, PlaceStep(p)
  PROVE  LedgerInv'
<1>1. PICK o \in Orders : o = Places[p]
  BY Constants
<1>2. \A q \in Orders : OrderInv(q)
  BY DEF LedgerInv
<1>3. DatedInv
  BY DEF LedgerInv
<1>4. \A q \in Orders : status[q] = "none" => q \notin expiring
  BY <1>2 DEF OrderInv, Rowless
<1>5. CASE PlaceClear(p) \/ PlaceUndo(p)
  <2>1. /\ book' = [book EXCEPT ![o] = <<>>] /\ size' = size /\ dated' = dated /\ status' = status /\ remaining' = remaining
        /\ expiring' = expiring /\ stage' = stage /\ work' = work /\ overdrawn' = overdrawn
        /\ boot' = boot /\ stale' = stale /\ crashes' = crashes
        /\ \A r \in Placements : pc'[r] = "attaching" => pc[r] = "attaching"
    BY <1>1, <1>5 DEF PlaceClear, PlaceUndo, Drop, PlaceGoto, table, fills, booting, TypeOK
  <2>2. \A q \in Orders : book'[q] = book[q] \/ book'[q] = <<>>
    BY <2>1 DEF TypeOK
  <2>3. \A q \in Orders : Light(q)
    BY <1>4, <2>1, <2>2, HeldShrinks DEF Light
  <2>4. DatedInv'
    BY <1>3, <2>1, DatedStays DEF Rows
  <2> QED
    BY <1>2, <2>3, <2>4, LightKeeps DEF LedgerInv
<1>6. CASE PlaceReplace(p) \/ PlaceClose(p)
  <2>1. /\ book' = book /\ size' = size /\ dated' = dated /\ WriteCancelled(o) /\ remaining' = remaining
        /\ expiring' = expiring /\ stage' = stage /\ work' = work /\ overdrawn' = overdrawn
        /\ boot' = boot /\ stale' = stale /\ crashes' = crashes
        /\ \A r \in Placements : pc'[r] = "attaching" => pc[r] = "attaching"
    BY <1>1, <1>6 DEF PlaceReplace, PlaceClose, PlaceGoto, levels, fills, booting, TypeOK
  <2>2. \A q \in Orders : (status'[q] = "none" <=> status[q] = "none") /\ (status'[q] = "FILLED" => status[q] = "FILLED")
    BY <2>1, WritesCancelled
  <2>3. \A q \in Orders : Light(q)
    BY <1>4, <2>1, <2>2, HeldShrinks DEF Light
  <2>4. DatedInv'
    BY <1>3, <2>1, <2>2, DatedStays DEF Rows
  <2> QED
    BY <1>2, <2>3, <2>4, LightKeeps DEF LedgerInv
<1>7. CASE PlacePush(p)
  <2>1. /\ book' = [book EXCEPT ![o] = Append(book[o], p)] /\ size' = [size EXCEPT ![p] = Size[o]] /\ dated' = dated
        /\ status' = status /\ remaining' = remaining
        /\ expiring' = expiring /\ stage' = stage /\ work' = work /\ overdrawn' = overdrawn
        /\ boot' = boot /\ stale' = stale /\ crashes' = crashes
        /\ \A r \in Placements : pc'[r] = "attaching" => pc[r] = "attaching"
    BY <1>1, <1>7 DEF PlacePush, PlaceGoto, table, fills, booting, TypeOK
  <2>2. p \in Levels /\ Owns(o, p)
    BY <1>1, Constants DEF Owns
  <2>3. size'[p] = Size[o] /\ \A l \in Levels \ {p} : size'[l] = size[l]
    BY <2>1, <2>2 DEF TypeOK
  <2>4. ASSUME NEW q \in Orders, q # o PROVE OrderInv(q)'
    <3>1. \A l \in Levels : Owns(q, l) => size'[l] = size[l]
      BY <2>2, <2>3, <2>4, OwnsOne
    <3>2. book'[q] = book[q]
      BY <2>1, <2>4 DEF TypeOK
    <3>3. Apart(q)
      BY <2>1, <3>1, <3>2 DEF Apart
    <3> QED
      BY <1>2, <3>3, ApartKeeps
  <2>5. Fresh(o, p)
    <3>1. Size[o] \in Nat /\ remaining[o] \in Int
      BY Constants DEF TypeOK
    <3>2. /\ Base(Open(o)) \in Nat /\ Base(Taken(o)) \in Nat /\ Base(Applied(o)) \in Nat
          /\ Base(Open(o)) + Base(Taken(o)) + Base(Applied(o)) <= Size[o]
          /\ o \notin overdrawn => Left(o) \in Int /\ Left(o) <= remaining[o]
      BY <1>2, LeftIs
    <3>3. ASSUME o \notin overdrawn PROVE Left(o) <= Size[o]
      <4>1. remaining[o] <= Size[o]
        <5>1. CASE status[o] = "none"
          BY <1>2, <3>1, <5>1 DEF OrderInv, Rowless
        <5>2. CASE status[o] # "none"
          <6>1. remaining[o] <= Size[o] - Base(Applied(o))
            BY <1>2, <3>3, <5>2 DEF OrderInv, Spent
          <6> QED
            BY <3>1, <3>2, <6>1
        <5> QED
          BY <5>1, <5>2
      <4> QED
        BY <3>1, <3>2, <3>3, <4>1
    <3>4. Size[o] >= Base(Open(o))
      BY <3>1, <3>2
    <3> QED
      BY <2>3, <3>3, <3>4 DEF Fresh
  <2>6. Held(o)' \subseteq Held(o) \cup {p}
    <3>1. book[o] \in Seq(Levels)
      BY DEF TypeOK
    <3>2. book'[o] = Append(book[o], p)
      BY <2>1 DEF TypeOK
    <3>3. \A i \in DOMAIN Append(book[o], p) : Append(book[o], p)[i] = p \/ (i \in DOMAIN book[o] /\ Append(book[o], p)[i] = book[o][i])
      BY <2>2, <3>1, AppendProperties, LenProperties
    <3> QED
      BY <3>2, <3>3 DEF Held
  <2>7. SameLevels(o)
    BY <2>2, <2>3, <2>5, <2>6 DEF SameLevels
  <2>8. SameFills(o)
    BY <2>1 DEF SameFills, SameFill
  <2>9. SameRow(o)
    BY <1>2, <2>1 DEF SameRow, OrderInv, Rowless, Covers, Exact
  <2>10. OrderInv(o)'
    BY <1>2, <2>7, <2>8, <2>9, StillKeeps DEF Still
  <2>11. DatedInv'
    BY <1>3, <2>1, DatedStays DEF Rows
  <2> QED
    BY <2>4, <2>10, <2>11 DEF LedgerInv
<1>8. CASE PlaceUpsert(p)
  <2>1. /\ book' = book /\ size' = size /\ dated' = dated /\ status' = [status EXCEPT ![o] = "PLACED"]
        /\ remaining' = [remaining EXCEPT ![o] = UpsertRemaining(o)]
        /\ expiring' = expiring /\ stage' = stage /\ work' = work /\ overdrawn' = overdrawn
        /\ boot' = boot /\ stale' = stale /\ crashes' = crashes
        /\ \A r \in Placements : pc'[r] = "attaching" => pc[r] = "attaching" \/ r = p
    BY <1>1, <1>8 DEF PlaceUpsert, PlaceGoto, levels, fills, booting, TypeOK
  <2>2. status'[o] = "PLACED" /\ \A q \in Orders \ {o} : status'[q] = status[q] /\ remaining'[q] = remaining[q]
    BY <2>1 DEF TypeOK
  <2>3. ASSUME NEW q \in Orders, q # o PROVE OrderInv(q)'
    <3>1. Apart(q)
      BY <2>1, <2>2, <2>3 DEF Apart
    <3> QED
      BY <1>2, <3>1, ApartKeeps
  <2>4. OrderInv(o)'
    <3>1. CASE status[o] = "none"
      BY <1>1, <1>2, <1>8, <3>1, UpsertKeeps
    <3>2. CASE status[o] # "none"
      <4>1. remaining'[o] = remaining[o]
        BY <2>1, <3>2 DEF UpsertRemaining, TypeOK
      <4>2. Light(o)
        BY <1>4, <2>1, <2>2, <3>2, <4>1, HeldShrinks DEF Light
      <4> QED
        BY <1>2, <4>2, LightKeeps
    <3> QED
      BY <3>1, <3>2
  <2>5. DatedInv'
    <3>1. Rows
      BY <2>2 DEF Rows
    <3> QED
      BY <1>1, <1>3, <2>1, <2>2, <3>1, DatedStays
  <2> QED
    BY <2>3, <2>4, <2>5 DEF LedgerInv
<1>9. CASE PlaceAttach(p)
  <2>1. /\ book' = book /\ size' = size /\ status' = status /\ remaining' = remaining
        /\ dated' = (IF InBook(o) THEN dated \cup {Head(book[o])} ELSE dated)
        /\ expiring' = expiring /\ stage' = stage /\ work' = work /\ overdrawn' = overdrawn
        /\ boot' = boot /\ stale' = stale /\ crashes' = crashes /\ pc[p] = "attaching"
        /\ \A r \in Placements : pc'[r] = "attaching" => pc[r] = "attaching"
    BY <1>1, <1>9 DEF PlaceAttach, AfterAttach, PlaceGoto, table, fills, booting, TypeOK
  <2>2. \A q \in Orders : Light(q)
    BY <1>4, <2>1, HeldShrinks DEF Light
  <2>3. status[o] # "none"
    BY <1>1, <1>3, <2>1 DEF DatedInv
  <2>4. InBook(o) => Owns(o, Head(book[o]))
    <3>1. InBook(o) => Head(book[o]) \in Held(o)
      BY FirstLevel DEF Held
    <3> QED
      BY <1>2, <3>1, HeldOwned
  <2>5. \A l \in dated' : \A q \in Orders : Owns(q, l) => status[q] # "none"
    <3> SUFFICES ASSUME NEW l \in dated', NEW q \in Orders, Owns(q, l) PROVE status[q] # "none"
      OBVIOUS
    <3>1. CASE l \in dated
      BY <1>3, <3>1 DEF DatedInv
    <3>2. CASE l \notin dated
      BY <2>1, <2>3, <2>4, <3>2, OwnsOne
    <3> QED
      BY <3>1, <3>2
  <2>6. DatedInv'
    BY <1>3, <2>1, <2>5 DEF DatedInv, Owns
  <2> QED
    BY <1>2, <2>2, <2>6, LightKeeps DEF LedgerInv
<1>10. CASE PlaceSave(p)
  <2>1. /\ book' = book /\ size' = size /\ dated' = dated /\ status' = status /\ remaining' = remaining
        /\ expiring' = expiring /\ stage' = stage /\ work' = work /\ overdrawn' = overdrawn
        /\ boot' = boot /\ stale' = stale /\ crashes' = crashes
        /\ \A r \in Placements : pc'[r] = "attaching" => pc[r] = "attaching"
    BY <1>10 DEF PlaceSave, PlaceGoto, levels, fills, booting, TypeOK
  <2>2. \A q \in Orders : Light(q)
    BY <1>4, <2>1, HeldShrinks DEF Light
  <2>3. DatedInv'
    BY <1>3, <2>1, DatedStays DEF Rows
  <2> QED
    BY <1>2, <2>2, <2>3, LightKeeps DEF LedgerInv
<1> QED
  BY <1>5, <1>6, <1>7, <1>8, <1>9, <1>10 DEF PlaceStep

LEMMA CancelKeeps ==
  ASSUME TypeOK, LedgerInv, NEW c \in Cancels, CancelStep(c)
  PROVE  LedgerInv'
<1>1. PICK o \in Orders : o = Withdraws[c]
  BY Constants
<1>2. DatedInv /\ \A q \in Orders : OrderInv(q)
  BY DEF LedgerInv
<1>3. \A q \in Orders : status[q] = "none" => q \notin expiring
  BY <1>2 DEF OrderInv, Rowless
<1>4. /\ book' = [book EXCEPT ![o] = <<>>] \/ book' = book
      /\ status' = status \/ WriteCancelled(o)
      /\ size' = size /\ dated' = dated /\ remaining' = remaining
      /\ expiring' = expiring /\ stage' = stage /\ work' = work /\ overdrawn' = overdrawn
      /\ boot' = boot /\ stale' = stale /\ crashes' = crashes /\ pc' = pc
  BY <1>1 DEF CancelStep, CancelClear, CancelWrite, Drop, levels, table, fills, booting
<1>5. \A q \in Orders : book'[q] = book[q] \/ book'[q] = <<>>
  BY <1>4 DEF TypeOK
<1>6. \A q \in Orders : (status'[q] = "none" <=> status[q] = "none") /\ (status'[q] = "FILLED" => status[q] = "FILLED")
  BY <1>4, WritesCancelled
<1>7. \A q \in Orders : Light(q)
  BY <1>3, <1>4, <1>5, <1>6, HeldShrinks DEF Light
<1>8. DatedInv'
  BY <1>2, <1>4, <1>6, DatedStays DEF Rows
<1> QED
  BY <1>2, <1>7, <1>8, LightKeeps DEF LedgerInv

LEMMA ExpiryKeeps ==
  ASSUME TypeOK, LedgerInv, ExpiryStep
  PROVE  LedgerInv'
<1>1. DatedInv /\ \A q \in Orders : OrderInv(q)
  BY DEF LedgerInv
<1>2. \A q \in Orders : status[q] = "none" => q \notin expiring
  BY <1>1 DEF OrderInv, Rowless
<1>3. CASE Sweep
  <2>1. /\ \A q \in Orders : book'[q] = Remainder(q)
        /\ expiring' = expiring \cup {q \in Orders : book'[q] # book[q]}
        /\ size' = size /\ dated' = dated /\ status' = status /\ remaining' = remaining
        /\ stage' = stage /\ work' = work /\ overdrawn' = overdrawn
        /\ boot' = boot /\ stale' = stale /\ crashes' = crashes /\ pc' = pc
    BY <1>3 DEF Sweep, table, fills, booting
  <2>2. \A q \in Orders : Held(q)' \subseteq Held(q)
    BY <2>1, RemainderIs DEF Held
  <2>3. ASSUME NEW q \in Orders, status[q] = "none" PROVE q \notin expiring'
    <3>1. ASSUME Remainder(q) # book[q] PROVE FALSE
      <4>1. PICK l \in Held(q) : Lapsed(q, l)
        BY <3>1, SweptLevel
      <4>2. l \in dated /\ Owns(q, l)
        BY <1>1, <4>1, HeldOwned DEF Lapsed
      <4> QED
        BY <1>1, <2>3, <4>2 DEF DatedInv
    <3> QED
      BY <1>2, <2>1, <2>3, <3>1
  <2>4. \A q \in Orders : Light(q)
    BY <2>1, <2>2, <2>3 DEF Light
  <2>5. DatedInv'
    BY <1>1, <2>1, DatedStays DEF Rows
  <2> QED
    BY <1>1, <2>4, <2>5, LightKeeps DEF LedgerInv
<1>4. ASSUME NEW o \in Orders, PassExpiry(o) \/ SweepWrite(o) PROVE LedgerInv'
  <2>1. /\ book' = book /\ size' = size /\ dated' = dated /\ remaining' = remaining
        /\ expiring' \subseteq expiring /\ stage' = stage /\ work' = work /\ overdrawn' = overdrawn
        /\ boot' = boot /\ stale' = stale /\ crashes' = crashes /\ pc' = pc
        /\ status' = status \/ (o \in expiring /\ status' = [status EXCEPT ![o] = "EXPIRED"])
    BY <1>4 DEF PassExpiry, SweepWrite, levels, table, fills, booting
  <2>2. \A q \in Orders : (status'[q] = "none" <=> status[q] = "none") /\ (status'[q] = "FILLED" => status[q] = "FILLED")
    BY <1>2, <2>1 DEF TypeOK
  <2>3. \A q \in Orders : Light(q)
    BY <1>2, <2>1, <2>2, HeldShrinks DEF Light
  <2>4. DatedInv'
    BY <1>1, <2>1, <2>2, DatedStays DEF Rows
  <2> QED
    BY <1>1, <2>3, <2>4, LightKeeps DEF LedgerInv
<1> QED
  BY <1>3, <1>4 DEF ExpiryStep

LEMMA FillKeeps ==
  ASSUME TypeOK, LedgerInv, NEW f \in Fills, FillStep(f)
  PROVE  LedgerInv'
<1> USE DEF levels, table, booting
<1>1. DatedInv /\ \A q \in Orders : OrderInv(q)
  BY DEF LedgerInv
<1>2. CASE FillLevel(f)
  <2>1. PICK o \in Orders, l \in Levels, e \in Nat : LevelStep(f, o, l, e)
    BY <1>2, FillLevelIs
  <2>2. l \in Held(o)
    BY <2>1 DEF LevelStep, Held
  <2>3. Owns(o, l)
    BY <1>1, <2>2, HeldOwned
  <2>4. ASSUME NEW q \in Orders, q # o PROVE OrderInv(q)'
    <3>1. \A k \in Levels : Owns(q, k) => size'[k] = size[k]
      BY <2>1, <2>3, <2>4, OwnsOne DEF LevelStep, TypeOK
    <3>2. \A g \in Fills : Takes[g] = q => stage'[g] = stage[g] /\ work'[g] = work[g]
      BY <2>1, <2>4 DEF LevelStep, TypeOK
    <3>3. Apart(q)
      BY <2>1, <3>1, <3>2 DEF LevelStep, Apart
    <3> QED
      BY <1>1, <3>3, ApartKeeps
  <2>5. OrderInv(o)'
    BY <1>1, <2>1, LevelStepKeeps
  <2>6. DatedInv'
    BY <1>1, <2>1, DatedStays DEF LevelStep, Rows
  <2> QED
    BY <2>4, <2>5, <2>6 DEF LedgerInv
<1>3. CASE FillMiss(f)
  <2>1. /\ stage[f] = "pending" /\ stage' = [stage EXCEPT ![f] = "looking"] /\ status[Takes[f]] # "none"
        /\ UNCHANGED <<levels, table, pc, cpc, expiring, work, overdrawn, expired, booting>>
    BY <1>3 DEF FillMiss, Deliverable, FillGoto
  <2>2. \A g \in Fills : SameFill(g)
    BY <2>1 DEF SameFill, TypeOK
  <2>3. ASSUME NEW q \in Orders PROVE OrderInv(q)'
    <3>1. SameLevels(q)
      BY <2>1 DEF SameLevels, Held
    <3>2. SameRow(q)
      BY <1>1, <2>1 DEF SameRow, OrderInv, Rowless, Covers, Exact
    <3>3. SameFills(q)
      BY <2>2 DEF SameFills
    <3> QED
      BY <1>1, <3>1, <3>2, <3>3, StillKeeps DEF Still
  <2>4. DatedInv'
    BY <1>1, <2>1, DatedStays DEF Rows
  <2> QED
    BY <2>3, <2>4 DEF LedgerInv
<1>4. CASE FillRead(f)
  <2>1. PICK o \in Orders, e \in Int : ReadStep(f, o, e)
    BY <1>4, FillReadIs
  <2>2. ASSUME NEW q \in Orders, q # o PROVE OrderInv(q)'
    <3>1. \A g \in Fills : Takes[g] = q => stage'[g] = stage[g] /\ work'[g] = work[g]
      BY <2>1, <2>2 DEF ReadStep, TypeOK
    <3>2. q \in overdrawn' <=> q \in overdrawn
      BY <2>1, <2>2 DEF ReadStep
    <3>3. Apart(q)
      BY <2>1, <3>1, <3>2 DEF ReadStep, Apart
    <3> QED
      BY <1>1, <3>3, ApartKeeps
  <2>3. OrderInv(o)'
    BY <1>1, <2>1, ReadStepKeeps
  <2>4. DatedInv'
    BY <1>1, <2>1, DatedStays DEF ReadStep, Rows
  <2> QED
    BY <2>2, <2>3, <2>4 DEF LedgerInv
<1>5. CASE FillCore(f)
  <2>1. PICK o \in Orders, c \in BOOLEAN : CoreStep(f, o, c)
    BY <1>5, FillCoreIs
  <2>2. \A g \in Fills : SameFill(g)
    <3> TAKE g \in Fills
    <3>1. CASE g = f
      BY <2>1, <3>1 DEF SameFill, CoreStep, TypeOK
    <3>2. CASE g # f
      BY <2>1, <3>2 DEF SameFill, CoreStep, TypeOK
    <3> QED
      BY <3>1, <3>2
  <2>3. ASSUME NEW q \in Orders PROVE OrderInv(q)'
    <3>1. SameLevels(q)
      BY <2>1 DEF SameLevels, Held, CoreStep
    <3>2. SameRow(q)
      BY <1>1, <2>1 DEF SameRow, OrderInv, Rowless, Covers, Exact, CoreStep
    <3>3. SameFills(q)
      BY <2>2 DEF SameFills
    <3> QED
      BY <1>1, <3>1, <3>2, <3>3, StillKeeps DEF Still
  <2>4. DatedInv'
    BY <1>1, <2>1, DatedStays DEF CoreStep, Rows
  <2> QED
    BY <2>3, <2>4 DEF LedgerInv
<1>6. CASE FillWrite(f)
  <2>1. PICK o \in Orders : WriteStep(f, o)
    BY <1>6, FillWriteIs
  <2>2. \A q \in Orders \ {o} : status'[q] = status[q] /\ remaining'[q] = remaining[q]
    BY <2>1 DEF WriteStep, TypeOK
  <2>3. ASSUME NEW q \in Orders, q # o PROVE OrderInv(q)'
    <3>1. \A g \in Fills : Takes[g] = q => stage'[g] = stage[g] /\ work'[g] = work[g]
      BY <2>1, <2>3 DEF WriteStep, TypeOK
    <3>2. Apart(q)
      BY <2>1, <2>2, <2>3, <3>1 DEF WriteStep, Apart
    <3> QED
      BY <1>1, <3>2, ApartKeeps
  <2>4. OrderInv(o)'
    BY <1>1, <2>1, WriteStepKeeps
  <2>5. Rows
    <3>1. WorkOK(f) /\ stage[f] = "writing"
      BY <1>1, <2>1 DEF OrderInv, WriteStep
    <3>2. status'[o] # "none"
      BY <2>1, <3>1 DEF WorkOK, WriteStep, TypeOK
    <3> QED
      BY <2>2, <3>2 DEF Rows
  <2>6. DatedInv'
    BY <1>1, <2>1, <2>5, DatedStays DEF WriteStep
  <2> QED
    BY <2>3, <2>4, <2>6 DEF LedgerInv
<1>7. CASE FillEnd(f)
  <2>1. PICK o \in Orders, list \in Seq(Levels) : EndStep(f, o, list)
    BY <1>7, FillEndIs
  <2>2. Owns(o, f) /\ f \in Levels
    BY <2>1, Constants DEF EndStep, Owns
  <2>3. \A l \in Levels \ {f} : size'[l] = size[l]
    BY <2>1 DEF EndStep, TypeOK
  <2>4. book'[o] = list /\ \A q \in Orders \ {o} : book'[q] = book[q]
    BY <2>1 DEF EndStep, TypeOK
  <2>5. \A g \in Fills \ {f} : stage'[g] = stage[g] /\ work'[g] = work[g]
    BY <2>1 DEF EndStep, TypeOK
  <2>6. ASSUME NEW q \in Orders, q # o PROVE OrderInv(q)'
    <3>1. \A l \in Levels : Owns(q, l) => size'[l] = size[l]
      BY <2>2, <2>3, <2>6, OwnsOne
    <3>2. \A g \in Fills : Takes[g] = q => stage'[g] = stage[g] /\ work'[g] = work[g]
      BY <2>1, <2>5, <2>6 DEF EndStep
    <3>3. Apart(q)
      BY <2>1, <2>4, <2>6, <3>1, <3>2 DEF EndStep, Apart
    <3> QED
      BY <1>1, <3>3, ApartKeeps
  <2>7. status[o] # "none" /\ f \in Mine(o, {"reading", "writing", "written"}) /\ WorkOK(f)
    BY <1>1, <2>1 DEF EndStep, OrderInv, Rowless, Mine
  <2>8. ASSUME work[f].core, work[f].rest > 0 PROVE Fresh(o, f)
    <3>1. work[f].level = NoLevel
      BY <2>1, <2>7, <2>8 DEF WorkOK, EndStep
    <3>2. size'[f] = work[f].rest
      BY <2>1, <2>2, <2>8 DEF EndStep, TypeOK
    <3>3. o \notin overdrawn => Left(o) <= work[f].rest
      BY <1>1, <2>7, <3>1 DEF OrderInv, Covers
    <3>4. crashes = 0 => work[f].rest >= Base(Open(o))
      BY <1>1, <2>7, <3>1 DEF OrderInv, Exact
    <3> QED
      BY <2>7, <3>2, <3>3, <3>4 DEF Fresh
  <2>9. SameLevels(o)
    <3>1. ASSUME NEW l \in Held(o)' PROVE l \in Held(o) \/ (Owns(o, l) /\ Fresh(o, l))
      <4>1. CASE list = <<>>
        BY <2>4, <3>1, <4>1 DEF Held
      <4>2. CASE list = <<f>> /\ work[f].core /\ work[f].rest > 0
        <5>1. l = f
          BY <2>4, <3>1, <4>2 DEF Held
        <5> QED
          BY <2>2, <2>8, <4>2, <5>1
      <4>3. CASE list = book[o]
        BY <2>4, <3>1, <4>3 DEF Held
      <4> QED
        BY <2>1, <4>1, <4>2, <4>3 DEF EndStep
    <3>2. size'[f] = size[f] \/ Fresh(o, f)
      BY <2>1, <2>8 DEF EndStep
    <3> QED
      BY <2>3, <3>1, <3>2 DEF SameLevels
  <2>10. SameFills(o)
    <3>1. stage[f] = "written" /\ stage'[f] = "done"
      BY <2>1 DEF EndStep, TypeOK
    <3> QED
      BY <2>5, <3>1 DEF SameFills, SameFill
  <2>11. SameRow(o)
    BY <1>1, <2>1 DEF SameRow, OrderInv, Rowless, Covers, Exact, EndStep
  <2>12. OrderInv(o)'
    BY <1>1, <2>9, <2>10, <2>11, StillKeeps DEF Still
  <2>13. DatedInv'
    BY <1>1, <2>1, DatedStays DEF EndStep, Rows
  <2> QED
    BY <2>6, <2>12, <2>13 DEF LedgerInv
<1> QED
  BY <1>2, <1>3, <1>4, <1>5, <1>6, <1>7 DEF FillStep

LEMMA BootKeeps ==
  ASSUME TypeOK, LedgerInv, BootStep
  PROVE  LedgerInv'
<1> USE DEF levels, table, fills
<1>1. DatedInv /\ \A q \in Orders : OrderInv(q)
  BY DEF LedgerInv
<1>2. CASE Crash
  <2>1. \A q \in Orders : OrderInv(q)'
    BY <1>1, <1>2, CrashKeeps
  <2>2. dated' = {} /\ \A r \in Placements : pc'[r] # "attaching"
    BY <1>2 DEF Crash, InFlight
  <2>3. DatedInv'
    BY <2>2 DEF DatedInv
  <2> QED
    BY <2>1, <2>3 DEF LedgerInv
<1>3. CASE BootRead
  <2>1. /\ boot # "up" /\ crashes' = crashes /\ UNCHANGED <<levels, table, pc, cpc, expiring, fills, expired>>
        /\ stale' = [o \in Orders |-> IF status[o] = "PLACED" /\ remaining[o] > 0 THEN remaining[o] ELSE 0]
    BY <1>3 DEF BootRead
  <2>2. ASSUME NEW q \in Orders PROVE OrderInv(q)'
    <3>1. crashes # 0
      BY <1>1, <2>1 DEF OrderInv, Exact
    <3>2. stale'[q] > 0 => q \in overdrawn \/ Left(q) <= stale'[q]
      BY <1>1, <2>1, LeftIs
    <3>3. SameRow(q)
      BY <1>1, <2>1, <3>1, <3>2 DEF SameRow, OrderInv, Rowless
    <3>4. SameLevels(q) /\ SameFills(q)
      BY <2>1 DEF SameLevels, Held, SameFills, SameFill
    <3> QED
      BY <1>1, <3>3, <3>4, StillKeeps DEF Still
  <2>3. DatedInv'
    BY <1>1, <2>1, DatedStays DEF Rows
  <2> QED
    BY <2>2, <2>3 DEF LedgerInv
<1>4. CASE BootDone
  <2>1. boot # "up" /\ UNCHANGED <<levels, table, pc, cpc, expiring, fills, expired, stale, crashes>>
    BY <1>4 DEF BootDone
  <2>2. ASSUME NEW q \in Orders PROVE OrderInv(q)'
    <3>1. crashes # 0
      BY <1>1, <2>1 DEF OrderInv, Exact
    <3>2. SameRow(q)
      BY <1>1, <2>1, <3>1 DEF SameRow, OrderInv, Rowless, Covers
    <3>3. SameLevels(q) /\ SameFills(q)
      BY <2>1 DEF SameLevels, Held, SameFills, SameFill
    <3> QED
      BY <1>1, <3>2, <3>3, StillKeeps DEF Still
  <2>3. DatedInv'
    BY <1>1, <2>1, DatedStays DEF Rows
  <2> QED
    BY <2>2, <2>3 DEF LedgerInv
<1>5. ASSUME NEW o \in Orders, Hydrate(o) PROVE LedgerInv'
  <2>1. PICK l : l = <<o, boot>>
    OBVIOUS
  <2>2. l \in Levels /\ Owns(o, l) /\ stale[o] > 0
    BY <1>5, <2>1 DEF Hydrate, Levels, Owns
  <2>3. /\ book' = [book EXCEPT ![o] = <<l>>]
        /\ size' = [size EXCEPT ![l] = stale[o]]
        /\ dated' = (IF o \in raw THEN dated \cup {l} ELSE dated)
        /\ stale' = [stale EXCEPT ![o] = 0]
        /\ UNCHANGED <<table, pc, cpc, expiring, fills, expired, boot, crashes>>
    BY <1>5, <2>1 DEF Hydrate
  <2>4. size'[l] = stale[o] /\ \A k \in Levels \ {l} : size'[k] = size[k]
    BY <2>2, <2>3 DEF TypeOK
  <2>5. book'[o] = <<l>> /\ stale'[o] = 0 /\ \A q \in Orders \ {o} : book'[q] = book[q] /\ stale'[q] = stale[q]
    BY <2>3 DEF TypeOK
  <2>6. ASSUME NEW q \in Orders, q # o PROVE OrderInv(q)'
    <3>1. \A k \in Levels : Owns(q, k) => size'[k] = size[k]
      BY <2>2, <2>4, <2>6, OwnsOne
    <3>2. Apart(q)
      BY <2>3, <2>5, <2>6, <3>1 DEF Apart
    <3> QED
      BY <1>1, <3>2, ApartKeeps
  <2>7. status[o] # "none" /\ crashes # 0
    BY <1>1, <2>2 DEF OrderInv, Rowless, Exact, TypeOK
  <2>8. Fresh(o, l)
    BY <1>1, <2>2, <2>4, <2>7 DEF Fresh, OrderInv, Covers
  <2>9. SameLevels(o)
    <3>1. Held(o)' \subseteq {l}
      BY <2>5 DEF Held
    <3> QED
      BY <2>2, <2>4, <2>8, <3>1 DEF SameLevels
  <2>10. SameFills(o)
    BY <2>3 DEF SameFills, SameFill
  <2>11. SameRow(o)
    BY <2>3, <2>5, <2>7 DEF SameRow
  <2>12. OrderInv(o)'
    BY <1>1, <2>9, <2>10, <2>11, StillKeeps DEF Still
  <2>13. DatedInv'
    <3>1. ASSUME NEW k \in dated', NEW q \in Orders, Owns(q, k) PROVE status'[q] # "none"
      <4>1. CASE k \in dated
        BY <1>1, <2>3, <3>1, <4>1 DEF DatedInv
      <4>2. CASE k = l
        BY <2>2, <2>3, <2>7, <3>1, <4>2, OwnsOne
      <4> QED
        BY <2>3, <3>1, <4>1, <4>2
    <3>2. \A r \in Placements : pc'[r] = "attaching" => status'[Places[r]] # "none"
      BY <1>1, <2>3 DEF DatedInv
    <3> QED
      BY <3>1, <3>2 DEF DatedInv, Owns
  <2> QED
    BY <2>6, <2>12, <2>13 DEF LedgerInv
<1> QED
  BY <1>2, <1>3, <1>4, <1>5 DEF BootStep

-----------------------------------------------------------------------------
\* What follows.

LEMMA LedgerInit ==
  ASSUME Init
  PROVE  LedgerInv
<1>1. /\ \A o \in Orders : book[o] = <<>> /\ status[o] = "none" /\ remaining[o] = 0 /\ stale[o] = 0
      /\ dated = {} /\ expiring = {} /\ overdrawn = {} /\ boot = "up"
      /\ \A f \in Fills : stage[f] = "pending"
      /\ \A p \in Placements : pc[p] = "idle"
  BY DEF Init
<1>2. ASSUME NEW o \in Orders PROVE OrderInv(o)
  <2>1. Mine(o, {"writing", "written"}) = {} /\ Mine(o, {"reading", "writing", "written"}) = {} /\ Taken(o) = {}
    BY <1>1 DEF Mine, Taken
  <2>2. Known(o) = {}
    BY <1>1, <2>1 DEF Known, Held
  <2>3. \A f \in Fills : WorkOK(f)
    BY <1>1 DEF WorkOK
  <2>4. Rowless(o)
    BY <1>1, <2>2 DEF Rowless
  <2>5. Covers(o) /\ Spent(o)
    BY <1>1, <2>1, <2>2 DEF Covers, Spent
  <2>6. Exact(o)
    BY <1>1, <2>1, <2>2 DEF Exact
  <2> QED
    BY <2>2, <2>3, <2>4, <2>5, <2>6 DEF OrderInv
<1>3. DatedInv
  BY <1>1 DEF DatedInv
<1> QED
  BY <1>2, <1>3 DEF LedgerInv

LEMMA LedgerNext ==
  ASSUME TypeOK, LedgerInv, [Next]_vars
  PROVE  LedgerInv'
<1>1. CASE UNCHANGED vars
  <2>1. /\ UNCHANGED <<book, size, dated, status, remaining, raw, pc, cpc, expiring>>
        /\ UNCHANGED <<stage, work, overdrawn, expired, boot, stale, crashes>>
    BY <1>1 DEF vars, levels, table, fills, booting
  <2>2. DatedInv /\ \A q \in Orders : OrderInv(q)
    BY DEF LedgerInv
  <2>3. \A q \in Orders : Apart(q)
    BY <2>1 DEF Apart
  <2>4. DatedInv'
    BY <2>1, <2>2, DatedStays DEF Rows
  <2> QED
    BY <2>2, <2>3, <2>4, ApartKeeps DEF LedgerInv
<1>2. CASE Next
  BY <1>2, PlaceKeeps, CancelKeeps, ExpiryKeeps, FillKeeps, BootKeeps DEF Next
<1> QED
  BY <1>1, <1>2

\* What is left, when no handler is at work, is in the row.
LEMMA QuietLeft ==
  ASSUME TypeOK, NEW o \in Orders, Quiet(o)
  PROVE  Left(o) = remaining[o] /\ Open(o) = {f \in Fills : Takes[f] = o /\ stage[f] \in {"pending", "lost"}}
<1>1. Taken(o) = {}
  BY DEF Taken, Mine, Quiet, Busy
<1>2. Open(o) = {f \in Fills : Takes[f] = o /\ stage[f] \in {"pending", "lost"}}
  BY DEF Open, Mine, Quiet, Busy
<1>3. remaining[o] \in Int /\ Due(o) = 0
  BY <1>1, SumEmpty DEF TypeOK, Due
<1> QED
  BY <1>2, <1>3 DEF Left

LEMMA AccountedHolds ==
  ASSUME TypeOK, LedgerInv
  PROVE  FillsAccounted
<1> SUFFICES ASSUME NEW o \in Orders
             PROVE  /\ status[o] # "none" => Counted(o)
                    /\ Quiet(o) /\ status[o] = "FILLED" => Whole(o)
  BY DEF FillsAccounted
<1>1. OrderInv(o)
  BY DEF LedgerInv
<1>2. ASSUME status[o] # "none" PROVE Counted(o)
  BY <1>1, <1>2 DEF OrderInv, Spent, Exact, Counted
<1>3. ASSUME Quiet(o), status[o] = "FILLED" PROVE Whole(o)
  BY <1>1, <1>3, QuietLeft DEF OrderInv, Spent, Exact, Whole
<1> QED
  BY <1>2, <1>3

\* The row forgets no fill, counts each once but for what a restart repeats, and,
\* FILLED and at rest, has nothing left but what a restart made pending or lost:
\* for every number of orders, placements, cancels, fills and restarts.
THEOREM NoFillForgotten == Spec => []FillsAccounted
<1>1. Init => LedgerInv
  BY LedgerInit
<1>2. TypeOK /\ LedgerInv /\ [Next]_vars => LedgerInv'
  BY LedgerNext
<1>3. TypeOK /\ LedgerInv => FillsAccounted
  BY AccountedHolds
<1> QED
  BY <1>1, <1>2, <1>3, Typed, PTL DEF Spec

-----------------------------------------------------------------------------
\* What rests in the table is in the book.

Leaving == {"replacing", "pushing", "attaching", "undoing", "withdrawing", "closing"}
Absent(o) == status[o] = "PLACED" /\ remaining[o] > 0 /\ ~InBook(o)
AbsentOK(o) == o \notin overdrawn /\ Absent(o) => Excused(o)

LEMMA AbsentIs ==
  AbsentInv <=> \A o \in Orders : AbsentOK(o)
BY DEF AbsentInv, AbsentOK, Absent

\* Nothing is withdrawn of what excuses the order, and it is not made to need it.
Kept(o) ==
  /\ o \in overdrawn => o \in overdrawn'
  /\ status'[o] = "PLACED" => status[o] = "PLACED"
  /\ remaining'[o] > 0 => remaining[o] > 0
  /\ book'[o] = <<>> => book[o] = <<>>
  /\ boot' = boot /\ (stale[o] > 0 => stale'[o] > 0)
  /\ \A p \in Placements : Places[p] = o /\ pc[p] \in Leaving => pc'[p] \in Leaving
  /\ \A c \in Cancels : Withdraws[c] = o /\ cpc[c] = "writing" => cpc'[c] = "writing"
  /\ o \in expiring => o \in expiring'
  /\ o \notin overdrawn' /\ Left(o) <= 0 => Left(o)' <= 0

LEMMA KeptStays ==
  ASSUME NEW o \in Orders, AbsentOK(o), Kept(o)
  PROVE  AbsentOK(o)'
<1> SUFFICES ASSUME o \notin overdrawn', Absent(o)' PROVE Excused(o)'
  BY DEF AbsentOK
<1>1. Absent(o) /\ o \notin overdrawn
  BY DEF Absent, Kept, InBook
<1>2. Excused(o)
  BY <1>1 DEF AbsentOK
<1> QED
  BY <1>2 DEF Excused, Kept, Leaving

LEMMA LeftSame ==
  ASSUME NEW o \in Orders, SameFills(o), remaining'[o] = remaining[o]
  PROVE  Left(o)' = Left(o)
BY SameParts DEF Left

LEMMA PlaceAbsent ==
  ASSUME TypeOK, AbsentInv, NEW p \in Placements, PlaceStep(p)
  PROVE  AbsentInv'
<1>1. PICK o \in Orders : o = Places[p]
  BY Constants
<1>2. \A q \in Orders : AbsentOK(q)
  BY AbsentIs
<1>3. /\ stage' = stage /\ work' = work /\ overdrawn' = overdrawn /\ boot' = boot /\ stale' = stale
      /\ cpc' = cpc /\ expiring' = expiring
      /\ \A r \in Placements \ {p} : pc'[r] = pc[r]
      /\ \A q \in Orders \ {o} : book'[q] = book[q] /\ status'[q] = status[q] /\ remaining'[q] = remaining[q]
  BY <1>1 DEF PlaceStep, PlaceClear, PlaceReplace, PlacePush, PlaceUpsert, PlaceAttach, PlaceSave, PlaceUndo, PlaceClose,
     Drop, WriteCancelled, PlaceGoto, levels, table, fills, booting, TypeOK
<1>4. \A q \in Orders : SameFills(q)
  BY <1>3 DEF SameFills, SameFill
<1>5. ASSUME NEW q \in Orders, q # o PROVE AbsentOK(q)'
  <2>1. Left(q)' = Left(q)
    BY <1>3, <1>4, <1>5, LeftSame
  <2>2. Kept(q)
    BY <1>1, <1>3, <1>5, <2>1 DEF Kept
  <2> QED
    BY <1>2, <2>2, KeptStays
<1>6. ASSUME pc'[p] \in Leaving PROVE AbsentOK(o)'
  BY <1>1, <1>6 DEF AbsentOK, Excused, Leaving
<1>7. ASSUME book'[o] # <<>> \/ status'[o] # "PLACED" PROVE AbsentOK(o)'
  BY <1>7 DEF AbsentOK, Absent, InBook
<1>8. AbsentOK(o)'
  <2>1. CASE PlaceClear(p) \/ PlaceUndo(p)
    BY <1>6, <2>1 DEF PlaceClear, PlaceUndo, PlaceGoto, TypeOK, Leaving
  <2>2. CASE PlaceReplace(p) \/ PlaceClose(p)
    <3>1. status'[o] # "PLACED"
      BY <1>1, <2>2 DEF PlaceReplace, PlaceClose, WriteCancelled, TypeOK
    <3> QED
      BY <1>7, <3>1
  <2>3. CASE PlacePush(p)
    <3>1. book'[o] = Append(book[o], p) /\ book[o] \in Seq(Levels) /\ p \in Levels
      BY <1>1, <2>3, Constants DEF PlacePush, TypeOK
    <3>2. Append(book[o], p) # <<>>
      BY <3>1, AppendProperties
    <3> QED
      BY <1>7, <3>1, <3>2
  <2>4. CASE PlaceUpsert(p)
    BY <1>6, <2>4 DEF PlaceUpsert, PlaceGoto, TypeOK, Leaving
  <2>5. CASE PlaceAttach(p)
    <3>1. book' = book /\ pc'[p] = AfterAttach(o)
      BY <1>1, <2>5 DEF PlaceAttach, PlaceGoto, TypeOK
    <3> QED
      BY <1>6, <1>7, <3>1 DEF AfterAttach, InBook, Leaving
  <2>6. CASE PlaceSave(p)
    <3>1. pc[p] = "saving" /\ book' = book /\ status' = status /\ remaining' = remaining
      BY <2>6 DEF PlaceSave, levels
    <3>2. Left(o)' = Left(o)
      BY <1>4, <3>1, LeftSame
    <3>3. Kept(o)
      BY <1>3, <3>1, <3>2 DEF Kept, Leaving
    <3> QED
      BY <1>2, <3>3, KeptStays
  <2> QED
    BY <2>1, <2>2, <2>3, <2>4, <2>5, <2>6 DEF PlaceStep
<1> QED
  BY <1>5, <1>8 DEF AbsentInv, AbsentOK, Absent

LEMMA CancelAbsent ==
  ASSUME TypeOK, AbsentInv, NEW c \in Cancels, CancelStep(c)
  PROVE  AbsentInv'
<1>1. PICK o \in Orders : o = Withdraws[c]
  BY Constants
<1>2. \A q \in Orders : AbsentOK(q)
  BY AbsentIs
<1>3. /\ stage' = stage /\ work' = work /\ overdrawn' = overdrawn /\ boot' = boot /\ stale' = stale
      /\ pc' = pc /\ expiring' = expiring /\ remaining' = remaining
      /\ \A d \in Cancels \ {c} : cpc'[d] = cpc[d]
      /\ \A q \in Orders \ {o} : book'[q] = book[q] /\ status'[q] = status[q]
  BY <1>1 DEF CancelStep, CancelClear, CancelWrite, Drop, WriteCancelled, levels, table, fills, booting, TypeOK
<1>4. \A q \in Orders : SameFills(q)
  BY <1>3 DEF SameFills, SameFill
<1>5. ASSUME NEW q \in Orders, q # o PROVE AbsentOK(q)'
  <2>1. Left(q)' = Left(q)
    BY <1>3, <1>4, <1>5, LeftSame
  <2>2. Kept(q)
    BY <1>1, <1>3, <1>5, <2>1 DEF Kept
  <2> QED
    BY <1>2, <2>2, KeptStays
<1>6. AbsentOK(o)'
  <2>1. CASE CancelClear(c)
    <3>1. cpc'[c] = "writing"
      BY <2>1 DEF CancelClear, TypeOK
    <3> QED
      BY <1>1, <3>1 DEF AbsentOK, Excused
  <2>2. CASE CancelWrite(c)
    <3>1. status'[o] # "PLACED"
      BY <1>1, <2>2 DEF CancelWrite, WriteCancelled, TypeOK
    <3> QED
      BY <3>1 DEF AbsentOK, Absent
  <2> QED
    BY <2>1, <2>2 DEF CancelStep
<1> QED
  BY <1>5, <1>6 DEF AbsentInv, AbsentOK, Absent

LEMMA ExpiryAbsent ==
  ASSUME TypeOK, AbsentInv, ExpiryStep
  PROVE  AbsentInv'
<1>1. \A q \in Orders : AbsentOK(q)
  BY AbsentIs
<1>2. /\ stage' = stage /\ work' = work /\ overdrawn' = overdrawn /\ boot' = boot /\ stale' = stale
      /\ pc' = pc /\ cpc' = cpc /\ remaining' = remaining
  BY DEF ExpiryStep, Sweep, PassExpiry, SweepWrite, levels, table, fills, booting
<1>3. \A q \in Orders : Left(q)' = Left(q)
  <2>1. \A q \in Orders : SameFills(q)
    BY <1>2 DEF SameFills, SameFill
  <2> QED
    BY <1>2, <2>1, LeftSame
<1>4. ASSUME NEW q \in Orders PROVE AbsentOK(q)'
  <2>1. CASE Sweep
    <3>1. status' = status /\ (q \in expiring => q \in expiring') /\ (book'[q] # book[q] => q \in expiring')
      BY <2>1 DEF Sweep, table
    <3>2. CASE book'[q] # book[q]
      BY <3>1, <3>2 DEF AbsentOK, Excused
    <3>3. CASE book'[q] = book[q]
      <4>1. Kept(q)
        BY <1>2, <1>3, <3>1, <3>3 DEF Kept
      <4> QED
        BY <1>1, <4>1, KeptStays
    <3> QED
      BY <3>2, <3>3
  <2>2. ASSUME NEW o \in Orders, PassExpiry(o) PROVE AbsentOK(q)'
    <3>1. status' = status /\ expiring' = expiring /\ book' = book
      BY <2>2 DEF PassExpiry, table, levels
    <3>2. Kept(q)
      BY <1>2, <1>3, <3>1 DEF Kept
    <3> QED
      BY <1>1, <3>2, KeptStays
  <2>3. ASSUME NEW o \in Orders, SweepWrite(o) PROVE AbsentOK(q)'
    <3>1. book' = book /\ expiring' = expiring \ {o} /\ status' = [status EXCEPT ![o] = "EXPIRED"]
      BY <2>3 DEF SweepWrite, levels
    <3>2. CASE q = o
      <4>1. status'[q] # "PLACED"
        BY <3>1, <3>2 DEF TypeOK
      <4> QED
        BY <4>1 DEF AbsentOK, Absent
    <3>3. CASE q # o
      <4>1. Kept(q)
        BY <1>2, <1>3, <3>1, <3>3 DEF Kept, TypeOK
      <4> QED
        BY <1>1, <4>1, KeptStays
    <3> QED
      BY <3>2, <3>3
  <2> QED
    BY <2>1, <2>2, <2>3 DEF ExpiryStep
<1> QED
  BY <1>4 DEF AbsentInv, AbsentOK, Absent

LEMMA FillAbsent ==
  ASSUME TypeOK, LedgerInv, AbsentInv, NEW f \in Fills, FillStep(f)
  PROVE  AbsentInv'
<1>1. \A q \in Orders : AbsentOK(q) /\ OrderInv(q)
  BY AbsentIs DEF LedgerInv
<1>2. PICK o \in Orders : o = Takes[f]
  BY Constants
<1>3. /\ pc' = pc /\ cpc' = cpc /\ expiring' = expiring /\ boot' = boot /\ stale' = stale
      /\ \A q \in overdrawn : q \in overdrawn'
      /\ \A q \in Orders \ {o} : book'[q] = book[q] /\ status'[q] = status[q] /\ remaining'[q] = remaining[q]
      /\ \A g \in Fills \ {f} : stage'[g] = stage[g] /\ work'[g] = work[g]
  BY <1>2 DEF FillStep, FillLevel, FillMiss, FillRead, FillCore, FillWrite, FillEnd, Deliverable, FillGoto,
     levels, table, fills, booting, TypeOK
<1>4. ASSUME NEW q \in Orders, q # o PROVE AbsentOK(q)'
  <2>1. SameFills(q)
    BY <1>2, <1>3, <1>4 DEF SameFills, SameFill
  <2>2. Left(q)' = Left(q)
    BY <1>3, <1>4, <2>1, LeftSame
  <2>3. Kept(q)
    BY <1>3, <1>4, <2>2 DEF Kept
  <2> QED
    BY <1>1, <2>3, KeptStays
<1>5. AbsentOK(o)'
  <2>1. CASE FillLevel(f)
    <3>1. InBook(o) /\ book' = book
      BY <1>2, <2>1 DEF FillLevel
    <3> QED
      BY <3>1 DEF AbsentOK, Absent, InBook
  <2>2. CASE FillWrite(f)
    <3>1. stage[f] = "writing" /\ status'[o] = work[f].to
      BY <1>2, <2>2 DEF FillWrite, TypeOK
    <3>2. WorkOK(f)
      BY <1>1, <1>2 DEF OrderInv
    <3>3. status'[o] # "PLACED"
      BY <3>1, <3>2 DEF WorkOK
    <3> QED
      BY <3>3 DEF AbsentOK, Absent
  <2>3. CASE FillMiss(f) \/ FillCore(f)
    <3>1. book' = book /\ status' = status /\ remaining' = remaining
      BY <2>3 DEF FillMiss, FillCore, levels, table
    <3>2. SameFill(f)
      <4>1. CASE FillMiss(f)
        BY <4>1 DEF FillMiss, FillGoto, Deliverable, SameFill, TypeOK
      <4>2. CASE FillCore(f)
        <5>1. PICK q \in Orders, c \in BOOLEAN : CoreStep(f, q, c)
          BY <4>2, FillCoreIs
        <5> QED
          BY <5>1 DEF SameFill, CoreStep, TypeOK
      <4> QED
        BY <2>3, <4>1, <4>2
    <3>3. SameFills(o)
      BY <1>3, <3>2 DEF SameFills, SameFill
    <3>4. Left(o)' = Left(o)
      BY <3>1, <3>3, LeftSame
    <3>5. Kept(o)
      BY <1>3, <3>1, <3>4 DEF Kept
    <3> QED
      BY <1>1, <3>5, KeptStays
  <2>4. CASE FillRead(f)
    <3>1. PICK q \in Orders, e \in Int : ReadStep(f, q, e)
      BY <2>4, FillReadIs
    <3>2. q = o /\ book' = book /\ status' = status /\ remaining' = remaining
      BY <1>2, <3>1 DEF ReadStep, levels, table
    <3>3. ASSUME o \notin overdrawn', Left(o) <= 0 PROVE Left(o)' <= 0
      <4>1. o \notin overdrawn /\ remaining[o] \in Int /\ remaining[o] >= 0
        BY <3>1, <3>2, <3>3 DEF ReadStep, TypeOK
      <4>2. e >= 0
        BY <3>1, <3>2, <4>1, ExecIs DEF ReadStep
      <4>3. Measured(f, o, "reading", e)
        BY <3>1, <3>2 DEF ReadStep, Measured, TypeOK
      <4>4. Due(o)' = Due(o) + e
        BY <1>1, <4>1, <4>2, <4>3, MeasuredParts
      <4>5. Due(o) \in Nat
        BY <1>1, <4>1, LeftIs
      <4> QED
        BY <3>2, <3>3, <4>1, <4>2, <4>4, <4>5 DEF Left
    <3>4. Kept(o)
      BY <1>3, <3>2, <3>3 DEF Kept
    <3> QED
      BY <1>1, <3>4, KeptStays
  <2>5. CASE FillEnd(f)
    <3>1. PICK q \in Orders, list \in Seq(Levels) : EndStep(f, q, list)
      BY <2>5, FillEndIs
    <3>2. q = o /\ book'[o] = list /\ status' = status /\ remaining' = remaining /\ overdrawn' = overdrawn
      BY <1>2, <3>1 DEF EndStep, table, TypeOK
    <3>3. SameFills(o)
      <4>1. stage[f] = "written" /\ stage'[f] = "done"
        BY <3>1 DEF EndStep, TypeOK
      <4> QED
        BY <1>3, <4>1 DEF SameFills, SameFill
    <3>4. Left(o)' = Left(o)
      BY <3>2, <3>3, LeftSame
    <3>5. CASE work[f].level # NoLevel /\ size[work[f].level] = 0
      <4>1. work[f].level \in Known(o)
        BY <1>2, <3>1, <3>5 DEF EndStep, Known, Mine
      <4>2. o \notin overdrawn => Left(o) <= 0
        BY <1>1, <3>5, <4>1 DEF OrderInv, Covers
      <4> QED
        BY <3>2, <3>4, <4>2 DEF AbsentOK, Excused
    <3>6. CASE list = <<f>>
      BY <3>2, <3>6 DEF AbsentOK, Absent, InBook
    <3>7. CASE list = book[o]
      <4>1. Kept(o)
        BY <1>3, <3>2, <3>4, <3>7 DEF Kept
      <4> QED
        BY <1>1, <4>1, KeptStays
    <3> QED
      BY <3>1, <3>2, <3>5, <3>6, <3>7 DEF EndStep
  <2> QED
    BY <2>1, <2>2, <2>3, <2>4, <2>5 DEF FillStep
<1> QED
  BY <1>4, <1>5 DEF AbsentInv, AbsentOK, Absent

LEMMA BootAbsent ==
  ASSUME TypeOK, AbsentInv, BootStep
  PROVE  AbsentInv'
<1>1. \A q \in Orders : AbsentOK(q)
  BY AbsentIs
<1>2. ASSUME NEW q \in Orders PROVE AbsentOK(q)'
  <2>1. CASE Crash
    BY <2>1 DEF Crash, AbsentOK, Excused
  <2>2. ASSUME UNCHANGED <<table, pc, cpc, expiring, fills>>
        PROVE  Left(q)' = Left(q)
    <3>1. SameFills(q) /\ remaining'[q] = remaining[q]
      BY <2>2 DEF SameFills, SameFill, fills, table
    <3> QED
      BY <3>1, LeftSame
  <2>3. CASE BootRead \/ BootDone
    <3>1. UNCHANGED <<table, pc, cpc, expiring, fills>> /\ book' = book /\ overdrawn' = overdrawn
      BY <2>3 DEF BootRead, BootDone, levels, fills
    <3>2. Left(q)' = Left(q)
      BY <2>2, <3>1
    <3> SUFFICES ASSUME q \notin overdrawn', Absent(q)' PROVE Excused(q)'
      BY DEF AbsentOK
    <3>3. Excused(q) /\ status[q] = "PLACED" /\ remaining[q] > 0
      BY <1>1, <3>1 DEF AbsentOK, Absent, InBook, table
    <3>4. CASE boot = "down" /\ BootRead
      <4>1. boot' = "hydrating" /\ stale'[q] > 0
        BY <3>3, <3>4 DEF BootRead
      <4> QED
        BY <4>1 DEF Excused
    <3>5. CASE ~(boot = "down" /\ BootRead)
      <4>1. boot # "down" /\ ~(boot = "hydrating" /\ stale[q] > 0)
        BY <2>3, <3>5 DEF BootRead, BootDone, TypeOK
      <4> QED
        BY <3>1, <3>2, <3>3, <4>1 DEF Excused
    <3> QED
      BY <3>4, <3>5
  <2>4. ASSUME NEW o \in Orders, Hydrate(o) PROVE AbsentOK(q)'
    <3>1. UNCHANGED <<table, pc, cpc, expiring, fills, boot>>
      BY <2>4 DEF Hydrate
    <3>2. CASE q = o
      <4>1. book'[q] = <<<<o, boot>>>>
        BY <2>4, <3>2 DEF Hydrate, TypeOK
      <4> QED
        BY <4>1 DEF AbsentOK, Absent, InBook
    <3>3. CASE q # o
      <4>1. book'[q] = book[q] /\ stale'[q] = stale[q]
        BY <2>4, <3>3 DEF Hydrate, TypeOK
      <4>2. Left(q)' = Left(q)
        BY <2>2, <3>1
      <4>3. Kept(q)
        BY <3>1, <4>1, <4>2 DEF Kept, table, fills
      <4> QED
        BY <1>1, <4>3, KeptStays
    <3> QED
      BY <3>2, <3>3
  <2> QED
    BY <2>1, <2>3, <2>4 DEF BootStep
<1> QED
  BY <1>2 DEF AbsentInv, AbsentOK, Absent

LEMMA AbsentNext ==
  ASSUME TypeOK, LedgerInv, AbsentInv, [Next]_vars
  PROVE  AbsentInv'
<1>1. CASE UNCHANGED vars
  <2>1. UNCHANGED <<levels, table, pc, cpc, expiring, fills, expired, booting>>
    BY <1>1 DEF vars
  <2>2. \A q \in Orders : SameFills(q) /\ remaining'[q] = remaining[q]
    BY <2>1 DEF SameFills, SameFill, fills, table
  <2>3. \A q \in Orders : Left(q)' = Left(q)
    BY <2>2, LeftSame
  <2>4. \A q \in Orders : Kept(q)
    BY <2>1, <2>3 DEF Kept, levels, table, fills, booting
  <2>5. \A q \in Orders : AbsentOK(q)'
    BY <2>4, AbsentIs, KeptStays
  <2> QED
    BY <2>5 DEF AbsentInv, AbsentOK, Absent
<1>2. CASE Next
  BY <1>2, PlaceAbsent, CancelAbsent, ExpiryAbsent, FillAbsent, BootAbsent DEF Next
<1> QED
  BY <1>1, <1>2

LEMMA InBookHolds ==
  ASSUME TypeOK, AbsentInv
  PROVE  PlacedIsInBook
<1> SUFFICES ASSUME NEW o \in Orders \ overdrawn, Quiet(o), status[o] = "PLACED", remaining[o] > 0, ~InBook(o)
             PROVE  FALSE
  BY DEF PlacedIsInBook
<1>1. Excused(o)
  BY DEF AbsentInv
<1>2. Left(o) > 0
  BY QuietLeft
<1>3. /\ boot = "up" /\ o \notin expiring
      /\ \A p \in Placements : Places[p] = o => pc[p] \in {"idle", "placed", "failed"}
      /\ \A c \in Cancels : Withdraws[c] = o => cpc[c] # "writing"
  BY DEF Quiet, InFlight
<1>4. Left(o) \in Int
  BY QuietLeft DEF TypeOK
<1> QED
  BY <1>1, <1>2, <1>3, <1>4 DEF Excused

\* No order rests in the table, PLACED with something left, that the book does not
\* have: whatever places, cancels, sweeps, fills and restarts interleave.
THEOREM RestingIsHeld == Spec => []PlacedIsInBook
<1>1. Init => LedgerInv
  BY LedgerInit
<1>2. Init => AbsentInv
  BY DEF Init, AbsentInv
<1>3. TypeOK /\ LedgerInv /\ [Next]_vars => LedgerInv'
  BY LedgerNext
<1>4. TypeOK /\ LedgerInv /\ AbsentInv /\ [Next]_vars => AbsentInv'
  BY AbsentNext
<1>5. TypeOK /\ AbsentInv => PlacedIsInBook
  BY InBookHolds
<1> QED
  BY <1>1, <1>2, <1>3, <1>4, <1>5, Typed, PTL DEF Spec
=============================================================================
