----------------------------- MODULE LogProofs -----------------------------
(***************************************************************************)
(* Proofs about Log, for any number of processes and blocks and any log    *)
(* size: the inductive invariant LogInv, and from it type correctness, the *)
(* sufficiency of begin_op's reservation and the absence of panics; then   *)
(* the invariant DataInv, and from both that the log implements AtomicDisk.*)
(***************************************************************************)
EXTENDS Log, FiniteSetTheorems, TLAPS

-----------------------------------------------------------------------------
(* Facts about the operators *)

\* A set of tokens of the operations in A is finite and has at most
\* MAXOPBLOCKS elements for each of them.
LEMMA TokensBound ==
  ASSUME NEW A \in SUBSET Procs, NEW R \in SUBSET (A \X (1..MAXOPBLOCKS))
  PROVE  /\ IsFiniteSet(A) /\ Cardinality(A) \in Nat
         /\ IsFiniteSet(R) /\ Cardinality(R) \in Nat
         /\ Cardinality(R) <= Cardinality(A) * MAXOPBLOCKS
<1>1. IsFiniteSet(A) /\ Cardinality(A) \in Nat
  BY LogAssumption, FS_Subset, FS_CardinalityType
<1>2. IsFiniteSet(1..MAXOPBLOCKS) /\ Cardinality(1..MAXOPBLOCKS) = MAXOPBLOCKS
  BY LogAssumption, FS_Interval
<1>3. /\ IsFiniteSet(A \X (1..MAXOPBLOCKS))
      /\ Cardinality(A \X (1..MAXOPBLOCKS)) = Cardinality(A) * MAXOPBLOCKS
  BY <1>1, <1>2, FS_Product
<1>4. IsFiniteSet(R) /\ Cardinality(R) <= Cardinality(A \X (1..MAXOPBLOCKS))
  BY <1>3, FS_Subset
<1>5. Cardinality(R) \in Nat
  BY <1>4, FS_CardinalityType
<1> QED
  BY <1>1, <1>3, <1>4, <1>5

\* The reservation consists of such tokens of the operations in progress.
LEMMA ReservedBound ==
  /\ Active \in SUBSET Procs
  /\ Reserved \in SUBSET (Active \X (1..MAXOPBLOCKS))
  /\ IsFiniteSet(Active) /\ Cardinality(Active) \in Nat
  /\ IsFiniteSet(Reserved) /\ Cardinality(Reserved) \in Nat
<1>1. Active \in SUBSET Procs
  BY DEF Active
<1>2. Reserved \in SUBSET (Active \X (1..MAXOPBLOCKS))
  BY DEF Reserved, Active
<1> QED
  BY <1>1, <1>2, TokensBound

\* A set of blocks is finite.
LEMMA BlockSets ==
  ASSUME NEW S \in SUBSET Blocks
  PROVE  IsFiniteSet(S) /\ Cardinality(S) \in Nat
  BY LogAssumption, FS_Subset, FS_CardinalityType

\* If the header does not grow and the reservation does not either, they
\* still fit.
LEMMA SpaceKept ==
  ASSUME OpAccounts, LogSpace, TypeOK,
         lh' \in Seq(Blocks), Len(lh') <= Len(lh), Reserved' \in SUBSET Reserved
  PROVE  LogSpace'
<1>1. IsFiniteSet(Reserved) /\ Cardinality(Reserved) \in Nat
  BY ReservedBound
<1>2. Cardinality(Reserved') <= Cardinality(Reserved) /\ Cardinality(Reserved') \in Nat
  BY <1>1, FS_Subset, FS_CardinalityType
<1>3. Len(lh) \in Nat /\ Len(lh') \in Nat
  BY DEF TypeOK
<1> QED
  BY <1>1, <1>2, <1>3, LogAssumption DEF LogSpace

\* The log on the disk is large enough for the header in memory.
LEMMA LogFits ==
  ASSUME LogInv
  PROVE  Len(lh) \in Nat /\ Len(lh) <= LOGBLOCKS
<1>1. Cardinality(Reserved) \in Nat
  BY ReservedBound DEF LogInv
<1> QED
  BY <1>1, LogAssumption DEF LogInv, LogSpace, TypeOK

-----------------------------------------------------------------------------
(* The inductive invariant holds initially and after a crash *)

\* The state in which the machine starts, and in which a crash leaves it.
LEMMA QuietInv ==
  ASSUME lh = <<>>, hdr \in Seq(Blocks), Len(hdr) <= LOGBLOCKS, Distinct(hdr),
         home \in [Blocks -> Vals], logData \in [1..LOGBLOCKS -> Vals],
         cache = [b \in Blocks |-> Absent], pins = [b \in Blocks |-> 0],
         outstanding = 0, committing = FALSE, pc = [p \in Procs |-> "idle"],
         held = [p \in Procs |-> {}], wrote = [p \in Procs |-> {}],
         tail = 1, boot = "read_head", panic = FALSE
  PROVE  LogInv
<1>1. TypeOK
  <2>1. lh \in Seq(Blocks)
    OBVIOUS
  <2>2. committing \in BOOLEAN /\ panic \in BOOLEAN
    OBVIOUS
  <2>3. cache \in [Blocks -> Vals \cup {Absent}] /\ pins \in [Blocks -> Nat]
    OBVIOUS
  <2>4. held \in [Procs -> SUBSET Blocks] /\ wrote \in [Procs -> SUBSET Blocks]
    OBVIOUS
  <2>5. pc \in [Procs -> PcStates] /\ boot \in BootStates
    BY DEF PcStates, BootStates
  <2>6. tail \in Nat \ {0} /\ outstanding \in Nat
    OBVIOUS
  <2> QED
    BY <2>1, <2>2, <2>3, <2>4, <2>5, <2>6 DEF TypeOK
<1>2. BootQuiet
  BY DEF BootQuiet
<1>3. OneCommitter
  BY DEF OneCommitter, CommitPcs, Active
<1>4. Active = {} /\ Cardinality(Active) = 0
  BY FS_EmptySet DEF Active
<1>5. OpAccounts
  BY <1>4, FS_EmptySet, LogAssumption DEF OpAccounts
<1>6. Reserved = {} /\ Cardinality(Reserved) = 0
  BY FS_EmptySet DEF Reserved
<1>7. LogSpace
  BY <1>6, LogAssumption DEF LogSpace
<1>8. HeadersDistinct
  BY DEF HeadersDistinct, Distinct
<1>9. LoggedPinned
  BY DEF LoggedPinned
<1> QED
  BY <1>1, <1>2, <1>3, <1>5, <1>7, <1>8, <1>9 DEF LogInv

\* LogInv holds initially.
LEMMA InitInv == Init => LogInv
<1> SUFFICES ASSUME Init PROVE LogInv
  OBVIOUS
<1>1. hdr \in Seq(Blocks) /\ Len(hdr) <= LOGBLOCKS /\ Distinct(hdr)
  BY LogAssumption DEF Init, Distinct
<1> QED
  BY <1>1, QuietInv DEF Init

\* A crash leaves the disk alone and resets the memory.
LEMMA CrashInv ==
  ASSUME LogInv, Crash
  PROVE  LogInv'
<1>1. /\ hdr' = hdr /\ home' = home /\ logData' = logData
      /\ lh' = <<>> /\ cache' = [b \in Blocks |-> Absent]
      /\ pins' = [b \in Blocks |-> 0] /\ outstanding' = 0 /\ committing' = FALSE
      /\ pc' = [p \in Procs |-> "idle"] /\ held' = [p \in Procs |-> {}]
      /\ wrote' = [p \in Procs |-> {}] /\ tail' = 1 /\ boot' = "read_head"
      /\ panic' = FALSE
  BY DEF Crash, disk
<1>2. /\ hdr \in Seq(Blocks) /\ Len(hdr) <= LOGBLOCKS /\ Distinct(hdr)
      /\ home \in [Blocks -> Vals] /\ logData \in [1..LOGBLOCKS -> Vals]
  BY DEF LogInv, TypeOK, HeadersDistinct
<1>3. TypeOK'
  <2>1. lh' \in Seq(Blocks)
    BY <1>1
  <2>2. committing' \in BOOLEAN /\ panic' \in BOOLEAN
    BY <1>1
  <2>3. cache' \in [Blocks -> Vals \cup {Absent}] /\ pins' \in [Blocks -> Nat]
    BY <1>1
  <2>4. held' \in [Procs -> SUBSET Blocks] /\ wrote' \in [Procs -> SUBSET Blocks]
    BY <1>1
  <2>5. pc' \in [Procs -> PcStates] /\ boot' \in BootStates
    BY <1>1 DEF PcStates, BootStates
  <2>6. tail' \in Nat \ {0} /\ outstanding' \in Nat
    BY <1>1
  <2> QED
    BY <1>1, <1>2, <2>1, <2>2, <2>3, <2>4, <2>5, <2>6 DEF TypeOK
<1>4. BootQuiet'
  BY <1>1 DEF BootQuiet
<1>5. OneCommitter'
  BY <1>1 DEF OneCommitter, CommitPcs, Active
<1>6. Active' = {} /\ Reserved' = {}
  BY <1>1 DEF Active, Reserved
<1>7. OpAccounts'
  BY <1>1, <1>6, FS_EmptySet, LogAssumption DEF OpAccounts
<1>8. LogSpace'
  BY <1>1, <1>6, FS_EmptySet, LogAssumption DEF LogSpace
<1>9. HeadersDistinct'
  BY <1>1, <1>2 DEF HeadersDistinct, Distinct
<1>10. LoggedPinned'
  BY <1>1 DEF LoggedPinned
<1> QED
  BY <1>3, <1>4, <1>5, <1>7, <1>8, <1>9, <1>10 DEF LogInv

-----------------------------------------------------------------------------
(* Steps that move one process and leave the log alone *)

\* Entering a system call takes nothing from the log.
LEMMA CallInv ==
  ASSUME LogInv, NEW p \in Procs, Call(p)
  PROVE  LogInv'
<1> USE DEF Call, Running, Goto, disk, logMem, opMem
<1>1. TypeOK'
  BY DEF LogInv, TypeOK, PcStates
<1>2. Active' = Active /\ Reserved' = Reserved
  BY DEF LogInv, TypeOK, Active, Reserved
<1>3. BootQuiet'
  BY DEF LogInv, BootQuiet
<1>4. OneCommitter'
  BY <1>2 DEF LogInv, OneCommitter, CommitPcs, TypeOK
<1>5. OpAccounts'
  BY <1>2 DEF LogInv, OpAccounts, TypeOK
<1>6. LogSpace'
  BY <1>2 DEF LogInv, LogSpace
<1>7. HeadersDistinct'
  BY DEF LogInv, HeadersDistinct, Distinct
<1>8. LoggedPinned'
  BY DEF LogInv, LoggedPinned, TypeOK
<1> QED
  BY <1>1, <1>3, <1>4, <1>5, <1>6, <1>7, <1>8 DEF LogInv

\* begin_op takes a reservation only if it fits, and sleeps otherwise.
LEMMA BeginOpInv ==
  ASSUME LogInv, NEW p \in Procs, BeginOp(p)
  PROVE  LogInv'
<1> USE DEF BeginOp, Running, Goto, disk, opMem
<1>0. /\ TypeOK /\ BootQuiet /\ OneCommitter /\ OpAccounts /\ LogSpace
      /\ HeadersDistinct /\ LoggedPinned
  BY DEF LogInv
<1>1. /\ home' = home /\ logData' = logData /\ hdr' = hdr /\ cache' = cache
      /\ pins' = pins /\ lh' = lh /\ committing' = committing /\ held' = held
      /\ wrote' = wrote /\ tail' = tail /\ boot' = boot /\ panic' = panic
  OBVIOUS
<1>2. BootQuiet'
  BY <1>0 DEF BootQuiet
<1>3. HeadersDistinct'
  BY <1>0 DEF HeadersDistinct, Distinct
<1>4. LoggedPinned'
  BY <1>0 DEF LoggedPinned, TypeOK
<1>5. CASE committing \/ NoSpace
  <2>1. pc' = [pc EXCEPT ![p] = "sleep"] /\ UNCHANGED <<outstanding, lh, held, wrote>>
    BY <1>5
  <2>2. Active' = Active /\ Reserved' = Reserved
    BY <1>0, <2>1 DEF TypeOK, Active, Reserved
  <2>3. OneCommitter'
    BY <1>0, <2>1, <2>2 DEF OneCommitter, CommitPcs, TypeOK
  <2>4. OpAccounts'
    BY <1>0, <2>1, <2>2 DEF OpAccounts, TypeOK
  <2>5. LogSpace'
    BY <1>0, <2>1, <2>2 DEF LogSpace
  <2>6. TypeOK'
    BY <1>0, <1>1, <2>1 DEF TypeOK, PcStates
  <2> QED
    BY <1>2, <1>3, <1>4, <2>3, <2>4, <2>5, <2>6 DEF LogInv
<1>6. CASE ~committing /\ ~NoSpace
  <2>1. /\ pc' = [pc EXCEPT ![p] = "op"] /\ outstanding' = outstanding + 1
        /\ UNCHANGED <<lh, held, wrote, committing>>
    BY <1>6
  <2>2. Active' = Active \cup {p} /\ p \notin Active
    BY <1>0, <2>1 DEF TypeOK, Active
  <2>3. OneCommitter'
    BY <1>0, <1>6, <2>1 DEF OneCommitter, CommitPcs, TypeOK
  <2>4. IsFiniteSet(Active)
    BY ReservedBound
  <2>5. Cardinality(Active') = outstanding'
    BY <1>0, <2>1, <2>2, <2>4, FS_AddElement DEF OpAccounts
  <2>6. OpAccounts'
    BY <1>0, <2>1, <2>5 DEF OpAccounts, TypeOK
  <2>7. /\ Cardinality(Reserved') \in Nat
        /\ Cardinality(Reserved') <= outstanding' * MAXOPBLOCKS
    <3>1. Active' \in SUBSET Procs /\ Reserved' \in SUBSET (Active' \X (1..MAXOPBLOCKS))
      BY DEF Active, Reserved
    <3> QED
      BY <2>5, <3>1, TokensBound
  <2>8. Len(lh) + (outstanding + 1) * MAXOPBLOCKS <= LOGBLOCKS
    BY <1>0, <1>6, LogAssumption DEF NoSpace, TypeOK
  <2>9. LogSpace'
    BY <1>0, <2>1, <2>7, <2>8, LogAssumption DEF LogSpace, TypeOK
  <2>10. TypeOK'
    BY <1>0, <1>1, <2>1 DEF TypeOK, PcStates
  <2> QED
    BY <1>2, <1>3, <1>4, <2>3, <2>6, <2>9, <2>10 DEF LogInv
<1> QED
  BY <1>5, <1>6

\* Changing a buffer stays within the blocks of the operation.
LEMMA ModifyInv ==
  ASSUME LogInv, NEW p \in Procs, NEW b \in Blocks, NEW v \in Vals, Modify(p, b, v)
  PROVE  LogInv'
<1> USE DEF Modify, Running, disk, logMem
<1>0. /\ TypeOK /\ BootQuiet /\ OneCommitter /\ OpAccounts /\ LogSpace
      /\ HeadersDistinct /\ LoggedPinned
  BY DEF LogInv
<1>1. TypeOK'
  BY <1>0 DEF TypeOK
<1>2. Active' = Active /\ Reserved' = Reserved
  BY DEF Active, Reserved
<1>3. BootQuiet' /\ HeadersDistinct' /\ LoggedPinned'
  BY <1>0 DEF BootQuiet, HeadersDistinct, Distinct, LoggedPinned
<1>4. OneCommitter'
  BY <1>0, <1>2 DEF OneCommitter
<1>5. OpAccounts'
  <2>1. /\ outstanding' = Cardinality(Active')
        /\ \A q \in Procs : pc'[q] # "op" => held'[q] = {} /\ wrote'[q] = {}
        /\ \A q \in Procs : wrote'[q] \subseteq Logged(lh')
    BY <1>0, <1>2 DEF OpAccounts, TypeOK
  <2>2. ASSUME NEW q \in Procs
        PROVE  Cardinality(wrote'[q] \cup held'[q]) <= OpBlocks
    <3>1. CASE q = p
      <4>1. wrote'[p] \cup held'[p] = wrote[p] \cup held[p] \cup {b}
        BY <1>0 DEF TypeOK
      <4> QED
        BY <3>1, <4>1
    <3>2. CASE q # p
      BY <1>0, <3>2 DEF OpAccounts, TypeOK
    <3> QED
      BY <3>1, <3>2
  <2> QED
    BY <2>1, <2>2 DEF OpAccounts
<1>6. LogSpace'
  BY <1>0, <1>2 DEF LogSpace
<1> QED
  BY <1>1, <1>3, <1>4, <1>5, <1>6 DEF LogInv

\* log_write uses one block of the reservation, or absorbs the write.
LEMMA LogWriteInv ==
  ASSUME LogInv, NEW p \in Procs, NEW b \in Blocks, LogWrite(p, b)
  PROVE  LogInv'
<1> USE DEF Running, disk
<1>0. /\ TypeOK /\ BootQuiet /\ OneCommitter /\ OpAccounts /\ LogSpace
      /\ HeadersDistinct /\ LoggedPinned
  BY DEF LogInv
<1>1. /\ home' = home /\ logData' = logData /\ hdr' = hdr /\ cache' = cache
      /\ outstanding' = outstanding /\ committing' = committing /\ pc' = pc
      /\ tail' = tail /\ boot' = boot /\ boot = "up" /\ b \in held[p]
  BY DEF LogWrite
<1>2. pc[p] = "op"
  BY <1>0, <1>1 DEF OpAccounts
<1>3. Active' = Active
  BY <1>1 DEF Active
<1>4. OneCommitter'
  BY <1>0, <1>1, <1>3 DEF OneCommitter
<1>5. CASE Len(lh) >= LOGBLOCKS \/ outstanding < 1
  <2>1. panic' = TRUE /\ lh' = lh /\ pins' = pins /\ held' = held /\ wrote' = wrote
    BY <1>5 DEF LogWrite
  <2>2. TypeOK'
    BY <1>0, <1>1, <2>1 DEF TypeOK
  <2>3. BootQuiet' /\ HeadersDistinct' /\ LoggedPinned'
    BY <1>0, <1>1, <2>1 DEF BootQuiet, HeadersDistinct, Distinct, LoggedPinned
  <2>4. OpAccounts'
    BY <1>0, <1>1, <1>3, <2>1 DEF OpAccounts
  <2>5. LogSpace'
    BY <1>0, <1>1, <2>1 DEF LogSpace, Reserved
  <2> QED
    BY <1>4, <2>2, <2>3, <2>4, <2>5 DEF LogInv
<1>6. CASE ~(Len(lh) >= LOGBLOCKS \/ outstanding < 1)
  <2>1. /\ panic' = panic
        /\ held' = [held EXCEPT ![p] = @ \ {b}]
        /\ wrote' = [wrote EXCEPT ![p] = @ \cup {b}]
        /\ IF b \in Logged(lh)
           THEN lh' = lh /\ pins' = pins
           ELSE lh' = Append(lh, b) /\ pins' = [pins EXCEPT ![b] = @ + 1]
    BY <1>6 DEF LogWrite
  <2>2. TypeOK'
    <3>1. lh' \in Seq(Blocks) /\ pins' \in [Blocks -> Nat]
      <4>1. CASE b \in Logged(lh)
        BY <1>0, <2>1, <4>1 DEF TypeOK
      <4>2. CASE b \notin Logged(lh)
        <5>1. lh' = Append(lh, b) /\ pins' = [pins EXCEPT ![b] = @ + 1]
          BY <2>1, <4>2
        <5>2. lh' \in Seq(Blocks)
          BY <1>0, <5>1 DEF TypeOK
        <5>3. pins' \in [Blocks -> Nat]
          BY <1>0, <5>1 DEF TypeOK
        <5> QED
          BY <5>2, <5>3
      <4> QED
        BY <4>1, <4>2
    <3>2. held' \in [Procs -> SUBSET Blocks] /\ wrote' \in [Procs -> SUBSET Blocks]
      BY <1>0, <2>1 DEF TypeOK
    <3> QED
      BY <1>0, <1>1, <2>1, <3>1, <3>2 DEF TypeOK
  <2>3. BootQuiet'
    BY <1>1 DEF BootQuiet
  <2>4. /\ Len(lh') \in Nat /\ Len(lh) \in Nat
        /\ \A i \in 1..Len(lh) : i \in 1..Len(lh') /\ lh'[i] = lh[i]
        /\ b \in Logged(lh')
        /\ IF b \in Logged(lh) THEN lh' = lh
           ELSE Len(lh') = Len(lh) + 1 /\ lh'[Len(lh')] = b
    BY <1>0, <2>1 DEF TypeOK, Logged
  <2>5. HeadersDistinct'
    <3>1. Distinct(lh)'
      BY <1>0, <2>4 DEF HeadersDistinct, Distinct, Logged
    <3> QED
      BY <1>0, <1>1, <3>1 DEF HeadersDistinct, Distinct
  <2>6. LoggedPinned'
    <3>1. ASSUME NEW q \in Procs PROVE pc[q] # "install"
      BY <1>0, <1>2 DEF OneCommitter, CommitPcs, Active
    <3>2. \A i \in 1..Len(lh) : pins[lh[i]] > 0
      BY <1>0, <1>1, <3>1 DEF LoggedPinned
    <3>3. ASSUME NEW i \in 1..Len(lh') PROVE pins'[lh'[i]] > 0
      BY <1>0, <2>1, <2>4, <3>2 DEF TypeOK
    <3> QED
      BY <3>3 DEF LoggedPinned
  <2>7. OpAccounts'
    <3>1. ASSUME NEW q \in Procs
          PROVE  wrote'[q] \cup held'[q] = wrote[q] \cup held[q]
      BY <1>0, <1>1, <2>1 DEF TypeOK
    <3>2. ASSUME NEW q \in Procs, pc[q] # "op"
          PROVE  held'[q] = {} /\ wrote'[q] = {}
      BY <1>0, <1>2, <2>1, <3>2 DEF OpAccounts, TypeOK
    <3>3. ASSUME NEW q \in Procs
          PROVE  wrote'[q] \subseteq Logged(lh')
      <4>1. Logged(lh) \subseteq Logged(lh')
        BY <2>4 DEF Logged
      <4>2. wrote[q] \subseteq Logged(lh)
        BY <1>0 DEF OpAccounts
      <4>3. wrote'[q] \subseteq wrote[q] \cup {b}
        BY <1>0, <2>1 DEF TypeOK
      <4> QED
        BY <2>4, <4>1, <4>2, <4>3
    <3> QED
      BY <1>0, <1>1, <1>3, <3>1, <3>2, <3>3 DEF OpAccounts
  <2>8. LogSpace'
    <3> DEFINE c == Cardinality(wrote[p])
    <3>1. CASE b \in wrote[p]
      <4>1. wrote' = wrote /\ lh' = lh
        BY <1>0, <2>1, <3>1 DEF OpAccounts, TypeOK
      <4> QED
        BY <1>0, <1>1, <4>1 DEF LogSpace, Reserved
    <3>2. CASE b \notin wrote[p]
      <4>1. /\ IsFiniteSet(wrote[p]) /\ c \in Nat
            /\ IsFiniteSet(wrote[p] \cup held[p])
            /\ Cardinality(wrote[p] \cup held[p]) \in Nat
        BY <1>0, BlockSets DEF TypeOK
      <4>2. wrote'[p] = wrote[p] \cup {b} /\ Cardinality(wrote'[p]) = c + 1
        BY <1>0, <2>1, <3>2, <4>1, FS_AddElement DEF TypeOK
      <4>3. Cardinality(wrote'[p]) <= Cardinality(wrote[p] \cup held[p])
        BY <1>1, <4>1, <4>2, FS_Subset, wrote'[p] \in SUBSET (wrote[p] \cup held[p])
      <4>4. c + 1 \in 1..MAXOPBLOCKS
        BY <1>0, <4>1, <4>2, <4>3, LogAssumption DEF OpAccounts
      <4>5. <<p, c + 1>> \in Reserved
        BY <1>2, <4>1, <4>4 DEF Reserved
      <4>6. Reserved' \in SUBSET (Reserved \ {<<p, c + 1>>})
        <5>1. SUFFICES ASSUME NEW t \in Reserved'
                       PROVE  t \in Reserved /\ t # <<p, c + 1>>
          OBVIOUS
        <5>2. /\ t \in Procs \X (1..MAXOPBLOCKS) /\ pc[t[1]] = "op"
              /\ t[2] > Cardinality(wrote'[t[1]])
          BY <1>1 DEF Reserved
        <5>3. CASE t[1] = p
          <6>0. Cardinality(wrote'[t[1]]) = c + 1
            BY <4>2, <5>3
          <6>1. t[2] \in Nat /\ t[2] > c + 1
            <7>1. t[2] \in 1..MAXOPBLOCKS
              BY <5>2
            <7> QED
              BY <5>2, <6>0, <7>1, LogAssumption
          <6>2. t[2] > c /\ t[2] # c + 1
            BY <4>1, <6>1
          <6>3. t \in Reserved
            BY <5>2, <5>3, <6>2 DEF Reserved
          <6>4. t # <<p, c + 1>>
            BY <6>2
          <6> QED
            BY <6>3, <6>4
        <5>4. CASE t[1] # p
          <6>1. wrote'[t[1]] = wrote[t[1]]
            BY <1>0, <2>1, <5>2, <5>4 DEF TypeOK
          <6> QED
            BY <5>2, <5>4, <6>1 DEF Reserved
        <5> QED
          BY <5>3, <5>4
      <4>7. /\ IsFiniteSet(Reserved \ {<<p, c + 1>>})
            /\ Cardinality(Reserved \ {<<p, c + 1>>}) = Cardinality(Reserved) - 1
            /\ Cardinality(Reserved) \in Nat
        BY <4>5, ReservedBound, FS_RemoveElement
      <4>8. /\ Cardinality(Reserved') <= Cardinality(Reserved) - 1
            /\ Cardinality(Reserved') \in Nat
        BY <4>6, <4>7, FS_Subset, FS_CardinalityType
      <4>9. Len(lh') <= Len(lh) + 1
        BY <2>4
      <4> QED
        BY <1>0, <2>4, <4>7, <4>8, <4>9, LogAssumption DEF LogSpace
    <3> QED
      BY <3>1, <3>2
  <2> QED
    BY <1>4, <2>2, <2>3, <2>5, <2>6, <2>7, <2>8 DEF LogInv
<1> QED
  BY <1>5, <1>6

\* In end_op, log.outstanding counts the caller too.
LEMMA EndOpCount ==
  ASSUME LogInv, NEW p \in Procs, pc[p] = "op"
  PROVE  /\ p \in Active /\ ~committing
         /\ outstanding \in Nat /\ outstanding >= 1
         /\ outstanding - 1 = Cardinality(Active \ {p})
         /\ outstanding = 1 => Active = {p}
<1>1. p \in Active
  BY DEF Active
<1>2. ~committing
  BY <1>1 DEF LogInv, OneCommitter
<1>3. IsFiniteSet(Active) /\ outstanding = Cardinality(Active) /\ outstanding \in Nat
  BY ReservedBound DEF LogInv, OpAccounts, TypeOK
<1>4. /\ IsFiniteSet(Active \ {p})
      /\ Cardinality(Active \ {p}) = Cardinality(Active) - 1
  BY <1>1, <1>3, FS_RemoveElement
<1>5. Cardinality(Active \ {p}) \in Nat
  BY <1>4, FS_CardinalityType
<1>6. outstanding = 1 => Active = {p}
  <2>1. SUFFICES ASSUME outstanding = 1 PROVE Active \ {p} = {}
    BY <1>1
  <2>2. Cardinality(Active \ {p}) = 0
    BY <1>3, <1>4, <2>1
  <2> QED
    BY <1>4, <2>2, FS_EmptySet
<1> QED
  BY <1>1, <1>2, <1>3, <1>4, <1>5, <1>6

\* end_op gives the rest of the reservation back; the last one becomes the
\* committer.
LEMMA EndOpInv ==
  ASSUME LogInv, NEW p \in Procs, EndOp(p)
  PROVE  LogInv'
<1>0. /\ TypeOK /\ BootQuiet /\ OneCommitter /\ OpAccounts /\ LogSpace
      /\ HeadersDistinct /\ LoggedPinned
  BY DEF LogInv
<1>1. /\ home' = home /\ logData' = logData /\ hdr' = hdr /\ cache' = cache
      /\ pins' = pins /\ lh' = lh /\ held' = held /\ tail' = tail /\ boot' = boot
      /\ boot = "up" /\ pc[p] = "op" /\ held[p] = {}
      /\ outstanding' = outstanding - 1
      /\ wrote' = [wrote EXCEPT ![p] = {}]
  BY DEF EndOp, Running, disk
<1>2. /\ p \in Active /\ ~committing
      /\ outstanding \in Nat /\ outstanding >= 1
      /\ outstanding - 1 = Cardinality(Active \ {p})
      /\ outstanding = 1 => Active = {p}
  BY <1>1, EndOpCount
<1>3. /\ panic' = panic
      /\ IF outstanding = 1
         THEN committing' = TRUE /\ pc' = [pc EXCEPT ![p] = "commit"]
         ELSE /\ committing' = committing
              /\ pc' = [q \in Procs |-> IF q = p THEN "idle"
                          ELSE IF pc[q] = "sleep" THEN "begin" ELSE pc[q]]
  BY <1>2 DEF EndOp, Goto, WakeupAnd
<1>4. /\ pc' \in [Procs -> PcStates]
      /\ pc'[p] \in {"idle", "commit"}
      /\ pc'[p] = "commit" => committing' = TRUE /\ Active = {p}
      /\ committing' = TRUE => outstanding = 1
      /\ \A q \in Procs \ {p} :
           pc'[q] = pc[q] \/ (pc[q] = "sleep" /\ pc'[q] = "begin")
  <2>1. CASE outstanding = 1
    BY <1>0, <1>2, <1>3, <2>1 DEF TypeOK, PcStates
  <2>2. CASE outstanding # 1
    <3>1. pc' = [q \in Procs |-> IF q = p THEN "idle"
                          ELSE IF pc[q] = "sleep" THEN "begin" ELSE pc[q]]
      BY <1>3, <2>2
    <3> QED
      BY <1>0, <1>2, <1>3, <2>2, <3>1 DEF TypeOK, PcStates
  <2> QED
    BY <2>1, <2>2
<1>5. Active' = Active \ {p}
  BY <1>0, <1>4 DEF Active, TypeOK
<1>6. TypeOK'
  <2>1. wrote' \in [Procs -> SUBSET Blocks]
    BY <1>0, <1>1 DEF TypeOK
  <2>2. outstanding' \in Nat
    BY <1>1, <1>2
  <2>3. committing' \in BOOLEAN /\ panic' \in BOOLEAN
    BY <1>0, <1>3 DEF TypeOK
  <2> QED
    BY <1>0, <1>1, <1>4, <2>1, <2>2, <2>3 DEF TypeOK
<1>7. BootQuiet'
  BY <1>1 DEF BootQuiet
<1>8. HeadersDistinct'
  BY <1>0, <1>1 DEF HeadersDistinct, Distinct
<1>9. \A q \in Procs : pc[q] \notin CommitPcs
  BY <1>0, <1>2 DEF OneCommitter
<1>10. OneCommitter'
  <2>1. \A q \in Procs : pc'[q] \in CommitPcs => q = p /\ committing' = TRUE
    BY <1>4, <1>9 DEF CommitPcs
  <2>2. committing' => Active' = {}
    BY <1>2, <1>4, <1>5, <1>6 DEF TypeOK
  <2> QED
    BY <2>1, <2>2 DEF OneCommitter
<1>11. OpAccounts'
  <2>1. outstanding' = Cardinality(Active')
    BY <1>1, <1>2, <1>5
  <2>2. ASSUME NEW q \in Procs, pc'[q] # "op"
        PROVE  held'[q] = {} /\ wrote'[q] = {}
    <3>1. CASE q = p
      BY <1>0, <1>1, <3>1 DEF TypeOK
    <3>2. CASE q # p
      BY <1>0, <1>1, <1>4, <2>2, <3>2 DEF OpAccounts, TypeOK
    <3> QED
      BY <3>1, <3>2
  <2>3. ASSUME NEW q \in Procs
        PROVE  Cardinality(wrote'[q] \cup held'[q]) <= OpBlocks
    <3>1. CASE q = p
      <4>1. wrote'[q] \cup held'[q] = {}
        BY <1>0, <1>1, <3>1 DEF TypeOK
      <4> QED
        BY <4>1, FS_EmptySet, LogAssumption
    <3>2. CASE q # p
      BY <1>0, <1>1, <3>2 DEF OpAccounts, TypeOK
    <3> QED
      BY <3>1, <3>2
  <2>4. \A q \in Procs : wrote'[q] \subseteq Logged(lh')
    BY <1>0, <1>1 DEF OpAccounts, TypeOK
  <2> QED
    BY <2>1, <2>2, <2>3, <2>4 DEF OpAccounts
<1>12. LogSpace'
  <2>1. Reserved' \in SUBSET Reserved
    <3>1. SUFFICES ASSUME NEW t \in Reserved' PROVE t \in Reserved
      OBVIOUS
    <3>2. /\ t \in Procs \X (1..MAXOPBLOCKS) /\ pc'[t[1]] = "op"
          /\ t[2] > Cardinality(wrote'[t[1]])
      BY DEF Reserved
    <3>3. t[1] # p /\ t[1] \in Procs
      BY <1>4, <3>2
    <3>4. pc[t[1]] = "op" /\ wrote'[t[1]] = wrote[t[1]]
      BY <1>0, <1>1, <1>4, <3>2, <3>3 DEF TypeOK
    <3> QED
      BY <3>2, <3>4 DEF Reserved
  <2>2. lh' \in Seq(Blocks) /\ Len(lh') <= Len(lh)
    BY <1>0, <1>1 DEF TypeOK
  <2> QED
    BY <1>0, <2>1, <2>2, SpaceKept
<1>13. LoggedPinned'
  <2>1. \A q \in Procs : pc[q] # "install"
    BY <1>9 DEF CommitPcs
  <2> QED
    BY <1>0, <1>1, <2>1 DEF LoggedPinned
<1> QED
  BY <1>6, <1>7, <1>8, <1>10, <1>11, <1>12, <1>13 DEF LogInv

-----------------------------------------------------------------------------
(* The committer: alone, and no operation is in progress *)

\* What a step of the committer cannot disturb while it stays in commit().
LEMMA CommitterFrame ==
  ASSUME LogInv, NEW p \in Procs, pc[p] \in CommitPcs, boot = "up",
         pc'[p] \in CommitPcs, \A q \in Procs \ {p} : pc'[q] = pc[q],
         lh' \in Seq(Blocks), Len(lh') <= LOGBLOCKS,
         UNCHANGED <<committing, outstanding, held, wrote, boot>>
  PROVE  BootQuiet' /\ OneCommitter' /\ OpAccounts' /\ LogSpace'
<1>0. /\ TypeOK /\ OneCommitter /\ OpAccounts
  BY DEF LogInv
<1>1. BootQuiet'
  BY DEF BootQuiet
<1>2. committing /\ Active = {} /\ \A q \in Procs : pc[q] # "op"
  BY <1>0 DEF OneCommitter, Active
<1>3. \A q \in Procs : pc'[q] # "op"
  BY <1>2 DEF CommitPcs
<1>4. Active' = {} /\ Reserved' = {}
  BY <1>3 DEF Active, Reserved
<1>5. OneCommitter'
  BY <1>0, <1>2, <1>4 DEF OneCommitter
<1>6. \A q \in Procs : wrote'[q] = {} /\ held'[q] = {}
  BY <1>0, <1>2 DEF OpAccounts
<1>7. OpAccounts'
  BY <1>0, <1>2, <1>4, <1>6, FS_EmptySet, LogAssumption DEF OpAccounts
<1>8. LogSpace'
  BY <1>4, FS_EmptySet, LogAssumption DEF LogSpace
<1> QED
  BY <1>1, <1>5, <1>7, <1>8

\* Before the commit point every block of the header is pinned.
LEMMA AllPinned ==
  ASSUME LogInv, boot = "up", \A q \in Procs : pc[q] # "install"
  PROVE  \A i \in 1..Len(lh) : pins[lh[i]] > 0
  BY DEF LogInv, LoggedPinned

\* commit() starts to copy, or ends at once for an empty log.
LEMMA CommitInv ==
  ASSUME LogInv, NEW p \in Procs, Commit(p)
  PROVE  LogInv'
<1>0. TypeOK /\ OneCommitter /\ HeadersDistinct
  BY DEF LogInv
<1>1. /\ home' = home /\ logData' = logData /\ hdr' = hdr /\ cache' = cache
      /\ pins' = pins /\ lh' = lh /\ outstanding' = outstanding
      /\ committing' = committing /\ held' = held /\ wrote' = wrote
      /\ tail' = 1 /\ boot' = boot /\ panic' = panic
      /\ boot = "up" /\ pc[p] = "commit"
      /\ \/ pc' = [pc EXCEPT ![p] = "write_log"]
         \/ pc' = [pc EXCEPT ![p] = "done"]
  BY DEF Commit, Running, Goto, disk, logMem, opMem
<1>2. Len(lh) \in Nat /\ Len(lh) <= LOGBLOCKS
  BY LogFits
<1>3. /\ pc[p] \in CommitPcs /\ pc'[p] \in CommitPcs
      /\ \A q \in Procs \ {p} : pc'[q] = pc[q]
  BY <1>0, <1>1 DEF TypeOK, CommitPcs
<1>4. TypeOK'
  <2>1. pc' \in [Procs -> PcStates]
    BY <1>0, <1>1 DEF TypeOK, PcStates
  <2>2. tail' \in Nat \ {0}
    BY <1>1
  <2> QED
    BY <1>0, <1>1, <2>1, <2>2 DEF TypeOK
<1>5. HeadersDistinct'
  BY <1>0, <1>1 DEF HeadersDistinct, Distinct
<1>6. \A q \in Procs : pc[q] # "install"
  BY <1>0, <1>1, <1>3 DEF OneCommitter, CommitPcs
<1>7. LoggedPinned'
  BY <1>1, <1>6, AllPinned DEF LoggedPinned
<1>8. lh' \in Seq(Blocks) /\ Len(lh') <= LOGBLOCKS
  BY <1>0, <1>1, <1>2 DEF TypeOK
<1>9. BootQuiet' /\ OneCommitter' /\ OpAccounts' /\ LogSpace'
  BY <1>1, <1>3, <1>8, CommitterFrame
<1> QED
  BY <1>4, <1>5, <1>7, <1>9 DEF LogInv

\* A turn of write_log changes only the log and the cache.
LEMMA WriteLogInv ==
  ASSUME LogInv, NEW p \in Procs, WriteLog(p)
  PROVE  LogInv'
<1>0. TypeOK /\ OneCommitter /\ HeadersDistinct
  BY DEF LogInv
<1>1. /\ home' = home /\ hdr' = hdr /\ pins' = pins /\ lh' = lh
      /\ outstanding' = outstanding /\ committing' = committing
      /\ pc' = pc /\ held' = held /\ wrote' = wrote
      /\ tail <= Len(lh) /\ tail' = tail + 1 /\ boot' = boot /\ panic' = panic
      /\ boot = "up" /\ pc[p] = "write_log"
      /\ logData' = [logData EXCEPT ![tail] = Bread(lh[tail])]
      /\ cache' = [cache EXCEPT ![lh[tail]] = Bread(lh[tail])]
  BY DEF WriteLog, Running, logMem, opMem
<1>2. Len(lh) \in Nat /\ Len(lh) <= LOGBLOCKS
  BY LogFits
<1>3. tail \in 1..Len(lh) /\ lh[tail] \in Blocks
  BY <1>0, <1>1, <1>2 DEF TypeOK
<1>4. Bread(lh[tail]) \in Vals
  BY <1>0, <1>3 DEF TypeOK, Bread
<1>5. TypeOK'
  <2>1. logData' \in [1..LOGBLOCKS -> Vals]
    BY <1>0, <1>1, <1>4 DEF TypeOK
  <2>2. cache' \in [Blocks -> Vals \cup {Absent}]
    BY <1>0, <1>1, <1>4 DEF TypeOK
  <2>3. tail' \in Nat \ {0}
    BY <1>0, <1>1 DEF TypeOK
  <2> QED
    BY <1>0, <1>1, <2>1, <2>2, <2>3 DEF TypeOK
<1>6. HeadersDistinct'
  BY <1>0, <1>1 DEF HeadersDistinct, Distinct
<1>7. pc[p] \in CommitPcs
  BY <1>1 DEF CommitPcs
<1>8. \A q \in Procs : pc[q] # "install"
  BY <1>0, <1>1, <1>7 DEF OneCommitter, CommitPcs
<1>9. LoggedPinned'
  BY <1>1, <1>8, AllPinned DEF LoggedPinned
<1>10. lh' \in Seq(Blocks) /\ Len(lh') <= LOGBLOCKS
  BY <1>0, <1>1, <1>2 DEF TypeOK
<1>11. BootQuiet' /\ OneCommitter' /\ OpAccounts' /\ LogSpace'
  BY <1>1, <1>7, <1>10, CommitterFrame
<1> QED
  BY <1>5, <1>6, <1>9, <1>11 DEF LogInv

\* write_head puts the header in memory on the disk.
LEMMA WriteHeadInv ==
  ASSUME LogInv, NEW p \in Procs, WriteHead(p)
  PROVE  LogInv'
<1>0. TypeOK /\ OneCommitter /\ HeadersDistinct
  BY DEF LogInv
<1>1. /\ home' = home /\ logData' = logData /\ hdr' = lh /\ cache' = cache
      /\ pins' = pins /\ lh' = lh /\ outstanding' = outstanding
      /\ committing' = committing /\ held' = held /\ wrote' = wrote
      /\ tail' = 1 /\ boot' = boot /\ panic' = panic
      /\ boot = "up" /\ pc[p] = "write_log"
      /\ pc' = [pc EXCEPT ![p] = "install"]
  BY DEF WriteHead, Running, Goto, logMem, opMem
<1>2. Len(lh) \in Nat /\ Len(lh) <= LOGBLOCKS
  BY LogFits
<1>3. /\ pc[p] \in CommitPcs /\ pc'[p] \in CommitPcs
      /\ \A q \in Procs \ {p} : pc'[q] = pc[q]
  BY <1>0, <1>1 DEF TypeOK, CommitPcs
<1>4. TypeOK'
  BY <1>0, <1>1 DEF TypeOK, PcStates
<1>5. HeadersDistinct'
  BY <1>0, <1>1, <1>2 DEF HeadersDistinct, Distinct
<1>6. \A q \in Procs : pc[q] # "install"
  BY <1>0, <1>1, <1>3 DEF OneCommitter, CommitPcs
<1>7. LoggedPinned'
  BY <1>1, <1>6, AllPinned DEF LoggedPinned
<1>8. lh' \in Seq(Blocks) /\ Len(lh') <= LOGBLOCKS
  BY <1>0, <1>1, <1>2 DEF TypeOK
<1>9. BootQuiet' /\ OneCommitter' /\ OpAccounts' /\ LogSpace'
  BY <1>1, <1>3, <1>8, CommitterFrame
<1> QED
  BY <1>4, <1>5, <1>7, <1>9 DEF LogInv

\* A turn of install_trans unpins the block it copied, and no other.
LEMMA InstallTransInv ==
  ASSUME LogInv, NEW p \in Procs, InstallTrans(p)
  PROVE  LogInv'
<1>0. TypeOK /\ OneCommitter /\ HeadersDistinct /\ LoggedPinned
  BY DEF LogInv
<1>1. /\ hdr' = hdr /\ logData' = logData /\ lh' = lh
      /\ outstanding' = outstanding /\ committing' = committing
      /\ pc' = pc /\ held' = held /\ wrote' = wrote
      /\ tail <= Len(lh) /\ tail' = tail + 1 /\ boot' = boot /\ panic' = panic
      /\ boot = "up" /\ pc[p] = "install"
      /\ home' = [home EXCEPT ![lh[tail]] = logData[tail]]
      /\ cache' = [cache EXCEPT ![lh[tail]] = logData[tail]]
      /\ pins' = [pins EXCEPT ![lh[tail]] = @ - 1]
  BY DEF InstallTrans, InstallBlock, Running, logMem, opMem
<1>2. Len(lh) \in Nat /\ Len(lh) <= LOGBLOCKS
  BY LogFits
<1>3. tail \in 1..Len(lh) /\ lh[tail] \in Blocks /\ tail \in 1..LOGBLOCKS
  BY <1>0, <1>1, <1>2, LogAssumption DEF TypeOK
<1>4. logData[tail] \in Vals
  BY <1>0, <1>3 DEF TypeOK
<1>5. pc[p] \in CommitPcs
  BY <1>1 DEF CommitPcs
<1>6. \A q \in Procs : pc[q] = "install" => q = p
  BY <1>0, <1>5 DEF OneCommitter, CommitPcs
<1>7. \A i \in 1..Len(lh) : i >= tail => pins[lh[i]] > 0
  BY <1>0, <1>1, <1>6 DEF LoggedPinned
<1>8. TypeOK'
  <2>1. home' \in [Blocks -> Vals]
    BY <1>0, <1>1, <1>4 DEF TypeOK
  <2>2. cache' \in [Blocks -> Vals \cup {Absent}]
    BY <1>0, <1>1, <1>4 DEF TypeOK
  <2>3. pins' \in [Blocks -> Nat]
    <3>1. pins[lh[tail]] \in Nat /\ pins[lh[tail]] > 0
      BY <1>0, <1>3, <1>7 DEF TypeOK
    <3> QED
      BY <1>0, <1>1, <3>1 DEF TypeOK
  <2>4. tail' \in Nat \ {0}
    BY <1>0, <1>1 DEF TypeOK
  <2> QED
    BY <1>0, <1>1, <2>1, <2>2, <2>3, <2>4 DEF TypeOK
<1>9. HeadersDistinct'
  BY <1>0, <1>1 DEF HeadersDistinct, Distinct
<1>10. LoggedPinned'
  <2>1. SUFFICES ASSUME NEW i \in 1..Len(lh), i >= tail + 1
                 PROVE  pins'[lh[i]] > 0
    BY <1>1 DEF LoggedPinned
  <2>2. lh[i] # lh[tail]
    BY <1>0, <1>2, <1>3, <2>1 DEF HeadersDistinct, Distinct
  <2>3. pins'[lh[i]] = pins[lh[i]]
    BY <1>0, <1>1, <1>2, <2>2 DEF TypeOK
  <2> QED
    BY <1>2, <1>3, <1>7, <2>1, <2>3
<1>11. lh' \in Seq(Blocks) /\ Len(lh') <= LOGBLOCKS
  BY <1>0, <1>1, <1>2 DEF TypeOK
<1>12. BootQuiet' /\ OneCommitter' /\ OpAccounts' /\ LogSpace'
  BY <1>1, <1>5, <1>11, CommitterFrame
<1> QED
  BY <1>8, <1>9, <1>10, <1>12 DEF LogInv

\* Erasing the log empties both headers.
LEMMA EraseLogInv ==
  ASSUME LogInv, NEW p \in Procs, EraseLog(p)
  PROVE  LogInv'
<1>0. TypeOK /\ OneCommitter /\ HeadersDistinct
  BY DEF LogInv
<1>1. /\ home' = home /\ logData' = logData /\ hdr' = <<>> /\ cache' = cache
      /\ pins' = pins /\ lh' = <<>> /\ outstanding' = outstanding
      /\ committing' = committing /\ held' = held /\ wrote' = wrote
      /\ tail' = 1 /\ boot' = boot /\ panic' = panic
      /\ boot = "up" /\ pc[p] = "install"
      /\ pc' = [pc EXCEPT ![p] = "done"]
  BY DEF EraseLog, EraseHead, Running, Goto, opMem
<1>2. /\ pc[p] \in CommitPcs /\ pc'[p] \in CommitPcs
      /\ \A q \in Procs \ {p} : pc'[q] = pc[q]
  BY <1>0, <1>1 DEF TypeOK, CommitPcs
<1>3. lh' \in Seq(Blocks) /\ Len(lh') <= LOGBLOCKS /\ hdr' \in Seq(Blocks)
  BY <1>1, LogAssumption
<1>4. TypeOK'
  BY <1>0, <1>1, <1>3 DEF TypeOK, PcStates
<1>5. HeadersDistinct' /\ LoggedPinned'
  BY <1>1, LogAssumption DEF HeadersDistinct, Distinct, LoggedPinned
<1>6. BootQuiet' /\ OneCommitter' /\ OpAccounts' /\ LogSpace'
  BY <1>1, <1>2, <1>3, CommitterFrame
<1> QED
  BY <1>4, <1>5, <1>6 DEF LogInv

\* The end of a commit lets operations begin again.
LEMMA EndCommitInv ==
  ASSUME LogInv, NEW p \in Procs, EndCommit(p)
  PROVE  LogInv'
<1>0. /\ TypeOK /\ OneCommitter /\ OpAccounts /\ HeadersDistinct /\ LogSpace
  BY DEF LogInv
<1>1. /\ home' = home /\ logData' = logData /\ hdr' = hdr /\ cache' = cache
      /\ pins' = pins /\ lh' = lh /\ outstanding' = outstanding
      /\ committing' = FALSE /\ held' = held /\ wrote' = wrote
      /\ tail' = tail /\ boot' = boot /\ panic' = panic
      /\ boot = "up" /\ pc[p] = "done"
      /\ pc' = [q \in Procs |-> IF q = p THEN "idle"
                                ELSE IF pc[q] = "sleep" THEN "begin" ELSE pc[q]]
  BY DEF EndCommit, Running, WakeupAnd, disk, opMem
<1>2. /\ pc' \in [Procs -> PcStates] /\ pc'[p] = "idle"
      /\ \A q \in Procs \ {p} :
           pc'[q] = pc[q] \/ (pc[q] = "sleep" /\ pc'[q] = "begin")
  BY <1>0, <1>1 DEF TypeOK, PcStates
<1>3. pc[p] \in CommitPcs /\ \A q \in Procs \ {p} : pc[q] \notin CommitPcs
  BY <1>0, <1>1 DEF OneCommitter, CommitPcs
<1>4. Active' = Active
  BY <1>0, <1>1, <1>2 DEF Active, TypeOK
<1>5. TypeOK'
  <2>1. committing' \in BOOLEAN
    BY <1>1
  <2> QED
    BY <1>0, <1>1, <1>2, <2>1 DEF TypeOK
<1>6. BootQuiet'
  BY <1>1 DEF BootQuiet
<1>7. OneCommitter'
  <2>1. \A q \in Procs : pc'[q] \notin CommitPcs
    BY <1>2, <1>3 DEF CommitPcs
  <2> QED
    BY <1>1, <2>1 DEF OneCommitter
<1>8. OpAccounts'
  <2>1. \A q \in Procs : pc'[q] # "op" => pc[q] # "op"
    BY <1>1, <1>2
  <2> QED
    BY <1>0, <1>1, <1>4, <2>1 DEF OpAccounts
<1>9. HeadersDistinct'
  BY <1>0, <1>1 DEF HeadersDistinct, Distinct
<1>10. LogSpace'
  <2>1. Reserved' = Reserved
    <3>1. \A q \in Procs : (pc'[q] = "op") <=> (pc[q] = "op")
      BY <1>1, <1>2
    <3> QED
      BY <1>1, <3>1 DEF Reserved
  <2> QED
    BY <1>0, <1>1, <2>1 DEF LogSpace
<1>11. \A q \in Procs : pc[q] # "install"
  BY <1>1, <1>3 DEF CommitPcs
<1>12. LoggedPinned'
  BY <1>1, <1>11, AllPinned DEF LoggedPinned
<1> QED
  BY <1>5, <1>6, <1>7, <1>8, <1>9, <1>10, <1>12 DEF LogInv

-----------------------------------------------------------------------------
(* Eviction, recovery and stuttering *)

\* Recycling a buffer touches no pinned one.
LEMMA EvictInv ==
  ASSUME LogInv, NEW b \in Blocks, Evict(b)
  PROVE  LogInv'
<1>0. /\ TypeOK /\ BootQuiet /\ OneCommitter /\ OpAccounts /\ LogSpace
      /\ HeadersDistinct /\ LoggedPinned
  BY DEF LogInv
<1>1. /\ cache' = [cache EXCEPT ![b] = Absent]
      /\ UNCHANGED <<home, logData, hdr, pins, lh, outstanding, committing,
                     pc, held, wrote, tail, boot, panic>>
  BY DEF Evict, disk, logMem, opMem
<1>2. TypeOK'
  BY <1>0, <1>1 DEF TypeOK
<1>3. Active' = Active /\ Reserved' = Reserved
  BY <1>1 DEF Active, Reserved
<1>4. BootQuiet' /\ HeadersDistinct' /\ LoggedPinned'
  BY <1>0, <1>1 DEF BootQuiet, HeadersDistinct, Distinct, LoggedPinned
<1>5. OneCommitter' /\ OpAccounts'
  BY <1>0, <1>1, <1>3 DEF OneCommitter, OpAccounts
<1>6. LogSpace'
  BY <1>0, <1>1, <1>3 DEF LogSpace
<1> QED
  BY <1>2, <1>4, <1>5, <1>6 DEF LogInv

\* What a step of recover_from_log cannot disturb.
LEMMA BootFrame ==
  ASSUME LogInv, boot # "up", lh' \in Seq(Blocks), Len(lh') <= LOGBLOCKS,
         UNCHANGED <<outstanding, committing, pc, held, wrote, panic>>
  PROVE  BootQuiet' /\ OneCommitter' /\ OpAccounts' /\ LogSpace'
<1>0. BootQuiet /\ OneCommitter /\ OpAccounts
  BY DEF LogInv
<1>1. ~committing /\ ~panic /\ \A q \in Procs : pc[q] = "idle"
  BY <1>0 DEF BootQuiet
<1>2. Active' = {} /\ Active = {} /\ Reserved' = {}
  BY <1>1 DEF Active, Reserved
<1>3. BootQuiet' /\ OneCommitter'
  BY <1>1 DEF BootQuiet, OneCommitter, CommitPcs
<1>4. \A q \in Procs : wrote'[q] = {} /\ held'[q] = {}
  BY <1>0, <1>1 DEF OpAccounts
<1>5. OpAccounts'
  <2>1. outstanding' = Cardinality(Active')
    BY <1>0, <1>2 DEF OpAccounts
  <2>2. \A q \in Procs : Cardinality(wrote'[q] \cup held'[q]) <= OpBlocks
    BY <1>0 DEF OpAccounts
  <2> QED
    BY <1>4, <2>1, <2>2 DEF OpAccounts
<1>6. LogSpace'
  BY <1>2, FS_EmptySet, LogAssumption DEF LogSpace
<1> QED
  BY <1>3, <1>5, <1>6

\* The steps of recover_from_log, before any process runs.
LEMMA RecoveryInv ==
  ASSUME LogInv, Recovery
  PROVE  LogInv'
<1>0. TypeOK /\ HeadersDistinct /\ Len(lh) \in Nat /\ Len(lh) <= LOGBLOCKS
  BY LogFits DEF LogInv
<1>1. CASE ReadHead
  <2>1. /\ boot = "read_head" /\ lh' = hdr /\ tail' = 1 /\ boot' = "install"
        /\ UNCHANGED <<home, logData, hdr, cache, pins, outstanding, committing,
                       pc, held, wrote, panic>>
    BY <1>1 DEF ReadHead, disk, opMem
  <2>2. lh' \in Seq(Blocks) /\ Len(lh') <= LOGBLOCKS
    BY <1>0, <2>1 DEF TypeOK, HeadersDistinct
  <2>3. TypeOK'
    BY <1>0, <2>1, <2>2 DEF TypeOK, BootStates
  <2>4. HeadersDistinct' /\ LoggedPinned'
    BY <1>0, <2>1 DEF HeadersDistinct, Distinct, LoggedPinned
  <2>5. BootQuiet' /\ OneCommitter' /\ OpAccounts' /\ LogSpace'
    BY <2>1, <2>2, BootFrame
  <2> QED
    BY <2>3, <2>4, <2>5 DEF LogInv
<1>2. CASE RecoverBlock
  <2>1. /\ boot = "install" /\ tail <= Len(lh) /\ tail' = tail + 1
        /\ home' = [home EXCEPT ![lh[tail]] = logData[tail]]
        /\ cache' = [cache EXCEPT ![lh[tail]] = logData[tail]]
        /\ UNCHANGED <<logData, hdr, pins, lh, outstanding, committing,
                       pc, held, wrote, boot, panic>>
    BY <1>2 DEF RecoverBlock, InstallBlock, logMem, opMem
  <2>2. lh' \in Seq(Blocks) /\ Len(lh') <= LOGBLOCKS
    BY <1>0, <2>1 DEF TypeOK
  <2>3. logData[tail] \in Vals
    BY <1>0, <2>1, LogAssumption DEF TypeOK
  <2>4. TypeOK'
    <3>1. home' \in [Blocks -> Vals]
      BY <1>0, <2>1, <2>3 DEF TypeOK
    <3>2. cache' \in [Blocks -> Vals \cup {Absent}]
      BY <1>0, <2>1, <2>3 DEF TypeOK
    <3>3. tail' \in Nat \ {0}
      BY <1>0, <2>1 DEF TypeOK
    <3> QED
      BY <1>0, <2>1, <3>1, <3>2, <3>3 DEF TypeOK
  <2>5. HeadersDistinct' /\ LoggedPinned'
    BY <1>0, <2>1 DEF HeadersDistinct, Distinct, LoggedPinned
  <2>6. BootQuiet' /\ OneCommitter' /\ OpAccounts' /\ LogSpace'
    BY <2>1, <2>2, BootFrame
  <2> QED
    BY <2>4, <2>5, <2>6 DEF LogInv
<1>3. CASE RecoverDone
  <2>1. /\ boot = "install" /\ lh' = <<>> /\ hdr' = <<>> /\ tail' = 1 /\ boot' = "up"
        /\ UNCHANGED <<home, logData, cache, pins, outstanding, committing,
                       pc, held, wrote, panic>>
    BY <1>3 DEF RecoverDone, EraseHead, opMem
  <2>2. lh' \in Seq(Blocks) /\ Len(lh') <= LOGBLOCKS /\ hdr' \in Seq(Blocks)
    BY <2>1, LogAssumption
  <2>3. TypeOK'
    BY <1>0, <2>1, <2>2 DEF TypeOK, BootStates
  <2>4. HeadersDistinct' /\ LoggedPinned'
    BY <2>1, LogAssumption DEF HeadersDistinct, Distinct, LoggedPinned
  <2>5. BootQuiet' /\ OneCommitter' /\ OpAccounts' /\ LogSpace'
    BY <2>1, <2>2, BootFrame
  <2> QED
    BY <2>3, <2>4, <2>5 DEF LogInv
<1> QED
  BY <1>1, <1>2, <1>3 DEF Recovery

\* A step that changes no variable.
LEMMA StutterInv ==
  ASSUME LogInv, UNCHANGED vars
  PROVE  LogInv'
<1>0. /\ TypeOK /\ BootQuiet /\ OneCommitter /\ OpAccounts /\ LogSpace
      /\ HeadersDistinct /\ LoggedPinned
  BY DEF LogInv
<1>1. UNCHANGED <<home, logData, hdr, cache, pins, lh, outstanding, committing,
                  pc, held, wrote, tail, boot, panic>>
  BY DEF vars
<1>2. TypeOK'
  BY <1>0, <1>1 DEF TypeOK
<1>3. Active' = Active /\ Reserved' = Reserved
  BY <1>1 DEF Active, Reserved
<1>4. BootQuiet' /\ HeadersDistinct' /\ LoggedPinned'
  BY <1>0, <1>1 DEF BootQuiet, HeadersDistinct, Distinct, LoggedPinned
<1>5. OneCommitter' /\ OpAccounts' /\ LogSpace'
  BY <1>0, <1>1, <1>3 DEF OneCommitter, OpAccounts, LogSpace
<1> QED
  BY <1>2, <1>4, <1>5 DEF LogInv

\* Every step keeps LogInv.
LEMMA NextInv ==
  ASSUME LogInv, [Next]_vars
  PROVE  LogInv'
<1>1. ASSUME NEW p \in Procs, Call(p) \/ EndOp(p) PROVE LogInv'
  BY <1>1, CallInv, EndOpInv
<1>2. ASSUME NEW p \in Procs, Step(p) PROVE LogInv'
  BY <1>2, BeginOpInv, LogWriteInv, CommitInv, WriteLogInv, WriteHeadInv,
     InstallTransInv, EraseLogInv, EndCommitInv DEF Step
<1>3. ASSUME NEW p \in Procs, NEW b \in Blocks, NEW v \in Vals, Modify(p, b, v)
      PROVE  LogInv'
  BY <1>3, ModifyInv
<1>4. ASSUME NEW b \in Blocks, Evict(b) PROVE LogInv'
  BY <1>4, EvictInv
<1>5. CASE Recovery
  BY <1>5, RecoveryInv
<1>6. CASE Crash
  BY <1>6, CrashInv
<1>7. CASE UNCHANGED vars
  BY <1>7, StutterInv
<1> QED
  BY <1>1, <1>2, <1>3, <1>4, <1>5, <1>6, <1>7 DEF Next

-----------------------------------------------------------------------------
(* The theorems *)

\* LogInv is an invariant of log.c: every interleaving of begin_op, log_write
\* and end_op, the commit, crashes and recovery keep it.
THEOREM LogInvariant == Spec => []LogInv
<1>1. Init => LogInv
  BY InitInv
<1>2. LogInv /\ [Next]_vars => LogInv'
  BY NextInv
<1> QED
  BY <1>1, <1>2, PTL DEF Spec

\* Every variable of the log keeps its type; in particular no pin count and
\* no log.outstanding becomes negative.
THEOREM TypeCorrect == Spec => []TypeOK
<1>1. LogInv => TypeOK
  BY DEF LogInv
<1> QED
  BY <1>1, LogInvariant, PTL

\* The reservation made by begin_op is enough for every operation in
\* progress, whatever the number of processes and the size of the log.
THEOREM SpaceSufficient == Spec => []LogSpace
<1>1. LogInv => LogSpace
  BY DEF LogInv
<1> QED
  BY <1>1, LogInvariant, PTL

-----------------------------------------------------------------------------
(* No panic *)

\* A process about to call log_write still has room in the log, if no
\* operation writes as many blocks as begin_op reserves for it.
LEMMA RoomToWrite ==
  ASSUME LogInv, OpBlocks < MAXOPBLOCKS, NEW p \in Procs, pc[p] = "op"
  PROVE  Len(lh) < LOGBLOCKS /\ outstanding >= 1
<1>0. TypeOK /\ OpAccounts /\ LogSpace
  BY DEF LogInv
<1>1. outstanding >= 1
  BY EndOpCount
<1>2. /\ Cardinality(wrote[p]) \in Nat /\ Cardinality(wrote[p] \cup held[p]) \in Nat
      /\ Cardinality(wrote[p]) <= Cardinality(wrote[p] \cup held[p])
  <2>1. wrote[p] \in SUBSET Blocks /\ wrote[p] \cup held[p] \in SUBSET Blocks
    BY <1>0 DEF TypeOK
  <2>2. /\ IsFiniteSet(wrote[p] \cup held[p])
        /\ Cardinality(wrote[p] \cup held[p]) \in Nat
        /\ Cardinality(wrote[p]) \in Nat
    BY <2>1, BlockSets
  <2>3. wrote[p] \in SUBSET (wrote[p] \cup held[p])
    OBVIOUS
  <2> QED
    BY <2>2, <2>3, FS_Subset
<1>3. Cardinality(wrote[p]) < MAXOPBLOCKS
  BY <1>0, <1>2, LogAssumption DEF OpAccounts
<1>4. <<p, MAXOPBLOCKS>> \in Reserved
  BY <1>2, <1>3, LogAssumption DEF Reserved
<1>5. Cardinality(Reserved) \in Nat /\ Cardinality(Reserved) # 0
  BY <1>4, ReservedBound, FS_EmptySet
<1>6. Len(lh) < LOGBLOCKS
  BY <1>0, <1>5, LogAssumption DEF LogSpace, TypeOK
<1> QED
  BY <1>1, <1>6

\* With that assumption no step panics.
LEMMA NextNoPanic ==
  ASSUME LogInv, NoPanic, OpBlocks < MAXOPBLOCKS, [Next]_vars
  PROVE  NoPanic'
<1>0. TypeOK /\ OpAccounts
  BY DEF LogInv
<1>1. ASSUME NEW p \in Procs, NEW b \in Blocks, LogWrite(p, b) PROVE NoPanic'
  <2>1. b \in held[p]
    BY <1>1 DEF LogWrite
  <2>2. pc[p] = "op"
    BY <1>0, <2>1 DEF OpAccounts
  <2>3. Len(lh) < LOGBLOCKS /\ outstanding >= 1
    BY <2>2, RoomToWrite
  <2>4. ~(Len(lh) >= LOGBLOCKS \/ outstanding < 1)
    BY <1>0, <2>3, LogAssumption DEF TypeOK
  <2> QED
    BY <1>1, <2>4 DEF LogWrite, NoPanic
<1>2. ASSUME NEW p \in Procs, EndOp(p) PROVE NoPanic'
  <2>1. ~committing
    BY <1>2, EndOpCount DEF EndOp
  <2> QED
    BY <1>2, <2>1 DEF EndOp, NoPanic
<1>3. ASSUME NEW p \in Procs, Call(p) PROVE NoPanic'
  BY <1>3 DEF Call, NoPanic
<1>4. ASSUME NEW p \in Procs, Step(p) PROVE NoPanic'
  BY <1>1, <1>4 DEF Step, BeginOp, Commit, WriteLog, WriteHead, InstallTrans,
     EraseLog, EndCommit, NoPanic
<1>5. ASSUME NEW p \in Procs, NEW b \in Blocks, NEW v \in Vals, Modify(p, b, v)
      PROVE  NoPanic'
  BY <1>5 DEF Modify, NoPanic
<1>6. ASSUME NEW b \in Blocks, Evict(b) PROVE NoPanic'
  BY <1>6 DEF Evict, NoPanic
<1>7. CASE Recovery
  BY <1>7 DEF Recovery, ReadHead, RecoverBlock, RecoverDone, NoPanic
<1>8. CASE Crash
  BY <1>8 DEF Crash, NoPanic
<1>9. CASE UNCHANGED vars
  BY <1>9 DEF vars, NoPanic
<1> QED
  BY <1>2, <1>3, <1>4, <1>5, <1>6, <1>7, <1>8, <1>9 DEF Next

\* None of the panics of log.c is reachable as long as every operation stays
\* below the MAXOPBLOCKS blocks begin_op reserves for it.
THEOREM PanicFree ==
  ASSUME OpBlocks < MAXOPBLOCKS
  PROVE  Spec => []NoPanic
<1>1. Init => NoPanic
  BY DEF Init, NoPanic
<1>2. LogInv /\ NoPanic /\ [Next]_vars => NoPanic'
  BY NextNoPanic
<1> QED
  BY <1>1, <1>2, LogInvariant, PTL DEF Spec

-----------------------------------------------------------------------------
(* Where the contents of a block are: DataInv *)

\* While a process commits, no operation is in progress and no buffer is held.
LEMMA CommitterAlone ==
  ASSUME LogInv, NEW p \in Procs, pc[p] \in CommitPcs
  PROVE  /\ boot = "up" /\ Active = {} /\ HeldBlocks = {}
         /\ \A q \in Procs : pc[q] \in CommitPcs => q = p
<1>0. TypeOK /\ BootQuiet /\ OneCommitter /\ OpAccounts
  BY DEF LogInv
<1>1. boot = "up"
  BY <1>0 DEF BootQuiet, CommitPcs
<1>2. Active = {} /\ \A q \in Procs : pc[q] \in CommitPcs => q = p
  BY <1>0 DEF OneCommitter
<1>3. \A q \in Procs : held[q] = {}
  BY <1>0, <1>2 DEF OpAccounts, Active
<1> QED
  BY <1>1, <1>2, <1>3 DEF HeldBlocks

\* While an operation is in progress, nobody copies blocks.
LEMMA NoCopying ==
  ASSUME LogInv, NEW p \in Procs, pc[p] = "op"
  PROVE  /\ ~Installing /\ boot = "up"
         /\ \A q \in Procs : pc[q] \notin {"write_log", "install"}
<1>1. BootQuiet /\ OneCommitter /\ p \in Active
  BY DEF LogInv, Active
<1> QED
  BY <1>1 DEF BootQuiet, OneCommitter, CommitPcs, Installing

\* What recovery restores: the log's copy of a block of the header, and the
\* home location of any other.
RestoredValues ==
  /\ \A i \in 1..Len(hdr) : hdr[i] \in Blocks /\ DurableBlock(hdr[i]) = logData[i]
  /\ \A b \in Blocks : b \notin Logged(hdr) => DurableBlock(b) = home[b]

\* It restores them in every state of the invariant.
LEMMA DurableValue == LogInv => RestoredValues
<1> SUFFICES ASSUME LogInv PROVE RestoredValues
  OBVIOUS
<1>1. hdr \in Seq(Blocks) /\ Distinct(hdr)
  BY DEF LogInv, TypeOK, HeadersDistinct
<1>2. ASSUME NEW i \in 1..Len(hdr)
      PROVE  hdr[i] \in Blocks /\ DurableBlock(hdr[i]) = logData[i]
  <2>1. hdr[i] \in Blocks /\ hdr[i] \in Logged(hdr)
    BY <1>1 DEF Logged
  <2> DEFINE j == CHOOSE k \in 1..Len(hdr) : hdr[k] = hdr[i]
  <2>2. j \in 1..Len(hdr) /\ hdr[j] = hdr[i]
    OBVIOUS
  <2>3. j = i
    BY <1>1, <2>2 DEF Distinct
  <2> QED
    BY <2>1, <2>3 DEF DurableBlock
<1> QED
  BY <1>2 DEF DurableBlock, RestoredValues

\* A step that copies no block and leaves the memory of the log alone keeps
\* DataInv and both block maps.
LEMMA DataFrame ==
  ASSUME DataInv,
         UNCHANGED <<home, logData, hdr, cache, lh, held, tail, boot>>,
         \A q \in Procs : /\ pc'[q] = "install" <=> pc[q] = "install"
                          /\ pc'[q] = "write_log" <=> pc[q] = "write_log"
  PROVE  DataInv' /\ Durable' = Durable /\ Volatile' = Volatile
<1>1. HeaderOnDisk /\ CleanBlocks /\ CopiedToLog /\ CopiedHome
  BY DEF DataInv
<1>2. Installing' = Installing
  BY DEF Installing
<1>3. HeldBlocks' = HeldBlocks /\ \A b \in Blocks : Bread(b)' = Bread(b)
  BY DEF HeldBlocks, Bread
<1>4. HeaderOnDisk'
  BY <1>1, <1>2 DEF HeaderOnDisk
<1>5. CleanBlocks'
  BY <1>1, <1>3 DEF CleanBlocks
<1>6. CopiedToLog'
  BY <1>1 DEF CopiedToLog, Bread
<1>7. CopiedHome'
  BY <1>1, <1>2 DEF CopiedHome
<1>8. Durable' = Durable
  BY DEF Durable, DurableBlock, Logged
<1>9. Volatile' = Volatile
  BY <1>3, <1>8 DEF Volatile
<1> QED
  BY <1>4, <1>5, <1>6, <1>7, <1>8, <1>9 DEF DataInv

-----------------------------------------------------------------------------
(* Each step keeps DataInv and is a step of the atomic disk, or none *)

AtomicStep == [Atomic!Next]_(Atomic!vars)

\* A step that changes neither block map nor the operations is a stutter.
LEMMA Stutters ==
  ASSUME Durable' = Durable, Volatile' = Volatile, Active' = Active
  PROVE  AtomicStep
  BY DEF AtomicStep, Atomic!vars

\* A system call that has not begun its operation is invisible.
LEMMA CallAtomic ==
  ASSUME LogInv, DataInv, NEW p \in Procs, Call(p)
  PROVE  DataInv' /\ AtomicStep
<1>1. pc \in [Procs -> PcStates] /\ pc[p] = "idle" /\ pc' = [pc EXCEPT ![p] = "begin"]
  BY DEF LogInv, TypeOK, Call, Goto
<1>2. UNCHANGED <<home, logData, hdr, cache, lh, held, tail, boot>>
  BY DEF Call, disk, logMem, opMem
<1>3. Active' = Active
  BY <1>1 DEF Active
<1>4. DataInv' /\ Durable' = Durable /\ Volatile' = Volatile
  BY <1>1, <1>2, DataFrame
<1> QED
  BY <1>3, <1>4, Stutters

\* begin_op starts an operation of the atomic disk or sleeps.
LEMMA BeginOpAtomic ==
  ASSUME LogInv, DataInv, NEW p \in Procs, BeginOp(p)
  PROVE  DataInv' /\ AtomicStep
<1>1. /\ pc \in [Procs -> PcStates] /\ pc[p] = "begin"
      /\ pc' = [pc EXCEPT ![p] = "sleep"] \/ pc' = [pc EXCEPT ![p] = "op"]
  BY DEF LogInv, TypeOK, BeginOp, Goto
<1>2. UNCHANGED <<home, logData, hdr, cache, lh, held, tail, boot>>
  BY DEF BeginOp, disk, opMem
<1>3. DataInv' /\ Durable' = Durable /\ Volatile' = Volatile
  <2>1. \A q \in Procs : /\ pc'[q] = "install" <=> pc[q] = "install"
                         /\ pc'[q] = "write_log" <=> pc[q] = "write_log"
    BY <1>1
  <2> QED
    BY <1>2, <2>1, DataFrame
<1>4. CASE pc' = [pc EXCEPT ![p] = "sleep"]
  <2>1. Active' = Active
    BY <1>1, <1>4 DEF Active
  <2> QED
    BY <1>3, <2>1, Stutters
<1>5. CASE pc' = [pc EXCEPT ![p] = "op"]
  <2>1. Active' = Active \cup {p} /\ p \notin Active
    BY <1>1, <1>5 DEF Active
  <2>2. Atomic!Begin(p)
    BY <1>3, <2>1 DEF Atomic!Begin
  <2> QED
    BY <1>3, <2>2 DEF AtomicStep, Atomic!Next
<1> QED
  BY <1>1, <1>4, <1>5

\* Changing a buffer writes a block of the volatile map, and only that.
LEMMA ModifyAtomic ==
  ASSUME LogInv, DataInv, NEW p \in Procs, NEW b \in Blocks, NEW v \in Vals, Modify(p, b, v)
  PROVE  DataInv' /\ AtomicStep
<1>0. /\ TypeOK /\ HeaderOnDisk /\ CleanBlocks /\ CopiedToLog /\ CopiedHome
  BY DEF LogInv, DataInv
<1>1. /\ UNCHANGED <<home, logData, hdr, lh, tail, boot, pc>>
      /\ pc[p] = "op"
      /\ cache' = [cache EXCEPT ![b] = v]
      /\ held' = [held EXCEPT ![p] = @ \cup {b}]
  BY DEF Modify, disk, logMem
<1>2. /\ ~Installing /\ boot = "up"
      /\ \A q \in Procs : pc[q] \notin {"write_log", "install"}
  BY <1>1, NoCopying
<1>3. Active' = Active /\ Installing' = Installing
  BY <1>1 DEF Active, Installing
<1>4. /\ \A c \in Blocks : Bread(c)' = IF c = b THEN v ELSE Bread(c)
      /\ HeldBlocks' = HeldBlocks \cup {b}
  <2>1. \A c \in Blocks : Bread(c)' = IF c = b THEN v ELSE Bread(c)
    BY <1>0, <1>1, LogAssumption DEF TypeOK, Bread
  <2>2. \A c : c \in HeldBlocks' <=> \E q \in Procs : c \in held'[q]
    BY DEF HeldBlocks
  <2>3. \A c : c \in HeldBlocks <=> \E q \in Procs : c \in held[q]
    BY DEF HeldBlocks
  <2>4. \A q \in Procs : held'[q] = IF q = p THEN held[q] \cup {b} ELSE held[q]
    BY <1>0, <1>1 DEF TypeOK
  <2> QED
    BY <2>1, <2>2, <2>3, <2>4
<1>5. HeaderOnDisk'
  BY <1>0, <1>1, <1>3 DEF HeaderOnDisk
<1>6. CleanBlocks'
  BY <1>0, <1>1, <1>2, <1>4 DEF CleanBlocks
<1>7. CopiedToLog'
  BY <1>1, <1>2 DEF CopiedToLog
<1>8. CopiedHome'
  BY <1>1, <1>2, <1>3 DEF CopiedHome
<1>9. Durable' = Durable
  BY <1>1 DEF Durable, DurableBlock, Logged
<1>10. Volatile' = [Volatile EXCEPT ![b] = v]
  BY <1>1, <1>2, <1>4 DEF Volatile
<1>11. p \in Active
  BY <1>1 DEF Active
<1>12. Atomic!Write(p, b, v)
  BY <1>3, <1>9, <1>10, <1>11 DEF Atomic!Write
<1> QED
  BY <1>5, <1>6, <1>7, <1>8, <1>12 DEF DataInv, AtomicStep, Atomic!Next

\* log_write changes no contents: the block goes from the held ones to the
\* logged ones.
LEMMA LogWriteAtomic ==
  ASSUME LogInv, DataInv, NEW p \in Procs, NEW b \in Blocks, LogWrite(p, b)
  PROVE  DataInv' /\ AtomicStep
<1>0. /\ TypeOK /\ OpAccounts /\ HeaderOnDisk /\ CleanBlocks /\ CopiedToLog /\ CopiedHome
  BY DEF LogInv, DataInv
<1>1. /\ UNCHANGED <<home, logData, hdr, cache, tail, boot, pc>>
      /\ b \in held[p]
  BY DEF LogWrite, disk
<1>2. pc[p] = "op"
  BY <1>0, <1>1 DEF OpAccounts
<1>3. /\ ~Installing /\ boot = "up"
      /\ \A q \in Procs : pc[q] \notin {"write_log", "install"}
  BY <1>2, NoCopying
<1>4. Active' = Active /\ Installing' = Installing
  BY <1>1 DEF Active, Installing
<1>5. \A c \in Blocks : Bread(c)' = Bread(c)
  BY <1>1 DEF Bread
<1>6. Logged(lh) \cup HeldBlocks \subseteq (Logged(lh) \cup HeldBlocks)'
  <2>1. CASE lh' = lh /\ held' = held
    BY <2>1 DEF HeldBlocks
  <2>2. CASE ~(Len(lh) >= LOGBLOCKS \/ outstanding < 1)
    <3>1. held' = [held EXCEPT ![p] = @ \ {b}]
      BY <2>2 DEF LogWrite
    <3>2. \A c : c \in HeldBlocks => c \in HeldBlocks' \/ c = b
      <4>1. \A c : c \in HeldBlocks' <=> \E q \in Procs : c \in held'[q]
        BY DEF HeldBlocks
      <4>2. \A c : c \in HeldBlocks <=> \E q \in Procs : c \in held[q]
        BY DEF HeldBlocks
      <4>3. \A q \in Procs : held'[q] = IF q = p THEN held[q] \ {b} ELSE held[q]
        BY <1>0, <3>1 DEF TypeOK
      <4> QED
        BY <4>1, <4>2, <4>3
    <3>3. Logged(lh) \cup {b} \subseteq Logged(lh)'
      <4>1. CASE b \in Logged(lh)
        <5>1. lh' = lh
          BY <2>2, <4>1 DEF LogWrite
        <5> QED
          BY <4>1, <5>1 DEF Logged
      <4>2. CASE b \notin Logged(lh)
        <5>1. lh' = Append(lh, b)
          BY <2>2, <4>2 DEF LogWrite
        <5>2. /\ Len(lh') = Len(lh) + 1 /\ lh'[Len(lh) + 1] = b
              /\ Len(lh) \in Nat /\ \A i \in 1..Len(lh) : lh'[i] = lh[i]
          BY <1>0, <5>1 DEF TypeOK
        <5>3. /\ \A i \in 1..Len(lh) : i \in 1..Len(lh')
              /\ Len(lh) + 1 \in 1..Len(lh')
          BY <5>2
        <5> QED
          BY <5>2, <5>3 DEF Logged
      <4> QED
        BY <4>1, <4>2
    <3> QED
      BY <3>2, <3>3
  <2> QED
    BY <2>1, <2>2 DEF LogWrite
<1>7. HeaderOnDisk'
  BY <1>0, <1>1, <1>3, <1>4 DEF HeaderOnDisk
<1>8. CleanBlocks'
  BY <1>0, <1>1, <1>3, <1>5, <1>6 DEF CleanBlocks
<1>9. CopiedToLog'
  BY <1>1, <1>3 DEF CopiedToLog
<1>10. CopiedHome'
  BY <1>1, <1>3, <1>4 DEF CopiedHome
<1>11. Durable' = Durable
  BY <1>1 DEF Durable, DurableBlock, Logged
<1>12. Volatile' = Volatile
  BY <1>1, <1>5, <1>11 DEF Volatile
<1> QED
  BY <1>4, <1>7, <1>8, <1>9, <1>10, <1>11, <1>12, Stutters DEF DataInv

\* end_op ends the operation and makes nothing durable by itself.
LEMMA EndOpAtomic ==
  ASSUME LogInv, DataInv, NEW p \in Procs, EndOp(p)
  PROVE  DataInv' /\ AtomicStep
<1>0. TypeOK
  BY DEF LogInv
<1>1. /\ UNCHANGED <<home, logData, hdr, cache, lh, held, tail, boot>>
      /\ pc[p] = "op"
  BY DEF EndOp, disk
<1>2. ~committing
  BY <1>1, EndOpCount
<1>3. \/ pc' = [pc EXCEPT ![p] = "commit"]
      \/ pc' = [q \in Procs |-> IF q = p THEN "idle"
                                ELSE IF pc[q] = "sleep" THEN "begin" ELSE pc[q]]
  BY <1>2 DEF EndOp, Goto, WakeupAnd
<1>4. /\ \A q \in Procs : /\ pc'[q] = "install" <=> pc[q] = "install"
                          /\ pc'[q] = "write_log" <=> pc[q] = "write_log"
      /\ \A q \in Procs : pc'[q] = "op" <=> pc[q] = "op" /\ q # p
  BY <1>0, <1>1, <1>3 DEF TypeOK
<1>5. DataInv' /\ Durable' = Durable /\ Volatile' = Volatile
  BY <1>1, <1>4, DataFrame
<1>6. p \in Active /\ Active' = Active \ {p}
  BY <1>1, <1>4 DEF Active
<1>7. Atomic!End(p)
  BY <1>5, <1>6 DEF Atomic!End
<1> QED
  BY <1>5, <1>7 DEF AtomicStep, Atomic!Next

\* commit() with an empty log, and the step to write_log, copy nothing.
LEMMA CommitAtomic ==
  ASSUME LogInv, DataInv, NEW p \in Procs, Commit(p)
  PROVE  DataInv' /\ AtomicStep
<1>0. /\ TypeOK /\ HeaderOnDisk /\ CleanBlocks
  BY DEF LogInv, DataInv
<1>1. /\ UNCHANGED <<home, logData, hdr, cache, lh, held, boot>>
      /\ pc[p] = "commit" /\ tail' = 1
      /\ pc' = [pc EXCEPT ![p] = "write_log"] \/ pc' = [pc EXCEPT ![p] = "done"]
  BY DEF Commit, disk, logMem, opMem, Goto
<1>2. /\ boot = "up"
      /\ \A q \in Procs : pc[q] \in CommitPcs => q = p
  BY <1>1, CommitterAlone DEF CommitPcs
<1>3. ~Installing /\ ~Installing'
  BY <1>0, <1>1, <1>2 DEF Installing, CommitPcs, TypeOK
<1>4. HeaderOnDisk'
  BY <1>0, <1>1, <1>3 DEF HeaderOnDisk
<1>5. HeldBlocks' = HeldBlocks /\ \A b \in Blocks : Bread(b)' = Bread(b)
  BY <1>1 DEF HeldBlocks, Bread
<1>6. CleanBlocks'
  BY <1>0, <1>1, <1>5 DEF CleanBlocks
<1>7. CopiedToLog'
  BY <1>1, <1>3 DEF CopiedToLog, Installing
<1>8. CopiedHome'
  BY <1>1, <1>2, <1>3 DEF CopiedHome
<1>9. Durable' = Durable
  BY <1>1 DEF Durable, DurableBlock, Logged
<1>10. Volatile' = Volatile
  BY <1>1, <1>5, <1>9 DEF Volatile
<1>11. Active' = Active
  BY <1>0, <1>1 DEF Active, TypeOK
<1> QED
  BY <1>4, <1>6, <1>7, <1>8, <1>9, <1>10, <1>11, Stutters DEF DataInv

\* A turn of write_log writes a log block that no header names yet.
LEMMA WriteLogAtomic ==
  ASSUME LogInv, DataInv, NEW p \in Procs, WriteLog(p)
  PROVE  DataInv' /\ AtomicStep
<1>0. /\ TypeOK /\ HeaderOnDisk /\ CleanBlocks /\ CopiedToLog
  BY DEF LogInv, DataInv
<1>1. /\ UNCHANGED <<home, hdr, lh, held, boot, pc>>
      /\ pc[p] = "write_log" /\ tail <= Len(lh) /\ tail' = tail + 1
      /\ logData' = [logData EXCEPT ![tail] = Bread(lh[tail])]
      /\ cache' = [cache EXCEPT ![lh[tail]] = Bread(lh[tail])]
  BY DEF WriteLog, logMem, opMem
<1>2. /\ boot = "up"
      /\ \A q \in Procs : pc[q] \in CommitPcs => q = p
  BY <1>1, CommitterAlone DEF CommitPcs
<1>3. ~Installing /\ ~Installing' /\ hdr = <<>>
  BY <1>0, <1>1, <1>2 DEF Installing, CommitPcs, HeaderOnDisk
<1>4. tail \in 1..Len(lh) /\ tail \in 1..LOGBLOCKS /\ lh[tail] \in Blocks
  <2>1. Len(lh) \in Nat /\ Len(lh) <= LOGBLOCKS /\ tail \in Nat \ {0}
    BY <1>0, LogFits DEF TypeOK
  <2>2. tail \in 1..Len(lh) /\ tail \in 1..LOGBLOCKS
    BY <1>1, <2>1, LogAssumption
  <2> QED
    BY <1>0, <2>2 DEF TypeOK
<1>5. \A b \in Blocks : Bread(b) \in Vals /\ Bread(b)' = Bread(b)
  <2>1. \A b \in Blocks : Bread(b) \in Vals
    BY <1>0 DEF TypeOK, Bread
  <2>2. lh[tail] \in Blocks /\ Bread(lh[tail]) \in Vals
    BY <1>4, <2>1
  <2>3. \A b \in Blocks : cache'[b] = IF b = lh[tail] THEN Bread(lh[tail]) ELSE cache[b]
    BY <1>0, <1>1 DEF TypeOK
  <2> QED
    BY <1>1, <2>1, <2>2, <2>3, LogAssumption DEF Bread
<1>6. HeaderOnDisk'
  BY <1>0, <1>1, <1>3 DEF HeaderOnDisk
<1>7. HeldBlocks' = HeldBlocks
  BY <1>1 DEF HeldBlocks
<1>8. CleanBlocks'
  BY <1>0, <1>1, <1>5, <1>7 DEF CleanBlocks
<1>9. CopiedToLog'
  <2>1. ASSUME NEW i \in 1..Len(lh), i < tail + 1
        PROVE  logData'[i] = Bread(lh[i])'
    <3>1. lh[i] \in Blocks /\ Bread(lh[i])' = Bread(lh[i])
      BY <1>0, <1>1, <1>5 DEF TypeOK
    <3>2. CASE i = tail
      BY <1>0, <1>1, <1>4, <3>1, <3>2 DEF TypeOK
    <3>3. CASE i < tail
      <4>1. logData[i] = Bread(lh[i])
        BY <1>0, <1>1, <3>3 DEF CopiedToLog
      <4> QED
        BY <1>0, <1>1, <3>1, <3>3, <4>1 DEF TypeOK
    <3> QED
      BY <1>0, <2>1, <3>2, <3>3 DEF TypeOK
  <2> QED
    BY <1>1, <1>3, <2>1 DEF CopiedToLog, Installing
<1>10. CopiedHome'
  BY <1>1, <1>2, <1>3 DEF CopiedHome
<1>11. Durable' = Durable
  BY <1>1, <1>3 DEF Durable, DurableBlock, Logged
<1>12. Volatile' = Volatile
  BY <1>1, <1>5, <1>11 DEF Volatile
<1>13. Active' = Active
  BY <1>1 DEF Active
<1> QED
  BY <1>6, <1>8, <1>9, <1>10, <1>11, <1>12, <1>13, Stutters DEF DataInv

\* write_head is the commit point: the whole transaction becomes durable in
\* this one step.
LEMMA WriteHeadAtomic ==
  ASSUME LogInv, DataInv, NEW p \in Procs, WriteHead(p)
  PROVE  DataInv' /\ AtomicStep
<1>0. /\ TypeOK /\ HeaderOnDisk /\ CleanBlocks /\ CopiedToLog
  BY DEF LogInv, DataInv
<1>1. /\ UNCHANGED <<home, logData, lh, held, boot, cache>>
      /\ pc[p] = "write_log" /\ tail > Len(lh) /\ tail' = 1 /\ hdr' = lh
      /\ pc' = [pc EXCEPT ![p] = "install"]
  BY DEF WriteHead, logMem, opMem, Goto
<1>2. /\ boot = "up" /\ Active = {} /\ HeldBlocks = {}
      /\ \A q \in Procs : pc[q] \in CommitPcs => q = p
  BY <1>1, CommitterAlone DEF CommitPcs
<1>3. Installing' /\ Active' = {} /\ HeldBlocks' = {}
  BY <1>0, <1>1, <1>2 DEF Installing, Active, HeldBlocks, TypeOK
<1>4. \A b \in Blocks : Bread(b)' = Bread(b)
  BY <1>1 DEF Bread
<1>5. HeaderOnDisk'
  BY <1>1, <1>2, <1>3 DEF HeaderOnDisk
<1>6. CleanBlocks'
  BY <1>0, <1>1, <1>2, <1>3, <1>4 DEF CleanBlocks
<1>7. \A i \in 1..Len(lh) : lh[i] \in Blocks /\ logData[i] = Bread(lh[i])
  BY <1>0, <1>1 DEF TypeOK, CopiedToLog
<1>8. CopiedToLog'
  BY <1>1, <1>4, <1>7 DEF CopiedToLog
<1>9. CopiedHome'
  BY <1>1 DEF CopiedHome
<1>10. Volatile' = Volatile /\ Volatile = [b \in Blocks |-> Bread(b)]
  BY <1>1, <1>2, <1>4 DEF Volatile
<1>11. ASSUME NEW b \in Blocks PROVE DurableBlock(b)' = Bread(b)
  <2>1. LogInv'
    BY WriteHeadInv
  <2>2. RestoredValues'
    BY <2>1, DurableValue, PTL
  <2>3. CASE b \in Logged(lh)
    <3>1. PICK i \in 1..Len(lh) : lh[i] = b
      BY <2>3 DEF Logged
    <3>2. i \in 1..Len(hdr') /\ hdr'[i] = b
      BY <1>1, <3>1
    <3>3. DurableBlock(b)' = logData'[i]
      BY <2>2, <3>2 DEF RestoredValues
    <3> QED
      BY <1>1, <1>7, <3>1, <3>3
  <2>4. CASE b \notin Logged(lh)
    <3>1. Bread(b) = home[b]
      BY <1>0, <1>2, <2>4 DEF CleanBlocks
    <3> QED
      BY <1>1, <2>2, <2>4, <3>1 DEF RestoredValues
  <2> QED
    BY <2>3, <2>4
<1>12. Durable' = Volatile
  BY <1>10, <1>11 DEF Durable
<1>13. Atomic!Commit
  BY <1>2, <1>3, <1>10, <1>12 DEF Atomic!Commit
<1> QED
  BY <1>5, <1>6, <1>8, <1>9, <1>13 DEF DataInv, AtomicStep, Atomic!Next

\* A turn of install_trans changes a home location that recovery would
\* overwrite anyway, with the same contents.
LEMMA InstallTransAtomic ==
  ASSUME LogInv, DataInv, NEW p \in Procs, InstallTrans(p)
  PROVE  DataInv' /\ AtomicStep
<1>0. /\ TypeOK /\ HeaderOnDisk /\ CleanBlocks /\ CopiedToLog /\ CopiedHome
      /\ Distinct(lh)
  BY DEF LogInv, DataInv, HeadersDistinct
<1>1. /\ UNCHANGED <<logData, hdr, lh, held, boot, pc>>
      /\ pc[p] = "install" /\ tail <= Len(lh) /\ tail' = tail + 1
      /\ cache' = [cache EXCEPT ![lh[tail]] = logData[tail]]
      /\ home' = [home EXCEPT ![lh[tail]] = logData[tail]]
  BY DEF InstallTrans, InstallBlock, logMem, opMem
<1>2. /\ boot = "up" /\ HeldBlocks = {}
      /\ \A q \in Procs : pc[q] \in CommitPcs => q = p
  BY <1>1, CommitterAlone DEF CommitPcs
<1>3. Installing /\ Installing' /\ hdr = lh /\ HeldBlocks' = HeldBlocks
  BY <1>0, <1>1, <1>2 DEF Installing, HeaderOnDisk, HeldBlocks
<1>4. /\ tail \in 1..Len(lh) /\ tail \in 1..LOGBLOCKS /\ lh[tail] \in Blocks
      /\ logData[tail] \in Vals
  <2>1. Len(lh) \in Nat /\ Len(lh) <= LOGBLOCKS /\ tail \in Nat \ {0}
    BY <1>0, LogFits DEF TypeOK
  <2>2. tail \in 1..Len(lh) /\ tail \in 1..LOGBLOCKS
    BY <1>1, <2>1, LogAssumption
  <2>3. lh \in Seq(Blocks) /\ logData \in [1..LOGBLOCKS -> Vals]
    BY <1>0 DEF TypeOK
  <2> QED
    BY <2>2, <2>3
<1>5. /\ \A b \in Blocks : cache'[b] = IF b = lh[tail] THEN logData[tail] ELSE cache[b]
      /\ \A b \in Blocks : home'[b] = IF b = lh[tail] THEN logData[tail] ELSE home[b]
  BY <1>0, <1>1 DEF TypeOK
<1>6. logData[tail] = Bread(lh[tail])
  BY <1>0, <1>1, <1>4 DEF CopiedToLog
<1>7. \A b \in Blocks : Bread(b)' = Bread(b)
  BY <1>4, <1>5, <1>6, LogAssumption DEF Bread
<1>8. HeaderOnDisk'
  BY <1>0, <1>1, <1>3 DEF HeaderOnDisk
<1>9. CleanBlocks'
  <2>1. lh[tail] \in Logged(lh)
    BY <1>4 DEF Logged
  <2> QED
    BY <1>0, <1>1, <1>2, <1>3, <1>5, <1>7, <2>1 DEF CleanBlocks
<1>10. CopiedToLog'
  <2>1. \A i \in 1..Len(lh) : lh[i] \in Blocks
    BY <1>0 DEF TypeOK
  <2> QED
    BY <1>0, <1>1, <1>3, <1>7, <2>1 DEF CopiedToLog, Installing
<1>11. CopiedHome'
  <2>1. ASSUME NEW i \in 1..Len(lh), i < tail + 1
        PROVE  home'[lh[i]] = logData[i]
    <3>1. lh[i] \in Blocks
      BY <1>0 DEF TypeOK
    <3>2. CASE i = tail
      BY <1>5, <3>1, <3>2
    <3>3. CASE i # tail
      <4>1. i < tail
        BY <1>4, <2>1, <3>3
      <4>2. home[lh[i]] = logData[i] /\ lh[i] # lh[tail]
        BY <1>0, <1>3, <1>4, <3>3, <4>1 DEF CopiedHome, Distinct
      <4> QED
        BY <1>5, <3>1, <4>2
    <3> QED
      BY <3>2, <3>3
  <2> QED
    BY <1>1, <2>1 DEF CopiedHome
<1>12. Durable' = Durable
  <2>1. lh[tail] \in Logged(hdr)
    BY <1>3, <1>4 DEF Logged
  <2>2. Logged(hdr)' = Logged(hdr)
    BY <1>1 DEF Logged
  <2>3. \A b \in Blocks : DurableBlock(b)' = DurableBlock(b)
    BY <1>1, <1>5, <2>1, <2>2 DEF DurableBlock
  <2> QED
    BY <2>3 DEF Durable
<1>13. Volatile' = Volatile
  BY <1>1, <1>7, <1>12 DEF Volatile
<1>14. Active' = Active
  BY <1>1 DEF Active
<1> QED
  BY <1>8, <1>9, <1>10, <1>11, <1>12, <1>13, <1>14, Stutters DEF DataInv

\* Erasing the header changes nothing: every block is at home by then.
LEMMA EraseLogAtomic ==
  ASSUME LogInv, DataInv, NEW p \in Procs, EraseLog(p)
  PROVE  DataInv' /\ AtomicStep
<1>0. /\ TypeOK /\ HeaderOnDisk /\ CleanBlocks /\ CopiedToLog /\ CopiedHome
  BY DEF LogInv, DataInv
<1>1. /\ UNCHANGED <<home, logData, cache, held, boot>>
      /\ pc[p] = "install" /\ tail > Len(lh) /\ tail' = 1
      /\ lh' = <<>> /\ hdr' = <<>> /\ pc' = [pc EXCEPT ![p] = "done"]
  BY DEF EraseLog, EraseHead, opMem, Goto
<1>2. /\ boot = "up" /\ HeldBlocks = {}
      /\ \A q \in Procs : pc[q] \in CommitPcs => q = p
  BY <1>1, CommitterAlone DEF CommitPcs
<1>3. Installing /\ ~Installing' /\ hdr = lh
  BY <1>0, <1>1, <1>2 DEF Installing, HeaderOnDisk, CommitPcs, TypeOK
<1>4. \A b \in Blocks : Bread(b)' = Bread(b)
  BY <1>1 DEF Bread
<1>5. \A i \in 1..Len(lh) : lh[i] \in Blocks /\ logData[i] = Bread(lh[i])
                            /\ home[lh[i]] = logData[i]
  BY <1>0, <1>1, <1>3 DEF TypeOK, CopiedToLog, CopiedHome
<1>6. \A b \in Blocks : Bread(b) = home[b]
  BY <1>0, <1>2, <1>5 DEF CleanBlocks, Logged
<1>7. HeaderOnDisk'
  BY <1>1, <1>2, <1>3 DEF HeaderOnDisk
<1>8. CleanBlocks'
  BY <1>1, <1>4, <1>6 DEF CleanBlocks
<1>9. CopiedToLog' /\ CopiedHome'
  BY <1>1 DEF CopiedToLog, CopiedHome
<1>10. Durable' = Durable
  <2>1. \A b \in Blocks : DurableBlock(b) = home[b]
    BY <1>3, <1>5, DurableValue DEF RestoredValues, Logged
  <2>2. \A b \in Blocks : DurableBlock(b)' = home[b]
    BY <1>1 DEF DurableBlock, Logged
  <2> QED
    BY <2>1, <2>2 DEF Durable
<1>11. Volatile' = Volatile
  BY <1>1, <1>4, <1>10 DEF Volatile
<1>12. Active' = Active
  BY <1>0, <1>1 DEF Active, TypeOK
<1> QED
  BY <1>7, <1>8, <1>9, <1>10, <1>11, <1>12, Stutters DEF DataInv

\* The end of a commit is invisible.
LEMMA EndCommitAtomic ==
  ASSUME LogInv, DataInv, NEW p \in Procs, EndCommit(p)
  PROVE  DataInv' /\ AtomicStep
<1>1. /\ UNCHANGED <<home, logData, hdr, cache, lh, held, tail, boot>>
      /\ pc[p] = "done"
      /\ pc' = [q \in Procs |-> IF q = p THEN "idle"
                                ELSE IF pc[q] = "sleep" THEN "begin" ELSE pc[q]]
  BY DEF EndCommit, WakeupAnd, disk, opMem
<1>2. \A q \in Procs : /\ pc'[q] = "install" <=> pc[q] = "install"
                       /\ pc'[q] = "write_log" <=> pc[q] = "write_log"
                       /\ pc'[q] = "op" <=> pc[q] = "op"
  BY <1>1
<1>3. DataInv' /\ Durable' = Durable /\ Volatile' = Volatile
  BY <1>1, <1>2, DataFrame
<1>4. Active' = Active
  BY <1>2 DEF Active
<1> QED
  BY <1>3, <1>4, Stutters

\* Recycling a buffer loses nothing: a block whose only copy is in the cache
\* is pinned.
LEMMA EvictAtomic ==
  ASSUME LogInv, DataInv, NEW b \in Blocks, Evict(b)
  PROVE  DataInv' /\ AtomicStep
<1>0. /\ TypeOK /\ LoggedPinned /\ HeaderOnDisk /\ CleanBlocks /\ CopiedToLog /\ CopiedHome
  BY DEF LogInv, DataInv
<1>1. /\ UNCHANGED <<home, logData, hdr, lh, held, tail, boot, pc>>
      /\ pins[b] = 0 /\ b \notin HeldBlocks
      /\ cache' = [cache EXCEPT ![b] = Absent]
  BY DEF Evict, disk, logMem, opMem
<1>2. Active' = Active /\ Installing' = Installing /\ HeldBlocks' = HeldBlocks
  BY <1>1 DEF Active, Installing, HeldBlocks
<1>3. Bread(b) = home[b]
  <2>1. CASE boot # "up" \/ b \notin Logged(lh)
    BY <1>0, <1>1, <2>1 DEF CleanBlocks
  <2>2. CASE boot = "up" /\ b \in Logged(lh)
    <3>1. PICK i \in 1..Len(lh) : lh[i] = b
      BY <2>2 DEF Logged
    <3>2. PICK p \in Procs : pc[p] = "install" /\ ~(i >= tail)
      BY <1>0, <1>1, <2>2, <3>1 DEF LoggedPinned
    <3>3. i < tail
      BY <1>0, <3>2 DEF TypeOK
    <3>4. logData[i] = Bread(lh[i]) /\ home[lh[i]] = logData[i]
      BY <1>0, <3>2, <3>3 DEF CopiedToLog, CopiedHome, Installing
    <3> QED
      BY <3>1, <3>4
  <2> QED
    BY <2>1, <2>2
<1>4. \A c \in Blocks : Bread(c)' = Bread(c)
  BY <1>0, <1>1, <1>3 DEF TypeOK, Bread
<1>5. HeaderOnDisk'
  BY <1>0, <1>1, <1>2 DEF HeaderOnDisk
<1>6. CleanBlocks'
  BY <1>0, <1>1, <1>2, <1>4 DEF CleanBlocks
<1>7. CopiedToLog'
  <2>1. \A i \in 1..Len(lh) : lh[i] \in Blocks
    BY <1>0 DEF TypeOK
  <2> QED
    BY <1>0, <1>1, <1>4, <2>1 DEF CopiedToLog
<1>8. CopiedHome'
  BY <1>0, <1>1, <1>2 DEF CopiedHome
<1>9. Durable' = Durable
  BY <1>1 DEF Durable, DurableBlock, Logged
<1>10. Volatile' = Volatile
  BY <1>1, <1>4, <1>9 DEF Volatile
<1> QED
  BY <1>2, <1>5, <1>6, <1>7, <1>8, <1>9, <1>10, Stutters DEF DataInv

\* read_head at boot changes nothing that a system call could see.
LEMMA ReadHeadAtomic ==
  ASSUME LogInv, DataInv, ReadHead
  PROVE  DataInv' /\ AtomicStep
<1>0. /\ TypeOK /\ BootQuiet /\ CleanBlocks
  BY DEF LogInv, DataInv
<1>1. /\ UNCHANGED <<home, logData, hdr, cache, held, pc>>
      /\ boot = "read_head" /\ boot' = "install" /\ lh' = hdr /\ tail' = 1
  BY DEF ReadHead, disk, opMem
<1>2. ~Installing' /\ \A p \in Procs : pc'[p] = "idle"
  BY <1>0, <1>1 DEF BootQuiet, Installing
<1>3. HeaderOnDisk'
  BY <1>1 DEF HeaderOnDisk
<1>4. CleanBlocks'
  BY <1>0, <1>1 DEF CleanBlocks, Bread
<1>5. CopiedToLog'
  BY <1>2 DEF CopiedToLog
<1>6. CopiedHome'
  BY <1>1 DEF CopiedHome
<1>7. Durable' = Durable
  BY <1>1 DEF Durable, DurableBlock, Logged
<1>8. Volatile' = Volatile
  BY <1>1, <1>7 DEF Volatile
<1>9. Active' = Active
  BY <1>1 DEF Active
<1> QED
  BY <1>3, <1>4, <1>5, <1>6, <1>7, <1>8, <1>9, Stutters DEF DataInv

\* A turn of install_trans during recovery restores a block the header names.
LEMMA RecoverBlockAtomic ==
  ASSUME LogInv, DataInv, RecoverBlock
  PROVE  DataInv' /\ AtomicStep
<1>0. /\ TypeOK /\ BootQuiet /\ HeaderOnDisk /\ CleanBlocks /\ CopiedHome
      /\ Distinct(lh) /\ HeadersDistinct
  BY DEF LogInv, DataInv, HeadersDistinct
<1>1. /\ UNCHANGED <<logData, hdr, lh, held, boot, pc>>
      /\ boot = "install" /\ tail <= Len(lh) /\ tail' = tail + 1
      /\ cache' = [cache EXCEPT ![lh[tail]] = logData[tail]]
      /\ home' = [home EXCEPT ![lh[tail]] = logData[tail]]
  BY DEF RecoverBlock, InstallBlock, logMem, opMem
<1>2. hdr = lh /\ (\A p \in Procs : pc'[p] = "idle") /\ ~Installing'
  BY <1>0, <1>1 DEF BootQuiet, HeaderOnDisk, Installing
<1>3. /\ tail \in 1..Len(lh) /\ tail \in 1..LOGBLOCKS /\ lh[tail] \in Blocks
      /\ logData[tail] \in Vals
  <2>1. Len(lh) \in Nat /\ Len(lh) <= LOGBLOCKS /\ tail \in Nat \ {0}
    BY <1>0, <1>2 DEF TypeOK, HeadersDistinct
  <2>2. tail \in 1..Len(lh) /\ tail \in 1..LOGBLOCKS
    BY <1>1, <2>1, LogAssumption
  <2> QED
    BY <1>0, <2>2 DEF TypeOK
<1>4. /\ \A b \in Blocks : cache'[b] = IF b = lh[tail] THEN logData[tail] ELSE cache[b]
      /\ \A b \in Blocks : home'[b] = IF b = lh[tail] THEN logData[tail] ELSE home[b]
  BY <1>0, <1>1 DEF TypeOK
<1>5. HeaderOnDisk'
  BY <1>0, <1>1, <1>2 DEF HeaderOnDisk
<1>6. CleanBlocks'
  <2>1. \A b \in Blocks : Bread(b) = home[b]
    BY <1>0, <1>1 DEF CleanBlocks
  <2> QED
    BY <1>4, <2>1 DEF CleanBlocks, Bread
<1>7. CopiedToLog'
  BY <1>2 DEF CopiedToLog
<1>8. CopiedHome'
  <2>1. ASSUME NEW i \in 1..Len(lh), i < tail + 1
        PROVE  home'[lh[i]] = logData[i]
    <3>1. lh[i] \in Blocks
      BY <1>0 DEF TypeOK
    <3>2. CASE i = tail
      BY <1>4, <3>1, <3>2
    <3>3. CASE i # tail
      <4>1. i < tail
        BY <1>3, <2>1, <3>3
      <4>2. home[lh[i]] = logData[i] /\ lh[i] # lh[tail]
        BY <1>0, <1>1, <1>3, <3>3, <4>1 DEF CopiedHome, Distinct
      <4> QED
        BY <1>4, <3>1, <4>2
    <3> QED
      BY <3>2, <3>3
  <2> QED
    BY <1>1, <2>1 DEF CopiedHome
<1>9. Durable' = Durable
  <2>1. lh[tail] \in Logged(hdr)
    BY <1>2, <1>3 DEF Logged
  <2>2. Logged(hdr)' = Logged(hdr)
    BY <1>1 DEF Logged
  <2>3. \A b \in Blocks : DurableBlock(b)' = DurableBlock(b)
    BY <1>1, <1>4, <2>1, <2>2 DEF DurableBlock
  <2> QED
    BY <2>3 DEF Durable
<1>10. Volatile' = Volatile
  BY <1>1, <1>9 DEF Volatile
<1>11. Active' = Active
  BY <1>1 DEF Active
<1> QED
  BY <1>5, <1>6, <1>7, <1>8, <1>9, <1>10, <1>11, Stutters DEF DataInv

\* When recovery erases the header, what system calls read is what was
\* durable.
LEMMA RecoverDoneAtomic ==
  ASSUME LogInv, DataInv, RecoverDone
  PROVE  DataInv' /\ AtomicStep
<1>0. /\ TypeOK /\ BootQuiet /\ HeaderOnDisk /\ CleanBlocks /\ CopiedHome
  BY DEF LogInv, DataInv
<1>1. /\ UNCHANGED <<home, logData, cache, held, pc>>
      /\ boot = "install" /\ boot' = "up" /\ tail > Len(lh) /\ tail' = 1
      /\ lh' = <<>> /\ hdr' = <<>>
  BY DEF RecoverDone, EraseHead, opMem
<1>2. hdr = lh /\ ~Installing' /\ \A p \in Procs : pc'[p] = "idle"
  BY <1>0, <1>1 DEF BootQuiet, HeaderOnDisk, Installing
<1>3. HeaderOnDisk'
  BY <1>1, <1>2 DEF HeaderOnDisk
<1>4. \A b \in Blocks : Bread(b)' = home[b] /\ Bread(b) = home[b]
  BY <1>0, <1>1 DEF CleanBlocks, Bread
<1>5. CleanBlocks'
  BY <1>1, <1>4 DEF CleanBlocks
<1>6. CopiedToLog' /\ CopiedHome'
  BY <1>1 DEF CopiedToLog, CopiedHome
<1>7. \A b \in Blocks : DurableBlock(b) = home[b]
  <2>1. \A i \in 1..Len(lh) : lh[i] \in Blocks /\ home[lh[i]] = logData[i]
    BY <1>0, <1>1 DEF TypeOK, CopiedHome
  <2> QED
    BY <1>2, <2>1, DurableValue DEF RestoredValues, Logged
<1>8. \A b \in Blocks : DurableBlock(b)' = home[b]
  BY <1>1 DEF DurableBlock, Logged
<1>9. Durable' = Durable
  BY <1>7, <1>8 DEF Durable
<1>10. Volatile' = Volatile
  BY <1>1, <1>4, <1>7 DEF Volatile, Durable
<1>11. Active' = Active
  BY <1>1 DEF Active
<1> QED
  BY <1>3, <1>5, <1>6, <1>9, <1>10, <1>11, Stutters DEF DataInv

\* A crash loses what was not committed, and nothing else.
LEMMA CrashAtomicStep ==
  ASSUME LogInv, DataInv, Crash
  PROVE  DataInv' /\ AtomicStep
<1>1. /\ UNCHANGED <<home, logData, hdr>>
      /\ cache' = [b \in Blocks |-> Absent] /\ lh' = <<>>
      /\ pc' = [p \in Procs |-> "idle"] /\ boot' = "read_head"
  BY DEF Crash, disk
<1>2. Active' = {} /\ ~Installing'
  BY <1>1 DEF Active, Installing
<1>3. HeaderOnDisk'
  BY <1>1 DEF HeaderOnDisk
<1>4. CleanBlocks'
  BY <1>1 DEF CleanBlocks, Bread
<1>5. CopiedToLog' /\ CopiedHome'
  BY <1>1 DEF CopiedToLog, CopiedHome
<1>6. Durable' = Durable
  BY <1>1 DEF Durable, DurableBlock, Logged
<1>7. Volatile' = Durable
  BY <1>1, <1>6 DEF Volatile
<1>8. Atomic!Crash
  BY <1>2, <1>6, <1>7 DEF Atomic!Crash
<1> QED
  BY <1>3, <1>4, <1>5, <1>8 DEF DataInv, AtomicStep, Atomic!Next

\* The initial disk is a transaction boundary.
LEMMA InitAtomic == Init => DataInv /\ Atomic!Init
<1> SUFFICES ASSUME Init PROVE DataInv /\ Atomic!Init
  OBVIOUS
<1>1. /\ home \in [Blocks -> Vals] /\ hdr = <<>> /\ lh = <<>> /\ boot = "read_head"
      /\ cache = [b \in Blocks |-> Absent] /\ pc = [p \in Procs |-> "idle"]
  BY DEF Init
<1>2. DataInv
  <2>1. HeaderOnDisk /\ CopiedToLog /\ CopiedHome
    BY <1>1 DEF HeaderOnDisk, CopiedToLog, CopiedHome
  <2>2. CleanBlocks
    BY <1>1 DEF CleanBlocks, Bread
  <2> QED
    BY <2>1, <2>2 DEF DataInv
<1>3. Durable = [b \in Blocks |-> home[b]]
  BY <1>1 DEF Durable, DurableBlock, Logged
<1>4. Durable \in [Blocks -> Vals] /\ Volatile = Durable /\ Active = {}
  BY <1>1, <1>3 DEF Volatile, Active
<1> QED
  BY <1>2, <1>4 DEF Atomic!Init

\* Every step of the log keeps DataInv and is a step of the atomic disk, or
\* leaves it alone.
LEMMA NextAtomic ==
  ASSUME LogInv, DataInv, [Next]_vars
  PROVE  DataInv' /\ AtomicStep
<1>1. ASSUME NEW p \in Procs, Call(p) \/ EndOp(p) PROVE DataInv' /\ AtomicStep
  BY <1>1, CallAtomic, EndOpAtomic
<1>2. ASSUME NEW p \in Procs, Step(p) PROVE DataInv' /\ AtomicStep
  BY <1>2, BeginOpAtomic, LogWriteAtomic, CommitAtomic, WriteLogAtomic,
     WriteHeadAtomic, InstallTransAtomic, EraseLogAtomic, EndCommitAtomic DEF Step
<1>3. ASSUME NEW p \in Procs, NEW b \in Blocks, NEW v \in Vals, Modify(p, b, v)
      PROVE  DataInv' /\ AtomicStep
  BY <1>3, ModifyAtomic
<1>4. ASSUME NEW b \in Blocks, Evict(b) PROVE DataInv' /\ AtomicStep
  BY <1>4, EvictAtomic
<1>5. CASE Recovery
  BY <1>5, ReadHeadAtomic, RecoverBlockAtomic, RecoverDoneAtomic DEF Recovery
<1>6. CASE Crash
  BY <1>6, CrashAtomicStep
<1>7. CASE UNCHANGED vars
  <2>1. /\ UNCHANGED <<home, logData, hdr, cache, lh, held, tail, boot>> /\ pc' = pc
    BY <1>7 DEF vars
  <2>2. DataInv' /\ Durable' = Durable /\ Volatile' = Volatile
    BY <2>1, DataFrame
  <2>3. Active' = Active
    BY <2>1 DEF Active
  <2> QED
    BY <2>2, <2>3, Stutters
<1> QED
  BY <1>1, <1>2, <1>3, <1>4, <1>5, <1>6, <1>7 DEF Next

\* In every reachable state the committed contents of a block are where
\* recover_from_log looks for them, and a cached block differs from its home
\* location only inside a transaction.
THEOREM DataInvariant == Spec => []DataInv
<1>1. Init => DataInv
  BY InitAtomic
<1>2. LogInv /\ DataInv /\ [Next]_vars => DataInv'
  BY NextAtomic
<1> QED
  BY <1>1, <1>2, LogInvariant, PTL DEF Spec

\* log.c implements the atomic disk: whatever the number of processes and
\* blocks and the size of the log, a crash at any step (of a commit, of an
\* installation or of a recovery) leaves the disk at a transaction boundary.
THEOREM LogIsAtomic == Spec => CrashAtomic
<1>1. Init => Atomic!Init
  BY InitAtomic
<1>2. LogInv /\ DataInv /\ [Next]_vars => [Atomic!Next]_(Atomic!vars)
  BY NextAtomic DEF AtomicStep
<1> QED
  BY <1>1, <1>2, LogInvariant, DataInvariant, PTL DEF Spec, CrashAtomic, Atomic!Spec
=============================================================================
