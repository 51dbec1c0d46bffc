---------------------------- MODULE ClockProofs ----------------------------
(***************************************************************************)
(* Proofs about Clock, for any number of CPUs and processes: ClockInv is   *)
(* inductive, and from it interrupts and locks are matched, no CPU panics  *)
(* or spins in a circle, no tick is missed and no pause ends early.        *)
(***************************************************************************)
EXTENDS Clock, Integers, FiniteSetTheorems, SequenceTheorems, TLAPS

-----------------------------------------------------------------------------
(* Numbers *)

\* A counter that wraps at R goes one further from where it was read.
LEMMA ModStep ==
  ASSUME NEW R \in Nat \ {0}, NEW t \in 0..R-1, NEW s \in 0..R-1, NEW d \in Nat,
         d + 1 < R, (t - s) % R = d
  PROVE  (((t + 1) % R) - s) % R = d + 1
OBVIOUS

-----------------------------------------------------------------------------
(* Frames *)

FrameSet == [at : Places, i : Nat]

\* The last frame of a stack is changed, and the one below it is not.
LEMMA SeqGoto ==
  ASSUME NEW s \in Seq(FrameSet), Len(s) \in 1..2, NEW f \in FrameSet,
         NEW r, r = <<f>> \o Tail(s)
  PROVE  /\ r \in Seq(FrameSet) /\ Len(r) = Len(s) /\ Head(r) = f
         /\ Len(s) = 2 => r[Len(r)] = s[Len(s)]
         /\ Len(s) # 2 => r[Len(r)] = f
<1>1. s # <<>>
  BY EmptySeq
<1>2. /\ Tail(s) \in Seq(FrameSet) /\ Len(Tail(s)) = Len(s) - 1
      /\ \A k \in 1..Len(Tail(s)) : Tail(s)[k] = s[k + 1]
  BY <1>1, HeadTailProperties
<1>3. <<f>> \in Seq(FrameSet) /\ Len(<<f>>) = 1 /\ <<f>>[1] = f
  OBVIOUS
<1>4. /\ r \in Seq(FrameSet) /\ Len(r) = 1 + (Len(s) - 1)
      /\ \A k \in 1..(1 + (Len(s) - 1)) : r[k] = IF k <= 1 THEN <<f>>[k] ELSE Tail(s)[k - 1]
  BY <1>2, <1>3, ConcatProperties
<1>5. Len(r) = Len(s) /\ r[1] = f
  BY <1>3, <1>4
<1>6. Head(r) = f
  BY <1>4, <1>5
<1>7. Len(s) = 2 => r[2] = s[2]
  BY <1>2, <1>4
<1> QED
  BY <1>4, <1>5, <1>6, <1>7

\* A frame is pushed on a stack of one.
LEMMA SeqPush ==
  ASSUME NEW s \in Seq(FrameSet), Len(s) = 1, NEW f \in FrameSet,
         NEW r, r = <<f>> \o s
  PROVE  r \in Seq(FrameSet) /\ Len(r) = 2 /\ Head(r) = f /\ r[Len(r)] = s[Len(s)]
<1>1. <<f>> \in Seq(FrameSet) /\ Len(<<f>>) = 1 /\ <<f>>[1] = f
  OBVIOUS
<1>2. /\ r \in Seq(FrameSet) /\ Len(r) = 2
      /\ \A k \in 1..2 : r[k] = IF k <= 1 THEN <<f>>[k] ELSE s[k - 1]
  BY <1>1, ConcatProperties
<1>3. r[1] = f /\ r[2] = s[1]
  BY <1>1, <1>2
<1>4. Head(r) = r[1]
  BY <1>2
<1>5. s[Len(s)] = s[1] /\ r[Len(r)] = r[2]
  BY <1>2
<1> QED
  BY <1>2, <1>3, <1>4, <1>5

\* The frame a thread runs in is the first of its stack.
LEMMA SeqHead ==
  ASSUME NEW r \in Seq(FrameSet), Len(r) = 1
  PROVE  Head(r) = r[1]
  OBVIOUS

\* The last frame of a stack of two is dropped.
LEMMA SeqPop ==
  ASSUME NEW s \in Seq(FrameSet), Len(s) = 2, NEW r, r = Tail(s)
  PROVE  /\ r \in Seq(FrameSet) /\ Len(r) = 1
         /\ Head(r) = s[Len(s)] /\ r[Len(r)] = s[Len(s)]
<1>1. s # <<>>
  BY EmptySeq
<1>2. /\ r \in Seq(FrameSet) /\ Len(r) = 1
      /\ \A k \in 1..1 : r[k] = s[k + 1]
  BY <1>1, HeadTailProperties
<1>3. r[1] = s[2]
  BY ONLY <1>2
<1>4. Head(r) = r[1]
  BY ONLY <1>2, SeqHead
<1>5. s[Len(s)] = s[2] /\ r[Len(r)] = r[1]
  BY <1>2
<1> QED
  BY <1>2, <1>3, <1>4, <1>5

\* The stacks, and what is seen of them.
FramesTyped ==
  /\ frame \in [Threads -> Seq(FrameSet)]
  /\ \A t \in Threads : Len(frame[t]) \in 1..2

ViewsTyped ==
  /\ place \in [Threads -> Places] /\ arg \in [Threads -> Nat]
  /\ base \in [Threads -> Places] /\ baseArg \in [Threads -> Nat]
  /\ trapped \subseteq Threads

\* The views have their types.
LEMMA Views == FramesTyped => ViewsTyped
<1> SUFFICES ASSUME FramesTyped PROVE ViewsTyped
  OBVIOUS
<1>1. ASSUME NEW t \in Threads
      PROVE  /\ Head(frame[t]) \in FrameSet
             /\ frame[t][Len(frame[t])] \in FrameSet
  <2>1. frame[t] \in Seq(FrameSet) /\ Len(frame[t]) \in 1..2
    BY DEF FramesTyped
  <2>2. frame[t] # <<>>
    BY <2>1, EmptySeq
  <2> QED
    BY <2>1, <2>2, HeadTailProperties, ElementOfSeq
<1>2. \A t \in Threads : /\ Head(frame[t]).at \in Places /\ Head(frame[t]).i \in Nat
                         /\ frame[t][Len(frame[t])].at \in Places
                         /\ frame[t][Len(frame[t])].i \in Nat
  BY <1>1 DEF FrameSet
<1> QED
  BY <1>2 DEF ViewsTyped, place, arg, base, baseArg, trapped

\* Thread t goes on at l with argument k.
Moves(t, l, k) ==
  /\ FramesTyped' /\ ViewsTyped' /\ trapped' = trapped
  /\ \A u \in Threads :
       /\ place'[u] = IF u = t THEN l ELSE place[u]
       /\ arg'[u] = IF u = t THEN k ELSE arg[u]
       /\ base'[u] = IF u = t /\ t \notin trapped THEN l ELSE base[u]
       /\ baseArg'[u] = IF u = t /\ t \notin trapped THEN k ELSE baseArg[u]

\* A frame at l is pushed on the stack of t.
Pushes(t, l) ==
  /\ FramesTyped' /\ ViewsTyped' /\ trapped' = trapped \cup {t}
  /\ \A u \in Threads :
       /\ place'[u] = IF u = t THEN l ELSE place[u]
       /\ arg'[u] = IF u = t THEN 1 ELSE arg[u]
       /\ base'[u] = base[u] /\ baseArg'[u] = baseArg[u]

\* The handler of t returns.
Pops(t) ==
  /\ FramesTyped' /\ ViewsTyped' /\ trapped' = trapped \ {t}
  /\ \A u \in Threads :
       /\ place'[u] = IF u = t THEN base[t] ELSE place[u]
       /\ arg'[u] = IF u = t THEN baseArg[t] ELSE arg[u]
       /\ base'[u] = base[u] /\ baseArg'[u] = baseArg[u]

\* The stack of t is replaced by one frame at l.
Leaves(t, l) ==
  /\ FramesTyped' /\ ViewsTyped' /\ trapped' = trapped \ {t}
  /\ \A u \in Threads :
       /\ place'[u] = IF u = t THEN l ELSE place[u]
       /\ arg'[u] = IF u = t THEN 1 ELSE arg[u]
       /\ base'[u] = IF u = t THEN l ELSE base[u]
       /\ baseArg'[u] = IF u = t THEN 1 ELSE baseArg[u]

\* No stack changes.
Stays ==
  /\ FramesTyped' /\ ViewsTyped' /\ trapped' = trapped
  /\ place' = place /\ arg' = arg /\ base' = base /\ baseArg' = baseArg

\* The stack of t becomes r.
Becomes(t, r) ==
  /\ FramesTyped' /\ ViewsTyped'
  /\ trapped' = (IF Len(r) = 2 THEN trapped \cup {t} ELSE trapped \ {t})
  /\ \A u \in Threads :
       /\ place'[u] = IF u = t THEN Head(r).at ELSE place[u]
       /\ arg'[u] = IF u = t THEN Head(r).i ELSE arg[u]
       /\ base'[u] = IF u = t THEN r[Len(r)].at ELSE base[u]
       /\ baseArg'[u] = IF u = t THEN r[Len(r)].i ELSE baseArg[u]

\* What a new stack means for the views.
LEMMA StackChanges ==
  ASSUME FramesTyped, NEW t \in Threads, NEW r \in Seq(FrameSet), Len(r) \in 1..2,
         frame' = [frame EXCEPT ![t] = r]
  PROVE  Becomes(t, r)
<1>1. \A u \in Threads : frame'[u] = IF u = t THEN r ELSE frame[u]
  BY DEF FramesTyped
<1>2. FramesTyped'
  BY <1>1 DEF FramesTyped
<1>3. ViewsTyped'
  BY <1>2, Views, PTL
<1>4. trapped' = (IF Len(r) = 2 THEN trapped \cup {t} ELSE trapped \ {t})
  BY <1>1 DEF trapped
<1>5. ASSUME NEW u \in Threads
      PROVE  /\ place'[u] = Head(frame'[u]).at /\ place[u] = Head(frame[u]).at
             /\ arg'[u] = Head(frame'[u]).i /\ arg[u] = Head(frame[u]).i
             /\ base'[u] = frame'[u][Len(frame'[u])].at /\ base[u] = frame[u][Len(frame[u])].at
             /\ baseArg'[u] = frame'[u][Len(frame'[u])].i /\ baseArg[u] = frame[u][Len(frame[u])].i
  BY DEF place, arg, base, baseArg
<1>6. frame'[t] = r
  BY <1>1
<1>7. ASSUME NEW u \in Threads, u # t
      PROVE  place'[u] = place[u] /\ arg'[u] = arg[u] /\ base'[u] = base[u] /\ baseArg'[u] = baseArg[u]
  <2>1. frame'[u] = frame[u]
    BY <1>1, <1>7
  <2> QED
    BY <1>5, <2>1
<1>8. /\ place'[t] = Head(r).at /\ arg'[t] = Head(r).i
      /\ base'[t] = r[Len(r)].at /\ baseArg'[t] = r[Len(r)].i
  BY <1>5, <1>6
<1> QED
  BY <1>2, <1>3, <1>4, <1>7, <1>8 DEF Becomes

\* What a jump of the code does to the views.
LEMMA GotoMoves ==
  ASSUME FramesTyped, NEW t \in Threads, NEW l \in Places, NEW k \in Nat,
         frame' = [frame EXCEPT ![t] = <<Frame(l, k)>> \o Tail(@)]
  PROVE  Moves(t, l, k)
<1>1. Frame(l, k) \in FrameSet /\ Frame(l, k).at = l /\ Frame(l, k).i = k
  BY DEF Frame, FrameSet
<1>2. PICK f \in FrameSet : f = Frame(l, k) /\ f.at = l /\ f.i = k
  BY <1>1
<1>3. frame[t] \in Seq(FrameSet) /\ Len(frame[t]) \in 1..2
  BY DEF FramesTyped
<1>4. PICK r : r = <<f>> \o Tail(frame[t])
  OBVIOUS
<1>5. /\ r \in Seq(FrameSet) /\ Len(r) = Len(frame[t]) /\ Head(r) = f
      /\ Len(frame[t]) = 2 => r[Len(r)] = frame[t][Len(frame[t])]
      /\ Len(frame[t]) # 2 => r[Len(r)] = f
  BY <1>3, <1>4, SeqGoto
<1>6. frame' = [frame EXCEPT ![t] = r]
  BY <1>2, <1>4
<1>7. Becomes(t, r)
  BY <1>3, <1>5, <1>6, StackChanges
<1>8. /\ t \in trapped <=> Len(frame[t]) = 2
      /\ base[t] = frame[t][Len(frame[t])].at /\ baseArg[t] = frame[t][Len(frame[t])].i
  BY DEF trapped, base, baseArg
<1>9. trapped' = trapped
  BY <1>5, <1>7, <1>8 DEF Becomes
<1>10. CASE t \in trapped
  <2>1. r[Len(r)].at = base[t] /\ r[Len(r)].i = baseArg[t]
    BY <1>5, <1>8, <1>10
  <2> QED
    BY <1>2, <1>5, <1>7, <1>9, <1>10, <2>1 DEF Moves, Becomes
<1>11. CASE t \notin trapped
  <2>1. r[Len(r)].at = l /\ r[Len(r)].i = k
    BY <1>2, <1>5, <1>8, <1>11
  <2> QED
    BY <1>2, <1>5, <1>7, <1>9, <1>11, <2>1 DEF Moves, Becomes
<1> QED
  BY <1>10, <1>11

\* What an interrupt does to them.
LEMMA InterruptPushes ==
  ASSUME FramesTyped, NEW t \in Threads, t \notin trapped,
         frame' = [frame EXCEPT ![t] = <<Frame("trap", 1)>> \o @]
  PROVE  Pushes(t, "trap")
<1>1. Frame("trap", 1) \in FrameSet /\ Frame("trap", 1).at = "trap" /\ Frame("trap", 1).i = 1
  BY DEF Frame, FrameSet, Places, ProcPlaces, TrapPlaces
<1>2. PICK f \in FrameSet : f = Frame("trap", 1) /\ f.at = "trap" /\ f.i = 1
  BY <1>1
<1>3. frame[t] \in Seq(FrameSet) /\ Len(frame[t]) \in 1..2
  BY DEF FramesTyped
<1>4. /\ t \in trapped <=> Len(frame[t]) = 2
      /\ base[t] = frame[t][Len(frame[t])].at /\ baseArg[t] = frame[t][Len(frame[t])].i
  BY DEF trapped, base, baseArg
<1>5. PICK r : r = <<f>> \o frame[t]
  OBVIOUS
<1>6. r \in Seq(FrameSet) /\ Len(r) = 2 /\ Head(r) = f /\ r[Len(r)] = frame[t][Len(frame[t])]
  BY <1>3, <1>4, <1>5, SeqPush
<1>7. frame' = [frame EXCEPT ![t] = r]
  BY <1>2, <1>5
<1>8. Becomes(t, r)
  BY <1>6, <1>7, Len(r) \in 1..2, StackChanges
<1> QED
  BY <1>2, <1>4, <1>6, <1>8 DEF Pushes, Becomes

\* What the return from a handler does to them.
LEMMA ReturnPops ==
  ASSUME FramesTyped, NEW t \in Threads, t \in trapped,
         frame' = [frame EXCEPT ![t] = Tail(@)]
  PROVE  Pops(t)
<1>3. frame[t] \in Seq(FrameSet) /\ Len(frame[t]) \in 1..2
  BY DEF FramesTyped
<1>4. /\ t \in trapped <=> Len(frame[t]) = 2
      /\ base[t] = frame[t][Len(frame[t])].at /\ baseArg[t] = frame[t][Len(frame[t])].i
  BY DEF trapped, base, baseArg
<1>5. PICK r : r = Tail(frame[t])
  OBVIOUS
<1>6. /\ r \in Seq(FrameSet) /\ Len(r) = 1
      /\ Head(r) = frame[t][Len(frame[t])] /\ r[Len(r)] = frame[t][Len(frame[t])]
  BY <1>3, <1>4, <1>5, SeqPop
<1>7. frame' = [frame EXCEPT ![t] = r]
  BY <1>5
<1>9. Len(r) \in 1..2
  BY <1>6
<1>8. Becomes(t, r)
  BY <1>6, <1>7, <1>9, StackChanges
<1> QED
  BY <1>4, <1>6, <1>8 DEF Pops, Becomes

\* What an exit from a handler does to them.
LEMMA ExitLeaves ==
  ASSUME FramesTyped, NEW t \in Threads,
         frame' = [frame EXCEPT ![t] = <<Frame("exit", 1)>>]
  PROVE  Leaves(t, "exit")
<1>1. Frame("exit", 1) \in FrameSet /\ Frame("exit", 1).at = "exit" /\ Frame("exit", 1).i = 1
  BY DEF Frame, FrameSet, Places, ProcPlaces, TrapPlaces
<1>2. PICK f \in FrameSet : f = Frame("exit", 1) /\ f.at = "exit" /\ f.i = 1
  BY <1>1
<1>3. frame[t] \in Seq(FrameSet) /\ Len(frame[t]) \in 1..2
  BY DEF FramesTyped
<1>4. /\ t \in trapped <=> Len(frame[t]) = 2
      /\ base[t] = frame[t][Len(frame[t])].at /\ baseArg[t] = frame[t][Len(frame[t])].i
  BY DEF trapped, base, baseArg
<1>5. PICK r : r = <<f>>
  OBVIOUS
<1>6. r \in Seq(FrameSet) /\ Len(r) = 1 /\ Head(r) = f /\ r[Len(r)] = f
  BY <1>3, <1>4, <1>5
<1>7. frame' = [frame EXCEPT ![t] = r]
  BY <1>2, <1>5
<1>8. Becomes(t, r)
  BY <1>6, <1>7, Len(r) \in 1..2, StackChanges
<1> QED
  BY <1>2, <1>4, <1>6, <1>8 DEF Leaves, Becomes

\* A step that leaves the stacks alone.
LEMMA FramesStay ==
  ASSUME FramesTyped, frame' = frame
  PROVE  Stays
<1>1. FramesTyped'
  BY DEF FramesTyped
<1>2. ViewsTyped'
  BY <1>1, Views, PTL
<1> QED
  BY <1>1, <1>2 DEF Stays, place, arg, base, baseArg, trapped

-----------------------------------------------------------------------------
(* CPUs, threads and locks *)

\* Every CPU has a scheduler thread of its own, and tickslock is no process.
LEMMA ThreadFacts ==
  /\ \A c \in Cpus : Sched(c) \in Threads /\ Sched(c) \notin Procs
  /\ \A c, d \in Cpus : Sched(c) = Sched(d) => c = d
  /\ \A t \in Threads : t \in Procs \/ \E c \in Cpus : t = Sched(c)
  /\ Procs \subseteq Threads /\ tickslock \in Locks /\ Procs \subseteq Locks
  /\ tickslock \notin Procs /\ \A l \in Locks : l = tickslock \/ l \in Procs
  /\ NoCpu \notin Cpus /\ 0 \in Cpus /\ 1 \in Procs
<1>1. NProc \in Nat /\ NCpu \in Nat /\ NProc >= 1 /\ NCpu >= 1
  BY ClockAssumption
<1>2. Cpus \subseteq Nat /\ Procs \subseteq Nat
  BY <1>1 DEF Cpus, Procs
<1>3. \A c \in Cpus : Sched(c) \in Threads /\ Sched(c) \notin Procs
  BY <1>1, <1>2 DEF Sched, Threads, Procs
<1>4. \A c, d \in Cpus : Sched(c) = Sched(d) => c = d
  BY <1>1, <1>2 DEF Sched
<1>5. \A t \in Threads : t \in Procs \/ \E c \in Cpus : t = Sched(c)
  BY DEF Threads
<1>6. Procs \subseteq Threads /\ tickslock \in Locks /\ Procs \subseteq Locks
  BY DEF Threads, Locks
<1>7. tickslock \notin Procs /\ \A l \in Locks : l = tickslock \/ l \in Procs
  BY <1>1 DEF Locks, Procs, tickslock
<1>8. NoCpu \notin Cpus /\ 0 \in Cpus /\ 1 \in Procs
  BY <1>1 DEF NoCpu, Cpus, Procs
<1> QED
  BY <1>3, <1>4, <1>5, <1>6, <1>7, <1>8

\* The labels are the places.
LEMMA PlaceFacts ==
  /\ SchedPlaces \subseteq Places /\ ProcPlaces \subseteq Places /\ TrapPlaces \subseteq Places
  /\ SchedPlaces \cap ProcPlaces = {} /\ SchedPlaces \cap TrapPlaces = {}
  /\ ProcPlaces \cap TrapPlaces = {}
  /\ \A a \in Places : a \in SchedPlaces \/ a \in ProcPlaces \/ a \in TrapPlaces
BY DEF Places, SchedPlaces, ProcPlaces, TrapPlaces

\* What the invariant says of the thread a CPU runs.
RunsHere(c) ==
  /\ cur[c] \in Threads
  /\ Top(c).at = place[cur[c]] /\ Top(c).i = arg[cur[c]]
  /\ place[cur[c]] \in Places /\ arg[cur[c]] \in Nat
  /\ place[cur[c]] \in SchedPlaces => cur[c] = Sched(c)
  /\ place[cur[c]] \in ProcPlaces => cur[c] \in Procs
  /\ cur[c] \in trapped <=> place[cur[c]] \in TrapPlaces
  /\ cur[c] \notin trapped => base[cur[c]] = place[cur[c]] /\ baseArg[cur[c]] = arg[cur[c]]
  /\ cur[c] \in Procs \/ cur[c] = Sched(c)
  /\ cur[c] \in Procs => state[cur[c]] = "RUNNING"
  /\ \A d \in Cpus : d # c => cur[d] # cur[c]

\* The invariant types the stacks.
LEMMA ClockTyped == ClockInv => FramesTyped /\ ViewsTyped
<1>1. ClockInv => FramesTyped
  BY DEF ClockInv, TypeOK, FramesTyped, FrameSet
<1> QED
  BY <1>1, Views

\* It holds on every CPU.
LEMMA Here ==
  ASSUME ClockInv, NEW c \in Cpus
  PROVE  RunsHere(c)
<1>1. FramesTyped /\ ViewsTyped
  BY ClockTyped
<1>2. cur[c] \in Threads
  BY DEF ClockInv, TypeOK
<1>3. place[cur[c]] \in Places /\ arg[cur[c]] \in Nat
  BY <1>1, <1>2 DEF ViewsTyped
<1>4. Top(c).at = place[cur[c]] /\ Top(c).i = arg[cur[c]]
  BY <1>2 DEF Top, place, arg
<1>5. cur[c] \in Procs \/ cur[c] = Sched(c)
  BY DEF ClockInv, OnCpu
<1>6. Sched(c) \notin Procs
  BY ThreadFacts
<1>7. cur[c] \in trapped <=> place[cur[c]] \in TrapPlaces
  BY <1>2, <1>3, PlaceFacts DEF ClockInv, PlacesOK
<1>8. /\ place[cur[c]] \in SchedPlaces => cur[c] = Sched(c)
      /\ place[cur[c]] \in ProcPlaces => cur[c] \in Procs
  BY <1>2, <1>3, <1>5, <1>6, <1>7, PlaceFacts DEF ClockInv, PlacesOK
<1>9. \A d \in Cpus : d # c => cur[d] # cur[c]
  BY DEF ClockInv, OnCpu
<1>10. cur[c] \notin trapped => base[cur[c]] = place[cur[c]] /\ baseArg[cur[c]] = arg[cur[c]]
  BY <1>2 DEF ClockInv, PlacesOK
<1>11. cur[c] \in Procs => state[cur[c]] = "RUNNING"
  BY <1>6 DEF ClockInv, OnCpu
<1> QED
  BY <1>2, <1>3, <1>4, <1>5, <1>7, <1>8, <1>9, <1>10, <1>11 DEF RunsHere

\* What a jump of a CPU does.
LEMMA GotoHere ==
  ASSUME ClockInv, NEW c \in Cpus, NEW l \in Places
  PROVE  /\ \A k \in Nat : GotoI(c, l, k) => Moves(cur[c], l, k)
         /\ Goto(c, l) => Moves(cur[c], l, arg[cur[c]])
<1>1. FramesTyped /\ RunsHere(c)
  BY ClockTyped, Here
<1>2. ASSUME NEW k \in Nat, GotoI(c, l, k) PROVE Moves(cur[c], l, k)
  BY <1>1, <1>2, GotoMoves DEF GotoI, RunsHere
<1>3. Goto(c, l) => GotoI(c, l, arg[cur[c]])
  BY <1>1 DEF Goto, RunsHere
<1> QED
  BY <1>1, <1>2, <1>3 DEF RunsHere

\* A step of CPU c that leaves the other CPUs alone.
OthersKept(c) ==
  \A d \in Cpus : d # c =>
    /\ cur'[d] = cur[d] /\ place'[cur[d]] = place[cur[d]] /\ arg'[cur[d]] = arg[cur[d]]
    /\ noff'[d] = noff[d] /\ intr'[d] = intr[d] /\ intena'[d] = intena[d]
    /\ \A l \in Locks : lock'[l] = d <=> lock[l] = d

\* The places at which a CPU holds a lock.
LockPlaces == {"test", "sleeplock", "sleep", "wake", "forkret", "woken", "yielded", "look", "back"}

\* A step of CPU c that writes one lock, free or its own before and after, and moves its thread.
LEMMA LockMoved ==
  ASSUME ClockInv, NEW c \in Cpus, RunsHere(c), NEW l, NEW k, Moves(cur[c], l, k),
         \A d \in Cpus : d # c => /\ cur'[d] = cur[d] /\ noff'[d] = noff[d]
                                /\ intr'[d] = intr[d] /\ intena'[d] = intena[d],
         NEW q \in Locks, NEW v \in {c, NoCpu}, lock[q] \in {c, NoCpu},
         lock' = [lock EXCEPT ![q] = v]
  PROVE  OthersKept(c)
<1> SUFFICES ASSUME NEW d \in Cpus, d # c
             PROVE  /\ place'[cur[d]] = place[cur[d]] /\ arg'[cur[d]] = arg[cur[d]]
                    /\ \A r \in Locks : lock'[r] = d <=> lock[r] = d
  BY DEF OthersKept
<1>1. cur[d] \in Threads /\ cur[d] # cur[c]
  BY DEF ClockInv, TypeOK, RunsHere
<1>2. d # NoCpu
  BY ThreadFacts
<1>3. \A r \in Locks : lock'[r] = IF r = q THEN v ELSE lock[r]
  BY DEF ClockInv, TypeOK
<1>4. \A r \in Locks : lock'[r] = d <=> lock[r] = d
  BY <1>2, <1>3
<1> QED
  BY <1>1, <1>4 DEF Moves

\* A step of CPU c that releases the one lock it holds.
LEMMA Released ==
  ASSUME ClockInv, NEW c \in Cpus, RunsHere(c), HoldsRight(c),
         NEW l, NEW k, Moves(cur[c], l, k), l \notin LockPlaces, cur' = cur, intena' = intena,
         NEW b, intr' = [intr EXCEPT ![c] = b], NEW m, noff' = [noff EXCEPT ![c] = m],
         NEW q \in Locks, lock[q] = c, \A r \in Locks : lock[r] = c => r = q,
         lock' = [lock EXCEPT ![q] = NoCpu]
  PROVE  OthersKept(c) /\ HoldsRight(c)'
<1>1. \A d \in Cpus : d # c => /\ cur'[d] = cur[d] /\ noff'[d] = noff[d]
                             /\ intr'[d] = intr[d] /\ intena'[d] = intena[d]
  BY DEF ClockInv, TypeOK
<1>2. OthersKept(c)
  BY <1>1, LockMoved
<1>3. \A r \in Locks : lock'[r] # c
  BY ThreadFacts DEF ClockInv, TypeOK
<1>4. cur'[c] = cur[c] /\ place'[cur[c]] = l
  BY DEF Moves, RunsHere
<1>5. tickslock \in Locks /\ Procs \subseteq Locks
  BY ThreadFacts
<1>6. HoldsRight(c)'
  BY <1>3, <1>4, <1>5 DEF HoldsRight, LockPlaces
<1> QED
  BY <1>2, <1>6

\* Only c's own share of the invariant is to be looked at.
LEMMA OthersRight ==
  ASSUME ClockInv, NEW c \in Cpus, OthersKept(c), HoldsRight(c)', CountsRight(c)'
  PROVE  LocksHeld' /\ IntrState'
<1>1. ASSUME NEW d \in Cpus, d # c PROVE HoldsRight(d)' /\ CountsRight(d)'
  <2>1. HoldsRight(d) /\ CountsRight(d)
    BY DEF ClockInv, LocksHeld, IntrState
  <2>2. /\ cur'[d] = cur[d] /\ place'[cur[d]] = place[cur[d]] /\ arg'[cur[d]] = arg[cur[d]]
        /\ noff'[d] = noff[d] /\ intr'[d] = intr[d] /\ intena'[d] = intena[d]
        /\ \A l \in Locks : lock'[l] = d <=> lock[l] = d
    BY <1>1 DEF OthersKept
  <2>3. HoldsRight(d)'
    BY <2>1, <2>2, ThreadFacts DEF HoldsRight
  <2>4. CountsRight(d)'
    BY <2>1, <2>2 DEF CountsRight, Pending
  <2> QED
    BY <2>3, <2>4
<1> QED
  BY <1>1 DEF LocksHeld, IntrState

\* A step of CPU c in the thread that it runs.
ViewsLocal(c) ==
  /\ ViewsTyped'
  /\ \A u \in Threads : u # cur[c] =>
       /\ place'[u] = place[u] /\ arg'[u] = arg[u] /\ base'[u] = base[u]
       /\ u \in trapped' <=> u \in trapped

\* It switches to no other thread and changes the state of no process.
Local(c) == ViewsLocal(c) /\ cur' = cur /\ state' = state /\ saved' = saved

\* A local step moves no thread from a CPU to another.
LEMMA LocalCpu ==
  ASSUME ClockInv, NEW c \in Cpus, Local(c), place'[cur[c]] # "zombie"
  PROVE  OnCpu' /\ OffCpu'
<1>1. RunsHere(c)
  BY Here
<1>2. ASSUME NEW d \in Cpus, cur[d] # Sched(d) PROVE Sched(d) # cur[c]
  BY <1>1, <1>2, ThreadFacts DEF RunsHere
<1>3. /\ \A d \in Cpus : cur'[d] # Sched(d) =>
           /\ cur'[d] \in Procs /\ state'[cur'[d]] = "RUNNING"
           /\ Sched(d) \notin trapped' /\ place'[Sched(d)] = "back" /\ arg'[Sched(d)] = cur'[d]
  BY <1>2, ThreadFacts DEF ClockInv, OnCpu, Local, ViewsLocal
<1>4. OnCpu'
  BY <1>3 DEF ClockInv, OnCpu, Local, ViewsLocal
<1>5. ASSUME NEW p \in Procs, p # cur[c] PROVE place'[p] = place[p]
  BY <1>5, ThreadFacts DEF Local, ViewsLocal
<1>6. cur[c] \in Procs => state[cur[c]] = "RUNNING" /\ place[cur[c]] # "zombie"
  BY ThreadFacts DEF ClockInv, OnCpu, OffCpu
<1>7. OffCpu'
  BY <1>5, <1>6 DEF ClockInv, OffCpu, Local, ViewsLocal
<1> QED
  BY <1>4, <1>7

\* A local step of a thread that is past main() and fsinit(), or stays before
\* them.
LEMMA LocalBoot ==
  ASSUME ClockInv, NEW c \in Cpus, Local(c), started' = started, first' = first,
         base'[cur[c]] = "main" <=> base[cur[c]] = "main",
         \/ base'[cur[c]] = base[cur[c]]
         \/ base[cur[c]] \notin {"forkret", "fsinit"}
         \/ first => base'[cur[c]] \in {"forkret", "fsinit"}
  PROVE  BootOrder'
<1>1. cur[c] \in Threads
  BY Here DEF RunsHere
<1>2. \A d \in Cpus : base'[Sched(d)] = "main" <=> base[Sched(d)] = "main"
  BY ThreadFacts DEF Local, ViewsLocal
<1>3. \A p \in Procs : p # cur[c] => base'[p] = base[p]
  BY ThreadFacts DEF Local, ViewsLocal
<1>4. first /\ cur[c] \in Procs => base'[cur[c]] \in {"forkret", "fsinit"}
  BY DEF ClockInv, BootOrder
<1>5. started' <=> base'[Sched(0)] # "main"
  BY <1>2, ThreadFacts DEF ClockInv, BootOrder
<1>6. ~started' => /\ \A d \in Cpus : base'[Sched(d)] = "main"
                   /\ \A p \in Procs : state'[p] = "UNUSED"
  BY <1>2 DEF ClockInv, BootOrder, Local, ViewsLocal
<1>7. first' => \A p \in Procs : /\ base'[p] \in {"forkret", "fsinit"}
                                 /\ p # 1 => state'[p] = "UNUSED"
  BY <1>3, <1>4 DEF ClockInv, BootOrder, Local, ViewsLocal
<1> QED
  BY <1>5, <1>6, <1>7 DEF BootOrder

\* A step that moves no process into or out of sys_pause().
LEMMA LocalTime ==
  ASSUME ClockInv, NEW c \in Cpus, ticks' = ticks, ticks0' = ticks0, n' = n, lapsed' = lapsed,
         \A p \in Procs : p # cur[c] => base'[p] = base[p],
         cur[c] \in Procs =>
           \/ base'[cur[c]] = base[cur[c]]
           \/ base[cur[c]] \notin TimedPlaces \cup {"pause", "pauselock"}
              /\ base'[cur[c]] \notin TimedPlaces \cup {"pause", "pauselock"}
           \/ base[cur[c]] = "pause" /\ base'[cur[c]] = "pauselock"
           \/ /\ base[cur[c]] \in TimedPlaces /\ base'[cur[c]] \in TimedPlaces
              /\ base'[cur[c]] \in {"sleeplock", "sleep"} => Waits(cur[c])
  PROVE  TimeCounted'
<1>1. ASSUME NEW p \in Procs
      PROVE  /\ base'[p] \notin TimedPlaces \cup {"pause", "pauselock"} => n[p] = 0
             /\ base'[p] \in TimedPlaces /\ lapsed[p] < n[p] =>
                  (ticks - ticks0[p]) % UINT = lapsed[p]
             /\ base'[p] \in {"sleeplock", "sleep"} => Waits(p)
  <2>1. CASE base'[p] = base[p]
    BY <2>1 DEF ClockInv, TimeCounted, TimeRight
  <2>2. CASE base'[p] # base[p]
    BY <2>2 DEF ClockInv, TimeCounted, TimeRight, TimedPlaces
  <2> QED
    BY <2>1, <2>2
<1> QED
  BY <1>1 DEF ClockInv, TimeCounted, TimeRight, Waits

\* A step that is neither a tick nor one of wakeup().
LEMMA LocalSleepers ==
  ASSUME ClockInv, NEW c \in Cpus, OthersKept(c), place[cur[c]] # "wake",
         ticks' = ticks,
         \A p \in Procs : state'[p] = "SLEEPING" =>
            \/ state[p] = "SLEEPING" /\ n'[p] = n[p] /\ ticks0'[p] = ticks0[p]
            \/ Waits(p)'
  PROVE  SleepersTimed'
<1>1. ASSUME NEW p \in Procs, state'[p] = "SLEEPING", ~Waits(p)'
      PROVE  \E d \in Cpus : place'[cur'[d]] = "wake" /\ arg'[cur'[d]] <= p
  <2>1. state[p] = "SLEEPING" /\ ~Waits(p)
    BY <1>1 DEF Waits
  <2>2. PICK d \in Cpus : place[cur[d]] = "wake" /\ arg[cur[d]] <= p
    BY <2>1 DEF ClockInv, SleepersTimed
  <2>3. d # c
    BY <2>2
  <2> QED
    BY <2>2, <2>3 DEF OthersKept
<1> QED
  BY <1>1 DEF SleepersTimed

\* A CPU switches from a process to its scheduler.
LEMMA SwitchCpu ==
  ASSUME ClockInv, NEW c \in Cpus, NEW p \in Procs, p = cur[c], NEW s,
         ViewsLocal(c), cur' = [cur EXCEPT ![c] = Sched(c)],
         state' = [state EXCEPT ![p] = s], saved' = [saved EXCEPT ![p] = intena[c]],
         \/ s = "SLEEPING" /\ place'[p] = "woken" /\ intena[c]
         \/ s = "ZOMBIE" /\ place'[p] = "zombie"
         \/ s = "RUNNABLE" /\ place'[p] = "yielded" /\ ~intena[c]
  PROVE  OnCpu' /\ OffCpu'
<1>1. RunsHere(c)
  BY Here
<1>2. /\ cur'[c] = Sched(c) /\ \A d \in Cpus : d # c => cur'[d] = cur[d]
      /\ state'[p] = s /\ \A q \in Procs : q # p => state'[q] = state[q]
      /\ saved'[p] = intena[c] /\ \A q \in Procs : q # p => saved'[q] = saved[q]
  BY DEF ClockInv, TypeOK
<1>3. ASSUME NEW d \in Cpus, d # c, cur[d] # Sched(d)
      PROVE  /\ cur[d] \in Procs /\ state'[cur[d]] = "RUNNING"
             /\ Sched(d) \notin trapped' /\ place'[Sched(d)] = "back" /\ arg'[Sched(d)] = cur[d]
  <2>1. cur[d] # p /\ Sched(d) # p /\ Sched(d) \in Threads
    BY <1>1, <1>3, ThreadFacts DEF RunsHere
  <2> QED
    BY <1>2, <1>3, <2>1 DEF ClockInv, OnCpu, ViewsLocal
<1>4. \A d \in Cpus : d # c => cur[d] # Sched(c)
  BY <1>1, ThreadFacts DEF ClockInv, OnCpu
<1>5. \A d, e \in Cpus : cur'[d] = cur'[e] => d = e
  BY <1>2, <1>4 DEF ClockInv, OnCpu
<1>6. ASSUME NEW q \in Procs, state'[q] = "RUNNING" PROVE \E d \in Cpus : cur'[d] = q
  <2>1. q # p
    BY <1>2, <1>6
  <2>2. PICK d \in Cpus : cur[d] = q
    BY <1>2, <1>6, <2>1 DEF ClockInv, OnCpu
  <2> QED
    BY <1>2, <2>1, <2>2
<1>7. OnCpu'
  BY <1>2, <1>3, <1>5, <1>6 DEF OnCpu
<1>8. ASSUME NEW q \in Procs, q # p
      PROVE  place'[q] = place[q] /\ state'[q] = state[q] /\ saved'[q] = saved[q]
  BY <1>2, <1>8, ThreadFacts DEF ViewsLocal
<1>9. OffCpu'
  BY <1>2, <1>8 DEF ClockInv, OffCpu
<1> QED
  BY <1>7, <1>9

\* A process becomes RUNNABLE.
LEMMA ReadyCpu ==
  ASSUME ClockInv, NEW c \in Cpus, ViewsLocal(c), place'[cur[c]] # "zombie",
         NEW q \in Procs, state[q] \in {"UNUSED", "SLEEPING"},
         state' = [state EXCEPT ![q] = "RUNNABLE"], cur' = cur, saved' = saved
  PROVE  OnCpu' /\ OffCpu'
<1>1. RunsHere(c)
  BY Here
<1>2. /\ state'[q] = "RUNNABLE" /\ \A p \in Procs : p # q => state'[p] = state[p]
  BY DEF ClockInv, TypeOK
<1>3. ASSUME NEW d \in Cpus, cur[d] # Sched(d)
      PROVE  /\ cur[d] \in Procs /\ state'[cur[d]] = "RUNNING"
             /\ Sched(d) \notin trapped' /\ place'[Sched(d)] = "back" /\ arg'[Sched(d)] = cur[d]
  <2>1. Sched(d) # cur[c] /\ Sched(d) \in Threads
    BY <1>1, <1>3, ThreadFacts DEF RunsHere
  <2> QED
    BY <1>2, <1>3, <2>1 DEF ClockInv, OnCpu, ViewsLocal
<1>4. OnCpu'
  BY <1>2, <1>3 DEF ClockInv, OnCpu
<1>5. q # cur[c]
  BY <1>1 DEF RunsHere
<1>6. ASSUME NEW p \in Procs, p # cur[c] PROVE place'[p] = place[p]
  BY <1>6, ThreadFacts DEF ViewsLocal
<1>7. cur[c] \in Procs => state'[cur[c]] = "RUNNING"
  BY <1>1, <1>2 DEF RunsHere
<1>8. OffCpu'
  BY <1>2, <1>5, <1>6, <1>7 DEF ClockInv, OffCpu
<1> QED
  BY <1>4, <1>8

\* A step after main() in which one process at most changes its state.
LEMMA StateBoot ==
  ASSUME ClockInv, NEW q \in Procs, NEW s, state' = [state EXCEPT ![q] = s],
         started' = started, first' = first, started, first => q = 1,
         \A u \in Threads : base'[u] = base[u]
            \/ /\ base[u] \notin {"main", "forkret", "fsinit"} /\ base'[u] # "main"
  PROVE  BootOrder'
<1>1. \A p \in Procs : p # q => state'[p] = state[p]
  BY DEF ClockInv, TypeOK
<1>2. base'[Sched(0)] = "main" <=> base[Sched(0)] = "main"
  BY ThreadFacts
<1>3. ASSUME first, NEW p \in Procs
      PROVE  base'[p] \in {"forkret", "fsinit"} /\ (p # 1 => state'[p] = "UNUSED")
  BY <1>1, <1>3, ThreadFacts DEF ClockInv, BootOrder
<1> QED
  BY <1>2, <1>3 DEF ClockInv, BootOrder

\* A step that changes the pause of the process on c only.
LEMMA OthersTime ==
  ASSUME ClockInv, NEW c \in Cpus, NEW q \in Procs, q = cur[c], ticks' = ticks,
         \A p \in Procs : p # q =>
           base'[p] = base[p] /\ ticks0'[p] = ticks0[p] /\ n'[p] = n[p] /\ lapsed'[p] = lapsed[p],
         TimeRight(q)'
  PROVE  TimeCounted'
<1>1. ASSUME NEW p \in Procs, p # q PROVE TimeRight(p)'
  <2>1. TimeRight(p)
    BY DEF ClockInv, TimeCounted
  <2> QED
    BY <1>1, <2>1 DEF TimeRight, Waits
<1> QED
  BY <1>1 DEF TimeCounted

-----------------------------------------------------------------------------
(* Each action keeps the invariant *)

\* push_off() of acquire() in scheduler().
LEMMA OffScanKeeps ==
  ASSUME ClockInv, NEW c \in Cpus, Off(c, "scan", "scanlock")
  PROVE  ClockInv'
<1>1. RunsHere(c) /\ ViewsTyped
  BY Here, ClockTyped
<1>2. place[cur[c]] = "scan" /\ cur[c] = Sched(c) /\ cur[c] \notin trapped
  BY <1>1 DEF Off, At, RunsHere, SchedPlaces, TrapPlaces
<1>3. Moves(cur[c], "scanlock", arg[cur[c]])
  BY GotoHere, "scanlock" \in Places, <1>1, <1>2 DEF Off, Places, SchedPlaces, RunsHere
<1>4. /\ intr' = [intr EXCEPT ![c] = FALSE] /\ noff' = [noff EXCEPT ![c] = @ + 1]
      /\ intena' = [intena EXCEPT ![c] = IF noff[c] = 0 THEN intr[c] ELSE @]
  BY <1>1, <1>2 DEF Off, RunsHere, PushOff
<1>5. /\ cur' = cur /\ lock' = lock /\ saved' = saved /\ state' = state
      /\ killed' = killed /\ started' = started /\ first' = first /\ ticks' = ticks
      /\ ticks0' = ticks0 /\ n' = n /\ lapsed' = lapsed
  BY DEF Off, PushOff, procvars, bootvars, clockvars
<1>6. TypeOK'
  <2>1. FramesTyped'
    BY <1>3 DEF Moves
  <2>2. intr' \in [Cpus -> BOOLEAN]
    BY <1>4 DEF ClockInv, TypeOK
  <2>3. noff' \in [Cpus -> Nat]
    BY <1>4 DEF ClockInv, TypeOK
  <2>4. intena' \in [Cpus -> BOOLEAN]
    BY <1>4 DEF ClockInv, TypeOK
  <2> QED
    BY <1>5, <2>1, <2>2, <2>3, <2>4 DEF ClockInv, TypeOK, FramesTyped, FrameSet
<1>7. HoldsRight(c) /\ CountsRight(c)
  BY DEF ClockInv, LocksHeld, IntrState
<1>8. PlacesOK'
  BY <1>1, <1>2, <1>3, ThreadFacts
     DEF ClockInv, PlacesOK, Moves, SchedPlaces, ProcPlaces, TrapPlaces, Interruptible, RunsHere
<1>9. Local(c)
  BY <1>1, <1>3, <1>5 DEF Local, ViewsLocal, Moves, RunsHere
<1>10. OnCpu' /\ OffCpu'
  BY <1>1, <1>2, <1>3, <1>9, LocalCpu DEF Moves, RunsHere
<1>11. OthersKept(c)
  BY <1>1, <1>3, <1>4, <1>5 DEF ClockInv, TypeOK, OthersKept, Moves, RunsHere
<1>12. HoldsRight(c)'
  BY <1>1, <1>2, <1>3, <1>4, <1>5, <1>7, ThreadFacts
     DEF ClockInv, HoldsRight, TypeOK, Moves, RunsHere
<1>13. CountsRight(c)'
  <2>1. noff[c] = 0
    BY <1>2, <1>7 DEF CountsRight, Pending
  <2>2. /\ cur'[c] = cur[c] /\ place'[cur[c]] = "scanlock" /\ noff'[c] = noff[c] + 1
        /\ intr'[c] = FALSE /\ intena'[c] = intr[c]
    BY <1>1, <1>3, <1>4, <1>5, <2>1 DEF ClockInv, TypeOK, Moves, RunsHere
  <2> QED
    BY <1>2, <1>7, <2>1, <2>2 DEF CountsRight, Pending, Interruptible
<1>14. LocksHeld' /\ IntrState'
  BY <1>11, <1>12, <1>13, OthersRight
<1>15. BootOrder'
  BY <1>1, <1>2, <1>3, <1>5, <1>9, LocalBoot DEF Moves, RunsHere
<1>16. TimeCounted'
  BY <1>1, <1>2, <1>3, <1>5, ThreadFacts, LocalTime DEF Moves, RunsHere, TimedPlaces
<1>17. SleepersTimed'
  BY <1>1, <1>2, <1>5, <1>11, LocalSleepers
<1> QED
  BY <1>6, <1>8, <1>10, <1>14, <1>15, <1>16, <1>17 DEF ClockInv

\* push_off() of acquire() in sys_pause().
LEMMA OffPauseKeeps ==
  ASSUME ClockInv, NEW c \in Cpus, Off(c, "pause", "pauselock")
  PROVE  ClockInv'
<1>1. RunsHere(c) /\ ViewsTyped
  BY Here, ClockTyped
<1>2. place[cur[c]] = "pause" /\ cur[c] \in Procs /\ cur[c] \notin trapped
  BY <1>1 DEF Off, At, RunsHere, ProcPlaces, TrapPlaces
<1>3. Moves(cur[c], "pauselock", arg[cur[c]])
  BY GotoHere, "pauselock" \in Places, <1>1, <1>2 DEF Off, Places, ProcPlaces, RunsHere
<1>4. /\ intr' = [intr EXCEPT ![c] = FALSE] /\ noff' = [noff EXCEPT ![c] = @ + 1]
      /\ intena' = [intena EXCEPT ![c] = IF noff[c] = 0 THEN intr[c] ELSE @]
  BY <1>1, <1>2 DEF Off, RunsHere, PushOff
<1>5. /\ cur' = cur /\ lock' = lock /\ saved' = saved /\ state' = state
      /\ killed' = killed /\ started' = started /\ first' = first /\ ticks' = ticks
      /\ ticks0' = ticks0 /\ n' = n /\ lapsed' = lapsed
  BY DEF Off, PushOff, procvars, bootvars, clockvars
<1>6. TypeOK'
  <2>1. FramesTyped'
    BY <1>3 DEF Moves
  <2>2. intr' \in [Cpus -> BOOLEAN]
    BY <1>4 DEF ClockInv, TypeOK
  <2>3. noff' \in [Cpus -> Nat]
    BY <1>4 DEF ClockInv, TypeOK
  <2>4. intena' \in [Cpus -> BOOLEAN]
    BY <1>4 DEF ClockInv, TypeOK
  <2> QED
    BY <1>5, <2>1, <2>2, <2>3, <2>4 DEF ClockInv, TypeOK, FramesTyped, FrameSet
<1>7. HoldsRight(c) /\ CountsRight(c)
  BY DEF ClockInv, LocksHeld, IntrState
<1>8. PlacesOK'
  BY <1>1, <1>2, <1>3, ThreadFacts
     DEF ClockInv, PlacesOK, Moves, SchedPlaces, ProcPlaces, TrapPlaces, Interruptible, RunsHere
<1>9. Local(c)
  BY <1>1, <1>3, <1>5 DEF Local, ViewsLocal, Moves, RunsHere
<1>10. OnCpu' /\ OffCpu'
  BY <1>1, <1>2, <1>3, <1>9, LocalCpu DEF Moves, RunsHere
<1>11. OthersKept(c)
  BY <1>1, <1>3, <1>4, <1>5 DEF ClockInv, TypeOK, OthersKept, Moves, RunsHere
<1>12. HoldsRight(c)'
  BY <1>1, <1>2, <1>3, <1>4, <1>5, <1>7, ThreadFacts
     DEF ClockInv, HoldsRight, TypeOK, Moves, RunsHere
<1>13. CountsRight(c)'
  <2>1. noff[c] = 0
    BY <1>2, <1>7 DEF CountsRight, Pending
  <2>2. /\ cur'[c] = cur[c] /\ place'[cur[c]] = "pauselock" /\ noff'[c] = noff[c] + 1
        /\ intr'[c] = FALSE /\ intena'[c] = intr[c]
    BY <1>1, <1>3, <1>4, <1>5, <2>1 DEF ClockInv, TypeOK, Moves, RunsHere
  <2> QED
    BY <1>2, <1>7, <2>1, <2>2 DEF CountsRight, Pending, Interruptible
<1>14. LocksHeld' /\ IntrState'
  BY <1>11, <1>12, <1>13, OthersRight
<1>15. BootOrder'
  BY <1>1, <1>2, <1>3, <1>5, <1>9, LocalBoot DEF Moves, RunsHere
<1>16. TimeCounted'
  BY <1>1, <1>2, <1>3, <1>5, ThreadFacts, LocalTime DEF Moves, RunsHere, TimedPlaces
<1>17. SleepersTimed'
  BY <1>1, <1>2, <1>5, <1>11, LocalSleepers
<1> QED
  BY <1>6, <1>8, <1>10, <1>14, <1>15, <1>16, <1>17 DEF ClockInv

\* push_off() of acquire() in sleep() for tickslock.
LEMMA OffAgainKeeps ==
  ASSUME ClockInv, NEW c \in Cpus, Off(c, "again", "againlock")
  PROVE  ClockInv'
<1>1. RunsHere(c) /\ ViewsTyped
  BY Here, ClockTyped
<1>2. place[cur[c]] = "again" /\ cur[c] \in Procs /\ cur[c] \notin trapped
  BY <1>1 DEF Off, At, RunsHere, ProcPlaces, TrapPlaces
<1>3. Moves(cur[c], "againlock", arg[cur[c]])
  BY GotoHere, "againlock" \in Places, <1>1, <1>2 DEF Off, Places, ProcPlaces, RunsHere
<1>4. /\ intr' = [intr EXCEPT ![c] = FALSE] /\ noff' = [noff EXCEPT ![c] = @ + 1]
      /\ intena' = [intena EXCEPT ![c] = IF noff[c] = 0 THEN intr[c] ELSE @]
  BY <1>1, <1>2 DEF Off, RunsHere, PushOff
<1>5. /\ cur' = cur /\ lock' = lock /\ saved' = saved /\ state' = state
      /\ killed' = killed /\ started' = started /\ first' = first /\ ticks' = ticks
      /\ ticks0' = ticks0 /\ n' = n /\ lapsed' = lapsed
  BY DEF Off, PushOff, procvars, bootvars, clockvars
<1>6. TypeOK'
  <2>1. FramesTyped'
    BY <1>3 DEF Moves
  <2>2. intr' \in [Cpus -> BOOLEAN]
    BY <1>4 DEF ClockInv, TypeOK
  <2>3. noff' \in [Cpus -> Nat]
    BY <1>4 DEF ClockInv, TypeOK
  <2>4. intena' \in [Cpus -> BOOLEAN]
    BY <1>4 DEF ClockInv, TypeOK
  <2> QED
    BY <1>5, <2>1, <2>2, <2>3, <2>4 DEF ClockInv, TypeOK, FramesTyped, FrameSet
<1>7. HoldsRight(c) /\ CountsRight(c)
  BY DEF ClockInv, LocksHeld, IntrState
<1>8. PlacesOK'
  BY <1>1, <1>2, <1>3, ThreadFacts
     DEF ClockInv, PlacesOK, Moves, SchedPlaces, ProcPlaces, TrapPlaces, Interruptible, RunsHere
<1>9. Local(c)
  BY <1>1, <1>3, <1>5 DEF Local, ViewsLocal, Moves, RunsHere
<1>10. OnCpu' /\ OffCpu'
  BY <1>1, <1>2, <1>3, <1>9, LocalCpu DEF Moves, RunsHere
<1>11. OthersKept(c)
  BY <1>1, <1>3, <1>4, <1>5 DEF ClockInv, TypeOK, OthersKept, Moves, RunsHere
<1>12. HoldsRight(c)'
  BY <1>1, <1>2, <1>3, <1>4, <1>5, <1>7, ThreadFacts
     DEF ClockInv, HoldsRight, TypeOK, Moves, RunsHere
<1>13. CountsRight(c)'
  <2>1. noff[c] = 0
    BY <1>2, <1>7 DEF CountsRight, Pending
  <2>2. /\ cur'[c] = cur[c] /\ place'[cur[c]] = "againlock" /\ noff'[c] = noff[c] + 1
        /\ intr'[c] = FALSE /\ intena'[c] = intr[c]
    BY <1>1, <1>3, <1>4, <1>5, <2>1 DEF ClockInv, TypeOK, Moves, RunsHere
  <2> QED
    BY <1>2, <1>7, <2>1, <2>2 DEF CountsRight, Pending, Interruptible
<1>14. LocksHeld' /\ IntrState'
  BY <1>11, <1>12, <1>13, OthersRight
<1>15. BootOrder'
  BY <1>1, <1>2, <1>3, <1>5, <1>9, LocalBoot DEF Moves, RunsHere
<1>16. TimeCounted'
  BY <1>1, <1>2, <1>3, <1>5, ThreadFacts, LocalTime DEF Moves, RunsHere, TimedPlaces
<1>17. SleepersTimed'
  BY <1>1, <1>2, <1>5, <1>11, LocalSleepers
<1> QED
  BY <1>6, <1>8, <1>10, <1>14, <1>15, <1>16, <1>17 DEF ClockInv

\* push_off() of acquire() in kexit().
LEMMA OffExitKeeps ==
  ASSUME ClockInv, NEW c \in Cpus, Off(c, "exit", "exitlock")
  PROVE  ClockInv'
<1>1. RunsHere(c) /\ ViewsTyped
  BY Here, ClockTyped
<1>2. place[cur[c]] = "exit" /\ cur[c] \in Procs /\ cur[c] \notin trapped
  BY <1>1 DEF Off, At, RunsHere, ProcPlaces, TrapPlaces
<1>3. Moves(cur[c], "exitlock", arg[cur[c]])
  BY GotoHere, "exitlock" \in Places, <1>1, <1>2 DEF Off, Places, ProcPlaces, RunsHere
<1>4. /\ intr' = [intr EXCEPT ![c] = FALSE] /\ noff' = [noff EXCEPT ![c] = @ + 1]
      /\ intena' = [intena EXCEPT ![c] = IF noff[c] = 0 THEN intr[c] ELSE @]
  BY <1>1, <1>2 DEF Off, RunsHere, PushOff
<1>5. /\ cur' = cur /\ lock' = lock /\ saved' = saved /\ state' = state
      /\ killed' = killed /\ started' = started /\ first' = first /\ ticks' = ticks
      /\ ticks0' = ticks0 /\ n' = n /\ lapsed' = lapsed
  BY DEF Off, PushOff, procvars, bootvars, clockvars
<1>6. TypeOK'
  <2>1. FramesTyped'
    BY <1>3 DEF Moves
  <2>2. intr' \in [Cpus -> BOOLEAN]
    BY <1>4 DEF ClockInv, TypeOK
  <2>3. noff' \in [Cpus -> Nat]
    BY <1>4 DEF ClockInv, TypeOK
  <2>4. intena' \in [Cpus -> BOOLEAN]
    BY <1>4 DEF ClockInv, TypeOK
  <2> QED
    BY <1>5, <2>1, <2>2, <2>3, <2>4 DEF ClockInv, TypeOK, FramesTyped, FrameSet
<1>7. HoldsRight(c) /\ CountsRight(c)
  BY DEF ClockInv, LocksHeld, IntrState
<1>8. PlacesOK'
  BY <1>1, <1>2, <1>3, ThreadFacts
     DEF ClockInv, PlacesOK, Moves, SchedPlaces, ProcPlaces, TrapPlaces, Interruptible, RunsHere
<1>9. Local(c)
  BY <1>1, <1>3, <1>5 DEF Local, ViewsLocal, Moves, RunsHere
<1>10. OnCpu' /\ OffCpu'
  BY <1>1, <1>2, <1>3, <1>9, LocalCpu DEF Moves, RunsHere
<1>11. OthersKept(c)
  BY <1>1, <1>3, <1>4, <1>5 DEF ClockInv, TypeOK, OthersKept, Moves, RunsHere
<1>12. HoldsRight(c)'
  BY <1>1, <1>2, <1>3, <1>4, <1>5, <1>7, ThreadFacts
     DEF ClockInv, HoldsRight, TypeOK, Moves, RunsHere
<1>13. CountsRight(c)'
  <2>1. noff[c] = 0
    BY <1>2, <1>7 DEF CountsRight, Pending
  <2>2. /\ cur'[c] = cur[c] /\ place'[cur[c]] = "exitlock" /\ noff'[c] = noff[c] + 1
        /\ intr'[c] = FALSE /\ intena'[c] = intr[c]
    BY <1>1, <1>3, <1>4, <1>5, <2>1 DEF ClockInv, TypeOK, Moves, RunsHere
  <2> QED
    BY <1>2, <1>7, <2>1, <2>2 DEF CountsRight, Pending, Interruptible
<1>14. LocksHeld' /\ IntrState'
  BY <1>11, <1>12, <1>13, OthersRight
<1>15. BootOrder'
  BY <1>1, <1>2, <1>3, <1>5, <1>9, LocalBoot DEF Moves, RunsHere
<1>16. TimeCounted'
  BY <1>1, <1>2, <1>3, <1>5, ThreadFacts, LocalTime DEF Moves, RunsHere, TimedPlaces
<1>17. SleepersTimed'
  BY <1>1, <1>2, <1>5, <1>11, LocalSleepers
<1> QED
  BY <1>6, <1>8, <1>10, <1>14, <1>15, <1>16, <1>17 DEF ClockInv

\* push_off() in clockintr(), on CPU 0.
LEMMA OffTrapKeeps ==
  ASSUME ClockInv, NEW c \in Cpus, Off(c, "trap", "ticklock")
  PROVE  ClockInv'
<1>1. RunsHere(c) /\ ViewsTyped
  BY Here, ClockTyped
<1>2. place[cur[c]] = "trap" /\ cur[c] \in trapped
  BY <1>1 DEF Off, At, RunsHere, TrapPlaces
<1>3. Moves(cur[c], "ticklock", arg[cur[c]])
  BY GotoHere, "ticklock" \in Places, <1>1, <1>2 DEF Off, Places, TrapPlaces, RunsHere
<1>4. /\ intr' = [intr EXCEPT ![c] = FALSE] /\ noff' = [noff EXCEPT ![c] = @ + 1]
      /\ intena' = [intena EXCEPT ![c] = IF noff[c] = 0 THEN intr[c] ELSE @]
  BY <1>1, <1>2 DEF Off, RunsHere, PushOff
<1>5. /\ cur' = cur /\ lock' = lock /\ saved' = saved /\ state' = state
      /\ killed' = killed /\ started' = started /\ first' = first /\ ticks' = ticks
      /\ ticks0' = ticks0 /\ n' = n /\ lapsed' = lapsed
  BY DEF Off, PushOff, procvars, bootvars, clockvars
<1>6. TypeOK'
  <2>1. FramesTyped'
    BY <1>3 DEF Moves
  <2>2. intr' \in [Cpus -> BOOLEAN]
    BY <1>4 DEF ClockInv, TypeOK
  <2>3. noff' \in [Cpus -> Nat]
    BY <1>4 DEF ClockInv, TypeOK
  <2>4. intena' \in [Cpus -> BOOLEAN]
    BY <1>4 DEF ClockInv, TypeOK
  <2> QED
    BY <1>5, <2>1, <2>2, <2>3, <2>4 DEF ClockInv, TypeOK, FramesTyped, FrameSet
<1>7. HoldsRight(c) /\ CountsRight(c)
  BY DEF ClockInv, LocksHeld, IntrState
<1>8. PlacesOK'
  BY <1>1, <1>2, <1>3, ThreadFacts
     DEF ClockInv, PlacesOK, Moves, SchedPlaces, ProcPlaces, TrapPlaces, Interruptible, RunsHere
<1>9. Local(c)
  BY <1>1, <1>3, <1>5 DEF Local, ViewsLocal, Moves, RunsHere
<1>10. OnCpu' /\ OffCpu'
  BY <1>1, <1>2, <1>3, <1>9, LocalCpu DEF Moves, RunsHere
<1>11. OthersKept(c)
  BY <1>1, <1>3, <1>4, <1>5 DEF ClockInv, TypeOK, OthersKept, Moves, RunsHere
<1>12. HoldsRight(c)'
  BY <1>1, <1>2, <1>3, <1>4, <1>5, <1>7, ThreadFacts
     DEF ClockInv, HoldsRight, TypeOK, Moves, RunsHere
<1>13. CountsRight(c)'
  BY <1>1, <1>2, <1>3, <1>4, <1>5, <1>7, ThreadFacts
     DEF ClockInv, TypeOK, CountsRight, Moves, RunsHere, Pending, Interruptible
<1>14. LocksHeld' /\ IntrState'
  BY <1>11, <1>12, <1>13, OthersRight
<1>15. BootOrder'
  BY <1>1, <1>2, <1>3, <1>5, <1>9, LocalBoot DEF Moves, RunsHere
<1>16. TimeCounted'
  BY <1>1, <1>2, <1>3, <1>5, ThreadFacts, LocalTime DEF Moves, RunsHere, TimedPlaces
<1>17. SleepersTimed'
  BY <1>1, <1>2, <1>5, <1>11, LocalSleepers
<1> QED
  BY <1>6, <1>8, <1>10, <1>14, <1>15, <1>16, <1>17 DEF ClockInv

\* push_off() in yield().
LEMMA TrapYieldKeeps ==
  ASSUME ClockInv, NEW c \in Cpus, TrapYield(c)
  PROVE  ClockInv'
<1>1. RunsHere(c) /\ ViewsTyped
  BY Here, ClockTyped
<1>2. place[cur[c]] = "timer" /\ cur[c] \in trapped /\ cur[c] \in Procs
  BY <1>1 DEF TrapYield, AtProc, At, RunsHere, TrapPlaces
<1>3. Moves(cur[c], "yieldlock", arg[cur[c]])
  BY GotoHere, "yieldlock" \in Places, <1>1, <1>2
     DEF TrapYield, Places, TrapPlaces, RunsHere, Off, PushOff
<1>4. /\ intr' = [intr EXCEPT ![c] = FALSE] /\ noff' = [noff EXCEPT ![c] = @ + 1]
      /\ intena' = [intena EXCEPT ![c] = IF noff[c] = 0 THEN intr[c] ELSE @]
  BY <1>1, <1>2 DEF TrapYield, RunsHere, Off, PushOff
<1>5. /\ cur' = cur /\ lock' = lock /\ saved' = saved /\ state' = state
      /\ killed' = killed /\ started' = started /\ first' = first /\ ticks' = ticks
      /\ ticks0' = ticks0 /\ n' = n /\ lapsed' = lapsed
  BY DEF TrapYield, Off, PushOff, procvars, bootvars, clockvars
<1>6. TypeOK'
  <2>1. FramesTyped'
    BY <1>3 DEF Moves
  <2>2. intr' \in [Cpus -> BOOLEAN]
    BY <1>4 DEF ClockInv, TypeOK
  <2>3. noff' \in [Cpus -> Nat]
    BY <1>4 DEF ClockInv, TypeOK
  <2>4. intena' \in [Cpus -> BOOLEAN]
    BY <1>4 DEF ClockInv, TypeOK
  <2> QED
    BY <1>5, <2>1, <2>2, <2>3, <2>4 DEF ClockInv, TypeOK, FramesTyped, FrameSet
<1>7. HoldsRight(c) /\ CountsRight(c)
  BY DEF ClockInv, LocksHeld, IntrState
<1>8. PlacesOK'
  BY <1>1, <1>2, <1>3, ThreadFacts
     DEF ClockInv, PlacesOK, Moves, SchedPlaces, ProcPlaces, TrapPlaces, Interruptible, RunsHere
<1>9. Local(c)
  BY <1>1, <1>3, <1>5 DEF Local, ViewsLocal, Moves, RunsHere
<1>10. OnCpu' /\ OffCpu'
  BY <1>1, <1>2, <1>3, <1>9, LocalCpu DEF Moves, RunsHere
<1>11. OthersKept(c)
  BY <1>1, <1>2, <1>3, <1>4, <1>5, <1>7, ThreadFacts
     DEF ClockInv, TypeOK, HoldsRight, OthersKept, Moves, RunsHere
<1>12. HoldsRight(c)'
  BY <1>1, <1>2, <1>3, <1>4, <1>5, <1>7, ThreadFacts
     DEF ClockInv, HoldsRight, TypeOK, Moves, RunsHere
<1>13. CountsRight(c)'
  BY <1>1, <1>2, <1>3, <1>4, <1>5, <1>7, ThreadFacts
     DEF ClockInv, TypeOK, CountsRight, Moves, RunsHere, Pending, Interruptible
<1>14. LocksHeld' /\ IntrState'
  BY <1>11, <1>12, <1>13, OthersRight
<1>15. BootOrder'
  BY <1>1, <1>2, <1>3, <1>5, <1>9, LocalBoot DEF Moves, RunsHere
<1>16. TimeCounted'
  BY <1>1, <1>2, <1>3, <1>5, ThreadFacts, LocalTime DEF Moves, RunsHere, TimedPlaces
<1>17. SleepersTimed'
  BY <1>1, <1>2, <1>5, <1>11, LocalSleepers
<1> QED
  BY <1>6, <1>8, <1>10, <1>14, <1>15, <1>16, <1>17 DEF ClockInv

\* The end of main() on CPU 0.
LEMMA BootKeeps ==
  ASSUME ClockInv, NEW c \in Cpus, Boot(c)
  PROVE  ClockInv'
<1>1. RunsHere(c) /\ ViewsTyped
  BY Here, ClockTyped
<1>2. place[cur[c]] = "main" /\ cur[c] = Sched(c) /\ cur[c] \notin trapped /\ c = 0
  BY <1>1 DEF Boot, At, RunsHere, SchedPlaces, TrapPlaces
<1>3. Moves(cur[c], "top", arg[cur[c]])
  BY GotoHere, "top" \in Places, <1>1, <1>2 DEF Boot, Places, SchedPlaces, RunsHere
<1>4. state' = [state EXCEPT ![1] = "RUNNABLE"] /\ started' = TRUE
  BY <1>1, <1>2 DEF Boot, RunsHere
<1>5. /\ intr' = intr /\ noff' = noff /\ intena' = intena /\ cur' = cur /\ lock' = lock
      /\ saved' = saved /\ killed' = killed /\ first' = first /\ ticks' = ticks
      /\ ticks0' = ticks0 /\ n' = n /\ lapsed' = lapsed
  BY DEF Boot, cpuvars, clockvars
<1>6. TypeOK'
  <2>1. FramesTyped'
    BY <1>3 DEF Moves
  <2>2. state' \in [Procs -> {"UNUSED", "RUNNABLE", "RUNNING", "SLEEPING", "ZOMBIE"}]
    BY <1>1, <1>2, <1>4, ThreadFacts DEF ClockInv, TypeOK, RunsHere
  <2>3. started' \in BOOLEAN
    BY <1>4 DEF ClockInv, TypeOK
  <2> QED
    BY <1>5, <2>1, <2>2, <2>3 DEF ClockInv, TypeOK, FramesTyped, FrameSet
<1>7. HoldsRight(c) /\ CountsRight(c)
  BY DEF ClockInv, LocksHeld, IntrState
<1>8. PlacesOK'
  BY <1>1, <1>2, <1>3, ThreadFacts
     DEF ClockInv, PlacesOK, Moves, SchedPlaces, ProcPlaces, TrapPlaces, Interruptible, RunsHere
<1>9. ViewsLocal(c)
  BY <1>1, <1>3 DEF ViewsLocal, Moves, RunsHere
<1>10. OnCpu' /\ OffCpu'
  <2>1. state[1] = "UNUSED" /\ 1 \in Procs
    BY <1>1, <1>2, ThreadFacts DEF ClockInv, BootOrder, RunsHere
  <2>2. place'[cur[c]] # "zombie"
    BY <1>1, <1>3 DEF Moves, RunsHere
  <2> QED
    BY <1>4, <1>5, <1>9, <2>1, <2>2, ReadyCpu
<1>11. OthersKept(c)
  BY <1>1, <1>2, <1>3, <1>4, <1>5, <1>7, ThreadFacts
     DEF ClockInv, TypeOK, HoldsRight, OthersKept, Moves, RunsHere
<1>12. HoldsRight(c)'
  BY <1>1, <1>2, <1>3, <1>4, <1>5, <1>7, ThreadFacts
     DEF ClockInv, HoldsRight, TypeOK, Moves, RunsHere
<1>13. CountsRight(c)'
  BY <1>1, <1>2, <1>3, <1>4, <1>5, <1>7, ThreadFacts
     DEF ClockInv, TypeOK, CountsRight, Moves, RunsHere, Pending, Interruptible
<1>14. LocksHeld' /\ IntrState'
  BY <1>11, <1>12, <1>13, OthersRight
<1>15. BootOrder'
  <2>1. \A p \in Procs : state[p] = "UNUSED"
    BY <1>1, <1>2, ThreadFacts DEF ClockInv, BootOrder, RunsHere
  <2>2. \A p \in Procs : p # 1 => state'[p] = "UNUSED"
    BY <1>4, <2>1 DEF ClockInv, TypeOK
  <2>3. base'[Sched(0)] = "top" /\ \A p \in Procs : base'[p] = base[p]
    BY <1>1, <1>2, <1>3, ThreadFacts DEF Moves, RunsHere
  <2> QED
    BY <1>4, <1>5, <2>2, <2>3 DEF ClockInv, BootOrder
<1>16. TimeCounted'
  BY <1>1, <1>2, <1>3, <1>5, ThreadFacts, LocalTime DEF Moves, RunsHere, TimedPlaces
<1>17. SleepersTimed'
  <2>1. \A p \in Procs : state'[p] = "SLEEPING" =>
          state[p] = "SLEEPING" /\ n'[p] = n[p] /\ ticks0'[p] = ticks0[p]
    BY <1>2, <1>4, <1>5 DEF ClockInv, TypeOK
  <2> QED
    BY <1>2, <1>5, <1>11, <2>1, LocalSleepers
<1> QED
  BY <1>6, <1>8, <1>10, <1>14, <1>15, <1>16, <1>17 DEF ClockInv

\* The end of main() on the other CPUs.
LEMMA BootWaitKeeps ==
  ASSUME ClockInv, NEW c \in Cpus, BootWait(c)
  PROVE  ClockInv'
<1>1. RunsHere(c) /\ ViewsTyped
  BY Here, ClockTyped
<1>2. place[cur[c]] = "main" /\ cur[c] = Sched(c) /\ cur[c] \notin trapped /\ c # 0 /\ started
  BY <1>1 DEF BootWait, At, RunsHere, SchedPlaces, TrapPlaces
<1>3. Moves(cur[c], "top", arg[cur[c]])
  BY GotoHere, "top" \in Places, <1>1, <1>2 DEF BootWait, Places, SchedPlaces, RunsHere
<1>5. /\ intr' = intr /\ noff' = noff /\ intena' = intena /\ cur' = cur /\ lock' = lock
      /\ saved' = saved /\ state' = state /\ killed' = killed /\ started' = started
      /\ first' = first /\ ticks' = ticks /\ ticks0' = ticks0 /\ n' = n
      /\ lapsed' = lapsed
  BY DEF BootWait, cpuvars, procvars, bootvars, clockvars
<1>6. TypeOK'
  <2>1. FramesTyped'
    BY <1>3 DEF Moves
  <2> QED
    BY <1>5, <2>1 DEF ClockInv, TypeOK, FramesTyped, FrameSet
<1>7. HoldsRight(c) /\ CountsRight(c)
  BY DEF ClockInv, LocksHeld, IntrState
<1>8. PlacesOK'
  BY <1>1, <1>2, <1>3, ThreadFacts
     DEF ClockInv, PlacesOK, Moves, SchedPlaces, ProcPlaces, TrapPlaces, Interruptible, RunsHere
<1>9. Local(c)
  BY <1>1, <1>3, <1>5 DEF Local, ViewsLocal, Moves, RunsHere
<1>10. OnCpu' /\ OffCpu'
  BY <1>1, <1>2, <1>3, <1>9, LocalCpu DEF Moves, RunsHere
<1>11. OthersKept(c)
  BY <1>1, <1>2, <1>3, <1>5, <1>7, ThreadFacts
     DEF ClockInv, TypeOK, HoldsRight, OthersKept, Moves, RunsHere
<1>12. HoldsRight(c)'
  BY <1>1, <1>2, <1>3, <1>5, <1>7, ThreadFacts DEF ClockInv, HoldsRight, TypeOK, Moves, RunsHere
<1>13. CountsRight(c)'
  BY <1>1, <1>2, <1>3, <1>5, <1>7, ThreadFacts
     DEF ClockInv, TypeOK, CountsRight, Moves, RunsHere, Pending, Interruptible
<1>14. LocksHeld' /\ IntrState'
  BY <1>11, <1>12, <1>13, OthersRight
<1>15. BootOrder'
  <2>1. base'[Sched(c)] = "top" /\ started' = started
    BY <1>1, <1>2, <1>3, <1>5 DEF Moves, RunsHere
  <2>2. \A u \in Threads : u # Sched(c) => base'[u] = base[u]
    BY <1>2, <1>3 DEF Moves
  <2>3. Sched(0) # Sched(c) /\ \A p \in Procs : p # Sched(c)
    BY <1>2, ThreadFacts
  <2> QED
    BY <1>2, <1>5, <2>2, <2>3, ThreadFacts DEF ClockInv, BootOrder
<1>16. TimeCounted'
  BY <1>1, <1>2, <1>3, <1>5, ThreadFacts, LocalTime DEF Moves, RunsHere, TimedPlaces
<1>17. SleepersTimed'
  BY <1>1, <1>2, <1>5, <1>11, LocalSleepers
<1> QED
  BY <1>6, <1>8, <1>10, <1>14, <1>15, <1>16, <1>17 DEF ClockInv

\* intr_on() in scheduler().
LEMMA IntrOnKeeps ==
  ASSUME ClockInv, NEW c \in Cpus, IntrOn(c)
  PROVE  ClockInv'
<1>1. RunsHere(c) /\ ViewsTyped
  BY Here, ClockTyped
<1>2. place[cur[c]] = "top" /\ cur[c] = Sched(c) /\ cur[c] \notin trapped
  BY <1>1 DEF IntrOn, At, RunsHere, SchedPlaces, TrapPlaces
<1>3. Moves(cur[c], "on", arg[cur[c]])
  BY GotoHere, "on" \in Places, <1>1, <1>2 DEF IntrOn, Places, SchedPlaces, RunsHere
<1>4. intr' = [intr EXCEPT ![c] = TRUE]
  BY <1>1, <1>2 DEF IntrOn, RunsHere
<1>5. /\ noff' = noff /\ intena' = intena /\ cur' = cur /\ lock' = lock /\ saved' = saved
      /\ state' = state /\ killed' = killed /\ started' = started /\ first' = first
      /\ ticks' = ticks /\ ticks0' = ticks0 /\ n' = n /\ lapsed' = lapsed
  BY DEF IntrOn, procvars, bootvars, clockvars
<1>6. TypeOK'
  <2>1. FramesTyped'
    BY <1>3 DEF Moves
  <2>2. intr' \in [Cpus -> BOOLEAN]
    BY <1>4 DEF ClockInv, TypeOK
  <2> QED
    BY <1>5, <2>1, <2>2 DEF ClockInv, TypeOK, FramesTyped, FrameSet
<1>7. HoldsRight(c) /\ CountsRight(c)
  BY DEF ClockInv, LocksHeld, IntrState
<1>8. PlacesOK'
  BY <1>1, <1>2, <1>3, ThreadFacts
     DEF ClockInv, PlacesOK, Moves, SchedPlaces, ProcPlaces, TrapPlaces, Interruptible, RunsHere
<1>9. Local(c)
  BY <1>1, <1>3, <1>5 DEF Local, ViewsLocal, Moves, RunsHere
<1>10. OnCpu' /\ OffCpu'
  BY <1>1, <1>2, <1>3, <1>9, LocalCpu DEF Moves, RunsHere
<1>11. OthersKept(c)
  BY <1>1, <1>2, <1>3, <1>4, <1>5, <1>7, ThreadFacts
     DEF ClockInv, TypeOK, HoldsRight, OthersKept, Moves, RunsHere
<1>12. HoldsRight(c)'
  BY <1>1, <1>2, <1>3, <1>4, <1>5, <1>7, ThreadFacts
     DEF ClockInv, HoldsRight, TypeOK, Moves, RunsHere
<1>13. CountsRight(c)'
  BY <1>1, <1>2, <1>3, <1>4, <1>5, <1>7, ThreadFacts
     DEF ClockInv, TypeOK, CountsRight, Moves, RunsHere, Pending, Interruptible
<1>14. LocksHeld' /\ IntrState'
  BY <1>11, <1>12, <1>13, OthersRight
<1>15. BootOrder'
  BY <1>1, <1>2, <1>3, <1>5, <1>9, LocalBoot DEF Moves, RunsHere
<1>16. TimeCounted'
  BY <1>1, <1>2, <1>3, <1>5, ThreadFacts, LocalTime DEF Moves, RunsHere, TimedPlaces
<1>17. SleepersTimed'
  BY <1>1, <1>2, <1>5, <1>11, LocalSleepers
<1> QED
  BY <1>6, <1>8, <1>10, <1>14, <1>15, <1>16, <1>17 DEF ClockInv

\* intr_off() in scheduler().
LEMMA IntrOffKeeps ==
  ASSUME ClockInv, NEW c \in Cpus, IntrOff(c)
  PROVE  ClockInv'
<1>1. RunsHere(c) /\ ViewsTyped
  BY Here, ClockTyped
<1>2. place[cur[c]] = "on" /\ cur[c] = Sched(c) /\ cur[c] \notin trapped
  BY <1>1 DEF IntrOff, At, RunsHere, SchedPlaces, TrapPlaces
<1>3. Moves(cur[c], "scan", 1)
  BY GotoHere, "scan" \in Places, <1>1, <1>2 DEF IntrOff, Places, SchedPlaces, RunsHere
<1>4. intr' = [intr EXCEPT ![c] = FALSE]
  BY <1>1, <1>2 DEF IntrOff, RunsHere
<1>5. /\ noff' = noff /\ intena' = intena /\ cur' = cur /\ lock' = lock /\ saved' = saved
      /\ state' = state /\ killed' = killed /\ started' = started /\ first' = first
      /\ ticks' = ticks /\ ticks0' = ticks0 /\ n' = n /\ lapsed' = lapsed
  BY DEF IntrOff, procvars, bootvars, clockvars
<1>6. TypeOK'
  <2>1. FramesTyped'
    BY <1>3 DEF Moves
  <2>2. intr' \in [Cpus -> BOOLEAN]
    BY <1>4 DEF ClockInv, TypeOK
  <2> QED
    BY <1>5, <2>1, <2>2 DEF ClockInv, TypeOK, FramesTyped, FrameSet
<1>7. HoldsRight(c) /\ CountsRight(c)
  BY DEF ClockInv, LocksHeld, IntrState
<1>8. PlacesOK'
  BY <1>1, <1>2, <1>3, ThreadFacts
     DEF ClockInv, PlacesOK, Moves, SchedPlaces, ProcPlaces, TrapPlaces, Interruptible, RunsHere
<1>9. Local(c)
  BY <1>1, <1>3, <1>5 DEF Local, ViewsLocal, Moves, RunsHere
<1>10. OnCpu' /\ OffCpu'
  BY <1>1, <1>2, <1>3, <1>9, LocalCpu DEF Moves, RunsHere
<1>11. OthersKept(c)
  BY <1>1, <1>2, <1>3, <1>4, <1>5, <1>7, ThreadFacts
     DEF ClockInv, TypeOK, HoldsRight, OthersKept, Moves, RunsHere
<1>12. HoldsRight(c)'
  BY <1>1, <1>2, <1>3, <1>4, <1>5, <1>7, ThreadFacts
     DEF ClockInv, HoldsRight, TypeOK, Moves, RunsHere
<1>13. CountsRight(c)'
  BY <1>1, <1>2, <1>3, <1>4, <1>5, <1>7, ThreadFacts
     DEF ClockInv, TypeOK, CountsRight, Moves, RunsHere, Pending, Interruptible
<1>14. LocksHeld' /\ IntrState'
  BY <1>11, <1>12, <1>13, OthersRight
<1>15. BootOrder'
  BY <1>1, <1>2, <1>3, <1>5, <1>9, LocalBoot DEF Moves, RunsHere
<1>16. TimeCounted'
  BY <1>1, <1>2, <1>3, <1>5, ThreadFacts, LocalTime DEF Moves, RunsHere, TimedPlaces
<1>17. SleepersTimed'
  BY <1>1, <1>2, <1>5, <1>11, LocalSleepers
<1> QED
  BY <1>6, <1>8, <1>10, <1>14, <1>15, <1>16, <1>17 DEF ClockInv

\* acquire(&p->lock) in scheduler().
LEMMA ScanLockKeeps ==
  ASSUME ClockInv, NEW c \in Cpus, ScanLock(c)
  PROVE  ClockInv'
<1>1. RunsHere(c) /\ ViewsTyped
  BY Here, ClockTyped
<1>2. place[cur[c]] = "scanlock" /\ cur[c] = Sched(c) /\ cur[c] \notin trapped
      /\ arg[cur[c]] \in Procs
      /\ lock[arg[cur[c]]] = NoCpu
  BY <1>1 DEF ScanLock, At, RunsHere, SchedPlaces, TrapPlaces, Take, ClockInv, PlacesOK
<1>3. Moves(cur[c], "look", arg[cur[c]])
  BY GotoHere, "look" \in Places, <1>1, <1>2 DEF ScanLock, Places, SchedPlaces, RunsHere
<1>4. lock' = [lock EXCEPT ![arg[cur[c]]] = c]
  BY <1>1, <1>2 DEF ScanLock, RunsHere, Take
<1>5. /\ intr' = intr /\ noff' = noff /\ intena' = intena /\ cur' = cur /\ saved' = saved
      /\ state' = state /\ killed' = killed /\ started' = started /\ first' = first
      /\ ticks' = ticks /\ ticks0' = ticks0 /\ n' = n /\ lapsed' = lapsed
  BY DEF ScanLock, Take, cpuvars, procvars, bootvars, clockvars
<1>6. TypeOK'
  <2>1. FramesTyped'
    BY <1>3 DEF Moves
  <2>2. lock' \in [Locks -> Cpus \cup {NoCpu}]
    BY <1>1, <1>2, <1>4, ThreadFacts DEF ClockInv, TypeOK, RunsHere
  <2> QED
    BY <1>5, <2>1, <2>2 DEF ClockInv, TypeOK, FramesTyped, FrameSet
<1>7. HoldsRight(c) /\ CountsRight(c)
  BY DEF ClockInv, LocksHeld, IntrState
<1>8. PlacesOK'
  BY <1>1, <1>2, <1>3, ThreadFacts
     DEF ClockInv, PlacesOK, Moves, SchedPlaces, ProcPlaces, TrapPlaces, Interruptible, RunsHere
<1>9. Local(c)
  BY <1>1, <1>3, <1>5 DEF Local, ViewsLocal, Moves, RunsHere
<1>10. OnCpu' /\ OffCpu'
  BY <1>1, <1>2, <1>3, <1>9, LocalCpu DEF Moves, RunsHere
<1>11. OthersKept(c)
  BY <1>1, <1>2, <1>3, <1>4, <1>5, ThreadFacts, LockMoved
<1>12. HoldsRight(c)'
  BY <1>1, <1>2, <1>3, <1>4, <1>5, <1>7, ThreadFacts
     DEF ClockInv, HoldsRight, TypeOK, Moves, RunsHere
<1>13. CountsRight(c)'
  BY <1>1, <1>2, <1>3, <1>4, <1>5, <1>7, ThreadFacts
     DEF ClockInv, TypeOK, CountsRight, Moves, RunsHere, Pending, Interruptible
<1>14. LocksHeld' /\ IntrState'
  BY <1>11, <1>12, <1>13, OthersRight
<1>15. BootOrder'
  BY <1>1, <1>2, <1>3, <1>5, <1>9, LocalBoot DEF Moves, RunsHere
<1>16. TimeCounted'
  BY <1>1, <1>2, <1>3, <1>5, ThreadFacts, LocalTime DEF Moves, RunsHere, TimedPlaces
<1>17. SleepersTimed'
  BY <1>1, <1>2, <1>5, <1>11, LocalSleepers
<1> QED
  BY <1>6, <1>8, <1>10, <1>14, <1>15, <1>16, <1>17 DEF ClockInv

\* scheduler() switches to a process, and the process finds intena as its
\* sched() left it.
LEMMA RunKeeps ==
  ASSUME ClockInv, NEW c \in Cpus, Run(c)
  PROVE  ClockInv'
<1>1. RunsHere(c) /\ ViewsTyped
  BY Here, ClockTyped
<1>2. place[cur[c]] = "look" /\ cur[c] = Sched(c) /\ cur[c] \notin trapped
  BY <1>1 DEF Run, At, RunsHere, SchedPlaces, TrapPlaces
<1>3. PICK p \in Procs : p = arg[cur[c]]
  BY <1>1, <1>2 DEF ClockInv, PlacesOK, RunsHere
<1>4. state[p] = "RUNNABLE" /\ p \in Threads /\ p # Sched(c)
  BY <1>1, <1>2, <1>3, ThreadFacts DEF Run, RunsHere
<1>5. /\ place[p] \in {"forkret", "woken", "yielded"}
      /\ place[p] = "woken" => saved[p]
      /\ place[p] = "yielded" => ~saved[p]
  BY <1>4 DEF ClockInv, OffCpu
<1>6. Moves(Sched(c), "back", p)
  <2>1. "back" \in Places
    BY DEF Places, SchedPlaces
  <2> QED
    BY <1>1, <1>2, <1>3, <2>1, GotoHere DEF Run
<1>7. /\ state' = [state EXCEPT ![p] = "RUNNING"] /\ cur' = [cur EXCEPT ![c] = p]
      /\ intena' = [intena EXCEPT ![c] = IF place[p] = "forkret" THEN @ ELSE saved[p]]
      /\ saved' = [saved EXCEPT ![p] = FALSE]
  BY <1>1, <1>3, <1>4 DEF Run, RunsHere, place
<1>8. /\ intr' = intr /\ noff' = noff /\ lock' = lock /\ killed' = killed
      /\ started' = started /\ first' = first
      /\ ticks' = ticks /\ ticks0' = ticks0 /\ n' = n /\ lapsed' = lapsed
  BY DEF Run, bootvars, clockvars
<1>9. HoldsRight(c) /\ CountsRight(c)
  BY DEF ClockInv, LocksHeld, IntrState
<1>10. /\ cur'[c] = p /\ \A d \in Cpus : d # c => cur'[d] = cur[d]
       /\ state'[p] = "RUNNING" /\ \A q \in Procs : q # p => state'[q] = state[q]
       /\ \A q \in Procs : q # p => saved'[q] = saved[q]
       /\ intena'[c] = (IF place[p] = "forkret" THEN intena[c] ELSE saved[p])
       /\ \A d \in Cpus : d # c => intena'[d] = intena[d]
  BY <1>7 DEF ClockInv, TypeOK
<1>11. /\ place'[Sched(c)] = "back" /\ arg'[Sched(c)] = p /\ Sched(c) \notin trapped'
       /\ \A u \in Threads : u # Sched(c) =>
            /\ place'[u] = place[u] /\ arg'[u] = arg[u] /\ base'[u] = base[u]
            /\ u \in trapped' <=> u \in trapped
  BY <1>2, <1>6, ThreadFacts DEF Moves
<1>12. \A d \in Cpus : cur[d] # p
  BY <1>4, ThreadFacts DEF ClockInv, OnCpu
<1>13. TypeOK'
  <2>1. FramesTyped'
    BY <1>6 DEF Moves
  <2>2. state' \in [Procs -> {"UNUSED", "RUNNABLE", "RUNNING", "SLEEPING", "ZOMBIE"}]
    BY <1>7 DEF ClockInv, TypeOK
  <2>3. cur' \in [Cpus -> Threads]
    BY <1>4, <1>7 DEF ClockInv, TypeOK
  <2>4. intena' \in [Cpus -> BOOLEAN]
    BY <1>7 DEF ClockInv, TypeOK
  <2>5. saved' \in [Procs -> BOOLEAN]
    BY <1>7 DEF ClockInv, TypeOK
  <2> QED
    BY <1>8, <2>1, <2>2, <2>3, <2>4, <2>5 DEF ClockInv, TypeOK, FramesTyped, FrameSet
<1>14. PlacesOK'
  BY <1>2, <1>6, ThreadFacts DEF ClockInv, PlacesOK, Moves, SchedPlaces, ProcPlaces,
     TrapPlaces, Interruptible
<1>15. OnCpu'
  <2>1. ASSUME NEW d \in Cpus, d # c, cur[d] # Sched(d)
        PROVE  /\ cur[d] \in Procs /\ state'[cur[d]] = "RUNNING"
               /\ Sched(d) \notin trapped' /\ place'[Sched(d)] = "back" /\ arg'[Sched(d)] = cur[d]
    <3>1. cur[d] # p /\ Sched(d) # Sched(c) /\ Sched(d) \in Threads
      BY <1>12, <2>1, ThreadFacts
    <3> QED
      BY <1>10, <1>11, <2>1, <3>1 DEF ClockInv, OnCpu
  <2>2. \A d, e \in Cpus : cur'[d] = cur'[e] => d = e
    BY <1>10, <1>12 DEF ClockInv, OnCpu
  <2>3. ASSUME NEW q \in Procs, state'[q] = "RUNNING" PROVE \E d \in Cpus : cur'[d] = q
    <3>1. CASE q = p
      BY <1>10, <3>1
    <3>2. CASE q # p
      <4>1. PICK d \in Cpus : cur[d] = q
        BY <1>10, <2>3, <3>2 DEF ClockInv, OnCpu
      <4>2. d # c
        BY <1>2, <4>1, ThreadFacts
      <4> QED
        BY <1>10, <4>1, <4>2
    <3> QED
      BY <3>1, <3>2
  <2> QED
    BY <1>10, <1>11, <2>1, <2>2, <2>3 DEF OnCpu
<1>16. OffCpu'
  <2>1. \A q \in Procs : place'[q] = place[q]
    BY <1>11, ThreadFacts
  <2> QED
    BY <1>5, <1>10, <2>1 DEF ClockInv, OffCpu
<1>17. OthersKept(c)
  BY <1>1, <1>2, <1>8, <1>10, <1>11 DEF OthersKept, RunsHere, ClockInv, TypeOK
<1>18. HoldsRight(c)'
  <2>1. lock[tickslock] # c /\ \A q \in Procs : lock[q] = c <=> q = p
    BY <1>2, <1>3, <1>9, ThreadFacts DEF HoldsRight
  <2>2. cur'[c] = p /\ place'[p] = place[p] /\ lock' = lock
    BY <1>4, <1>8, <1>10, <1>11
  <2> QED
    BY <1>5, <2>1, <2>2 DEF HoldsRight
<1>19. CountsRight(c)'
  <2>1. noff[c] = 1 /\ ~intr[c]
    BY <1>2, <1>9 DEF CountsRight, Pending, Interruptible
  <2>2. /\ cur'[c] = p /\ place'[p] = place[p] /\ noff'[c] = 1 /\ ~intr'[c]
        /\ place[p] # "forkret" => intena'[c] = saved[p]
    BY <1>4, <1>8, <1>10, <1>11, <2>1
  <2> QED
    BY <1>5, <2>2 DEF CountsRight, Pending, Interruptible
<1>20. LocksHeld' /\ IntrState'
  BY <1>17, <1>18, <1>19, OthersRight
<1>21. BootOrder'
  <2>1. base[Sched(c)] = "look" /\ base'[Sched(c)] = "back"
    BY <1>1, <1>2, <1>6, ThreadFacts DEF Moves, RunsHere
  <2>2. started /\ (first => p = 1)
    BY <1>4 DEF ClockInv, BootOrder
  <2> QED
    BY <1>7, <1>8, <1>11, <2>1, <2>2, StateBoot
<1>22. TimeCounted'
  <2>1. \A q \in Procs : base'[q] = base[q]
    BY <1>11, ThreadFacts
  <2> QED
    BY <1>2, <1>8, <2>1, ThreadFacts, LocalTime
<1>23. SleepersTimed'
  <2>1. \A q \in Procs : state'[q] = "SLEEPING" =>
          state[q] = "SLEEPING" /\ n'[q] = n[q] /\ ticks0'[q] = ticks0[q]
    BY <1>8, <1>10
  <2> QED
    BY <1>2, <1>8, <1>17, <2>1, LocalSleepers
<1> QED
  BY <1>13, <1>14, <1>15, <1>16, <1>20, <1>21, <1>22, <1>23 DEF ClockInv

\* scheduler() goes to the next process.
LEMMA ScanNextKeeps ==
  ASSUME ClockInv, NEW c \in Cpus, ScanNext(c)
  PROVE  ClockInv'
<1>1. RunsHere(c) /\ ViewsTyped
  BY Here, ClockTyped
<1>2. /\ place[cur[c]] \in {"look", "back"} /\ cur[c] = Sched(c) /\ cur[c] \notin trapped
      /\ arg[cur[c]] \in Procs
  BY <1>1 DEF ScanNext, At, RunsHere, SchedPlaces, TrapPlaces, ClockInv, PlacesOK
<1>3. PICK l \in {"scan", "top"}, k \in Nat :
         Moves(cur[c], l, k) /\ (l = "scan" => k \in Procs)
  <2>1. "scan" \in Places /\ "top" \in Places
    BY DEF Places, SchedPlaces
  <2>2. arg[cur[c]] < NProc => arg[cur[c]] + 1 \in Procs /\ arg[cur[c]] + 1 \in Nat
    BY <1>1, <1>2, ClockAssumption DEF Procs, RunsHere
  <2>3. \/ arg[cur[c]] < NProc /\ Moves(cur[c], "scan", arg[cur[c]] + 1)
        \/ Moves(cur[c], "top", arg[cur[c]])
    BY <1>1, <2>1, <2>2, GotoHere DEF ScanNext, RunsHere
  <2> QED
    BY <1>1, <2>2, <2>3 DEF RunsHere
<1>4. /\ intr' = [intr EXCEPT ![c] = @ \/ (noff[c] = 1 /\ intena[c])]
      /\ noff' = [noff EXCEPT ![c] = @ - 1]
      /\ lock' = [lock EXCEPT ![arg[cur[c]]] = NoCpu]
  BY <1>1, <1>2, <1>3 DEF ScanNext, RunsHere, Release, PopOff
<1>5. /\ intena' = intena /\ cur' = cur /\ saved' = saved /\ state' = state
      /\ killed' = killed /\ started' = started /\ first' = first /\ ticks' = ticks
      /\ ticks0' = ticks0 /\ n' = n /\ lapsed' = lapsed
  BY DEF ScanNext, Release, PopOff, procvars, bootvars, clockvars
<1>6. TypeOK'
  <2>1. FramesTyped'
    BY <1>3 DEF Moves
  <2>2. intr' \in [Cpus -> BOOLEAN]
    BY <1>4 DEF ClockInv, TypeOK
  <2>3. noff' \in [Cpus -> Nat]
    BY <1>2, <1>4, ClockAssumption DEF ClockInv, TypeOK, IntrState, CountsRight, Pending
  <2>4. lock' \in [Locks -> Cpus \cup {NoCpu}]
    BY <1>1, <1>2, <1>4, ThreadFacts DEF ClockInv, TypeOK, RunsHere
  <2> QED
    BY <1>5, <2>1, <2>2, <2>3, <2>4 DEF ClockInv, TypeOK, FramesTyped, FrameSet
<1>7. HoldsRight(c) /\ CountsRight(c)
  BY DEF ClockInv, LocksHeld, IntrState
<1>8. PlacesOK'
  BY <1>1, <1>2, <1>3, ThreadFacts
     DEF ClockInv, PlacesOK, Moves, SchedPlaces, ProcPlaces, TrapPlaces, Interruptible, RunsHere
<1>9. Local(c)
  BY <1>1, <1>3, <1>5 DEF Local, ViewsLocal, Moves, RunsHere
<1>10. OnCpu' /\ OffCpu'
  BY <1>1, <1>2, <1>3, <1>9, LocalCpu DEF Moves, RunsHere
<1>11. OthersKept(c) /\ HoldsRight(c)'
  <2>1. /\ arg[cur[c]] \in Locks /\ lock[arg[cur[c]]] = c
        /\ \A r \in Locks : lock[r] = c => r = arg[cur[c]]
    BY <1>1, <1>2, <1>7, ThreadFacts DEF HoldsRight, RunsHere
  <2>2. l \notin LockPlaces
    BY <1>3 DEF LockPlaces
  <2> QED
    BY <1>1, <1>3, <1>4, <1>5, <1>7, <2>1, <2>2, Released
<1>13. CountsRight(c)'
  <2>1. cur'[c] = cur[c] /\ place'[cur[c]] = l /\ noff'[c] = noff[c] - 1
    BY <1>1, <1>2, <1>3, <1>4, <1>5, ThreadFacts DEF Moves, RunsHere, ClockInv, TypeOK
  <2>2. noff[c] = 1
    BY <1>2, <1>7 DEF CountsRight, Pending
  <2> QED
    BY <1>2, <1>3, <1>7, <2>1, <2>2 DEF CountsRight, Pending, Interruptible
<1>14. LocksHeld' /\ IntrState'
  BY <1>11, <1>13, OthersRight
<1>15. BootOrder'
  BY <1>1, <1>2, <1>3, <1>5, <1>9, LocalBoot DEF Moves, RunsHere
<1>16. TimeCounted'
  BY <1>1, <1>2, <1>3, <1>5, ThreadFacts, LocalTime DEF Moves, RunsHere, TimedPlaces
<1>17. SleepersTimed'
  BY <1>1, <1>2, <1>5, <1>11, LocalSleepers
<1> QED
  BY <1>6, <1>8, <1>10, <1>14, <1>15, <1>16, <1>17 DEF ClockInv

\* forkret() releases p->lock.
LEMMA ForkretKeeps ==
  ASSUME ClockInv, NEW c \in Cpus, Forkret(c)
  PROVE  ClockInv'
<1>1. RunsHere(c) /\ ViewsTyped
  BY Here, ClockTyped
<1>2. place[cur[c]] = "forkret" /\ cur[c] \in Procs /\ cur[c] \notin trapped
  BY <1>1 DEF Forkret, AtProc, At, RunsHere, TrapPlaces
<1>3. PICK l \in {"fsinit", "ret"} :
         Moves(cur[c], l, arg[cur[c]]) /\ (first => l = "fsinit")
  <2>1. "fsinit" \in Places /\ "ret" \in Places
    BY DEF Places, ProcPlaces
  <2> QED
    BY <2>1, GotoHere DEF Forkret
<1>4. /\ intr' = [intr EXCEPT ![c] = @ \/ (noff[c] = 1 /\ intena[c])]
      /\ noff' = [noff EXCEPT ![c] = @ - 1] /\ lock' = [lock EXCEPT ![cur[c]] = NoCpu]
  BY <1>1, <1>2, <1>3 DEF Forkret, RunsHere, Release, PopOff
<1>5. /\ intena' = intena /\ cur' = cur /\ saved' = saved /\ state' = state
      /\ killed' = killed /\ started' = started /\ first' = first /\ ticks' = ticks
      /\ ticks0' = ticks0 /\ n' = n /\ lapsed' = lapsed
  BY DEF Forkret, Release, PopOff, procvars, bootvars, clockvars
<1>6. TypeOK'
  <2>1. FramesTyped'
    BY <1>3 DEF Moves
  <2>2. intr' \in [Cpus -> BOOLEAN]
    BY <1>4 DEF ClockInv, TypeOK
  <2>3. noff' \in [Cpus -> Nat]
    BY <1>2, <1>4, ClockAssumption DEF ClockInv, TypeOK, IntrState, CountsRight, Pending
  <2>4. lock' \in [Locks -> Cpus \cup {NoCpu}]
    BY <1>1, <1>2, <1>4, ThreadFacts DEF ClockInv, TypeOK, RunsHere
  <2> QED
    BY <1>5, <2>1, <2>2, <2>3, <2>4 DEF ClockInv, TypeOK, FramesTyped, FrameSet
<1>7. HoldsRight(c) /\ CountsRight(c)
  BY DEF ClockInv, LocksHeld, IntrState
<1>8. PlacesOK'
  BY <1>1, <1>2, <1>3, ThreadFacts
     DEF ClockInv, PlacesOK, Moves, SchedPlaces, ProcPlaces, TrapPlaces, Interruptible, RunsHere
<1>9. Local(c)
  BY <1>1, <1>3, <1>5 DEF Local, ViewsLocal, Moves, RunsHere
<1>10. OnCpu' /\ OffCpu'
  BY <1>1, <1>2, <1>3, <1>9, LocalCpu DEF Moves, RunsHere
<1>11. OthersKept(c) /\ HoldsRight(c)'
  <2>1. /\ cur[c] \in Locks /\ lock[cur[c]] = c
        /\ \A r \in Locks : lock[r] = c => r = cur[c]
    BY <1>1, <1>2, <1>7, ThreadFacts DEF HoldsRight, RunsHere
  <2>2. l \notin LockPlaces
    BY <1>3 DEF LockPlaces
  <2> QED
    BY <1>1, <1>3, <1>4, <1>5, <1>7, <2>1, <2>2, Released
<1>13. CountsRight(c)'
  BY <1>1, <1>2, <1>3, <1>4, <1>5, <1>7, ThreadFacts
     DEF ClockInv, TypeOK, CountsRight, Moves, RunsHere, Pending, Interruptible
<1>14. LocksHeld' /\ IntrState'
  BY <1>11, <1>13, OthersRight
<1>15. BootOrder'
  BY <1>1, <1>2, <1>3, <1>5, <1>9, LocalBoot DEF Moves, RunsHere
<1>16. TimeCounted'
  BY <1>1, <1>2, <1>3, <1>5, ThreadFacts, LocalTime DEF Moves, RunsHere, TimedPlaces
<1>17. SleepersTimed'
  BY <1>1, <1>2, <1>5, <1>11, LocalSleepers
<1> QED
  BY <1>6, <1>8, <1>10, <1>14, <1>15, <1>16, <1>17 DEF ClockInv

\* forkret() of the first process, after fsinit().
LEMMA FsinitKeeps ==
  ASSUME ClockInv, NEW c \in Cpus, Fsinit(c)
  PROVE  ClockInv'
<1>1. RunsHere(c) /\ ViewsTyped
  BY Here, ClockTyped
<1>2. place[cur[c]] = "fsinit" /\ cur[c] \in Procs /\ cur[c] \notin trapped
  BY <1>1 DEF Fsinit, AtProc, At, RunsHere, TrapPlaces
<1>3. Moves(cur[c], "ret", arg[cur[c]])
  BY GotoHere, "ret" \in Places, <1>1, <1>2 DEF Fsinit, Places, ProcPlaces, RunsHere
<1>4. first' = FALSE
  BY <1>1, <1>2 DEF Fsinit, RunsHere
<1>5. /\ intr' = intr /\ noff' = noff /\ intena' = intena /\ cur' = cur /\ lock' = lock
      /\ saved' = saved /\ state' = state /\ killed' = killed /\ started' = started
      /\ ticks' = ticks /\ ticks0' = ticks0 /\ n' = n /\ lapsed' = lapsed
  BY DEF Fsinit, cpuvars, procvars, clockvars
<1>6. TypeOK'
  <2>1. FramesTyped'
    BY <1>3 DEF Moves
  <2>2. first' \in BOOLEAN
    BY <1>4 DEF ClockInv, TypeOK
  <2> QED
    BY <1>5, <2>1, <2>2 DEF ClockInv, TypeOK, FramesTyped, FrameSet
<1>7. HoldsRight(c) /\ CountsRight(c)
  BY DEF ClockInv, LocksHeld, IntrState
<1>8. PlacesOK'
  BY <1>1, <1>2, <1>3, ThreadFacts
     DEF ClockInv, PlacesOK, Moves, SchedPlaces, ProcPlaces, TrapPlaces, Interruptible, RunsHere
<1>9. Local(c)
  BY <1>1, <1>3, <1>5 DEF Local, ViewsLocal, Moves, RunsHere
<1>10. OnCpu' /\ OffCpu'
  BY <1>1, <1>2, <1>3, <1>9, LocalCpu DEF Moves, RunsHere
<1>11. OthersKept(c)
  BY <1>1, <1>2, <1>3, <1>4, <1>5, <1>7, ThreadFacts
     DEF ClockInv, TypeOK, HoldsRight, OthersKept, Moves, RunsHere
<1>12. HoldsRight(c)'
  BY <1>1, <1>2, <1>3, <1>4, <1>5, <1>7, ThreadFacts
     DEF ClockInv, HoldsRight, TypeOK, Moves, RunsHere
<1>13. CountsRight(c)'
  BY <1>1, <1>2, <1>3, <1>4, <1>5, <1>7, ThreadFacts
     DEF ClockInv, TypeOK, CountsRight, Moves, RunsHere, Pending, Interruptible
<1>14. LocksHeld' /\ IntrState'
  BY <1>11, <1>12, <1>13, OthersRight
<1>15. BootOrder'
  BY <1>1, <1>2, <1>3, <1>4, <1>5, ThreadFacts
     DEF ClockInv, BootOrder, OnCpu, PlacesOK, TypeOK, Moves, RunsHere
<1>16. TimeCounted'
  BY <1>1, <1>2, <1>3, <1>5, ThreadFacts, LocalTime DEF Moves, RunsHere, TimedPlaces
<1>17. SleepersTimed'
  BY <1>1, <1>2, <1>5, <1>11, LocalSleepers
<1> QED
  BY <1>6, <1>8, <1>10, <1>14, <1>15, <1>16, <1>17 DEF ClockInv

\* kfork() makes p RUNNABLE.
LEMMA ForkKeeps ==
  ASSUME ClockInv, NEW c \in Cpus, NEW p \in Procs, Fork(c, p)
  PROVE  ClockInv'
<1>1. RunsHere(c) /\ ViewsTyped
  BY Here, ClockTyped
<1>2. place[cur[c]] = "user" /\ cur[c] \in Procs /\ cur[c] \notin trapped
      /\ state[p] = "UNUSED"
  BY <1>1 DEF Fork, AtProc, At, RunsHere, TrapPlaces
<1>3. Stays
  BY ClockTyped, FramesStay DEF Fork
<1>4. state' = [state EXCEPT ![p] = "RUNNABLE"]
  BY <1>1, <1>2 DEF Fork, RunsHere
<1>5. /\ intr' = intr /\ noff' = noff /\ intena' = intena /\ cur' = cur /\ lock' = lock
      /\ saved' = saved /\ killed' = killed /\ started' = started /\ first' = first
      /\ ticks' = ticks /\ ticks0' = ticks0 /\ n' = n /\ lapsed' = lapsed
  BY DEF Fork, cpuvars, bootvars, clockvars
<1>6. TypeOK'
  <2>1. FramesTyped'
    BY <1>3 DEF Stays
  <2>2. state' \in [Procs -> {"UNUSED", "RUNNABLE", "RUNNING", "SLEEPING", "ZOMBIE"}]
    BY <1>1, <1>2, <1>4, ThreadFacts DEF ClockInv, TypeOK, RunsHere
  <2> QED
    BY <1>5, <2>1, <2>2 DEF ClockInv, TypeOK, FramesTyped, FrameSet
<1>7. HoldsRight(c) /\ CountsRight(c)
  BY DEF ClockInv, LocksHeld, IntrState
<1>8. PlacesOK'
  BY <1>1, <1>2, <1>3, ThreadFacts
     DEF ClockInv, PlacesOK, Stays, SchedPlaces, ProcPlaces, TrapPlaces, Interruptible, RunsHere
<1>9. ViewsLocal(c)
  BY <1>1, <1>3 DEF ViewsLocal, Stays, RunsHere
<1>10. OnCpu' /\ OffCpu'
  BY <1>1, <1>2, <1>3, <1>4, <1>5, <1>9, ReadyCpu DEF Stays, RunsHere
<1>11. OthersKept(c)
  BY <1>1, <1>2, <1>3, <1>4, <1>5, <1>7, ThreadFacts
     DEF ClockInv, TypeOK, HoldsRight, OthersKept, Stays, RunsHere
<1>12. HoldsRight(c)'
  BY <1>1, <1>2, <1>3, <1>4, <1>5, <1>7, ThreadFacts
     DEF ClockInv, HoldsRight, TypeOK, Stays, RunsHere
<1>13. CountsRight(c)'
  BY <1>1, <1>2, <1>3, <1>4, <1>5, <1>7, ThreadFacts
     DEF ClockInv, TypeOK, CountsRight, Stays, RunsHere, Pending, Interruptible
<1>14. LocksHeld' /\ IntrState'
  BY <1>11, <1>12, <1>13, OthersRight
<1>15. BootOrder'
  <2>1. started /\ ~first
    BY <1>1, <1>2 DEF ClockInv, BootOrder, RunsHere
  <2> QED
    BY <1>3, <1>4, <1>5, <2>1, StateBoot DEF Stays
<1>16. TimeCounted'
  BY <1>1, <1>2, <1>3, <1>5, ThreadFacts, LocalTime DEF Stays, RunsHere, TimedPlaces
<1>17. SleepersTimed'
  <2>1. \A q \in Procs : state'[q] = "SLEEPING" =>
          state[q] = "SLEEPING" /\ n'[q] = n[q] /\ ticks0'[q] = ticks0[q]
    BY <1>2, <1>4, <1>5 DEF ClockInv, TypeOK
  <2> QED
    BY <1>2, <1>5, <1>11, <2>1, LocalSleepers
<1> QED
  BY <1>6, <1>8, <1>10, <1>14, <1>15, <1>16, <1>17 DEF ClockInv

\* The end of usertrap().
LEMMA ReturnToUserKeeps ==
  ASSUME ClockInv, NEW c \in Cpus, ReturnToUser(c)
  PROVE  ClockInv'
<1>1. RunsHere(c) /\ ViewsTyped
  BY Here, ClockTyped
<1>2. place[cur[c]] = "ret" /\ cur[c] \in Procs /\ cur[c] \notin trapped
  BY <1>1 DEF ReturnToUser, AtProc, At, RunsHere, TrapPlaces
<1>3. PICK l \in {"exit", "user"} :
         /\ Moves(cur[c], l, arg[cur[c]])
         /\ intr' = [intr EXCEPT ![c] = @ \/ l = "user"]
  <2>1. "exit" \in Places /\ "user" \in Places
    BY DEF Places, ProcPlaces
  <2>2. \/ Moves(cur[c], "exit", arg[cur[c]]) /\ intr' = intr
        \/ Moves(cur[c], "user", arg[cur[c]]) /\ intr' = [intr EXCEPT ![c] = TRUE]
    BY <2>1, GotoHere DEF ReturnToUser
  <2>3. intr = [intr EXCEPT ![c] = @ \/ "exit" = "user"]
    BY DEF ClockInv, TypeOK
  <2>4. [intr EXCEPT ![c] = TRUE] = [intr EXCEPT ![c] = @ \/ "user" = "user"]
    BY DEF ClockInv, TypeOK
  <2> QED
    BY <2>2, <2>3, <2>4
<1>4. intr' = [intr EXCEPT ![c] = @ \/ l = "user"]
  BY <1>1, <1>2, <1>3 DEF ReturnToUser, RunsHere
<1>5. /\ noff' = noff /\ intena' = intena /\ cur' = cur /\ lock' = lock /\ saved' = saved
      /\ state' = state /\ killed' = killed /\ started' = started /\ first' = first
      /\ ticks' = ticks /\ ticks0' = ticks0 /\ n' = n /\ lapsed' = lapsed
  BY DEF ReturnToUser, procvars, bootvars, clockvars
<1>6. TypeOK'
  <2>1. FramesTyped'
    BY <1>3 DEF Moves
  <2>2. intr' \in [Cpus -> BOOLEAN]
    BY <1>4 DEF ClockInv, TypeOK
  <2> QED
    BY <1>5, <2>1, <2>2 DEF ClockInv, TypeOK, FramesTyped, FrameSet
<1>7. HoldsRight(c) /\ CountsRight(c)
  BY DEF ClockInv, LocksHeld, IntrState
<1>8. PlacesOK'
  BY <1>1, <1>2, <1>3, ThreadFacts
     DEF ClockInv, PlacesOK, Moves, SchedPlaces, ProcPlaces, TrapPlaces, Interruptible, RunsHere
<1>9. Local(c)
  BY <1>1, <1>3, <1>5 DEF Local, ViewsLocal, Moves, RunsHere
<1>10. OnCpu' /\ OffCpu'
  BY <1>1, <1>2, <1>3, <1>9, LocalCpu DEF Moves, RunsHere
<1>11. OthersKept(c)
  BY <1>1, <1>2, <1>3, <1>4, <1>5, <1>7, ThreadFacts
     DEF ClockInv, TypeOK, HoldsRight, OthersKept, Moves, RunsHere
<1>12. HoldsRight(c)'
  BY <1>1, <1>2, <1>3, <1>4, <1>5, <1>7, ThreadFacts
     DEF ClockInv, HoldsRight, TypeOK, Moves, RunsHere
<1>13. CountsRight(c)'
  BY <1>1, <1>2, <1>3, <1>4, <1>5, <1>7, ThreadFacts
     DEF ClockInv, TypeOK, CountsRight, Moves, RunsHere, Pending, Interruptible
<1>14. LocksHeld' /\ IntrState'
  BY <1>11, <1>12, <1>13, OthersRight
<1>15. BootOrder'
  BY <1>1, <1>2, <1>3, <1>5, <1>9, LocalBoot DEF Moves, RunsHere
<1>16. TimeCounted'
  BY <1>1, <1>2, <1>3, <1>5, ThreadFacts, LocalTime DEF Moves, RunsHere, TimedPlaces
<1>17. SleepersTimed'
  BY <1>1, <1>2, <1>5, <1>11, LocalSleepers
<1> QED
  BY <1>6, <1>8, <1>10, <1>14, <1>15, <1>16, <1>17 DEF ClockInv

\* The start of sys_pause(k).
LEMMA PauseKeeps ==
  ASSUME ClockInv, NEW c \in Cpus, NEW k \in -1..MaxN, Pause(c, k)
  PROVE  ClockInv'
<1>1. RunsHere(c) /\ ViewsTyped
  BY Here, ClockTyped
<1>2. place[cur[c]] = "user" /\ cur[c] \in Procs /\ cur[c] \notin trapped
  BY <1>1 DEF Pause, AtProc, At, RunsHere, TrapPlaces
<1>3. PICK l \in {"exit", "pause"}, m \in 0..MaxN :
         /\ Moves(cur[c], l, arg[cur[c]])
         /\ n' = [n EXCEPT ![cur[c]] = m] /\ (l = "exit" => m = 0)
  <2>1. "exit" \in Places /\ "pause" \in Places
    BY DEF Places, ProcPlaces
  <2>2. \/ Moves(cur[c], "exit", arg[cur[c]]) /\ n' = n
        \/ /\ Moves(cur[c], "pause", arg[cur[c]])
           /\ n' = [n EXCEPT ![cur[c]] = IF k < 0 THEN 0 ELSE k]
    BY <2>1, GotoHere DEF Pause
  <2>3. n = [n EXCEPT ![cur[c]] = 0]
    BY <1>2, ThreadFacts DEF ClockInv, TypeOK, TimeCounted, TimeRight, PlacesOK, TimedPlaces
  <2>4. (IF k < 0 THEN 0 ELSE k) \in 0..MaxN /\ 0 \in 0..MaxN
    BY ClockAssumption
  <2> QED
    BY <2>2, <2>3, <2>4
<1>4. n' = [n EXCEPT ![cur[c]] = m]
  BY <1>1, <1>2, <1>3 DEF Pause, RunsHere
<1>5. /\ intr' = intr /\ noff' = noff /\ intena' = intena /\ cur' = cur /\ lock' = lock
      /\ saved' = saved /\ state' = state /\ killed' = killed /\ started' = started
      /\ first' = first /\ ticks' = ticks /\ ticks0' = ticks0 /\ lapsed' = lapsed
  BY DEF Pause, cpuvars, procvars, bootvars
<1>6. TypeOK'
  <2>1. FramesTyped'
    BY <1>3 DEF Moves
  <2>2. n' \in [Procs -> 0..MaxN]
    BY <1>1, <1>2, <1>4, ClockAssumption DEF ClockInv, TypeOK, RunsHere
  <2> QED
    BY <1>5, <2>1, <2>2 DEF ClockInv, TypeOK, FramesTyped, FrameSet
<1>7. HoldsRight(c) /\ CountsRight(c)
  BY DEF ClockInv, LocksHeld, IntrState
<1>8. PlacesOK'
  BY <1>1, <1>2, <1>3, ThreadFacts
     DEF ClockInv, PlacesOK, Moves, SchedPlaces, ProcPlaces, TrapPlaces, Interruptible, RunsHere
<1>9. Local(c)
  BY <1>1, <1>3, <1>5 DEF Local, ViewsLocal, Moves, RunsHere
<1>10. OnCpu' /\ OffCpu'
  BY <1>1, <1>2, <1>3, <1>9, LocalCpu DEF Moves, RunsHere
<1>11. OthersKept(c)
  BY <1>1, <1>2, <1>3, <1>4, <1>5, <1>7, ThreadFacts
     DEF ClockInv, TypeOK, HoldsRight, OthersKept, Moves, RunsHere
<1>12. HoldsRight(c)'
  BY <1>1, <1>2, <1>3, <1>4, <1>5, <1>7, ThreadFacts
     DEF ClockInv, HoldsRight, TypeOK, Moves, RunsHere
<1>13. CountsRight(c)'
  BY <1>1, <1>2, <1>3, <1>4, <1>5, <1>7, ThreadFacts
     DEF ClockInv, TypeOK, CountsRight, Moves, RunsHere, Pending, Interruptible
<1>14. LocksHeld' /\ IntrState'
  BY <1>11, <1>12, <1>13, OthersRight
<1>15. BootOrder'
  BY <1>1, <1>2, <1>3, <1>5, <1>9, LocalBoot DEF Moves, RunsHere
<1>16. TimeCounted'
  <2>1. PICK q \in Procs : q = cur[c]
    BY <1>2
  <2>2. TimeRight(q)
    BY DEF ClockInv, TimeCounted
  <2>3. /\ ticks' = ticks /\ base'[q] = l
        /\ ticks0'[q] = ticks0[q] /\ n'[q] = m /\ lapsed'[q] = lapsed[q]
    BY <1>2, <1>3, <1>4, <1>5, <2>1, ThreadFacts DEF Moves, ClockInv, TypeOK
  <2>4. \A p \in Procs : p # q =>
          base'[p] = base[p] /\ ticks0'[p] = ticks0[p] /\ n'[p] = n[p] /\ lapsed'[p] = lapsed[p]
    BY <1>3, <1>4, <1>5, <2>1, ThreadFacts DEF Moves, ClockInv, TypeOK
  <2>5. base[q] = "user"
    BY <1>1, <1>2, <2>1 DEF RunsHere
  <2>6. TimeRight(q)'
    BY <1>3, <2>2, <2>3, <2>5, ClockAssumption
       DEF TimeRight, TimedPlaces, Waits, ClockInv, TypeOK
  <2> QED
    BY <2>1, <2>3, <2>4, <2>6, OthersTime
<1>17. SleepersTimed'
  <2>1. \A p \in Procs : state[p] = "SLEEPING" => p # cur[c]
    BY <1>1 DEF RunsHere
  <2>2. \A p \in Procs : state'[p] = "SLEEPING" =>
          state[p] = "SLEEPING" /\ n'[p] = n[p] /\ ticks0'[p] = ticks0[p]
    BY <1>4, <1>5, <2>1 DEF ClockInv, TypeOK
  <2> QED
    BY <1>2, <1>5, <1>11, <2>2, LocalSleepers
<1> QED
  BY <1>6, <1>8, <1>10, <1>14, <1>15, <1>16, <1>17 DEF ClockInv

\* sys_pause() takes tickslock and reads ticks.
LEMMA PauseStartKeeps ==
  ASSUME ClockInv, NEW c \in Cpus, PauseStart(c)
  PROVE  ClockInv'
<1>1. RunsHere(c) /\ ViewsTyped
  BY Here, ClockTyped
<1>2. place[cur[c]] = "pauselock" /\ cur[c] \in Procs /\ cur[c] \notin trapped
      /\ lock[tickslock] = NoCpu
  BY <1>1 DEF PauseStart, AtProc, At, RunsHere, TrapPlaces, Take
<1>3. Moves(cur[c], "test", arg[cur[c]])
  BY GotoHere, "test" \in Places, <1>1, <1>2 DEF PauseStart, Places, ProcPlaces, RunsHere
<1>4. /\ lock' = [lock EXCEPT ![tickslock] = c]
      /\ ticks0' = [ticks0 EXCEPT ![cur[c]] = ticks]
      /\ lapsed' = [lapsed EXCEPT ![cur[c]] = 0]
  BY <1>1, <1>2 DEF PauseStart, RunsHere, Take
<1>5. /\ intr' = intr /\ noff' = noff /\ intena' = intena /\ cur' = cur /\ saved' = saved
      /\ state' = state /\ killed' = killed /\ started' = started /\ first' = first
      /\ ticks' = ticks /\ n' = n
  BY DEF PauseStart, Take, cpuvars, procvars, bootvars
<1>6. TypeOK'
  <2>1. FramesTyped'
    BY <1>3 DEF Moves
  <2>2. lock' \in [Locks -> Cpus \cup {NoCpu}]
    BY <1>1, <1>2, <1>4, ThreadFacts DEF ClockInv, TypeOK, RunsHere
  <2>3. ticks0' \in [Procs -> 0..(UINT - 1)]
    BY <1>1, <1>2, <1>4, ClockAssumption DEF ClockInv, TypeOK, RunsHere
  <2>4. lapsed' \in [Procs -> 0..MaxN]
    BY <1>1, <1>2, <1>4, ClockAssumption DEF ClockInv, TypeOK, RunsHere
  <2> QED
    BY <1>5, <2>1, <2>2, <2>3, <2>4 DEF ClockInv, TypeOK, FramesTyped, FrameSet
<1>7. HoldsRight(c) /\ CountsRight(c)
  BY DEF ClockInv, LocksHeld, IntrState
<1>8. PlacesOK'
  BY <1>1, <1>2, <1>3, ThreadFacts
     DEF ClockInv, PlacesOK, Moves, SchedPlaces, ProcPlaces, TrapPlaces, Interruptible, RunsHere
<1>9. Local(c)
  BY <1>1, <1>3, <1>5 DEF Local, ViewsLocal, Moves, RunsHere
<1>10. OnCpu' /\ OffCpu'
  BY <1>1, <1>2, <1>3, <1>9, LocalCpu DEF Moves, RunsHere
<1>11. OthersKept(c)
  BY <1>1, <1>2, <1>3, <1>4, <1>5, ThreadFacts, LockMoved
<1>12. HoldsRight(c)'
  BY <1>1, <1>2, <1>3, <1>4, <1>5, <1>7, ThreadFacts
     DEF ClockInv, HoldsRight, TypeOK, Moves, RunsHere
<1>13. CountsRight(c)'
  BY <1>1, <1>2, <1>3, <1>4, <1>5, <1>7, ThreadFacts
     DEF ClockInv, TypeOK, CountsRight, Moves, RunsHere, Pending, Interruptible
<1>14. LocksHeld' /\ IntrState'
  BY <1>11, <1>12, <1>13, OthersRight
<1>15. BootOrder'
  BY <1>1, <1>2, <1>3, <1>5, <1>9, LocalBoot DEF Moves, RunsHere
<1>16. TimeCounted'
  <2>1. PICK q \in Procs : q = cur[c]
    BY <1>2
  <2>2. TimeRight(q)
    BY DEF ClockInv, TimeCounted
  <2>3. /\ ticks' = ticks /\ base'[q] = "test"
        /\ ticks0'[q] = ticks /\ n'[q] = n[q] /\ lapsed'[q] = 0
    BY <1>2, <1>3, <1>4, <1>5, <2>1, ThreadFacts DEF Moves, ClockInv, TypeOK
  <2>4. \A p \in Procs : p # q =>
          base'[p] = base[p] /\ ticks0'[p] = ticks0[p] /\ n'[p] = n[p] /\ lapsed'[p] = lapsed[p]
    BY <1>3, <1>4, <1>5, <2>1, ThreadFacts DEF Moves, ClockInv, TypeOK
  <2>5. base[q] = "pauselock"
    BY <1>1, <1>2, <2>1 DEF RunsHere
  <2>6. TimeRight(q)'
    BY <1>3, <2>2, <2>3, <2>5, ClockAssumption
       DEF TimeRight, TimedPlaces, Waits, ClockInv, TypeOK
  <2> QED
    BY <2>1, <2>3, <2>4, <2>6, OthersTime
<1>17. SleepersTimed'
  <2>1. \A p \in Procs : state[p] = "SLEEPING" => p # cur[c]
    BY <1>1 DEF RunsHere
  <2>2. \A p \in Procs : state'[p] = "SLEEPING" =>
          state[p] = "SLEEPING" /\ n'[p] = n[p] /\ ticks0'[p] = ticks0[p]
    BY <1>4, <1>5, <2>1 DEF ClockInv, TypeOK
  <2> QED
    BY <1>2, <1>5, <1>11, <2>2, LocalSleepers
<1> QED
  BY <1>6, <1>8, <1>10, <1>14, <1>15, <1>16, <1>17 DEF ClockInv

\* sleep() takes tickslock again.
LEMMA PauseAgainKeeps ==
  ASSUME ClockInv, NEW c \in Cpus, PauseAgain(c)
  PROVE  ClockInv'
<1>1. RunsHere(c) /\ ViewsTyped
  BY Here, ClockTyped
<1>2. place[cur[c]] = "againlock" /\ cur[c] \in Procs /\ cur[c] \notin trapped
      /\ lock[tickslock] = NoCpu
  BY <1>1 DEF PauseAgain, AtProc, At, RunsHere, TrapPlaces, Take
<1>3. Moves(cur[c], "test", arg[cur[c]])
  BY GotoHere, "test" \in Places, <1>1, <1>2 DEF PauseAgain, Places, ProcPlaces, RunsHere
<1>4. lock' = [lock EXCEPT ![tickslock] = c]
  BY <1>1, <1>2 DEF PauseAgain, RunsHere, Take
<1>5. /\ intr' = intr /\ noff' = noff /\ intena' = intena /\ cur' = cur /\ saved' = saved
      /\ state' = state /\ killed' = killed /\ started' = started /\ first' = first
      /\ ticks' = ticks /\ ticks0' = ticks0 /\ n' = n /\ lapsed' = lapsed
  BY DEF PauseAgain, Take, cpuvars, procvars, bootvars, clockvars
<1>6. TypeOK'
  <2>1. FramesTyped'
    BY <1>3 DEF Moves
  <2>2. lock' \in [Locks -> Cpus \cup {NoCpu}]
    BY <1>1, <1>2, <1>4, ThreadFacts DEF ClockInv, TypeOK, RunsHere
  <2> QED
    BY <1>5, <2>1, <2>2 DEF ClockInv, TypeOK, FramesTyped, FrameSet
<1>7. HoldsRight(c) /\ CountsRight(c)
  BY DEF ClockInv, LocksHeld, IntrState
<1>8. PlacesOK'
  BY <1>1, <1>2, <1>3, ThreadFacts
     DEF ClockInv, PlacesOK, Moves, SchedPlaces, ProcPlaces, TrapPlaces, Interruptible, RunsHere
<1>9. Local(c)
  BY <1>1, <1>3, <1>5 DEF Local, ViewsLocal, Moves, RunsHere
<1>10. OnCpu' /\ OffCpu'
  BY <1>1, <1>2, <1>3, <1>9, LocalCpu DEF Moves, RunsHere
<1>11. OthersKept(c)
  BY <1>1, <1>2, <1>3, <1>4, <1>5, ThreadFacts, LockMoved
<1>12. HoldsRight(c)'
  BY <1>1, <1>2, <1>3, <1>4, <1>5, <1>7, ThreadFacts
     DEF ClockInv, HoldsRight, TypeOK, Moves, RunsHere
<1>13. CountsRight(c)'
  BY <1>1, <1>2, <1>3, <1>4, <1>5, <1>7, ThreadFacts
     DEF ClockInv, TypeOK, CountsRight, Moves, RunsHere, Pending, Interruptible
<1>14. LocksHeld' /\ IntrState'
  BY <1>11, <1>12, <1>13, OthersRight
<1>15. BootOrder'
  BY <1>1, <1>2, <1>3, <1>5, <1>9, LocalBoot DEF Moves, RunsHere
<1>16. TimeCounted'
  BY <1>1, <1>2, <1>3, <1>5, ThreadFacts, LocalTime DEF Moves, RunsHere, TimedPlaces
<1>17. SleepersTimed'
  BY <1>1, <1>2, <1>5, <1>11, LocalSleepers
<1> QED
  BY <1>6, <1>8, <1>10, <1>14, <1>15, <1>16, <1>17 DEF ClockInv

\* sys_pause() returns.
LEMMA PauseEndKeeps ==
  ASSUME ClockInv, NEW c \in Cpus, PauseEnd(c)
  PROVE  ClockInv'
<1>1. RunsHere(c) /\ ViewsTyped
  BY Here, ClockTyped
<1>2. place[cur[c]] = "test" /\ cur[c] \in Procs /\ cur[c] \notin trapped
  BY <1>1 DEF PauseEnd, AtProc, At, RunsHere, TrapPlaces
<1>3. Moves(cur[c], "ret", arg[cur[c]])
  BY GotoHere, "ret" \in Places, <1>1, <1>2 DEF PauseEnd, Places, ProcPlaces, RunsHere
<1>4. /\ intr' = [intr EXCEPT ![c] = @ \/ (noff[c] = 1 /\ intena[c])]
      /\ noff' = [noff EXCEPT ![c] = @ - 1] /\ lock' = [lock EXCEPT ![tickslock] = NoCpu]
      /\ ticks0' = [ticks0 EXCEPT ![cur[c]] = 0] /\ n' = [n EXCEPT ![cur[c]] = 0]
      /\ lapsed' = [lapsed EXCEPT ![cur[c]] = 0]
  BY <1>1, <1>2 DEF PauseEnd, RunsHere, Release, PopOff
<1>5. /\ intena' = intena /\ cur' = cur /\ saved' = saved /\ state' = state
      /\ killed' = killed /\ started' = started /\ first' = first /\ ticks' = ticks
  BY DEF PauseEnd, Release, PopOff, procvars, bootvars
<1>6. TypeOK'
  <2>1. FramesTyped'
    BY <1>3 DEF Moves
  <2>2. intr' \in [Cpus -> BOOLEAN]
    BY <1>4 DEF ClockInv, TypeOK
  <2>3. noff' \in [Cpus -> Nat]
    BY <1>2, <1>4, ClockAssumption DEF ClockInv, TypeOK, IntrState, CountsRight, Pending
  <2>4. lock' \in [Locks -> Cpus \cup {NoCpu}]
    BY <1>1, <1>2, <1>4, ThreadFacts DEF ClockInv, TypeOK, RunsHere
  <2>5. ticks0' \in [Procs -> 0..(UINT - 1)]
    BY <1>1, <1>2, <1>4, ClockAssumption DEF ClockInv, TypeOK, RunsHere
  <2>6. n' \in [Procs -> 0..MaxN]
    BY <1>1, <1>2, <1>4, ClockAssumption DEF ClockInv, TypeOK, RunsHere
  <2>7. lapsed' \in [Procs -> 0..MaxN]
    BY <1>1, <1>2, <1>4, ClockAssumption DEF ClockInv, TypeOK, RunsHere
  <2> QED
    BY <1>5, <2>1, <2>2, <2>3, <2>4, <2>5, <2>6, <2>7
       DEF ClockInv, TypeOK, FramesTyped, FrameSet
<1>7. HoldsRight(c) /\ CountsRight(c)
  BY DEF ClockInv, LocksHeld, IntrState
<1>8. PlacesOK'
  BY <1>1, <1>2, <1>3, ThreadFacts
     DEF ClockInv, PlacesOK, Moves, SchedPlaces, ProcPlaces, TrapPlaces, Interruptible, RunsHere
<1>9. Local(c)
  BY <1>1, <1>3, <1>5 DEF Local, ViewsLocal, Moves, RunsHere
<1>10. OnCpu' /\ OffCpu'
  BY <1>1, <1>2, <1>3, <1>9, LocalCpu DEF Moves, RunsHere
<1>11. OthersKept(c) /\ HoldsRight(c)'
  <2>1. /\ tickslock \in Locks /\ lock[tickslock] = c
        /\ \A r \in Locks : lock[r] = c => r = tickslock
    BY <1>1, <1>2, <1>7, ThreadFacts DEF HoldsRight, RunsHere
  <2>2. "ret" \notin LockPlaces
    BY DEF LockPlaces
  <2> QED
    BY <1>1, <1>3, <1>4, <1>5, <1>7, <2>1, <2>2, Released
<1>13. CountsRight(c)'
  <2>1. noff[c] = 1 /\ intena[c]
    BY <1>2, <1>7 DEF CountsRight, Pending
  <2>2. /\ cur'[c] = cur[c] /\ place'[cur[c]] = "ret" /\ noff'[c] = noff[c] - 1
        /\ intr'[c] = TRUE
    BY <1>1, <1>3, <1>4, <1>5, <2>1 DEF ClockInv, TypeOK, Moves, RunsHere
  <2> QED
    BY <2>1, <2>2 DEF CountsRight, Pending, Interruptible
<1>14. LocksHeld' /\ IntrState'
  BY <1>11, <1>13, OthersRight
<1>15. BootOrder'
  BY <1>1, <1>2, <1>3, <1>5, <1>9, LocalBoot DEF Moves, RunsHere
<1>16. TimeCounted'
  <2>1. PICK q \in Procs : q = cur[c]
    BY <1>2
  <2>2. TimeRight(q)
    BY DEF ClockInv, TimeCounted
  <2>3. /\ ticks' = ticks /\ base'[q] = "ret"
        /\ ticks0'[q] = 0 /\ n'[q] = 0 /\ lapsed'[q] = 0
    BY <1>2, <1>3, <1>4, <1>5, <2>1, ThreadFacts DEF Moves, ClockInv, TypeOK
  <2>4. \A p \in Procs : p # q =>
          base'[p] = base[p] /\ ticks0'[p] = ticks0[p] /\ n'[p] = n[p] /\ lapsed'[p] = lapsed[p]
    BY <1>3, <1>4, <1>5, <2>1, ThreadFacts DEF Moves, ClockInv, TypeOK
  <2>5. base[q] = "test"
    BY <1>1, <1>2, <2>1 DEF RunsHere
  <2>6. TimeRight(q)'
    BY <1>3, <2>2, <2>3, <2>5, ClockAssumption
       DEF TimeRight, TimedPlaces, Waits, ClockInv, TypeOK
  <2> QED
    BY <2>1, <2>3, <2>4, <2>6, OthersTime
<1>17. SleepersTimed'
  <2>1. \A p \in Procs : state[p] = "SLEEPING" => p # cur[c]
    BY <1>1 DEF RunsHere
  <2>2. \A p \in Procs : state'[p] = "SLEEPING" =>
          state[p] = "SLEEPING" /\ n'[p] = n[p] /\ ticks0'[p] = ticks0[p]
    BY <1>4, <1>5, <2>1 DEF ClockInv, TypeOK
  <2> QED
    BY <1>2, <1>5, <1>11, <2>2, LocalSleepers
<1> QED
  BY <1>6, <1>8, <1>10, <1>14, <1>15, <1>16, <1>17 DEF ClockInv

\* sleep() begins to acquire p->lock.
LEMMA PauseSleepKeeps ==
  ASSUME ClockInv, NEW c \in Cpus, PauseSleep(c)
  PROVE  ClockInv'
<1>1. RunsHere(c) /\ ViewsTyped
  BY Here, ClockTyped
<1>2. place[cur[c]] = "test" /\ cur[c] \in Procs /\ cur[c] \notin trapped /\ Waits(cur[c])
  BY <1>1 DEF PauseSleep, AtProc, At, RunsHere, TrapPlaces
<1>3. Moves(cur[c], "sleeplock", arg[cur[c]])
  BY GotoHere, "sleeplock" \in Places, <1>1, <1>2 DEF PauseSleep, Places, ProcPlaces, RunsHere
<1>4. /\ intr' = [intr EXCEPT ![c] = FALSE] /\ noff' = [noff EXCEPT ![c] = @ + 1]
      /\ intena' = [intena EXCEPT ![c] = IF noff[c] = 0 THEN intr[c] ELSE @]
  BY <1>1, <1>2 DEF PauseSleep, RunsHere, PushOff
<1>5. /\ cur' = cur /\ lock' = lock /\ saved' = saved /\ state' = state
      /\ killed' = killed /\ started' = started /\ first' = first /\ ticks' = ticks
      /\ ticks0' = ticks0 /\ n' = n /\ lapsed' = lapsed
  BY DEF PauseSleep, PushOff, procvars, bootvars, clockvars
<1>6. TypeOK'
  <2>1. FramesTyped'
    BY <1>3 DEF Moves
  <2>2. intr' \in [Cpus -> BOOLEAN]
    BY <1>4 DEF ClockInv, TypeOK
  <2>3. noff' \in [Cpus -> Nat]
    BY <1>4 DEF ClockInv, TypeOK
  <2>4. intena' \in [Cpus -> BOOLEAN]
    BY <1>4 DEF ClockInv, TypeOK
  <2> QED
    BY <1>5, <2>1, <2>2, <2>3, <2>4 DEF ClockInv, TypeOK, FramesTyped, FrameSet
<1>7. HoldsRight(c) /\ CountsRight(c)
  BY DEF ClockInv, LocksHeld, IntrState
<1>8. PlacesOK'
  BY <1>1, <1>2, <1>3, ThreadFacts
     DEF ClockInv, PlacesOK, Moves, SchedPlaces, ProcPlaces, TrapPlaces, Interruptible, RunsHere
<1>9. Local(c)
  BY <1>1, <1>3, <1>5 DEF Local, ViewsLocal, Moves, RunsHere
<1>10. OnCpu' /\ OffCpu'
  BY <1>1, <1>2, <1>3, <1>9, LocalCpu DEF Moves, RunsHere
<1>11. OthersKept(c)
  BY <1>1, <1>2, <1>3, <1>4, <1>5, <1>7, ThreadFacts
     DEF ClockInv, TypeOK, HoldsRight, OthersKept, Moves, RunsHere
<1>12. HoldsRight(c)'
  BY <1>1, <1>2, <1>3, <1>4, <1>5, <1>7, ThreadFacts
     DEF ClockInv, HoldsRight, TypeOK, Moves, RunsHere
<1>13. CountsRight(c)'
  <2>1. noff[c] = 1 /\ intena[c]
    BY <1>2, <1>7 DEF CountsRight, Pending
  <2>2. /\ cur'[c] = cur[c] /\ place'[cur[c]] = "sleeplock" /\ noff'[c] = noff[c] + 1
        /\ intr'[c] = FALSE /\ intena'[c] = intena[c]
    BY <1>1, <1>3, <1>4, <1>5, <2>1 DEF ClockInv, TypeOK, Moves, RunsHere
  <2> QED
    BY <2>1, <2>2 DEF CountsRight, Pending
<1>14. LocksHeld' /\ IntrState'
  BY <1>11, <1>12, <1>13, OthersRight
<1>15. BootOrder'
  BY <1>1, <1>2, <1>3, <1>5, <1>9, LocalBoot DEF Moves, RunsHere
<1>16. TimeCounted'
  BY <1>1, <1>2, <1>3, <1>5, ThreadFacts, LocalTime DEF Moves, RunsHere, TimedPlaces
<1>17. SleepersTimed'
  BY <1>1, <1>2, <1>5, <1>11, LocalSleepers
<1> QED
  BY <1>6, <1>8, <1>10, <1>14, <1>15, <1>16, <1>17 DEF ClockInv

\* sleep() acquires p->lock.
LEMMA SleepLockKeeps ==
  ASSUME ClockInv, NEW c \in Cpus, SleepLock(c)
  PROVE  ClockInv'
<1>1. RunsHere(c) /\ ViewsTyped
  BY Here, ClockTyped
<1>2. place[cur[c]] = "sleeplock" /\ cur[c] \in Procs /\ cur[c] \notin trapped
      /\ lock[cur[c]] = NoCpu
  BY <1>1 DEF SleepLock, AtProc, At, RunsHere, TrapPlaces, Take
<1>3. Moves(cur[c], "sleep", arg[cur[c]])
  BY GotoHere, "sleep" \in Places, <1>1, <1>2 DEF SleepLock, Places, ProcPlaces, RunsHere
<1>4. lock' = [lock EXCEPT ![cur[c]] = c]
  BY <1>1, <1>2 DEF SleepLock, RunsHere, Take
<1>5. /\ intr' = intr /\ noff' = noff /\ intena' = intena /\ cur' = cur /\ saved' = saved
      /\ state' = state /\ killed' = killed /\ started' = started /\ first' = first
      /\ ticks' = ticks /\ ticks0' = ticks0 /\ n' = n /\ lapsed' = lapsed
  BY DEF SleepLock, Take, cpuvars, procvars, bootvars, clockvars
<1>6. TypeOK'
  <2>1. FramesTyped'
    BY <1>3 DEF Moves
  <2>2. lock' \in [Locks -> Cpus \cup {NoCpu}]
    BY <1>1, <1>2, <1>4, ThreadFacts DEF ClockInv, TypeOK, RunsHere
  <2> QED
    BY <1>5, <2>1, <2>2 DEF ClockInv, TypeOK, FramesTyped, FrameSet
<1>7. HoldsRight(c) /\ CountsRight(c)
  BY DEF ClockInv, LocksHeld, IntrState
<1>8. PlacesOK'
  BY <1>1, <1>2, <1>3, ThreadFacts
     DEF ClockInv, PlacesOK, Moves, SchedPlaces, ProcPlaces, TrapPlaces, Interruptible, RunsHere
<1>9. Local(c)
  BY <1>1, <1>3, <1>5 DEF Local, ViewsLocal, Moves, RunsHere
<1>10. OnCpu' /\ OffCpu'
  BY <1>1, <1>2, <1>3, <1>9, LocalCpu DEF Moves, RunsHere
<1>11. OthersKept(c)
  BY <1>1, <1>2, <1>3, <1>4, <1>5, ThreadFacts, LockMoved
<1>12. HoldsRight(c)'
  BY <1>1, <1>2, <1>3, <1>4, <1>5, <1>7, ThreadFacts
     DEF ClockInv, HoldsRight, TypeOK, Moves, RunsHere
<1>13. CountsRight(c)'
  BY <1>1, <1>2, <1>3, <1>4, <1>5, <1>7, ThreadFacts
     DEF ClockInv, TypeOK, CountsRight, Moves, RunsHere, Pending, Interruptible
<1>14. LocksHeld' /\ IntrState'
  BY <1>11, <1>12, <1>13, OthersRight
<1>15. BootOrder'
  BY <1>1, <1>2, <1>3, <1>5, <1>9, LocalBoot DEF Moves, RunsHere
<1>16. TimeCounted'
  <2>1. Waits(cur[c])
    BY <1>1, <1>2 DEF ClockInv, TimeCounted, TimeRight, RunsHere
  <2> QED
    BY <1>1, <1>2, <1>3, <1>5, <2>1, ThreadFacts, LocalTime DEF Moves, RunsHere, TimedPlaces
<1>17. SleepersTimed'
  BY <1>1, <1>2, <1>5, <1>11, LocalSleepers
<1> QED
  BY <1>6, <1>8, <1>10, <1>14, <1>15, <1>16, <1>17 DEF ClockInv

\* sleep() releases tickslock and switches to the scheduler.
LEMMA SleepKeeps ==
  ASSUME ClockInv, NEW c \in Cpus, Sleep(c)
  PROVE  ClockInv'
<1>1. RunsHere(c) /\ ViewsTyped
  BY Here, ClockTyped
<1>2. place[cur[c]] = "sleep" /\ cur[c] \in Procs /\ cur[c] \notin trapped
      /\ cur[c] # Sched(c) /\ Sched(c) \notin trapped /\ place[Sched(c)] = "back"
      /\ arg[Sched(c)] = cur[c]
  BY <1>1, ThreadFacts DEF Sleep, AtProc, At, RunsHere, TrapPlaces, ClockInv, OnCpu
<1>3. Moves(cur[c], "woken", arg[cur[c]])
  BY GotoHere, "woken" \in Places, <1>1, <1>2
     DEF Sleep, Places, ProcPlaces, RunsHere, Release, PopOff, Switch
<1>4. /\ intr' = [intr EXCEPT ![c] = @ \/ (noff[c] = 1 /\ intena[c])]
      /\ noff' = [noff EXCEPT ![c] = @ - 1] /\ cur' = [cur EXCEPT ![c] = Sched(c)]
      /\ lock' = [lock EXCEPT ![tickslock] = NoCpu]
      /\ saved' = [saved EXCEPT ![cur[c]] = intena[c]]
      /\ state' = [state EXCEPT ![cur[c]] = "SLEEPING"]
  BY <1>1, <1>2 DEF Sleep, RunsHere, Release, PopOff, Switch
<1>5. /\ intena' = intena /\ killed' = killed /\ started' = started /\ first' = first
      /\ ticks' = ticks /\ ticks0' = ticks0 /\ n' = n /\ lapsed' = lapsed
  BY DEF Sleep, Release, PopOff, Switch, bootvars, clockvars
<1>6. TypeOK'
  <2>1. FramesTyped'
    BY <1>3 DEF Moves
  <2>2. intr' \in [Cpus -> BOOLEAN]
    BY <1>4 DEF ClockInv, TypeOK
  <2>3. noff' \in [Cpus -> Nat]
    BY <1>2, <1>4, ClockAssumption DEF ClockInv, TypeOK, IntrState, CountsRight, Pending
  <2>4. cur' \in [Cpus -> Threads]
    BY <1>1, <1>2, <1>4, ThreadFacts DEF ClockInv, TypeOK, RunsHere
  <2>5. lock' \in [Locks -> Cpus \cup {NoCpu}]
    BY <1>1, <1>2, <1>4, ThreadFacts DEF ClockInv, TypeOK, RunsHere
  <2>6. saved' \in [Procs -> BOOLEAN]
    BY <1>2, <1>4 DEF ClockInv, TypeOK
  <2>7. state' \in [Procs -> {"UNUSED", "RUNNABLE", "RUNNING", "SLEEPING", "ZOMBIE"}]
    BY <1>1, <1>2, <1>4, ThreadFacts DEF ClockInv, TypeOK, RunsHere
  <2> QED
    BY <1>5, <2>1, <2>2, <2>3, <2>4, <2>5, <2>6, <2>7
       DEF ClockInv, TypeOK, FramesTyped, FrameSet
<1>7. HoldsRight(c) /\ CountsRight(c)
  BY DEF ClockInv, LocksHeld, IntrState
<1>8. PlacesOK'
  BY <1>1, <1>2, <1>3, ThreadFacts
     DEF ClockInv, PlacesOK, Moves, SchedPlaces, ProcPlaces, TrapPlaces, Interruptible, RunsHere
<1>9. ViewsLocal(c)
  BY <1>1, <1>3 DEF ViewsLocal, Moves, RunsHere
<1>10. OnCpu' /\ OffCpu'
  BY <1>1, <1>2, <1>3, <1>4, <1>7, <1>9, SwitchCpu DEF Moves, RunsHere, CountsRight
<1>11. OthersKept(c)
  <2>1. ASSUME NEW d \in Cpus, d # c
        PROVE  /\ cur'[d] = cur[d] /\ cur[d] \in Threads /\ cur[d] # cur[c]
               /\ noff'[d] = noff[d] /\ intr'[d] = intr[d] /\ intena'[d] = intena[d]
    BY <1>1, <1>4, <1>5, <2>1 DEF ClockInv, TypeOK, RunsHere
  <2>2. lock[tickslock] = c
    BY <1>2, <1>7 DEF HoldsRight
  <2>3. ASSUME NEW d \in Cpus, d # c, NEW l \in Locks PROVE lock'[l] = d <=> lock[l] = d
    BY <1>4, <2>2, <2>3, ThreadFacts DEF ClockInv, TypeOK
  <2> QED
    BY <1>3, <2>1, <2>3 DEF OthersKept, Moves
<1>12. HoldsRight(c)'
  <2>1. cur'[c] = Sched(c) /\ place'[Sched(c)] = "back" /\ arg'[Sched(c)] = cur[c]
    BY <1>1, <1>2, <1>3, <1>4, ThreadFacts DEF ClockInv, TypeOK, Moves, RunsHere
  <2>2. lock'[tickslock] = NoCpu /\ \A p \in Procs : lock'[p] = lock[p]
    BY <1>4, ThreadFacts DEF ClockInv, TypeOK
  <2>3. \A p \in Procs : lock[p] = c <=> p = cur[c]
    BY <1>2, <1>7 DEF HoldsRight
  <2> QED
    BY <2>1, <2>2, <2>3, ThreadFacts DEF HoldsRight
<1>13. CountsRight(c)'
  BY <1>1, <1>2, <1>3, <1>4, <1>5, <1>7, ThreadFacts
     DEF ClockInv, TypeOK, CountsRight, Moves, RunsHere, Pending, Interruptible
<1>14. LocksHeld' /\ IntrState'
  BY <1>11, <1>12, <1>13, OthersRight
<1>15. BootOrder'
  BY <1>1, <1>2, <1>3, <1>4, <1>5, ThreadFacts, StateBoot
     DEF ClockInv, BootOrder, Moves, RunsHere
<1>16. TimeCounted'
  BY <1>1, <1>2, <1>3, <1>5, ThreadFacts, LocalTime DEF Moves, RunsHere, TimedPlaces
<1>17. SleepersTimed'
  <2>1. Waits(cur[c])
    BY <1>1, <1>2 DEF ClockInv, TimeCounted, TimeRight, RunsHere
  <2>2. \A p \in Procs : state'[p] = "SLEEPING" => state[p] = "SLEEPING" \/ Waits(p)
    BY <1>4, <2>1 DEF ClockInv, TypeOK
  <2>3. \A p \in Procs : Waits(p)' <=> Waits(p)
    BY <1>5 DEF Waits
  <2> QED
    BY <1>2, <1>5, <1>11, <2>2, <2>3, LocalSleepers
<1> QED
  BY <1>6, <1>8, <1>10, <1>14, <1>15, <1>16, <1>17 DEF ClockInv

\* sleep() releases p->lock.
LEMMA WokenKeeps ==
  ASSUME ClockInv, NEW c \in Cpus, Woken(c)
  PROVE  ClockInv'
<1>1. RunsHere(c) /\ ViewsTyped
  BY Here, ClockTyped
<1>2. place[cur[c]] = "woken" /\ cur[c] \in Procs /\ cur[c] \notin trapped
  BY <1>1 DEF Woken, AtProc, At, RunsHere, TrapPlaces
<1>3. Moves(cur[c], "again", arg[cur[c]])
  BY GotoHere, "again" \in Places, <1>1, <1>2 DEF Woken, Places, ProcPlaces, RunsHere
<1>4. /\ intr' = [intr EXCEPT ![c] = @ \/ (noff[c] = 1 /\ intena[c])]
      /\ noff' = [noff EXCEPT ![c] = @ - 1] /\ lock' = [lock EXCEPT ![cur[c]] = NoCpu]
  BY <1>1, <1>2 DEF Woken, RunsHere, Release, PopOff
<1>5. /\ intena' = intena /\ cur' = cur /\ saved' = saved /\ state' = state
      /\ killed' = killed /\ started' = started /\ first' = first /\ ticks' = ticks
      /\ ticks0' = ticks0 /\ n' = n /\ lapsed' = lapsed
  BY DEF Woken, Release, PopOff, procvars, bootvars, clockvars
<1>6. TypeOK'
  <2>1. FramesTyped'
    BY <1>3 DEF Moves
  <2>2. intr' \in [Cpus -> BOOLEAN]
    BY <1>4 DEF ClockInv, TypeOK
  <2>3. noff' \in [Cpus -> Nat]
    BY <1>2, <1>4, ClockAssumption DEF ClockInv, TypeOK, IntrState, CountsRight, Pending
  <2>4. lock' \in [Locks -> Cpus \cup {NoCpu}]
    BY <1>1, <1>2, <1>4, ThreadFacts DEF ClockInv, TypeOK, RunsHere
  <2> QED
    BY <1>5, <2>1, <2>2, <2>3, <2>4 DEF ClockInv, TypeOK, FramesTyped, FrameSet
<1>7. HoldsRight(c) /\ CountsRight(c)
  BY DEF ClockInv, LocksHeld, IntrState
<1>8. PlacesOK'
  BY <1>1, <1>2, <1>3, ThreadFacts
     DEF ClockInv, PlacesOK, Moves, SchedPlaces, ProcPlaces, TrapPlaces, Interruptible, RunsHere
<1>9. Local(c)
  BY <1>1, <1>3, <1>5 DEF Local, ViewsLocal, Moves, RunsHere
<1>10. OnCpu' /\ OffCpu'
  BY <1>1, <1>2, <1>3, <1>9, LocalCpu DEF Moves, RunsHere
<1>11. OthersKept(c) /\ HoldsRight(c)'
  <2>1. /\ cur[c] \in Locks /\ lock[cur[c]] = c
        /\ \A r \in Locks : lock[r] = c => r = cur[c]
    BY <1>1, <1>2, <1>7, ThreadFacts DEF HoldsRight, RunsHere
  <2>2. "again" \notin LockPlaces
    BY DEF LockPlaces
  <2> QED
    BY <1>1, <1>3, <1>4, <1>5, <1>7, <2>1, <2>2, Released
<1>13. CountsRight(c)'
  <2>1. noff[c] = 1 /\ intena[c]
    BY <1>2, <1>7 DEF CountsRight, Pending
  <2>2. /\ cur'[c] = cur[c] /\ place'[cur[c]] = "again" /\ noff'[c] = noff[c] - 1
        /\ intr'[c] = TRUE
    BY <1>1, <1>3, <1>4, <1>5, <2>1 DEF ClockInv, TypeOK, Moves, RunsHere
  <2> QED
    BY <2>1, <2>2 DEF CountsRight, Pending, Interruptible
<1>14. LocksHeld' /\ IntrState'
  BY <1>11, <1>13, OthersRight
<1>15. BootOrder'
  BY <1>1, <1>2, <1>3, <1>5, <1>9, LocalBoot DEF Moves, RunsHere
<1>16. TimeCounted'
  BY <1>1, <1>2, <1>3, <1>5, ThreadFacts, LocalTime DEF Moves, RunsHere, TimedPlaces
<1>17. SleepersTimed'
  BY <1>1, <1>2, <1>5, <1>11, LocalSleepers
<1> QED
  BY <1>6, <1>8, <1>10, <1>14, <1>15, <1>16, <1>17 DEF ClockInv

\* kexit() becomes a zombie and switches to the scheduler.
LEMMA ExitKeeps ==
  ASSUME ClockInv, NEW c \in Cpus, Exit(c)
  PROVE  ClockInv'
<1>1. RunsHere(c) /\ ViewsTyped
  BY Here, ClockTyped
<1>2. place[cur[c]] = "exitlock" /\ cur[c] \in Procs /\ cur[c] \notin trapped
      /\ lock[cur[c]] = NoCpu
      /\ cur[c] # Sched(c) /\ Sched(c) \notin trapped /\ place[Sched(c)] = "back"
      /\ arg[Sched(c)] = cur[c]
  BY <1>1, ThreadFacts DEF Exit, AtProc, At, RunsHere, TrapPlaces, ClockInv, OnCpu, Take
<1>3. Moves(cur[c], "zombie", arg[cur[c]])
  BY GotoHere, "zombie" \in Places, <1>1, <1>2
     DEF Exit, Places, ProcPlaces, RunsHere, Take, Switch
<1>4. /\ cur' = [cur EXCEPT ![c] = Sched(c)] /\ lock' = [lock EXCEPT ![cur[c]] = c]
      /\ saved' = [saved EXCEPT ![cur[c]] = intena[c]]
      /\ state' = [state EXCEPT ![cur[c]] = "ZOMBIE"]
  BY <1>1, <1>2 DEF Exit, RunsHere, Take, Switch
<1>5. /\ intr' = intr /\ noff' = noff /\ intena' = intena /\ killed' = killed
      /\ started' = started /\ first' = first /\ ticks' = ticks /\ ticks0' = ticks0
      /\ n' = n /\ lapsed' = lapsed
  BY DEF Exit, Take, Switch, cpuvars, bootvars, clockvars
<1>6. TypeOK'
  <2>1. FramesTyped'
    BY <1>3 DEF Moves
  <2>2. cur' \in [Cpus -> Threads]
    BY <1>1, <1>2, <1>4, ThreadFacts DEF ClockInv, TypeOK, RunsHere
  <2>3. lock' \in [Locks -> Cpus \cup {NoCpu}]
    BY <1>1, <1>2, <1>4, ThreadFacts DEF ClockInv, TypeOK, RunsHere
  <2>4. saved' \in [Procs -> BOOLEAN]
    BY <1>2, <1>4 DEF ClockInv, TypeOK
  <2>5. state' \in [Procs -> {"UNUSED", "RUNNABLE", "RUNNING", "SLEEPING", "ZOMBIE"}]
    BY <1>1, <1>2, <1>4, ThreadFacts DEF ClockInv, TypeOK, RunsHere
  <2> QED
    BY <1>5, <2>1, <2>2, <2>3, <2>4, <2>5 DEF ClockInv, TypeOK, FramesTyped, FrameSet
<1>7. HoldsRight(c) /\ CountsRight(c)
  BY DEF ClockInv, LocksHeld, IntrState
<1>8. PlacesOK'
  BY <1>1, <1>2, <1>3, ThreadFacts
     DEF ClockInv, PlacesOK, Moves, SchedPlaces, ProcPlaces, TrapPlaces, Interruptible, RunsHere
<1>9. ViewsLocal(c)
  BY <1>1, <1>3 DEF ViewsLocal, Moves, RunsHere
<1>10. OnCpu' /\ OffCpu'
  BY <1>1, <1>2, <1>3, <1>4, <1>7, <1>9, SwitchCpu DEF Moves, RunsHere, CountsRight
<1>11. OthersKept(c)
  <2>1. \A d \in Cpus : d # c => cur'[d] = cur[d]
    BY <1>4 DEF ClockInv, TypeOK
  <2> QED
    BY <1>1, <1>2, <1>3, <1>4, <1>5, <2>1, ThreadFacts, LockMoved
<1>12. HoldsRight(c)'
  <2>1. cur'[c] = Sched(c) /\ place'[Sched(c)] = "back" /\ arg'[Sched(c)] = cur[c]
    BY <1>1, <1>2, <1>3, <1>4, ThreadFacts DEF ClockInv, TypeOK, Moves, RunsHere
  <2>2. /\ lock'[tickslock] = lock[tickslock]
        /\ \A p \in Procs : lock'[p] = IF p = cur[c] THEN c ELSE lock[p]
    BY <1>2, <1>4, ThreadFacts DEF ClockInv, TypeOK
  <2>3. lock[tickslock] # c /\ \A p \in Procs : lock[p] # c
    BY <1>2, <1>7 DEF HoldsRight
  <2> QED
    BY <2>1, <2>2, <2>3, ThreadFacts DEF HoldsRight
<1>13. CountsRight(c)'
  BY <1>1, <1>2, <1>3, <1>4, <1>5, <1>7, ThreadFacts
     DEF ClockInv, TypeOK, CountsRight, Moves, RunsHere, Pending, Interruptible
<1>14. LocksHeld' /\ IntrState'
  BY <1>11, <1>12, <1>13, OthersRight
<1>15. BootOrder'
  BY <1>1, <1>2, <1>3, <1>4, <1>5, ThreadFacts, StateBoot
     DEF ClockInv, BootOrder, Moves, RunsHere
<1>16. TimeCounted'
  BY <1>1, <1>2, <1>3, <1>5, ThreadFacts, LocalTime DEF Moves, RunsHere, TimedPlaces
<1>17. SleepersTimed'
  <2>1. \A p \in Procs : state'[p] = "SLEEPING" =>
          state[p] = "SLEEPING" /\ n'[p] = n[p] /\ ticks0'[p] = ticks0[p]
    BY <1>2, <1>4, <1>5 DEF ClockInv, TypeOK
  <2> QED
    BY <1>2, <1>5, <1>11, <2>1, LocalSleepers
<1> QED
  BY <1>6, <1>8, <1>10, <1>14, <1>15, <1>16, <1>17 DEF ClockInv

\* kkill() makes a sleeping process RUNNABLE.
LEMMA KillKeeps ==
  ASSUME ClockInv, NEW p \in Procs, Kill(p)
  PROVE  ClockInv'
<1>1. 0 \in Cpus /\ RunsHere(0) /\ ViewsTyped
  BY ThreadFacts, Here, ClockTyped
<1>2. state[p] \notin {"UNUSED", "ZOMBIE"} /\ killed' = killed \cup {p}
  BY DEF Kill
<1>3. Stays
  BY ClockTyped, FramesStay DEF Kill
<1>4. state' = [state EXCEPT ![p] = IF @ = "SLEEPING" THEN "RUNNABLE" ELSE @]
  BY DEF Kill
<1>5. /\ intr' = intr /\ noff' = noff /\ intena' = intena /\ cur' = cur /\ lock' = lock
      /\ saved' = saved /\ started' = started /\ first' = first
      /\ ticks' = ticks /\ ticks0' = ticks0 /\ n' = n /\ lapsed' = lapsed
  BY DEF Kill, cpuvars, bootvars, clockvars
<1>6. TypeOK'
  <2>1. FramesTyped'
    BY <1>3 DEF Stays
  <2>2. state' \in [Procs -> {"UNUSED", "RUNNABLE", "RUNNING", "SLEEPING", "ZOMBIE"}]
    BY <1>4 DEF ClockInv, TypeOK
  <2> QED
    BY <1>2, <1>5, <2>1, <2>2 DEF ClockInv, TypeOK, FramesTyped, FrameSet
<1>7. PlacesOK'
  BY <1>3 DEF ClockInv, PlacesOK, Stays
<1>8. ViewsLocal(0)
  BY <1>3 DEF ViewsLocal, Stays
<1>9. place'[cur[0]] # "zombie"
  BY <1>1, <1>3 DEF ClockInv, OffCpu, Stays, RunsHere, ProcPlaces
<1>10. LocksHeld' /\ IntrState'
  BY <1>3, <1>5 DEF ClockInv, LocksHeld, IntrState, HoldsRight, CountsRight, Stays
<1>11. TimeCounted'
  BY <1>3, <1>5 DEF ClockInv, TimeCounted, TimeRight, Waits, Stays
<1>12. SleepersTimed'
  <2>1. \A q \in Procs : state'[q] = "SLEEPING" => state[q] = "SLEEPING"
    BY <1>4 DEF ClockInv, TypeOK
  <2> QED
    BY <1>3, <1>5, <2>1 DEF ClockInv, SleepersTimed, Waits, Stays
<1>13. OnCpu' /\ OffCpu' /\ BootOrder'
  <2>1. CASE state[p] = "SLEEPING"
    <3>1. state' = [state EXCEPT ![p] = "RUNNABLE"]
      BY <1>4, <2>1
    <3>2. started /\ (first => p = 1)
      BY <2>1 DEF ClockInv, BootOrder
    <3>3. OnCpu' /\ OffCpu'
      BY <1>1, <1>5, <1>8, <1>9, <2>1, <3>1, ReadyCpu
    <3>4. BootOrder'
      BY <1>3, <1>5, <3>1, <3>2, StateBoot DEF Stays
    <3> QED
      BY <3>3, <3>4
  <2>2. CASE state[p] # "SLEEPING"
    <3>1. state' = state
      BY <1>4, <2>2 DEF ClockInv, TypeOK
    <3>2. Local(0)
      BY <1>5, <1>8, <3>1 DEF Local
    <3>3. OnCpu' /\ OffCpu'
      BY <1>1, <1>9, <3>2, LocalCpu
    <3>4. BootOrder'
      BY <1>1, <1>3, <1>5, <3>2, LocalBoot DEF Stays
    <3> QED
      BY <3>3, <3>4
  <2> QED
    BY <2>1, <2>2
<1> QED
  BY <1>6, <1>7, <1>10, <1>11, <1>12, <1>13 DEF ClockInv

\* The timer interrupts c.
LEMMA InterruptKeeps ==
  ASSUME ClockInv, NEW c \in Cpus, Interrupt(c)
  PROVE  ClockInv'
<1>1. RunsHere(c) /\ ViewsTyped
  BY Here, ClockTyped
<1>2. intr[c] /\ place[cur[c]] \in Interruptible /\ cur[c] \notin trapped
  BY <1>1 DEF Interrupt, RunsHere, TrapPlaces, ClockInv, IntrState, CountsRight, Interruptible
<1>3. Pushes(cur[c], "trap")
  BY <1>1, <1>2, ClockTyped, InterruptPushes DEF Interrupt, RunsHere
<1>4. intr' = [intr EXCEPT ![c] = FALSE]
  BY <1>1, <1>2 DEF Interrupt, RunsHere
<1>5. /\ noff' = noff /\ intena' = intena /\ cur' = cur /\ lock' = lock /\ saved' = saved
      /\ state' = state /\ killed' = killed /\ started' = started /\ first' = first
      /\ ticks' = ticks /\ ticks0' = ticks0 /\ n' = n /\ lapsed' = lapsed
  BY DEF Interrupt, procvars, bootvars, clockvars
<1>6. TypeOK'
  <2>1. FramesTyped'
    BY <1>3 DEF Pushes
  <2>2. intr' \in [Cpus -> BOOLEAN]
    BY <1>4 DEF ClockInv, TypeOK
  <2> QED
    BY <1>5, <2>1, <2>2 DEF ClockInv, TypeOK, FramesTyped, FrameSet
<1>7. HoldsRight(c) /\ CountsRight(c)
  BY DEF ClockInv, LocksHeld, IntrState
<1>8. PlacesOK'
  BY <1>1, <1>2, <1>3, ThreadFacts
     DEF ClockInv, PlacesOK, Pushes, SchedPlaces, ProcPlaces, TrapPlaces, Interruptible,
     RunsHere
<1>9. Local(c)
  BY <1>1, <1>3, <1>5 DEF Local, ViewsLocal, Pushes, RunsHere
<1>10. OnCpu' /\ OffCpu'
  BY <1>1, <1>2, <1>3, <1>9, LocalCpu DEF Pushes, RunsHere
<1>11. OthersKept(c)
  BY <1>1, <1>2, <1>3, <1>4, <1>5, <1>7, ThreadFacts
     DEF ClockInv, TypeOK, HoldsRight, OthersKept, Pushes, RunsHere
<1>12. HoldsRight(c)'
  BY <1>1, <1>2, <1>3, <1>4, <1>5, <1>7, ThreadFacts
     DEF ClockInv, HoldsRight, TypeOK, Pushes, RunsHere, PlacesOK, Interruptible
<1>13. CountsRight(c)'
  <2>1. /\ cur'[c] = cur[c] /\ place'[cur[c]] = "trap" /\ noff'[c] = noff[c]
        /\ intr'[c] = FALSE /\ intena'[c] = intena[c]
    BY <1>1, <1>3, <1>4, <1>5 DEF ClockInv, TypeOK, Pushes, RunsHere
  <2>2. noff[c] = 0
    BY <1>2, <1>7 DEF CountsRight, Pending, Interruptible
  <2> QED
    BY <2>1, <2>2 DEF CountsRight, Pending
<1>14. LocksHeld' /\ IntrState'
  BY <1>11, <1>12, <1>13, OthersRight
<1>15. BootOrder'
  BY <1>1, <1>2, <1>3, <1>5, <1>9, LocalBoot DEF Pushes, RunsHere
<1>16. TimeCounted'
  BY <1>1, <1>2, <1>3, <1>5, ThreadFacts, LocalTime DEF Pushes, RunsHere, TimedPlaces
<1>17. SleepersTimed'
  BY <1>1, <1>2, <1>5, <1>11, LocalSleepers DEF Interruptible
<1> QED
  BY <1>6, <1>8, <1>10, <1>14, <1>15, <1>16, <1>17 DEF ClockInv

\* A timer interrupt of a CPU that does not count.
LEMMA OtherClockKeeps ==
  ASSUME ClockInv, NEW c \in Cpus, OtherClock(c)
  PROVE  ClockInv'
<1>1. RunsHere(c) /\ ViewsTyped
  BY Here, ClockTyped
<1>2. place[cur[c]] = "trap" /\ cur[c] \in trapped
  BY <1>1 DEF OtherClock, At, RunsHere, TrapPlaces
<1>3. Moves(cur[c], "timer", arg[cur[c]])
  BY GotoHere, "timer" \in Places, <1>1, <1>2 DEF OtherClock, Places, TrapPlaces, RunsHere
<1>5. /\ intr' = intr /\ noff' = noff /\ intena' = intena /\ cur' = cur /\ lock' = lock
      /\ saved' = saved /\ state' = state /\ killed' = killed /\ started' = started
      /\ first' = first /\ ticks' = ticks /\ ticks0' = ticks0 /\ n' = n
      /\ lapsed' = lapsed
  BY DEF OtherClock, cpuvars, procvars, bootvars, clockvars
<1>6. TypeOK'
  <2>1. FramesTyped'
    BY <1>3 DEF Moves
  <2> QED
    BY <1>5, <2>1 DEF ClockInv, TypeOK, FramesTyped, FrameSet
<1>7. HoldsRight(c) /\ CountsRight(c)
  BY DEF ClockInv, LocksHeld, IntrState
<1>8. PlacesOK'
  BY <1>1, <1>2, <1>3, ThreadFacts
     DEF ClockInv, PlacesOK, Moves, SchedPlaces, ProcPlaces, TrapPlaces, Interruptible, RunsHere
<1>9. Local(c)
  BY <1>1, <1>3, <1>5 DEF Local, ViewsLocal, Moves, RunsHere
<1>10. OnCpu' /\ OffCpu'
  BY <1>1, <1>2, <1>3, <1>9, LocalCpu DEF Moves, RunsHere
<1>11. OthersKept(c)
  BY <1>1, <1>2, <1>3, <1>5, <1>7, ThreadFacts
     DEF ClockInv, TypeOK, HoldsRight, OthersKept, Moves, RunsHere
<1>12. HoldsRight(c)'
  BY <1>1, <1>2, <1>3, <1>5, <1>7, ThreadFacts DEF ClockInv, HoldsRight, TypeOK, Moves, RunsHere
<1>13. CountsRight(c)'
  BY <1>1, <1>2, <1>3, <1>5, <1>7, ThreadFacts
     DEF ClockInv, TypeOK, CountsRight, Moves, RunsHere, Pending, Interruptible
<1>14. LocksHeld' /\ IntrState'
  BY <1>11, <1>12, <1>13, OthersRight
<1>15. BootOrder'
  BY <1>1, <1>2, <1>3, <1>5, <1>9, LocalBoot DEF Moves, RunsHere
<1>16. TimeCounted'
  BY <1>1, <1>2, <1>3, <1>5, ThreadFacts, LocalTime DEF Moves, RunsHere, TimedPlaces
<1>17. SleepersTimed'
  BY <1>1, <1>2, <1>5, <1>11, LocalSleepers
<1> QED
  BY <1>6, <1>8, <1>10, <1>14, <1>15, <1>16, <1>17 DEF ClockInv

\* clockintr() counts a tick.
LEMMA TickKeeps ==
  ASSUME ClockInv, NEW c \in Cpus, Tick(c)
  PROVE  ClockInv'
<1>1. RunsHere(c) /\ ViewsTyped
  BY Here, ClockTyped
<1>2. place[cur[c]] = "ticklock" /\ cur[c] \in trapped /\ lock[tickslock] = NoCpu
  BY <1>1 DEF Tick, At, RunsHere, TrapPlaces, Take
<1>3. Moves(cur[c], "wake", 1)
  BY GotoHere, "wake" \in Places, <1>1, <1>2 DEF Tick, Places, TrapPlaces, RunsHere
<1>4. /\ lock' = [lock EXCEPT ![tickslock] = c] /\ ticks' = (ticks + 1) % UINT
      /\ lapsed' = [p \in Procs |-> IF lapsed[p] < n[p] THEN lapsed[p] + 1 ELSE n[p]]
  BY <1>1, <1>2 DEF Tick, RunsHere, Take
<1>5. /\ intr' = intr /\ noff' = noff /\ intena' = intena /\ cur' = cur /\ saved' = saved
      /\ state' = state /\ killed' = killed /\ started' = started /\ first' = first
      /\ ticks0' = ticks0 /\ n' = n
  BY DEF Tick, Take, cpuvars, procvars, bootvars
<1>6. TypeOK'
  <2>1. FramesTyped'
    BY <1>3 DEF Moves
  <2>2. lock' \in [Locks -> Cpus \cup {NoCpu}]
    BY <1>1, <1>2, <1>4, ThreadFacts DEF ClockInv, TypeOK, RunsHere
  <2>3. ticks' \in 0..(UINT - 1)
    BY <1>1, <1>2, <1>4, ClockAssumption DEF ClockInv, TypeOK, RunsHere
  <2>4. lapsed' \in [Procs -> 0..MaxN]
    BY <1>1, <1>2, <1>4, ClockAssumption DEF ClockInv, TypeOK, RunsHere
  <2> QED
    BY <1>5, <2>1, <2>2, <2>3, <2>4 DEF ClockInv, TypeOK, FramesTyped, FrameSet
<1>7. HoldsRight(c) /\ CountsRight(c)
  BY DEF ClockInv, LocksHeld, IntrState
<1>8. PlacesOK'
  <2>1. 1 \in 1..(NProc + 1)
    BY ClockAssumption
  <2> QED
    BY <1>1, <1>2, <1>3, <2>1, ThreadFacts DEF ClockInv, PlacesOK, Moves, TrapPlaces, RunsHere
<1>9. Local(c)
  BY <1>1, <1>3, <1>5 DEF Local, ViewsLocal, Moves, RunsHere
<1>10. OnCpu' /\ OffCpu'
  BY <1>1, <1>2, <1>3, <1>9, LocalCpu DEF Moves, RunsHere
<1>11. OthersKept(c)
  BY <1>1, <1>2, <1>3, <1>4, <1>5, <1>7, ThreadFacts
     DEF ClockInv, TypeOK, HoldsRight, OthersKept, Moves, RunsHere
<1>12. HoldsRight(c)'
  BY <1>1, <1>2, <1>3, <1>4, <1>5, <1>7, ThreadFacts
     DEF ClockInv, HoldsRight, TypeOK, Moves, RunsHere
<1>13. CountsRight(c)'
  BY <1>1, <1>2, <1>3, <1>4, <1>5, <1>7, ThreadFacts
     DEF ClockInv, TypeOK, CountsRight, Moves, RunsHere, Pending, Interruptible
<1>14. LocksHeld' /\ IntrState'
  BY <1>11, <1>12, <1>13, OthersRight
<1>15. BootOrder'
  BY <1>1, <1>2, <1>3, <1>5, <1>9, LocalBoot DEF Moves, RunsHere
<1>16. TimeCounted'
  <2>1. ASSUME NEW p \in Procs PROVE TimeRight(p)'
    <3>1. TimeRight(p)
      BY DEF ClockInv, TimeCounted
    <3>2. /\ base'[p] = base[p] /\ n'[p] = n[p] /\ ticks0'[p] = ticks0[p]
          /\ lapsed'[p] = IF lapsed[p] < n[p] THEN lapsed[p] + 1 ELSE n[p]
      BY <1>2, <1>3, <1>4, <1>5, ThreadFacts DEF Moves
    <3>3. /\ n[p] \in 0..MaxN /\ lapsed[p] \in 0..MaxN /\ ticks \in 0..(UINT - 1)
          /\ ticks0[p] \in 0..(UINT - 1) /\ UINT \in Nat \ {0} /\ MaxN \in Nat /\ MaxN < UINT
      BY ClockAssumption DEF ClockInv, TypeOK
    <3>4. base[p] \notin {"sleeplock", "sleep"}
      <4>1. SUFFICES ASSUME base[p] \in {"sleeplock", "sleep"} PROVE FALSE
        OBVIOUS
      <4>2. p \in Threads /\ place[p] = base[p]
        BY <4>1, ThreadFacts DEF ClockInv, PlacesOK, Interruptible
      <4>3. state[p] = "RUNNING"
        BY <4>1, <4>2 DEF ClockInv, OffCpu, TypeOK
      <4>4. PICK d \in Cpus : cur[d] = p
        BY <4>3 DEF ClockInv, OnCpu
      <4>5. lock[tickslock] = d
        BY <4>1, <4>2, <4>4 DEF ClockInv, LocksHeld, HoldsRight
      <4> QED
        BY <1>2, <4>5, ThreadFacts
    <3>5. ASSUME base[p] \in TimedPlaces, lapsed'[p] < n[p]
          PROVE  (ticks' - ticks0[p]) % UINT = lapsed'[p]
      <4>1. lapsed[p] < n[p] /\ lapsed'[p] = lapsed[p] + 1
        BY <3>2, <3>3, <3>5
      <4>2. (ticks - ticks0[p]) % UINT = lapsed[p]
        BY <3>1, <3>5, <4>1 DEF TimeRight
      <4>3. lapsed[p] \in Nat /\ lapsed[p] + 1 < UINT
        BY <3>3, <3>5, <4>1
      <4>4. (((ticks + 1) % UINT) - ticks0[p]) % UINT = lapsed[p] + 1
        BY <3>3, <4>2, <4>3, ModStep
      <4> QED
        BY <1>4, <4>1, <4>4
    <3>6. lapsed'[p] <= n[p]
      BY <3>2, <3>3
    <3> QED
      BY <3>1, <3>2, <3>4, <3>5, <3>6 DEF TimeRight
  <2> QED
    BY <2>1 DEF TimeCounted
<1>17. SleepersTimed'
  <2>1. cur'[c] = cur[c] /\ place'[cur[c]] = "wake" /\ arg'[cur[c]] = 1
    BY <1>1, <1>3, <1>5 DEF Moves, RunsHere
  <2>2. \A p \in Procs : 1 <= p
    BY ClockAssumption DEF Procs
  <2> QED
    BY <2>1, <2>2 DEF SleepersTimed
<1> QED
  BY <1>6, <1>8, <1>10, <1>14, <1>15, <1>16, <1>17 DEF ClockInv

\* One round of wakeup(&ticks).
LEMMA WakeupKeeps ==
  ASSUME ClockInv, NEW c \in Cpus, Wakeup(c)
  PROVE  ClockInv'
<1>1. RunsHere(c) /\ ViewsTyped
  BY Here, ClockTyped
<1>2. place[cur[c]] = "wake" /\ cur[c] \in trapped /\ arg[cur[c]] \in Procs
  BY <1>1, ClockAssumption DEF Wakeup, At, RunsHere, TrapPlaces, ClockInv, PlacesOK, Procs
<1>3. Moves(cur[c], "wake", arg[cur[c]] + 1)
  BY GotoHere, "wake" \in Places, <1>1, <1>2 DEF Wakeup, Places, TrapPlaces, RunsHere
<1>4. state' = [state EXCEPT
               ![arg[cur[c]]] = IF arg[cur[c]] # cur[c] /\ @ = "SLEEPING" THEN "RUNNABLE" ELSE @]
  BY <1>1, <1>2 DEF Wakeup, RunsHere
<1>5. /\ intr' = intr /\ noff' = noff /\ intena' = intena /\ cur' = cur /\ lock' = lock
      /\ saved' = saved /\ killed' = killed /\ started' = started /\ first' = first
      /\ ticks' = ticks /\ ticks0' = ticks0 /\ n' = n /\ lapsed' = lapsed
  BY DEF Wakeup, cpuvars, bootvars, clockvars
<1>6. TypeOK'
  <2>1. FramesTyped'
    BY <1>3 DEF Moves
  <2>2. state' \in [Procs -> {"UNUSED", "RUNNABLE", "RUNNING", "SLEEPING", "ZOMBIE"}]
    BY <1>1, <1>2, <1>4, ThreadFacts DEF ClockInv, TypeOK, RunsHere
  <2> QED
    BY <1>5, <2>1, <2>2 DEF ClockInv, TypeOK, FramesTyped, FrameSet
<1>7. HoldsRight(c) /\ CountsRight(c)
  BY DEF ClockInv, LocksHeld, IntrState
<1>8. PlacesOK'
  <2>1. arg[cur[c]] + 1 \in 1..(NProc + 1)
    BY <1>2, ClockAssumption DEF Procs
  <2> QED
    BY <1>1, <1>2, <1>3, <2>1, ThreadFacts DEF ClockInv, PlacesOK, Moves, TrapPlaces, RunsHere
<1>9. ViewsLocal(c)
  BY <1>1, <1>3 DEF ViewsLocal, Moves, RunsHere
<1>10. OnCpu' /\ OffCpu'
  <2>1. PICK q \in Procs : q = arg[cur[c]]
    BY <1>2
  <2>2. place'[cur[c]] # "zombie"
    BY <1>1, <1>3 DEF Moves, RunsHere
  <2>3. CASE state[q] = "SLEEPING"
    <3>1. q # cur[c]
      BY <1>1, <2>3 DEF RunsHere
    <3>2. state' = [state EXCEPT ![q] = "RUNNABLE"]
      BY <1>4, <2>1, <2>3, <3>1
    <3> QED
      BY <1>5, <1>9, <2>2, <2>3, <3>2, ReadyCpu
  <2>4. CASE state[q] # "SLEEPING"
    <3>1. state' = state
      BY <1>4, <2>1, <2>4 DEF ClockInv, TypeOK
    <3> QED
      BY <1>5, <1>9, <2>2, <3>1, LocalCpu DEF Local
  <2> QED
    BY <2>3, <2>4
<1>11. OthersKept(c)
  BY <1>1, <1>2, <1>3, <1>4, <1>5, <1>7, ThreadFacts
     DEF ClockInv, TypeOK, HoldsRight, OthersKept, Moves, RunsHere
<1>12. HoldsRight(c)'
  BY <1>1, <1>2, <1>3, <1>4, <1>5, <1>7, ThreadFacts
     DEF ClockInv, HoldsRight, TypeOK, Moves, RunsHere
<1>13. CountsRight(c)'
  BY <1>1, <1>2, <1>3, <1>4, <1>5, <1>7, ThreadFacts
     DEF ClockInv, TypeOK, CountsRight, Moves, RunsHere, Pending, Interruptible
<1>14. LocksHeld' /\ IntrState'
  BY <1>11, <1>12, <1>13, OthersRight
<1>15. BootOrder'
  <2>1. PICK q \in Procs : q = arg[cur[c]]
    BY <1>2
  <2>2. \A u \in Threads : base'[u] = base[u]
    BY <1>2, <1>3 DEF Moves
  <2>3. CASE state[q] = "SLEEPING"
    <3>1. started /\ (first => q = 1)
      BY <2>3 DEF ClockInv, BootOrder
    <3> QED
      BY <1>4, <1>5, <2>1, <2>2, <3>1, StateBoot
  <2>4. CASE state[q] # "SLEEPING"
    <3>1. state' = state
      BY <1>4, <2>1, <2>4 DEF ClockInv, TypeOK
    <3> QED
      BY <1>1, <1>5, <1>9, <2>2, <3>1, LocalBoot DEF Local, RunsHere
  <2> QED
    BY <2>3, <2>4
<1>16. TimeCounted'
  BY <1>1, <1>2, <1>3, <1>5, ThreadFacts, LocalTime DEF Moves, RunsHere, TimedPlaces
<1>17. SleepersTimed'
  <2>1. ASSUME NEW p \in Procs, state'[p] = "SLEEPING", ~Waits(p)'
        PROVE  \E d \in Cpus : place'[cur'[d]] = "wake" /\ arg'[cur'[d]] <= p
    <3>1. ~Waits(p)
      BY <1>5, <2>1 DEF Waits
    <3>2. state[p] = "SLEEPING" /\ p # arg[cur[c]]
      BY <1>1, <1>2, <1>4, <2>1 DEF ClockInv, TypeOK, RunsHere
    <3>3. PICK d \in Cpus : place[cur[d]] = "wake" /\ arg[cur[d]] <= p
      BY <3>1, <3>2 DEF ClockInv, SleepersTimed
    <3>4. CASE d # c
      BY <1>11, <3>3, <3>4 DEF OthersKept
    <3>5. CASE d = c
      <4>1. arg[cur[c]] + 1 <= p
        BY <1>2, <3>2, <3>3, <3>5, ClockAssumption DEF Procs
      <4>2. cur'[c] = cur[c] /\ place'[cur[c]] = "wake" /\ arg'[cur[c]] = arg[cur[c]] + 1
        BY <1>1, <1>3, <1>5 DEF Moves, RunsHere
      <4> QED
        BY <4>1, <4>2
    <3> QED
      BY <3>4, <3>5
  <2> QED
    BY <2>1 DEF SleepersTimed
<1> QED
  BY <1>6, <1>8, <1>10, <1>14, <1>15, <1>16, <1>17 DEF ClockInv

\* clockintr() releases tickslock.
LEMMA TickEndKeeps ==
  ASSUME ClockInv, NEW c \in Cpus, TickEnd(c)
  PROVE  ClockInv'
<1>1. RunsHere(c) /\ ViewsTyped
  BY Here, ClockTyped
<1>2. place[cur[c]] = "wake" /\ cur[c] \in trapped /\ arg[cur[c]] > NProc
  BY <1>1 DEF TickEnd, At, RunsHere, TrapPlaces
<1>3. Moves(cur[c], "timer", arg[cur[c]])
  BY GotoHere, "timer" \in Places, <1>1, <1>2 DEF TickEnd, Places, TrapPlaces, RunsHere
<1>4. /\ intr' = [intr EXCEPT ![c] = @ \/ (noff[c] = 1 /\ intena[c])]
      /\ noff' = [noff EXCEPT ![c] = @ - 1] /\ lock' = [lock EXCEPT ![tickslock] = NoCpu]
  BY <1>1, <1>2 DEF TickEnd, RunsHere, Release, PopOff
<1>5. /\ intena' = intena /\ cur' = cur /\ saved' = saved /\ state' = state
      /\ killed' = killed /\ started' = started /\ first' = first /\ ticks' = ticks
      /\ ticks0' = ticks0 /\ n' = n /\ lapsed' = lapsed
  BY DEF TickEnd, Release, PopOff, procvars, bootvars, clockvars
<1>6. TypeOK'
  <2>1. FramesTyped'
    BY <1>3 DEF Moves
  <2>2. intr' \in [Cpus -> BOOLEAN]
    BY <1>4 DEF ClockInv, TypeOK
  <2>3. noff' \in [Cpus -> Nat]
    BY <1>2, <1>4, ClockAssumption DEF ClockInv, TypeOK, IntrState, CountsRight, Pending
  <2>4. lock' \in [Locks -> Cpus \cup {NoCpu}]
    BY <1>1, <1>2, <1>4, ThreadFacts DEF ClockInv, TypeOK, RunsHere
  <2> QED
    BY <1>5, <2>1, <2>2, <2>3, <2>4 DEF ClockInv, TypeOK, FramesTyped, FrameSet
<1>7. HoldsRight(c) /\ CountsRight(c)
  BY DEF ClockInv, LocksHeld, IntrState
<1>8. PlacesOK'
  BY <1>1, <1>2, <1>3, ThreadFacts
     DEF ClockInv, PlacesOK, Moves, SchedPlaces, ProcPlaces, TrapPlaces, Interruptible, RunsHere
<1>9. Local(c)
  BY <1>1, <1>3, <1>5 DEF Local, ViewsLocal, Moves, RunsHere
<1>10. OnCpu' /\ OffCpu'
  BY <1>1, <1>2, <1>3, <1>9, LocalCpu DEF Moves, RunsHere
<1>11. OthersKept(c)
  BY <1>1, <1>2, <1>3, <1>4, <1>5, <1>7, ThreadFacts
     DEF ClockInv, TypeOK, HoldsRight, OthersKept, Moves, RunsHere
<1>12. HoldsRight(c)'
  BY <1>1, <1>2, <1>3, <1>4, <1>5, <1>7, ThreadFacts
     DEF ClockInv, HoldsRight, TypeOK, Moves, RunsHere
<1>13. CountsRight(c)'
  BY <1>1, <1>2, <1>3, <1>4, <1>5, <1>7, ThreadFacts
     DEF ClockInv, TypeOK, CountsRight, Moves, RunsHere, Pending, Interruptible
<1>14. LocksHeld' /\ IntrState'
  BY <1>11, <1>12, <1>13, OthersRight
<1>15. BootOrder'
  BY <1>1, <1>2, <1>3, <1>5, <1>9, LocalBoot DEF Moves, RunsHere
<1>16. TimeCounted'
  BY <1>1, <1>2, <1>3, <1>5, ThreadFacts, LocalTime DEF Moves, RunsHere, TimedPlaces
<1>17. SleepersTimed'
  <2>1. ASSUME NEW p \in Procs, state'[p] = "SLEEPING", ~Waits(p)'
        PROVE  \E d \in Cpus : place'[cur'[d]] = "wake" /\ arg'[cur'[d]] <= p
    <3>1. state[p] = "SLEEPING" /\ ~Waits(p)
      BY <1>5, <2>1 DEF Waits
    <3>2. PICK d \in Cpus : place[cur[d]] = "wake" /\ arg[cur[d]] <= p
      BY <3>1 DEF ClockInv, SleepersTimed
    <3>3. d # c
      BY <1>1, <1>2, <3>2, ClockAssumption DEF Procs, RunsHere
    <3> QED
      BY <1>11, <3>2, <3>3 DEF OthersKept
  <2> QED
    BY <2>1 DEF SleepersTimed
<1> QED
  BY <1>6, <1>8, <1>10, <1>14, <1>15, <1>16, <1>17 DEF ClockInv

\* usertrap() of a killed process.
LEMMA TrapExitKeeps ==
  ASSUME ClockInv, NEW c \in Cpus, TrapExit(c)
  PROVE  ClockInv'
<1>1. RunsHere(c) /\ ViewsTyped
  BY Here, ClockTyped
<1>2. place[cur[c]] = "timer" /\ cur[c] \in trapped /\ base[cur[c]] = "user" /\ cur[c] \in Procs
  BY <1>1, ThreadFacts DEF TrapExit, At, RunsHere, ProcPlaces, TrapPlaces, InUser, base,
     SchedPlaces, ClockInv, PlacesOK
<1>3. Leaves(cur[c], "exit")
  BY <1>1, <1>2, ClockTyped, ExitLeaves DEF TrapExit, RunsHere
<1>5. /\ intr' = intr /\ noff' = noff /\ intena' = intena /\ cur' = cur /\ lock' = lock
      /\ saved' = saved /\ state' = state /\ killed' = killed /\ started' = started
      /\ first' = first /\ ticks' = ticks /\ ticks0' = ticks0 /\ n' = n
      /\ lapsed' = lapsed
  BY DEF TrapExit, cpuvars, procvars, bootvars, clockvars
<1>6. TypeOK'
  <2>1. FramesTyped'
    BY <1>3 DEF Leaves
  <2> QED
    BY <1>5, <2>1 DEF ClockInv, TypeOK, FramesTyped, FrameSet
<1>7. HoldsRight(c) /\ CountsRight(c)
  BY DEF ClockInv, LocksHeld, IntrState
<1>8. PlacesOK'
  BY <1>1, <1>2, <1>3, ThreadFacts
     DEF ClockInv, PlacesOK, Leaves, SchedPlaces, ProcPlaces, TrapPlaces, Interruptible,
     RunsHere
<1>9. Local(c)
  BY <1>1, <1>3, <1>5 DEF Local, ViewsLocal, Leaves, RunsHere
<1>10. OnCpu' /\ OffCpu'
  BY <1>1, <1>2, <1>3, <1>9, LocalCpu DEF Leaves, RunsHere
<1>11. OthersKept(c)
  BY <1>1, <1>2, <1>3, <1>5, <1>7, ThreadFacts
     DEF ClockInv, TypeOK, HoldsRight, OthersKept, Leaves, RunsHere
<1>12. HoldsRight(c)'
  BY <1>1, <1>2, <1>3, <1>5, <1>7, ThreadFacts
     DEF ClockInv, HoldsRight, TypeOK, Leaves, RunsHere
<1>13. CountsRight(c)'
  BY <1>1, <1>2, <1>3, <1>5, <1>7, ThreadFacts
     DEF ClockInv, TypeOK, CountsRight, Leaves, RunsHere, Pending, Interruptible
<1>14. LocksHeld' /\ IntrState'
  BY <1>11, <1>12, <1>13, OthersRight
<1>15. BootOrder'
  BY <1>1, <1>2, <1>3, <1>5, <1>9, LocalBoot DEF Leaves, RunsHere
<1>16. TimeCounted'
  BY <1>1, <1>2, <1>3, <1>5, ThreadFacts, LocalTime DEF Leaves, RunsHere, TimedPlaces
<1>17. SleepersTimed'
  BY <1>1, <1>2, <1>5, <1>11, LocalSleepers
<1> QED
  BY <1>6, <1>8, <1>10, <1>14, <1>15, <1>16, <1>17 DEF ClockInv

\* A trap of the scheduler.
LEMMA NoYieldKeeps ==
  ASSUME ClockInv, NEW c \in Cpus, NoYield(c)
  PROVE  ClockInv'
<1>1. RunsHere(c) /\ ViewsTyped
  BY Here, ClockTyped
<1>2. place[cur[c]] = "timer" /\ cur[c] \in trapped
  BY <1>1 DEF NoYield, At, RunsHere, TrapPlaces
<1>3. Moves(cur[c], "trapret", arg[cur[c]])
  BY GotoHere, "trapret" \in Places, <1>1, <1>2 DEF NoYield, Places, TrapPlaces, RunsHere
<1>5. /\ intr' = intr /\ noff' = noff /\ intena' = intena /\ cur' = cur /\ lock' = lock
      /\ saved' = saved /\ state' = state /\ killed' = killed /\ started' = started
      /\ first' = first /\ ticks' = ticks /\ ticks0' = ticks0 /\ n' = n
      /\ lapsed' = lapsed
  BY DEF NoYield, cpuvars, procvars, bootvars, clockvars
<1>6. TypeOK'
  <2>1. FramesTyped'
    BY <1>3 DEF Moves
  <2> QED
    BY <1>5, <2>1 DEF ClockInv, TypeOK, FramesTyped, FrameSet
<1>7. HoldsRight(c) /\ CountsRight(c)
  BY DEF ClockInv, LocksHeld, IntrState
<1>8. PlacesOK'
  BY <1>1, <1>2, <1>3, ThreadFacts
     DEF ClockInv, PlacesOK, Moves, SchedPlaces, ProcPlaces, TrapPlaces, Interruptible, RunsHere
<1>9. Local(c)
  BY <1>1, <1>3, <1>5 DEF Local, ViewsLocal, Moves, RunsHere
<1>10. OnCpu' /\ OffCpu'
  BY <1>1, <1>2, <1>3, <1>9, LocalCpu DEF Moves, RunsHere
<1>11. OthersKept(c)
  BY <1>1, <1>2, <1>3, <1>5, <1>7, ThreadFacts
     DEF ClockInv, TypeOK, HoldsRight, OthersKept, Moves, RunsHere
<1>12. HoldsRight(c)'
  BY <1>1, <1>2, <1>3, <1>5, <1>7, ThreadFacts DEF ClockInv, HoldsRight, TypeOK, Moves, RunsHere
<1>13. CountsRight(c)'
  BY <1>1, <1>2, <1>3, <1>5, <1>7, ThreadFacts
     DEF ClockInv, TypeOK, CountsRight, Moves, RunsHere, Pending, Interruptible
<1>14. LocksHeld' /\ IntrState'
  BY <1>11, <1>12, <1>13, OthersRight
<1>15. BootOrder'
  BY <1>1, <1>2, <1>3, <1>5, <1>9, LocalBoot DEF Moves, RunsHere
<1>16. TimeCounted'
  BY <1>1, <1>2, <1>3, <1>5, ThreadFacts, LocalTime DEF Moves, RunsHere, TimedPlaces
<1>17. SleepersTimed'
  BY <1>1, <1>2, <1>5, <1>11, LocalSleepers
<1> QED
  BY <1>6, <1>8, <1>10, <1>14, <1>15, <1>16, <1>17 DEF ClockInv

\* yield() switches to the scheduler.
LEMMA YieldKeeps ==
  ASSUME ClockInv, NEW c \in Cpus, Yield(c)
  PROVE  ClockInv'
<1>1. RunsHere(c) /\ ViewsTyped
  BY Here, ClockTyped
<1>2. place[cur[c]] = "yieldlock" /\ cur[c] \in trapped /\ cur[c] \in Procs
      /\ lock[cur[c]] = NoCpu
      /\ cur[c] # Sched(c) /\ Sched(c) \notin trapped /\ place[Sched(c)] = "back"
      /\ arg[Sched(c)] = cur[c]
  BY <1>1, ThreadFacts DEF Yield, AtProc, At, RunsHere, TrapPlaces, ClockInv, OnCpu, Take
<1>3. Moves(cur[c], "yielded", arg[cur[c]])
  BY GotoHere, "yielded" \in Places, <1>1, <1>2
     DEF Yield, Places, TrapPlaces, RunsHere, Take, Switch
<1>4. /\ cur' = [cur EXCEPT ![c] = Sched(c)] /\ lock' = [lock EXCEPT ![cur[c]] = c]
      /\ saved' = [saved EXCEPT ![cur[c]] = intena[c]]
      /\ state' = [state EXCEPT ![cur[c]] = "RUNNABLE"]
  BY <1>1, <1>2 DEF Yield, RunsHere, Take, Switch
<1>5. /\ intr' = intr /\ noff' = noff /\ intena' = intena /\ killed' = killed
      /\ started' = started /\ first' = first /\ ticks' = ticks /\ ticks0' = ticks0
      /\ n' = n /\ lapsed' = lapsed
  BY DEF Yield, Take, Switch, cpuvars, bootvars, clockvars
<1>6. TypeOK'
  <2>1. FramesTyped'
    BY <1>3 DEF Moves
  <2>2. cur' \in [Cpus -> Threads]
    BY <1>1, <1>2, <1>4, ThreadFacts DEF ClockInv, TypeOK, RunsHere
  <2>3. lock' \in [Locks -> Cpus \cup {NoCpu}]
    BY <1>1, <1>2, <1>4, ThreadFacts DEF ClockInv, TypeOK, RunsHere
  <2>4. saved' \in [Procs -> BOOLEAN]
    BY <1>2, <1>4 DEF ClockInv, TypeOK
  <2>5. state' \in [Procs -> {"UNUSED", "RUNNABLE", "RUNNING", "SLEEPING", "ZOMBIE"}]
    BY <1>1, <1>2, <1>4, ThreadFacts DEF ClockInv, TypeOK, RunsHere
  <2> QED
    BY <1>5, <2>1, <2>2, <2>3, <2>4, <2>5 DEF ClockInv, TypeOK, FramesTyped, FrameSet
<1>7. HoldsRight(c) /\ CountsRight(c)
  BY DEF ClockInv, LocksHeld, IntrState
<1>8. PlacesOK'
  BY <1>1, <1>2, <1>3, ThreadFacts
     DEF ClockInv, PlacesOK, Moves, SchedPlaces, ProcPlaces, TrapPlaces, Interruptible, RunsHere
<1>9. ViewsLocal(c)
  BY <1>1, <1>3 DEF ViewsLocal, Moves, RunsHere
<1>10. OnCpu' /\ OffCpu'
  BY <1>1, <1>2, <1>3, <1>4, <1>7, <1>9, SwitchCpu DEF Moves, RunsHere, CountsRight
<1>11. OthersKept(c)
  <2>1. \A d \in Cpus : d # c => cur'[d] = cur[d]
    BY <1>4 DEF ClockInv, TypeOK
  <2> QED
    BY <1>1, <1>2, <1>3, <1>4, <1>5, <2>1, ThreadFacts, LockMoved
<1>12. HoldsRight(c)'
  <2>1. cur'[c] = Sched(c) /\ place'[Sched(c)] = "back" /\ arg'[Sched(c)] = cur[c]
    BY <1>1, <1>2, <1>3, <1>4, ThreadFacts DEF ClockInv, TypeOK, Moves, RunsHere
  <2>2. /\ lock'[tickslock] = lock[tickslock]
        /\ \A p \in Procs : lock'[p] = IF p = cur[c] THEN c ELSE lock[p]
    BY <1>2, <1>4, ThreadFacts DEF ClockInv, TypeOK
  <2>3. lock[tickslock] # c /\ \A p \in Procs : lock[p] # c
    BY <1>2, <1>7 DEF HoldsRight
  <2> QED
    BY <2>1, <2>2, <2>3, ThreadFacts DEF HoldsRight
<1>13. CountsRight(c)'
  BY <1>1, <1>2, <1>3, <1>4, <1>5, <1>7, ThreadFacts
     DEF ClockInv, TypeOK, CountsRight, Moves, RunsHere, Pending, Interruptible
<1>14. LocksHeld' /\ IntrState'
  BY <1>11, <1>12, <1>13, OthersRight
<1>15. BootOrder'
  BY <1>1, <1>2, <1>3, <1>4, <1>5, ThreadFacts, StateBoot
     DEF ClockInv, BootOrder, Moves, RunsHere
<1>16. TimeCounted'
  BY <1>1, <1>2, <1>3, <1>5, ThreadFacts, LocalTime DEF Moves, RunsHere, TimedPlaces
<1>17. SleepersTimed'
  <2>1. \A p \in Procs : state'[p] = "SLEEPING" =>
          state[p] = "SLEEPING" /\ n'[p] = n[p] /\ ticks0'[p] = ticks0[p]
    BY <1>2, <1>4, <1>5 DEF ClockInv, TypeOK
  <2> QED
    BY <1>2, <1>5, <1>11, <2>1, LocalSleepers
<1> QED
  BY <1>6, <1>8, <1>10, <1>14, <1>15, <1>16, <1>17 DEF ClockInv

\* yield() releases p->lock.
LEMMA YieldedKeeps ==
  ASSUME ClockInv, NEW c \in Cpus, Yielded(c)
  PROVE  ClockInv'
<1>1. RunsHere(c) /\ ViewsTyped
  BY Here, ClockTyped
<1>2. place[cur[c]] = "yielded" /\ cur[c] \in trapped /\ cur[c] \in Procs
  BY <1>1 DEF Yielded, AtProc, At, RunsHere, TrapPlaces
<1>3. Moves(cur[c], "trapret", arg[cur[c]])
  BY GotoHere, "trapret" \in Places, <1>1, <1>2 DEF Yielded, Places, TrapPlaces, RunsHere
<1>4. /\ intr' = [intr EXCEPT ![c] = @ \/ (noff[c] = 1 /\ intena[c])]
      /\ noff' = [noff EXCEPT ![c] = @ - 1] /\ lock' = [lock EXCEPT ![cur[c]] = NoCpu]
  BY <1>1, <1>2 DEF Yielded, RunsHere, Release, PopOff
<1>5. /\ intena' = intena /\ cur' = cur /\ saved' = saved /\ state' = state
      /\ killed' = killed /\ started' = started /\ first' = first /\ ticks' = ticks
      /\ ticks0' = ticks0 /\ n' = n /\ lapsed' = lapsed
  BY DEF Yielded, Release, PopOff, procvars, bootvars, clockvars
<1>6. TypeOK'
  <2>1. FramesTyped'
    BY <1>3 DEF Moves
  <2>2. intr' \in [Cpus -> BOOLEAN]
    BY <1>4 DEF ClockInv, TypeOK
  <2>3. noff' \in [Cpus -> Nat]
    BY <1>2, <1>4, ClockAssumption DEF ClockInv, TypeOK, IntrState, CountsRight, Pending
  <2>4. lock' \in [Locks -> Cpus \cup {NoCpu}]
    BY <1>1, <1>2, <1>4, ThreadFacts DEF ClockInv, TypeOK, RunsHere
  <2> QED
    BY <1>5, <2>1, <2>2, <2>3, <2>4 DEF ClockInv, TypeOK, FramesTyped, FrameSet
<1>7. HoldsRight(c) /\ CountsRight(c)
  BY DEF ClockInv, LocksHeld, IntrState
<1>8. PlacesOK'
  BY <1>1, <1>2, <1>3, ThreadFacts
     DEF ClockInv, PlacesOK, Moves, SchedPlaces, ProcPlaces, TrapPlaces, Interruptible, RunsHere
<1>9. Local(c)
  BY <1>1, <1>3, <1>5 DEF Local, ViewsLocal, Moves, RunsHere
<1>10. OnCpu' /\ OffCpu'
  BY <1>1, <1>2, <1>3, <1>9, LocalCpu DEF Moves, RunsHere
<1>11. OthersKept(c) /\ HoldsRight(c)'
  <2>1. /\ cur[c] \in Locks /\ lock[cur[c]] = c
        /\ \A r \in Locks : lock[r] = c => r = cur[c]
    BY <1>1, <1>2, <1>7, ThreadFacts DEF HoldsRight, RunsHere
  <2>2. "trapret" \notin LockPlaces
    BY DEF LockPlaces
  <2> QED
    BY <1>1, <1>3, <1>4, <1>5, <1>7, <2>1, <2>2, Released
<1>13. CountsRight(c)'
  BY <1>1, <1>2, <1>3, <1>4, <1>5, <1>7, ThreadFacts
     DEF ClockInv, TypeOK, CountsRight, Moves, RunsHere, Pending, Interruptible
<1>14. LocksHeld' /\ IntrState'
  BY <1>11, <1>13, OthersRight
<1>15. BootOrder'
  BY <1>1, <1>2, <1>3, <1>5, <1>9, LocalBoot DEF Moves, RunsHere
<1>16. TimeCounted'
  BY <1>1, <1>2, <1>3, <1>5, ThreadFacts, LocalTime DEF Moves, RunsHere, TimedPlaces
<1>17. SleepersTimed'
  BY <1>1, <1>2, <1>5, <1>11, LocalSleepers
<1> QED
  BY <1>6, <1>8, <1>10, <1>14, <1>15, <1>16, <1>17 DEF ClockInv

\* A handler returns.
LEMMA TrapReturnKeeps ==
  ASSUME ClockInv, NEW c \in Cpus, TrapReturn(c)
  PROVE  ClockInv'
<1>1. RunsHere(c) /\ ViewsTyped
  BY Here, ClockTyped
<1>2. place[cur[c]] = "trapret" /\ cur[c] \in trapped
  BY <1>1 DEF TrapReturn, At, RunsHere, TrapPlaces
<1>3. Pops(cur[c])
  BY <1>1, <1>2, ClockTyped, ReturnPops DEF TrapReturn, RunsHere
<1>4. intr' = [intr EXCEPT ![c] = TRUE]
  BY <1>1, <1>2 DEF TrapReturn, RunsHere
<1>5. /\ noff' = noff /\ intena' = intena /\ cur' = cur /\ lock' = lock /\ saved' = saved
      /\ state' = state /\ killed' = killed /\ started' = started /\ first' = first
      /\ ticks' = ticks /\ ticks0' = ticks0 /\ n' = n /\ lapsed' = lapsed
  BY DEF TrapReturn, procvars, bootvars, clockvars
<1>6. TypeOK'
  <2>1. FramesTyped'
    BY <1>3 DEF Pops
  <2>2. intr' \in [Cpus -> BOOLEAN]
    BY <1>4 DEF ClockInv, TypeOK
  <2> QED
    BY <1>5, <2>1, <2>2 DEF ClockInv, TypeOK, FramesTyped, FrameSet
<1>7. HoldsRight(c) /\ CountsRight(c)
  BY DEF ClockInv, LocksHeld, IntrState
<1>8. PlacesOK'
  BY <1>1, <1>2, <1>3, ThreadFacts
     DEF ClockInv, PlacesOK, Pops, SchedPlaces, ProcPlaces, TrapPlaces, Interruptible, RunsHere
<1>9. Local(c)
  BY <1>1, <1>3, <1>5 DEF Local, ViewsLocal, Pops, RunsHere
<1>10. OnCpu' /\ OffCpu'
  BY <1>1, <1>2, <1>3, <1>9, LocalCpu DEF Pops, RunsHere, ClockInv, PlacesOK, Interruptible
<1>11. OthersKept(c)
  BY <1>1, <1>2, <1>3, <1>4, <1>5, <1>7, ThreadFacts
     DEF ClockInv, TypeOK, HoldsRight, OthersKept, Pops, RunsHere
<1>12. HoldsRight(c)'
  BY <1>1, <1>2, <1>3, <1>4, <1>5, <1>7, ThreadFacts
     DEF ClockInv, HoldsRight, TypeOK, Pops, RunsHere, PlacesOK, Interruptible
<1>13. CountsRight(c)'
  <2>1. /\ cur'[c] = cur[c] /\ place'[cur[c]] = base[cur[c]] /\ noff'[c] = noff[c]
        /\ intr'[c] = TRUE
    BY <1>1, <1>3, <1>4, <1>5 DEF Pops, RunsHere, ClockInv, TypeOK
  <2>2. noff[c] = 0
    BY <1>2, <1>7 DEF CountsRight, Pending
  <2>3. base[cur[c]] \in Interruptible
    BY <1>1, <1>2 DEF ClockInv, PlacesOK, RunsHere
  <2> QED
    BY <2>1, <2>2, <2>3 DEF CountsRight, Pending, Interruptible
<1>14. LocksHeld' /\ IntrState'
  BY <1>11, <1>12, <1>13, OthersRight
<1>15. BootOrder'
  BY <1>1, <1>2, <1>3, <1>5, <1>9, LocalBoot DEF Pops, RunsHere
<1>16. TimeCounted'
  BY <1>1, <1>2, <1>3, <1>5, ThreadFacts, LocalTime DEF Pops, RunsHere, TimedPlaces
<1>17. SleepersTimed'
  BY <1>1, <1>2, <1>5, <1>11, LocalSleepers
<1> QED
  BY <1>6, <1>8, <1>10, <1>14, <1>15, <1>16, <1>17 DEF ClockInv

-----------------------------------------------------------------------------
(* The invariant *)

\* Every thread begins where start() or allocproc() puts it.
LEMMA InitViews ==
  ASSUME Init
  PROVE  /\ FramesTyped /\ trapped = {}
         /\ \A t \in Threads :
              /\ place[t] = (IF t \in Procs THEN "forkret" ELSE "main") /\ base[t] = place[t]
              /\ arg[t] = 1 /\ baseArg[t] = 1
<1>1. frame = [t \in Threads |-> <<Frame(IF t \in Procs THEN "forkret" ELSE "main", 1)>>]
  BY DEF Init, start
<1>2. \A l \in Places : Frame(l, 1) \in FrameSet /\ Frame(l, 1).at = l /\ Frame(l, 1).i = 1
  BY DEF Frame, FrameSet
<1>3. \A t \in Threads : (IF t \in Procs THEN "forkret" ELSE "main") \in Places
  BY DEF Places, ProcPlaces, SchedPlaces
<1>4. ASSUME NEW t \in Threads
      PROVE  /\ frame[t] \in Seq(FrameSet) /\ Len(frame[t]) = 1
             /\ place[t] = (IF t \in Procs THEN "forkret" ELSE "main") /\ base[t] = place[t]
             /\ arg[t] = 1 /\ baseArg[t] = 1
  <2>1. PICK l \in Places : l = IF t \in Procs THEN "forkret" ELSE "main"
    BY <1>3
  <2>2. PICK f \in FrameSet : f = Frame(l, 1) /\ f.at = l /\ f.i = 1
    BY <1>2
  <2>3. frame[t] = <<f>>
    BY <1>1, <2>1, <2>2
  <2>4. frame[t] \in Seq(FrameSet) /\ Len(frame[t]) = 1 /\ Head(frame[t]) = f /\ frame[t][1] = f
    BY <2>3
  <2>5. place[t] = l /\ arg[t] = 1 /\ base[t] = l /\ baseArg[t] = 1
    BY <2>2, <2>4 DEF place, arg, base, baseArg
  <2> QED
    BY <2>1, <2>4, <2>5
<1>5. FramesTyped
  BY <1>1, <1>4 DEF FramesTyped
<1>6. trapped = {}
  <2>1. \A t \in Threads : Len(frame[t]) # 2
    BY <1>4
  <2> QED
    BY <2>1 DEF trapped
<1> QED
  BY <1>4, <1>5, <1>6

\* The first state.
LEMMA InitInv == Init => ClockInv
<1> SUFFICES ASSUME Init PROVE ClockInv
  OBVIOUS
<1>1. /\ FramesTyped /\ trapped = {}
      /\ \A t \in Threads :
           /\ place[t] = (IF t \in Procs THEN "forkret" ELSE "main") /\ base[t] = place[t]
           /\ arg[t] = 1 /\ baseArg[t] = 1
  BY InitViews
<1>2. TypeOK
  <2>1. /\ intr \in [Cpus -> BOOLEAN] /\ intena \in [Cpus -> BOOLEAN] /\ noff \in [Cpus -> Nat]
        /\ cur \in [Cpus -> Threads] /\ lock \in [Locks -> Cpus \cup {NoCpu}]
    BY ThreadFacts DEF Init, start
  <2>2. /\ saved \in [Procs -> BOOLEAN] /\ killed \subseteq Procs
        /\ state \in [Procs -> {"UNUSED", "RUNNABLE", "RUNNING", "SLEEPING", "ZOMBIE"}]
        /\ started \in BOOLEAN /\ first \in BOOLEAN
    BY DEF Init
  <2>3. 0 \in 0..(UINT - 1) /\ 0 \in 0..MaxN
    BY ClockAssumption
  <2>4. /\ ticks \in 0..(UINT - 1) /\ ticks0 \in [Procs -> 0..(UINT - 1)]
        /\ n \in [Procs -> 0..MaxN] /\ lapsed \in [Procs -> 0..MaxN]
    BY <2>3 DEF Init
  <2>5. frame \in [Threads -> Seq([at : Places, i : Nat])] /\ \A t \in Threads : Len(frame[t]) \in 1..2
    BY <1>1 DEF FramesTyped, FrameSet
  <2> QED
    BY <2>1, <2>2, <2>4, <2>5 DEF TypeOK
<1>3. PlacesOK
  BY <1>1, ThreadFacts DEF PlacesOK, SchedPlaces, ProcPlaces
<1>4. OnCpu
  BY ThreadFacts DEF Init, start, OnCpu
<1>5. OffCpu
  BY <1>1, ThreadFacts DEF Init, OffCpu
<1>6. LocksHeld
  BY <1>1, ThreadFacts DEF Init, start, LocksHeld, HoldsRight
<1>7. IntrState
  BY <1>1, ThreadFacts DEF Init, start, IntrState, CountsRight, Pending
<1>8. BootOrder
  BY <1>1, ThreadFacts DEF Init, BootOrder
<1>9. TimeCounted
  BY <1>1, ThreadFacts DEF Init, TimeCounted, TimeRight, TimedPlaces
<1>10. SleepersTimed
  BY DEF Init, SleepersTimed
<1> QED
  BY <1>2, <1>3, <1>4, <1>5, <1>6, <1>7, <1>8, <1>9, <1>10 DEF ClockInv

\* A step that changes nothing.
LEMMA StutterKeeps ==
  ASSUME ClockInv, UNCHANGED vars
  PROVE  ClockInv'
<1>1. Stays
  BY ClockTyped, FramesStay DEF vars
<1>2. /\ intr' = intr /\ noff' = noff /\ intena' = intena /\ cur' = cur /\ lock' = lock
      /\ frame' = frame /\ saved' = saved /\ state' = state /\ killed' = killed
      /\ started' = started /\ first' = first
      /\ ticks' = ticks /\ ticks0' = ticks0 /\ n' = n /\ lapsed' = lapsed
  BY DEF vars, cpuvars, procvars, bootvars, clockvars
<1>3. TypeOK'
  BY <1>2 DEF ClockInv, TypeOK
<1>4. PlacesOK' /\ OnCpu' /\ OffCpu'
  BY <1>1, <1>2 DEF ClockInv, PlacesOK, OnCpu, OffCpu, Stays
<1>5. LocksHeld' /\ IntrState' /\ BootOrder'
  BY <1>1, <1>2 DEF ClockInv, LocksHeld, IntrState, HoldsRight, CountsRight, BootOrder, Stays
<1>6. TimeCounted' /\ SleepersTimed'
  BY <1>1, <1>2 DEF ClockInv, TimeCounted, TimeRight, SleepersTimed, Waits, Stays
<1> QED
  BY <1>3, <1>4, <1>5, <1>6 DEF ClockInv

\* Every step keeps the invariant.
LEMMA StepInv == ClockInv /\ [Next]_vars => ClockInv'
<1> SUFFICES ASSUME ClockInv, [Next]_vars PROVE ClockInv'
  OBVIOUS
<1>1. ASSUME NEW c \in Cpus, Acquire(c) PROVE ClockInv'
  BY <1>1, OffScanKeeps, OffPauseKeeps, OffAgainKeeps, OffExitKeeps, OffTrapKeeps DEF Acquire
<1>2. ASSUME NEW c \in Cpus, Scheduler(c) PROVE ClockInv'
  BY <1>2, BootKeeps, BootWaitKeeps, IntrOnKeeps, IntrOffKeeps, ScanLockKeeps, RunKeeps,
     ScanNextKeeps DEF Scheduler
<1>3. ASSUME NEW c \in Cpus, Process(c) PROVE ClockInv'
  BY <1>3, ForkretKeeps, FsinitKeeps, ForkKeeps, ReturnToUserKeeps, PauseKeeps, PauseStartKeeps,
     PauseAgainKeeps, PauseEndKeeps, PauseSleepKeeps, SleepLockKeeps, SleepKeeps, WokenKeeps,
     ExitKeeps DEF Process
<1>4. ASSUME NEW c \in Cpus, Trap(c) PROVE ClockInv'
  BY <1>4, InterruptKeeps, OtherClockKeeps, TickKeeps, WakeupKeeps, TickEndKeeps, TrapExitKeeps,
     TrapYieldKeeps, NoYieldKeeps, YieldKeeps, YieldedKeeps, TrapReturnKeeps DEF Trap
<1>5. ASSUME NEW p \in Procs, Kill(p) PROVE ClockInv'
  BY <1>5, KillKeeps
<1>6. CASE UNCHANGED vars
  BY <1>6, StutterKeeps
<1> QED
  BY <1>1, <1>2, <1>3, <1>4, <1>5, <1>6 DEF Next

\* For any number of CPUs, processes and ticks: the places, the locks, the
\* interrupt counts and the clock stay consistent, through every interrupt and
\* every switch of threads.
THEOREM ClockInvariant == Spec => []ClockInv
<1>1. Init => ClockInv
  BY InitInv
<1>2. ClockInv /\ [Next]_vars => ClockInv'
  BY StepInv
<1> QED
  BY <1>1, <1>2, PTL DEF Spec

-----------------------------------------------------------------------------
(* What follows from it *)

\* The sets of locks that the code names are those the invariant speaks of.
LEMMA WantsNeeds ==
  ASSUME ClockInv, NEW c \in Cpus
  PROVE  /\ RunsHere(c) /\ HoldsRight(c) /\ CountsRight(c)
         /\ {l \in Locks : Holding(c, l)} = Needs(c)
         /\ \A l \in Spins(c) : l \in Locks /\ ~Holding(c, l)
         /\ \A l \in Wants(c) : l \in Locks /\ ~Holding(c, l)
<1>1. RunsHere(c) /\ HoldsRight(c) /\ CountsRight(c)
  BY Here DEF ClockInv, LocksHeld, IntrState
<1>2. place[cur[c]] \in {"scanlock", "look", "back"} => arg[cur[c]] \in Procs
      /\ cur[c] \notin Procs
  BY <1>1, ThreadFacts DEF ClockInv, PlacesOK, RunsHere, SchedPlaces, TrapPlaces
<1>3. place[cur[c]] \in {"sleeplock", "yieldlock", "exitlock", "sleep", "forkret", "woken", "yielded"}
        => cur[c] \in Procs
  BY <1>1 DEF ClockInv, PlacesOK, RunsHere, ProcPlaces
<1>4. ASSUME NEW l \in Locks PROVE lock[l] = c <=> l \in Needs(c)
  <2>1. CASE l = tickslock
    BY <1>1, <1>2, <1>3, <2>1, ThreadFacts DEF HoldsRight, Needs, RunsHere
  <2>2. CASE l \in Procs
    BY <1>1, <1>2, <1>3, <2>2, ThreadFacts DEF HoldsRight, Needs, RunsHere
  <2> QED
    BY <2>1, <2>2, ThreadFacts
<1>5. Needs(c) \subseteq Locks
  BY <1>1, <1>2, <1>3, ThreadFacts DEF Needs, RunsHere
<1>6. {l \in Locks : Holding(c, l)} = Needs(c)
  BY <1>4, <1>5 DEF Holding
<1>7. \A l \in Spins(c) : l \in Locks /\ ~Holding(c, l)
  BY <1>1, <1>2, <1>3, ThreadFacts DEF Spins, Holding, HoldsRight, RunsHere
<1>8. \A l \in Wants(c) : l \in Locks /\ ~Holding(c, l)
  <2>1. CASE place[cur[c]] = "wake"
    BY <1>1, <1>7, <2>1, ThreadFacts DEF Wants, At, Holding, HoldsRight, RunsHere
  <2>2. CASE place[cur[c]] # "wake"
    BY <1>1, <1>7, <2>2 DEF Wants, At, RunsHere
  <2> QED
    BY <2>1, <2>2
<1> QED
  BY <1>1, <1>6, <1>7, <1>8

\* Two different things are two.
LEMMA CountTwo ==
  ASSUME NEW a, NEW b, a # b
  PROVE  Cardinality({}) = 0 /\ Cardinality({a}) = 1 /\ Cardinality({a, b}) = 2
<1>1. Cardinality({}) = 0
  BY FS_EmptySet
<1>2. IsFiniteSet({a}) /\ Cardinality({a}) = 1
  BY FS_Singleton
<1>3. Cardinality({a} \cup {b}) = Cardinality({a}) + 1
  BY <1>2, FS_AddElement
<1>4. {a} \cup {b} = {a, b}
  OBVIOUS
<1> QED
  BY <1>1, <1>2, <1>3, <1>4

\* The locks of a CPU, counted.
LEMMA LocksCounted ==
  ASSUME ClockInv, NEW c \in Cpus
  PROVE  Cardinality(Needs(c)) + Cardinality(Spins(c)) = Pending(place[cur[c]])
<1>1. RunsHere(c)
  BY Here
<1>2. \A a, b : a # b => Cardinality({}) = 0 /\ Cardinality({a}) = 1 /\ Cardinality({a, b}) = 2
  BY CountTwo
<1>3. Cardinality({}) = 0 /\ \A a : Cardinality({a}) = 1
  <2>1. \A a : Cardinality({a}) = 1
    BY FS_Singleton
  <2> QED
    BY <2>1, FS_EmptySet
<1>4. CASE place[cur[c]] = "sleep"
  <2>1. cur[c] \in Procs
    BY <1>1, <1>4 DEF RunsHere, ProcPlaces
  <2>2. Needs(c) = {tickslock, cur[c]} /\ tickslock # cur[c]
    BY <1>1, <1>4, <2>1, ThreadFacts DEF Needs, RunsHere
  <2>3. Spins(c) = {}
    BY <1>1, <1>4 DEF Spins, RunsHere
  <2>4. Cardinality(Needs(c)) = 2
    <3>1. PICK a, b : a = tickslock /\ b = cur[c]
      OBVIOUS
    <3>2. Cardinality({a, b}) = 2
      BY <1>2, <2>2, <3>1
    <3> QED
      BY <2>2, <3>1, <3>2
  <2> QED
    BY <1>3, <1>4, <2>3, <2>4 DEF Pending
<1>5. CASE place[cur[c]] = "sleeplock"
  <2>1. Needs(c) = {tickslock} /\ Spins(c) = {cur[c]}
    BY <1>1, <1>5 DEF Needs, Spins, RunsHere
  <2>2. Cardinality(Needs(c)) = 1 /\ Cardinality(Spins(c)) = 1
    BY <1>3, <2>1, Zenon
  <2> QED
    BY <1>5, <2>2 DEF Pending
<1>6. CASE place[cur[c]] \in {"test", "wake", "forkret", "woken", "yielded", "look", "back"}
  <2>1. Spins(c) = {} /\ \E a : Needs(c) = {a}
    BY <1>1, <1>6 DEF Needs, Spins, RunsHere
  <2>2. Cardinality(Needs(c)) = 1 /\ Cardinality(Spins(c)) = 0
    BY <1>3, <2>1, Zenon
  <2> QED
    BY <1>6, <2>2 DEF Pending
<1>7. CASE place[cur[c]] \in {"pauselock", "againlock", "ticklock", "yieldlock", "exitlock", "scanlock"}
  <2>1. Needs(c) = {} /\ \E a : Spins(c) = {a}
    BY <1>1, <1>7 DEF Needs, Spins, RunsHere
  <2>2. Cardinality(Needs(c)) = 0 /\ Cardinality(Spins(c)) = 1
    BY <1>3, <2>1, Zenon
  <2> QED
    BY <1>7, <2>2 DEF Pending
<1>8. CASE place[cur[c]] \notin {"sleep", "sleeplock", "test", "wake", "forkret", "woken", "yielded",
             "look", "back", "pauselock", "againlock", "ticklock", "yieldlock", "exitlock", "scanlock"}
  <2>1. Needs(c) = {} /\ Spins(c) = {}
    BY <1>1, <1>8 DEF Needs, Spins, RunsHere
  <2> QED
    BY <1>3, <1>8, <2>1 DEF Pending
<1> QED
  BY <1>4, <1>5, <1>6, <1>7, <1>8

\* Interrupts and locks match.
LEMMA MatchedInv == ClockInv => InterruptsMatched
<1> SUFFICES ASSUME ClockInv, NEW c \in Cpus
             PROVE  /\ noff[c] = Cardinality({l \in Locks : Holding(c, l)}) + Cardinality(Spins(c))
                    /\ cur[c] \in Procs /\ Top(c).at \notin {"fsinit", "ret", "exit"} =>
                         (intr[c] <=> noff[c] = 0 /\ Len(frame[cur[c]]) = 1)
  BY DEF InterruptsMatched
<1>1. RunsHere(c) /\ CountsRight(c) /\ {l \in Locks : Holding(c, l)} = Needs(c)
  BY WantsNeeds
<1>2. noff[c] = Cardinality({l \in Locks : Holding(c, l)}) + Cardinality(Spins(c))
  BY <1>1, LocksCounted DEF CountsRight
<1>3. Len(frame[cur[c]]) = 1 <=> cur[c] \notin trapped
  <2>1. cur[c] \in Threads /\ Len(frame[cur[c]]) \in 1..2
    BY <1>1 DEF RunsHere, ClockInv, TypeOK
  <2>2. cur[c] \in trapped <=> Len(frame[cur[c]]) = 2
    BY <2>1 DEF trapped
  <2> QED
    BY <2>1, <2>2
<1>4. cur[c] \in Procs => place[cur[c]] # "zombie"
  BY <1>1 DEF RunsHere, ClockInv, OffCpu
<1>5. intr[c] => noff[c] = 0 /\ cur[c] \notin trapped
  BY <1>1 DEF RunsHere, CountsRight, Interruptible, Pending, TrapPlaces
<1>6. ASSUME cur[c] \in Procs, place[cur[c]] \notin {"fsinit", "ret", "exit"},
             noff[c] = 0, cur[c] \notin trapped
      PROVE  intr[c]
  <2>1. place[cur[c]] \in ProcPlaces
    BY <1>1, <1>6 DEF ClockInv, PlacesOK, RunsHere
  <2>2. Pending(place[cur[c]]) = 0
    BY <1>1, <1>6 DEF CountsRight
  <2>3. place[cur[c]] \in {"user", "pause", "again"}
    BY <1>4, <1>6, <2>1, <2>2 DEF ProcPlaces, Pending
  <2> QED
    BY <1>1, <2>3 DEF CountsRight
<1> QED
  BY <1>1, <1>2, <1>3, <1>5, <1>6 DEF RunsHere

\* The checks of the lock and trap code hold.
LEMMA NoPanicInv == ClockInv => NoPanic
<1> SUFFICES ASSUME ClockInv, NEW c \in Cpus
             PROVE  /\ \A l \in Wants(c) : ~Holding(c, l)
                    /\ \A l \in Needs(c) : Holding(c, l)
                    /\ Needs(c) # {} => ~intr[c] /\ noff[c] >= 1
                    /\ At(c, "yieldlock") \/ At(c, "exitlock") => noff[c] = 1 /\ ~intr[c]
                    /\ At(c, "sleep") => noff[c] = 2
                    /\ At(c, "trap") => ~intr[c]
                    /\ ~At(c, "main") => started
                    /\ first /\ cur[c] \in Procs => cur[c] = 1
  BY DEF NoPanic
<1>1. /\ RunsHere(c) /\ CountsRight(c) /\ {l \in Locks : Holding(c, l)} = Needs(c)
      /\ \A l \in Wants(c) : ~Holding(c, l)
  BY WantsNeeds
<1>2. \A l \in Needs(c) : Holding(c, l)
  BY <1>1
<1>3. Needs(c) # {} => ~intr[c] /\ noff[c] >= 1
  <2>1. Needs(c) # {} => place[cur[c]] \in {"test", "sleeplock", "wake", "sleep", "forkret", "woken",
                                            "yielded", "look", "back"}
    BY <1>1 DEF Needs, RunsHere
  <2> QED
    BY <1>1, <2>1 DEF CountsRight, Pending, Interruptible
<1>4. /\ At(c, "yieldlock") \/ At(c, "exitlock") => noff[c] = 1 /\ ~intr[c]
      /\ At(c, "sleep") => noff[c] = 2
      /\ At(c, "trap") => ~intr[c]
  BY <1>1 DEF At, RunsHere, CountsRight, Pending, Interruptible
<1>5. ~started => At(c, "main")
  <2>1. ~started => cur[c] \notin Procs /\ base[Sched(c)] = "main"
    BY <1>1 DEF ClockInv, BootOrder, RunsHere
  <2> QED
    BY <1>1, <2>1 DEF At, ClockInv, PlacesOK, RunsHere, Interruptible
<1>6. first /\ cur[c] \in Procs => cur[c] = 1
  BY <1>1 DEF ClockInv, BootOrder, RunsHere
<1> QED
  BY <1>1, <1>2, <1>3, <1>4, <1>5, <1>6

\* Who holds a process lock waits for nothing, and who holds tickslock only for
\* a process lock: so nobody waits in a circle.
LEMMA StuckInv == ClockInv => NeverStuck
<1> SUFFICES ASSUME ClockInv PROVE NeverStuck
  OBVIOUS
<1>1. NoPanic
  BY NoPanicInv
<1>2. ASSUME NEW c \in Cpus, NEW p \in Procs, lock[p] = c PROVE Wants(c) = {}
  <2>1. RunsHere(c) /\ HoldsRight(c)
    BY WantsNeeds
  <2>2. place[cur[c]] \in {"sleep", "forkret", "woken", "yielded", "look", "back"}
    BY <1>2, <2>1 DEF HoldsRight
  <2> QED
    BY <2>1, <2>2 DEF Wants, Spins, At, RunsHere
<1>3. ASSUME NEW S \in (SUBSET Cpus) \ {{}}
      PROVE  \E c \in S : \A l \in Wants(c) : lock[l] \notin S
  <2>1. \A c \in S : c \in Cpus /\ \A l \in Wants(c) : l \in Locks /\ lock[l] # c
    BY WantsNeeds DEF Holding
  <2>2. CASE \E p \in Procs : lock[p] \in S
    BY <1>2, <2>2
  <2>3. CASE (\A p \in Procs : lock[p] \notin S) /\ lock[tickslock] \in S
    <3>1. \A l \in Wants(lock[tickslock]) : l \in Procs
      BY <2>1, <2>3, ThreadFacts
    <3> QED
      BY <2>3, <3>1
  <2>4. CASE (\A p \in Procs : lock[p] \notin S) /\ lock[tickslock] \notin S
    <3>1. PICK c \in S : TRUE
      OBVIOUS
    <3> QED
      BY <2>1, <2>4, <3>1, ThreadFacts
  <2> QED
    BY <2>2, <2>3, <2>4
<1> QED
  BY <1>1, <1>3 DEF NeverStuck

\* A sleeper is on its way to be woken, or has to wait.
LEMMA SleeperInv == ClockInv => TickNotMissed
<1> SUFFICES ASSUME ClockInv, NEW p \in Procs, state[p] = "SLEEPING", ~Waits(p)
             PROVE  \E c \in Cpus : At(c, "wake") /\ Top(c).i <= p
  BY DEF TickNotMissed
<1>1. PICK c \in Cpus : place[cur[c]] = "wake" /\ arg[cur[c]] <= p
  BY DEF ClockInv, SleepersTimed
<1>2. RunsHere(c)
  BY Here
<1> QED
  BY <1>1, <1>2 DEF At, RunsHere

\* A pause that is over has lasted.
LEMMA PauseInv == ClockInv => NotEarly
<1> SUFFICES ASSUME ClockInv, NEW c \in Cpus, AtProc(c, "test"), ~Waits(cur[c])
             PROVE  lapsed[cur[c]] = n[cur[c]]
  BY DEF NotEarly
<1>1. RunsHere(c)
  BY Here
<1>2. PICK p \in Procs : p = cur[c]
  BY DEF AtProc
<1>3. base[p] = "test"
  BY <1>1, <1>2 DEF AtProc, At, RunsHere, TrapPlaces
<1>4. TimeRight(p)
  BY DEF ClockInv, TimeCounted
<1>5. n[p] \in Nat /\ lapsed[p] \in Nat
  BY ClockAssumption DEF ClockInv, TypeOK
<1>6. ~(lapsed[p] < n[p])
  BY <1>2, <1>3, <1>4 DEF TimeRight, TimedPlaces, Waits
<1>7. lapsed[p] <= n[p]
  BY <1>4 DEF TimeRight
<1> QED
  BY <1>2, <1>5, <1>6, <1>7

\* push_off() and pop_off() are matched across interrupts and switches: noff is
\* the number of locks the CPU holds or spins on, and a process has interrupts
\* on exactly where it should.
THEOREM IntrMatched == Spec => []InterruptsMatched
BY ClockInvariant, MatchedInv, PTL

\* No panic of acquire(), release(), pop_off(), sched() or kerneltrap() is
\* reached, and the CPUs never spin in a circle.
THEOREM CpusNeverStuck == Spec => []NeverStuck
BY ClockInvariant, StuckInv, PTL

\* clockintr() misses no process that sleeps in sys_pause().
THEOREM TicksNotMissed == Spec => []TickNotMissed
BY ClockInvariant, SleeperInv, PTL

\* sys_pause(n) ends only after n ticks, although ticks wraps.
THEOREM PausesNotEarly == Spec => []NotEarly
BY ClockInvariant, PauseInv, PTL
=============================================================================
