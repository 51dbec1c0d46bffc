---------------------------- MODULE VirtioDisk ----------------------------
(***************************************************************************)
(* The disk driver of xv6 (kernel/virtio_disk.c): processes that submit    *)
(* requests, the device that serves them in any order, and the interrupt   *)
(* handler.                                                                *)
(*                                                                         *)
(* vdisk_lock serialises virtio_disk_rw and virtio_disk_intr; what a       *)
(* process does between two sleeps is one step, the handler is split       *)
(* because the device, which knows no lock, runs next to it.  A process    *)
(* stands for the locked buffer it passes.                                 *)
(***************************************************************************)
EXTENDS Naturals, FiniteSets

CONSTANTS
  Procs,
  NUM,         \* descriptors
  RING,        \* entries of each ring (NUM in the code; fewer are enough)
  IDX,         \* 2^16 in the code: the ring indices wrap there
  None

ASSUME VirtioAssumption ==
  /\ NUM \in Nat /\ NUM >= 3
  /\ RING \in Nat /\ RING >= NUM \div 3
  /\ IDX \in Nat /\ \E m \in 2..IDX : IDX = m * RING
  /\ None \notin Procs
  /\ None \notin (0..NUM-1) \X (0..NUM-1) \X (0..NUM-1)

VARIABLES
  free,        \* descriptors with disk.free[i] = 1
  chain,       \* process -> idx[0..2] of its request, or None
  info,        \* disk.info[i].b
  status,      \* disk.info[i].status: "pending" is 0xff, "ok" is 0
  avail, availIdx,       \* the ring of requests
  used, usedIdx,         \* the ring of completions
  used_idx,              \* how far the driver has looked
  busy,        \* processes with b->disk = 1
  pc,          \* process -> where it is
  handler,     \* "idle" or "loop": the handler holds vdisk_lock
  devIdx, inflight, irq, \* the device: next request, being served, interrupt
  served,      \* processes whose request the device has carried out
  panic

driver == <<free, chain, info, avail, availIdx, used_idx, busy>>
device == <<used, usedIdx, devIdx, inflight, served, status>>
vars == <<free, chain, info, status, avail, availIdx, used, usedIdx, used_idx,
          busy, pc, handler, devIdx, inflight, irq, served, panic>>

Descs == 0..NUM-1
Entries == 0..RING-1
Pcs == {"idle", "alloc", "sleep_free", "sleep_buf", "check"}

TypeOK ==
  /\ free \subseteq Descs
  /\ chain \in [Procs -> (Descs \X Descs \X Descs) \cup {None}]
  /\ info \in [Descs -> Procs \cup {None}]
  /\ status \in [Descs -> {"pending", "ok"}]
  /\ avail \in [Entries -> Descs] /\ used \in [Entries -> Descs]
  /\ {availIdx, usedIdx, used_idx, devIdx} \subseteq 0..IDX-1
  /\ busy \subseteq Procs /\ served \subseteq Procs
  /\ pc \in [Procs -> Pcs]
  /\ handler \in {"idle", "loop"}
  /\ inflight \subseteq Descs
  /\ irq \in BOOLEAN /\ panic \in BOOLEAN

\* virtio_disk_init()
Init ==
  /\ free = Descs
  /\ chain = [p \in Procs |-> None]
  /\ info = [i \in Descs |-> None]
  /\ status = [i \in Descs |-> "ok"]
  /\ avail = [i \in Entries |-> 0] /\ availIdx = 0
  /\ used = [i \in Entries |-> 0] /\ usedIdx = 0
  /\ used_idx = 0
  /\ busy = {} /\ served = {}
  /\ pc = [p \in Procs |-> "idle"]
  /\ handler = "idle"
  /\ devIdx = 0 /\ inflight = {}
  /\ irq = FALSE /\ panic = FALSE

-----------------------------------------------------------------------------
Lowest(S) == CHOOSE i \in S : \A j \in S : i <= j

\* alloc3_desc(): the three lowest free descriptors.
Alloc3 ==
  LET a == Lowest(free)
      b == Lowest(free \ {a})
      c == Lowest(free \ {a, b})
  IN  <<a, b, c>>

Chained(p) == {chain[p][j] : j \in 1..3}

Inc(x) == (x + 1) % IDX

\* vdisk_lock is free, the kernel runs.
Enter == handler = "idle" /\ ~panic

\* wakeup(&disk.free[0]) by p, which goes on at l.
WakeAllocators(p, l) ==
  pc' = [q \in Procs |-> IF q = p THEN l
                         ELSE IF pc[q] = "sleep_free" THEN "alloc" ELSE pc[q]]

-----------------------------------------------------------------------------
\* bread() or bwrite() calls virtio_disk_rw().
Call(p) ==
  /\ ~panic
  /\ pc[p] = "idle"
  /\ pc' = [pc EXCEPT ![p] = "alloc"]
  /\ UNCHANGED <<driver, device, handler, irq, panic>>

\* Three descriptors are free: format them, publish the chain, notify the
\* device, and sleep until the handler clears b->disk.
Submit(p) ==
  /\ Enter
  /\ pc[p] = "alloc"
  /\ Cardinality(free) >= 3
  /\ chain' = [chain EXCEPT ![p] = Alloc3]
  /\ free' = free \ {Alloc3[j] : j \in 1..3}
  /\ status' = [status EXCEPT ![Alloc3[1]] = "pending"]
  /\ busy' = busy \cup {p}
  /\ info' = [info EXCEPT ![Alloc3[1]] = p]
  /\ avail' = [avail EXCEPT ![availIdx % RING] = Alloc3[1]]
  /\ availIdx' = Inc(availIdx)
  /\ pc' = [pc EXCEPT ![p] = "sleep_buf"]
  /\ UNCHANGED <<used_idx, used, usedIdx, devIdx, inflight, served, handler, irq,
                 panic>>

AllocFail_Leak(p) ==           \* mutant: keeps what alloc_desc() gave it
  /\ Enter
  /\ pc[p] = "alloc"
  /\ Cardinality(free) < 3
  /\ free' = {}
  /\ pc' = [pc EXCEPT ![p] = "sleep_free"]
  /\ UNCHANGED <<chain, info, avail, availIdx, used_idx, busy, device, handler,
                 irq, panic>>

\* Fewer are free: what was taken is given back, which wakes the others that
\* wait for descriptors, and the process sleeps.
AllocFail(p) ==
  /\ Enter
  /\ pc[p] = "alloc"
  /\ Cardinality(free) < 3
  /\ IF free = {} THEN pc' = [pc EXCEPT ![p] = "sleep_free"]
                  ELSE WakeAllocators(p, "sleep_free")
  /\ UNCHANGED <<driver, device, handler, irq, panic>>

\* Woken by the handler: b->disk is tested again; then free_chain().
Recheck(p) ==
  /\ Enter
  /\ pc[p] = "check"
  /\ p \in busy
  /\ pc' = [pc EXCEPT ![p] = "sleep_buf"]
  /\ UNCHANGED <<driver, device, handler, irq, panic>>

Finish_NoRecheck(p) ==         \* mutant: if instead of while(b->disk == 1)
  /\ Enter
  /\ pc[p] = "check"
  /\ info' = [info EXCEPT ![chain[p][1]] = None]
  /\ panic' = (Chained(p) \cap free # {})
  /\ free' = free \cup Chained(p)
  /\ chain' = [chain EXCEPT ![p] = None]
  /\ served' = served \ {p}
  /\ WakeAllocators(p, "idle")
  /\ UNCHANGED <<status, avail, availIdx, used_idx, busy, used, usedIdx, devIdx,
                 inflight, handler, irq>>

Finish_NoWakeup(p) ==          \* mutant: free_desc() wakes nobody
  /\ Enter
  /\ pc[p] = "check"
  /\ p \notin busy
  /\ info' = [info EXCEPT ![chain[p][1]] = None]
  /\ free' = free \cup Chained(p)
  /\ chain' = [chain EXCEPT ![p] = None]
  /\ served' = served \ {p}
  /\ pc' = [pc EXCEPT ![p] = "idle"]
  /\ UNCHANGED <<status, avail, availIdx, used_idx, busy, used, usedIdx, devIdx,
                 inflight, handler, irq, panic>>

Finish(p) ==
  /\ Enter
  /\ pc[p] = "check"
  /\ p \notin busy
  /\ info' = [info EXCEPT ![chain[p][1]] = None]
  /\ panic' = (Chained(p) \cap free # {})          \* free_desc 2
  /\ free' = free \cup Chained(p)
  /\ chain' = [chain EXCEPT ![p] = None]
  /\ served' = served \ {p}
  /\ WakeAllocators(p, "idle")
  /\ UNCHANGED <<status, avail, availIdx, used_idx, busy, used, usedIdx, devIdx,
                 inflight, handler, irq>>

-----------------------------------------------------------------------------
\* virtio_disk_intr(): acknowledge first ...
Intr ==
  /\ Enter
  /\ irq
  /\ irq' = FALSE
  /\ handler' = "loop"
  /\ UNCHANGED <<driver, device, pc, panic>>

\* ... then one turn of the loop for each new entry of the used ring (a bad
\* status panics, a null info[id].b faults) ...
IntrEntry ==
  /\ handler = "loop" /\ ~panic
  /\ used_idx # usedIdx
  /\ LET id == used[used_idx % RING]
     IN  IF status[id] # "ok" \/ info[id] = None
         THEN panic' = TRUE /\ UNCHANGED <<busy, pc, used_idx>>
         ELSE /\ busy' = busy \ {info[id]}
              /\ pc' = [pc EXCEPT ![info[id]] =
                          IF @ = "sleep_buf" THEN "check" ELSE @]
              /\ used_idx' = Inc(used_idx)
              /\ UNCHANGED panic
  /\ UNCHANGED <<free, chain, info, avail, availIdx, device, handler, irq>>

IntrReturn_AnyTime ==          \* mutant: if instead of while(used_idx != ...)
  /\ handler = "loop" /\ ~panic
  /\ handler' = "idle"
  /\ UNCHANGED <<driver, device, pc, irq, panic>>

\* ... until the driver has caught up.
IntrReturn ==
  /\ handler = "loop" /\ ~panic
  /\ used_idx = usedIdx
  /\ handler' = "idle"
  /\ UNCHANGED <<driver, device, pc, irq, panic>>

-----------------------------------------------------------------------------
\* The device (external) takes a request from the ring ...
DeviceTake ==
  /\ devIdx # availIdx
  /\ inflight' = inflight \cup {avail[devIdx % RING]}
  /\ devIdx' = Inc(devIdx)
  /\ UNCHANGED <<driver, used, usedIdx, served, status, pc, handler, irq, panic>>

\* ... and completes those it has in any order.
DeviceComplete(id) ==
  /\ id \in inflight
  /\ inflight' = inflight \ {id}
  /\ served' = served \cup {info[id]}
  /\ status' = [status EXCEPT ![id] = "ok"]
  /\ used' = [used EXCEPT ![usedIdx % RING] = id]
  /\ usedIdx' = Inc(usedIdx)
  /\ irq' = TRUE
  /\ UNCHANGED <<driver, devIdx, pc, handler, panic>>

\* kkill() makes a sleeper runnable before what it waits for has happened.
KillWakes(p) ==
  /\ ~panic
  /\ pc[p] \in {"sleep_free", "sleep_buf"}
  /\ pc' = [pc EXCEPT ![p] = IF @ = "sleep_free" THEN "alloc" ELSE "check"]
  /\ UNCHANGED <<driver, device, handler, irq, panic>>

Step(p) == Submit(p) \/ AllocFail(p) \/ Recheck(p) \/ Finish(p)
Handler == Intr \/ IntrEntry \/ IntrReturn
Device == DeviceTake \/ \E id \in Descs : DeviceComplete(id)

Next ==
  \/ \E p \in Procs : Call(p) \/ Step(p) \/ KillWakes(p)
  \/ Handler
  \/ Device

Spec == Init /\ [][Next]_vars

\* The device answers every request, the CPU takes the interrupt (both only
\* have to be possible for good), and the scheduler runs a woken process; it
\* gets vdisk_lock in the end although others take it in between.
Fairness ==
  /\ WF_vars(DeviceTake)
  /\ \A id \in Descs : WF_vars(DeviceComplete(id))
  /\ WF_vars(Handler)
  /\ \A p \in Procs : SF_vars(Step(p))

FairSpec == Spec /\ Fairness

-----------------------------------------------------------------------------
(* Properties *)

\* Every descriptor is free or belongs to exactly one request in progress: no
\* leak on the failure path of alloc3_desc, no double free, no sharing.
DescriptorsOwned ==
  /\ \A p \in Procs : chain[p] # None =>
       /\ Chained(p) \cap free = {}
       /\ Cardinality(Chained(p)) = 3
  /\ \A p, q \in Procs : p # q /\ chain[p] # None /\ chain[q] # None =>
       Chained(p) \cap Chained(q) = {}
  /\ free \cup UNION {Chained(p) : p \in {q \in Procs : chain[q] # None}} = Descs

\* virtio_disk_rw() returns only when the device has carried out this very
\* request, however completions and interrupts were ordered and whoever woke the
\* process: kkill() wakes it too.
DoneMeansServed ==
  [][\A p \in Procs : pc[p] # "idle" /\ pc'[p] = "idle" => p \in served]_vars

\* A submitted request completes: no completion is lost between the
\* acknowledgement and the loop of the handler.
RequestCompletes ==
  \A p \in Procs : (pc[p] = "sleep_buf") ~> (pc[p] = "idle")

\* A process that waits for descriptors is woken.
AllocatorWoken ==
  \A p \in Procs : (pc[p] = "sleep_free") ~> (pc[p] # "sleep_free")

-----------------------------------------------------------------------------
(* The inductive invariant *)

\* A request in progress has its process inside virtio_disk_rw(), three
\* descriptors, and the process in info[] of the first one.
ChainOfCall ==
  \A p \in Procs :
    /\ chain[p] # None <=> pc[p] \in {"sleep_buf", "check"}
    /\ p \in busy \cup served => chain[p] # None
    /\ chain[p] # None =>
         /\ info[chain[p][1]] = p
         /\ chain[p][1] # chain[p][2] /\ chain[p][1] # chain[p][3]
         /\ chain[p][2] # chain[p][3]

Owned ==
  /\ \A p \in Procs : chain[p] # None => Chained(p) \cap free = {}
  /\ \A p, q \in Procs : p # q /\ chain[p] # None /\ chain[q] # None =>
       Chained(p) \cap Chained(q) = {}
  /\ \A d \in Descs : d \in free \/ \E p \in Procs : chain[p] # None /\ d \in Chained(p)

\* The entries of the ring r from index x up to index y, and that no two of
\* them are the same.
Dist(x, y) == IF x <= y THEN y - x ELSE (IDX - x) + y
Window(r, x, y) == {r[(x + k) % RING] : k \in 0..Dist(x, y)-1}
NoDup(r, x, y) ==
  \A k, l \in 0..Dist(x, y)-1 : r[(x + k) % RING] = r[(x + l) % RING] => k = l

Queued == Window(avail, devIdx, availIdx)
Completed == Window(used, used_idx, usedIdx)
Firsts == {chain[p][1] : p \in busy}

\* Every request in progress is in one place: waiting for the device, with the
\* device, or waiting for the handler.
OnePlace ==
  /\ NoDup(avail, devIdx, availIdx) /\ NoDup(used, used_idx, usedIdx)
  /\ Queued \cup inflight \cup Completed = Firsts
  /\ Queued \cap inflight = {} /\ Queued \cap Completed = {}
  /\ inflight \cap Completed = {}

\* What waits for the handler has been carried out, what does not has not.
ServedWhenCompleted ==
  /\ \A p \in busy : p \in served <=> chain[p][1] \in Completed
  /\ \A d \in Completed : status[d] = "ok"

\* A request that the handler has answered has been carried out.
AnsweredServed ==
  \A p \in Procs : chain[p] # None /\ p \notin busy => p \in served

VirtioInv ==
  /\ TypeOK /\ ChainOfCall /\ Owned /\ OnePlace /\ ServedWhenCompleted
  /\ AnsweredServed /\ ~panic
=============================================================================
