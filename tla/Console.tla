------------------------------ MODULE Console ------------------------------
(***************************************************************************)
(* The console of xv6: consoleread(), consolewrite() and consoleintr() of  *)
(* console.c over uartwrite(), uartputc_sync() and uartintr() of uart.c,   *)
(* and printf() of printf.c.  Readers, writers, the interrupt handler and  *)
(* harts that print run side by side; the UART sends and receives on its   *)
(* own.  The PLIC lets one hart at a time serve the UART: the handler is   *)
(* one process.  pr.lock lets one hart at a time print: so are they.       *)
(*                                                                         *)
(* cons.lock is held over several steps and is a variable; tx_lock only    *)
(* ever covers one.  The ring's indices wrap like the uints they are.      *)
(***************************************************************************)
EXTENDS Naturals, Sequences, FiniteSets

CONSTANTS
  Readers, Writers,   \* processes
  Size,               \* INPUT_BUF_SIZE
  Wrap,               \* bound: a uint counts modulo Wrap, a multiple of Size
  Keys,               \* what is typed: characters and the ones below
  MaxTyped,           \* bound: keys typed
  ReadSizes,          \* n of a read
  MaxReads,           \* bound: reads of a process
  WriteSize, Chunk,   \* n of a write, the size of consolewrite()'s buf
  MaxPrints,          \* bound: characters printed by the kernel
  FifoSize            \* what THR holds

ASSUME ConsoleAssumption ==
  /\ Readers \cap {"none", "intr"} = {}
  /\ Size \in Nat \ {0} /\ Wrap \in Nat /\ Wrap > Size /\ Wrap % Size = 0
  /\ ReadSizes \subseteq Nat /\ WriteSize \in Nat /\ Chunk \in Nat \ {0}
  /\ MaxTyped \in Nat /\ MaxReads \in Nat /\ MaxPrints \in Nat
  /\ FifoSize \in Nat /\ FifoSize >= 3

VARIABLES
  buf, r, w, e, conslock,    \* cons
  killed,
  reader,                    \* process -> [pc, n, target, left]
  writer,                    \* process -> [pc, i, end]
  intr,                      \* the handler: [pc, c, k]
  print,                     \* printf() on the hart that has pr.lock: [pc, left]
  tx_busy, fifo, thre,       \* the UART: characters in THR, its interrupt
  rx, typed,                 \* characters received and not read, keys left
  line, input                \* the line being edited and the input before it

cons == <<buf, r, w, e>>
uart == <<tx_busy, fifo, thre>>
vars == <<cons, conslock, killed, reader, writer, intr, print, uart, rx, typed, line, input>>

None == "none"
Handler == "intr"

\* uint arithmetic
Plus(x, y) == (x + y) % Wrap
Minus(x, y) == (x + Wrap - y) % Wrap

\* uartinit(): the FIFOs are clear.
uartinit == tx_busy = FALSE /\ fifo = 0 /\ thre = FALSE /\ rx = <<>>

consoleinit ==
  /\ buf = [k \in 0..(Size - 1) |-> "nul"] /\ r = 0 /\ w = 0 /\ e = 0
  /\ conslock = None
  /\ uartinit

Init ==
  /\ consoleinit
  /\ killed = {}
  /\ reader = [p \in Readers |-> [pc |-> "user", n |-> 0, target |-> 0, left |-> MaxReads]]
  /\ writer = [p \in Writers |-> [pc |-> "copy", i |-> 0, end |-> 0]]
  /\ intr = [pc |-> "user", c |-> "nul", k |-> 0]
  /\ print = [pc |-> "idle", left |-> MaxPrints]
  /\ typed = MaxTyped
  /\ line = <<>> /\ input = <<>>

-----------------------------------------------------------------------------
(* The UART *)

\* A write to THR.
THR ==
  /\ fifo' = IF fifo < FifoSize THEN fifo + 1 ELSE fifo
  /\ thre' = FALSE

LSR_TX_IDLE == fifo = 0

\* A character leaves; the last one raises the interrupt.
Transmit ==
  /\ fifo > 0
  /\ fifo' = fifo - 1
  /\ thre' = (thre \/ fifo = 1)
  /\ UNCHANGED <<cons, conslock, killed, reader, writer, intr, print, tx_busy, rx, typed,
                 line, input>>

Type(c) ==
  /\ typed > 0 /\ rx = <<>>
  /\ rx' = <<c>> /\ typed' = typed - 1
  /\ UNCHANGED <<cons, conslock, killed, reader, writer, intr, print, uart, line, input>>

-----------------------------------------------------------------------------
(* write *)

\* The next chunk of consolewrite(), or its end; copyin() may fail.
consolewrite(p) ==
  /\ writer[p].pc = "copy" /\ writer[p].i = writer[p].end
  /\ \/ /\ writer[p].i < WriteSize
        /\ writer' = [writer EXCEPT ![p].pc = "write",
                                    ![p].end = IF @ + Chunk < WriteSize THEN @ + Chunk ELSE WriteSize]
     \/ writer' = [writer EXCEPT ![p].pc = "done"]
  /\ UNCHANGED <<cons, conslock, killed, reader, intr, print, uart, rx, typed, line, input>>

\* A round of uartwrite(): sleeps while the UART is busy.
uartwrite(p) ==
  /\ writer[p].pc = "write"
  /\ IF tx_busy
     THEN writer' = [writer EXCEPT ![p].pc = "asleep"] /\ UNCHANGED uart
     ELSE /\ THR
          /\ tx_busy' = TRUE
          /\ writer' = [writer EXCEPT ![p].i = @ + 1,
                                      ![p].pc = IF writer[p].i + 1 = writer[p].end THEN "copy" ELSE @]
  /\ UNCHANGED <<cons, conslock, killed, reader, intr, print, rx, typed, line, input>>

-----------------------------------------------------------------------------
(* printf(): uartputc_sync() waits for THR to be empty, then writes it *)

PrintWait ==
  /\ print.pc = "idle" /\ print.left > 0 /\ LSR_TX_IDLE
  /\ print' = [print EXCEPT !.pc = "put"]
  /\ UNCHANGED <<cons, conslock, killed, reader, writer, intr, uart, rx, typed, line, input>>

PrintPut ==
  /\ print.pc = "put"
  /\ THR
  /\ print' = [pc |-> "idle", left |-> print.left - 1]
  /\ UNCHANGED <<cons, conslock, killed, reader, writer, intr, tx_busy, rx, typed, line, input>>

\* The next character that printf() gives to consputc(), whatever it formats.
printf == PrintWait \/ PrintPut

-----------------------------------------------------------------------------
(* read *)

\* consoleread() is called ...
Read(p, n) ==
  /\ reader[p].pc = "user" /\ reader[p].left > 0
  /\ reader' = [reader EXCEPT ![p] = [pc |-> "lock", n |-> n, target |-> n, left |-> @.left - 1]]
  /\ UNCHANGED <<cons, conslock, killed, writer, intr, print, uart, rx, typed, line, input>>

\* ... and has the lock, at first or after sleep().
ReadLock(p) ==
  /\ reader[p].pc = "lock" /\ conslock = None
  /\ conslock' = p
  /\ reader' = [reader EXCEPT ![p].pc = "loop"]
  /\ UNCHANGED <<cons, killed, writer, intr, print, uart, rx, typed, line, input>>

\* release(&cons.lock), to sleep or to return.
Leave(p, pc) ==
  /\ conslock' = None
  /\ reader' = [reader EXCEPT ![p] = IF pc = "asleep" THEN [@ EXCEPT !.pc = pc]
                                     ELSE [@ EXCEPT !.pc = pc, !.n = 0, !.target = 0]]

\* There is no input to read.
Nothing == r = w

\* Waits for input, unless killed.  The test of killed() and the sleep are one step:
\* the kill that comes in between, which the code notices only at the next input,
\* is left out.
ReadWait(p) ==
  /\ reader[p].pc = "loop" /\ reader[p].n > 0 /\ Nothing
  /\ Leave(p, IF p \in killed THEN "user" ELSE "asleep")
  /\ UNCHANGED <<cons, killed, writer, intr, print, uart, rx, typed, line, input>>

\* ^D stays for the next read, so that it returns 0.
SaveD(p) == reader[p].n < reader[p].target

Take ==
  /\ r' = Plus(r, 1)
  /\ input' = Tail(input)

\* Takes a character; copyout() may fail.
ReadChar(p) ==
  LET c == buf[r % Size]
  IN /\ reader[p].pc = "loop" /\ reader[p].n > 0 /\ ~Nothing
     /\ \/ /\ c = "D"
           /\ IF SaveD(p) THEN UNCHANGED <<r, input>> ELSE Take
           /\ Leave(p, "user")
        \/ /\ c # "D" /\ Take
           /\ Leave(p, "user")
        \/ /\ c \notin {"D", "nl"} /\ Take
           /\ reader' = [reader EXCEPT ![p].n = @ - 1] /\ UNCHANGED conslock
     /\ UNCHANGED <<buf, w, e, killed, writer, intr, print, uart, rx, typed, line>>

ReadDone(p) ==
  /\ reader[p].pc = "loop" /\ reader[p].n = 0
  /\ Leave(p, "user")
  /\ UNCHANGED <<cons, killed, writer, intr, print, uart, rx, typed, line, input>>

\* kkill() of a process that reads; it wakes up.
Kill(p) ==
  /\ p \notin killed /\ reader[p].pc # "user"
  /\ killed' = killed \cup {p}
  /\ reader' = [reader EXCEPT ![p].pc = IF @ = "asleep" THEN "lock" ELSE @]
  /\ UNCHANGED <<cons, conslock, writer, intr, print, uart, rx, typed, line, input>>

-----------------------------------------------------------------------------
(* The interrupt handler *)

\* The UART interrupts, and no hart serves it.
plic_claim == intr.pc = "user" /\ (thre \/ rx # <<>>)

\* The UART may interrupt again.
plic_complete == intr' = [intr EXCEPT !.pc = "user"]

\* devintr() calls uartintr(), which acknowledges ...
uartintr ==
  /\ plic_claim
  /\ thre' = FALSE
  /\ intr' = [intr EXCEPT !.pc = "tx"]
  /\ UNCHANGED <<cons, conslock, killed, reader, writer, print, tx_busy, fifo, rx, typed,
                 line, input>>

\* Mutant: nobody is woken up.
WakeWriters_Not == UNCHANGED writer

WakeWriters ==
  writer' = [p \in Writers |-> IF writer[p].pc = "asleep" THEN [writer[p] EXCEPT !.pc = "write"] ELSE writer[p]]

\* ... wakes up writers if the UART is idle ...
IntrTx ==
  /\ intr.pc = "tx"
  /\ IF LSR_TX_IDLE
     THEN /\ tx_busy' = FALSE
          /\ WakeWriters
     ELSE UNCHANGED <<tx_busy, writer>>
  /\ intr' = [intr EXCEPT !.pc = "rx"]
  /\ UNCHANGED <<cons, conslock, killed, reader, print, fifo, thre, rx, typed, line, input>>

\* uartgetc() has a character.
LSR_RX_READY == rx # <<>>

\* ... and takes the characters that have come.
IntrRx ==
  /\ intr.pc = "rx"
  /\ \/ ~LSR_RX_READY /\ plic_complete /\ UNCHANGED rx
     \/ LSR_RX_READY /\ rx' = Tail(rx) /\ intr' = [intr EXCEPT !.pc = "cons", !.c = Head(rx)]
  /\ UNCHANGED <<cons, conslock, killed, reader, writer, print, uart, typed, line, input>>

\* The line is passed on: it has ended or the buffer is full.
Commits(c) == c \in {"nl", "D"} \/ Minus(e, r) + 1 = Size

Room == Minus(e, r) < Size

\* Mutant: nobody is woken up.
WakeReaders_Not == UNCHANGED reader

WakeReaders ==
  reader' = [p \in Readers |-> IF reader[p].pc = "asleep" THEN [reader[p] EXCEPT !.pc = "lock"] ELSE reader[p]]

\* Mutant: w is set before e moves.
Passed_Early == e

\* How far the input is passed on.
Passed == Plus(e, 1)

\* A character that is kept.
Enter(c) ==
  /\ buf' = [buf EXCEPT ![e % Size] = c]
  /\ e' = Plus(e, 1)
  /\ IF Commits(c)
     THEN /\ w' = Passed /\ WakeReaders
          /\ input' = input \o Append(line, c) /\ line' = <<>>
     ELSE /\ line' = Append(line, c) /\ UNCHANGED <<w, reader, input>>

\* There is something to erase.
Editable == e # w

\* consoleintr() with its echo, k characters, still to come.
consoleintr ==
  LET c == IF intr.c = "cr" THEN "nl" ELSE intr.c
      Echo(k) == intr' = [intr EXCEPT !.pc = "echo", !.c = "nul", !.k = k]
  IN /\ intr.pc = "cons" /\ conslock = None
     /\ conslock' = Handler
     /\ \/ c = "U" /\ e' = w /\ Echo(3 * Minus(e, w)) /\ line' = <<>>
           /\ UNCHANGED <<buf, w, reader, input>>
        \/ c = "H" /\ Editable /\ e' = Minus(e, 1) /\ Echo(3)
           /\ line' = SubSeq(line, 1, Len(line) - 1) /\ UNCHANGED <<buf, w, reader, input>>
        \/ c \notin {"U", "H", "P", "nul"} /\ Room /\ Enter(c) /\ Echo(1)
        \/ /\ c \in {"P", "nul"} \/ (c = "H" /\ ~Editable) \/ (c \notin {"U", "H"} /\ ~Room)
           /\ Echo(0) /\ UNCHANGED <<buf, w, e, reader, line, input>>
     /\ UNCHANGED <<r, killed, writer, print, uart, rx, typed>>

\* uartputc_sync() of the echo.
EchoWait ==
  /\ intr.pc = "echo" /\ intr.k > 0 /\ LSR_TX_IDLE
  /\ intr' = [intr EXCEPT !.pc = "put"]
  /\ UNCHANGED <<cons, conslock, killed, reader, writer, print, uart, rx, typed, line, input>>

EchoPut ==
  /\ intr.pc = "put"
  /\ THR
  /\ intr' = [intr EXCEPT !.pc = "echo", !.k = @ - 1]
  /\ UNCHANGED <<cons, conslock, killed, reader, writer, print, tx_busy, rx, typed, line, input>>

IntrUnlock ==
  /\ intr.pc = "echo" /\ intr.k = 0
  /\ conslock' = None
  /\ intr' = [intr EXCEPT !.pc = "rx"]
  /\ UNCHANGED <<cons, killed, reader, writer, print, uart, rx, typed, line, input>>

-----------------------------------------------------------------------------
Reading(p) == ReadLock(p) \/ ReadWait(p) \/ ReadChar(p) \/ ReadDone(p)
Writing(p) == consolewrite(p) \/ uartwrite(p)
Interrupt == uartintr \/ IntrTx \/ IntrRx \/ consoleintr \/ EchoWait \/ EchoPut \/ IntrUnlock

Next ==
  \/ \E p \in Readers : Reading(p) \/ Kill(p) \/ \E n \in ReadSizes : Read(p, n)
  \/ \E p \in Writers : Writing(p)
  \/ printf \/ Interrupt \/ Transmit
  \/ \E c \in Keys : Type(c)

\* The UART sends and its interrupt is taken; the scheduler runs every process
\* that can run, and a spin lock is given to all who wait for it (reads, writes
\* and keys are bounded, so WF is enough).
Fairness ==
  /\ WF_vars(Transmit) /\ WF_vars(Interrupt) /\ WF_vars(printf)
  /\ \A p \in Readers : WF_vars(Reading(p))
  /\ \A p \in Writers : WF_vars(Writing(p))

Spec == Init /\ [][Next]_vars /\ Fairness
-----------------------------------------------------------------------------
\* What the ring, the line and the input consist of.
Chars == Keys \cup {"nl", "nul"}

ReaderStates ==
  [pc : {"user", "lock", "loop", "asleep"}, n : Nat, target : Nat, left : Nat]
WriterStates == [pc : {"copy", "write", "asleep", "done"}, i : Nat, end : Nat]
HandlerStates ==
  [pc : {"user", "tx", "rx", "cons", "echo", "put"}, c : Chars, k : Nat]
PrinterStates == [pc : {"idle", "put"}, left : Nat]

TypeOK ==
  /\ buf \in [0..(Size - 1) -> Chars]
  /\ r \in 0..(Wrap - 1) /\ w \in 0..(Wrap - 1) /\ e \in 0..(Wrap - 1)
  /\ conslock \in Readers \cup {None, Handler} /\ killed \subseteq Readers
  /\ reader \in [Readers -> ReaderStates] /\ writer \in [Writers -> WriterStates]
  /\ intr \in HandlerStates /\ print \in PrinterStates
  /\ tx_busy \in BOOLEAN /\ fifo \in 0..FifoSize /\ thre \in BOOLEAN
  /\ rx \in Seq(Keys) /\ typed \in Nat
  /\ line \in Seq(Chars) /\ input \in Seq(Chars)

Ring(from, to) == [k \in 1..Minus(to, from) |-> buf[Plus(from, k - 1) % Size]]

\* The ring holds the input as line editing defines it: what was passed on and not
\* read yet, then the line being typed, with the indices wrapped round.
InputKept == Ring(r, w) = input /\ Ring(w, e) = line

-----------------------------------------------------------------------------
(* The inductive invariant *)

\* The indices are in the order r, w, e, and no more than Size apart.
RingOrder == Minus(w, r) <= Minus(e, r) /\ Minus(e, r) <= Size

\* Who is between acquire() and release() of cons.lock holds it, and nobody else.
LockOwner ==
  /\ \A p \in Readers : reader[p].pc = "loop" <=> conslock = p
  /\ intr.pc \in {"echo", "put"} <=> conslock = Handler

\* Who waits for THR to write a character has one to write.
Owing ==
  /\ intr.pc = "put" => intr.k > 0
  /\ print.pc = "put" => print.left > 0

\* No reader sleeps while there is input: consoleintr() wakes the readers
\* whenever it moves w, and who finds nothing sleeps before it can (console.c:100).
NoSleeperOnInput == \A p \in Readers : reader[p].pc = "asleep" => Nothing

\* No writer sleeps that no interrupt will wake: one sleeps only while tx_busy is
\* set, and then the UART is sending, or its interrupt is pending, or the handler
\* is about to clear tx_busy (uart.c:150), although printf() and the echo write
\* THR, too, and clear the pending interrupt.
NoSleeperOnIdle ==
  /\ \A p \in Writers : writer[p].pc = "asleep" => tx_busy
  /\ tx_busy => fifo > 0 \/ thre \/ intr.pc = "tx"

ConsoleInv ==
  /\ TypeOK /\ LockOwner /\ Owing
  /\ NoSleeperOnInput /\ NoSleeperOnIdle
  /\ RingOrder /\ InputKept

-----------------------------------------------------------------------------
\* Every write ends: the transmit interrupt is never missed, whoever wrote last.
WritesEnd == \A p \in Writers : <>(writer[p].pc = "done")

\* A read ends when there is input for it.
ReadsEnd == \A p \in Readers : (reader[p].pc # "user" /\ r # w) ~> (reader[p].pc = "user" \/ r = w)
=============================================================================
