----------------------------- MODULE ByteFiles -----------------------------
(***************************************************************************)
(* What readi(), writei() and itrunc() of xv6 promise: a file is a string  *)
(* of bytes.  A write replaces or appends one stretch of one file and      *)
(* touches nothing else, truncation empties one file, and what a crash     *)
(* leaves is the contents at a moment when no operation was under way.     *)
(* Only the bytes that a failed write left behind may come and go: they    *)
(* are torn until something is written near them.                          *)
(***************************************************************************)
EXTENDS Naturals, Sequences

CONSTANTS Procs, Inodes, Byte,
  Initial    \* inode -> the bytes at first

VARIABLES
  content,   \* inode -> the bytes of the file
  durable,   \* the same, after a crash
  torn,      \* <<inode, position>> of bytes that no commit takes along
  active     \* processes inside a transaction

vars == <<content, durable, torn, active>>

Init ==
  /\ content = Initial
  /\ durable = content
  /\ torn = {}
  /\ active = {}

Begin(p) ==
  /\ p \notin active
  /\ active' = active \cup {p}
  /\ UNCHANGED <<content, durable, torn>>

Empty(i) ==
  /\ active # {}
  /\ content' = [content EXCEPT ![i] = <<>>]
  /\ torn' = {e \in torn : e[1] # i}
  /\ UNCHANGED <<durable, active>>

\* The bytes from off on, and no others, become those of a piece.
Write(i, off) ==
  LET old == content[i]
      new == content'[i]
  IN /\ Len(new) >= Len(old)
     /\ \E m \in 1..(Len(new) - off) :
          LET piece == (off + 1)..(off + m)
          IN /\ \A k \in 1..Len(new) :
                  IF k \in piece THEN new[k] \in Byte ELSE k <= Len(old) /\ new[k] = old[k]
             /\ torn' \subseteq torn \ ({i} \X piece)

\* A write that failed has changed bytes from off on, for good or not.
Tear(i, off) ==
  LET old == content[i]
      new == content'[i]
  IN /\ Len(new) = Len(old)
     /\ \E m \in 1..(Len(old) - off) :
          LET piece == (off + 1)..(off + m)
          IN /\ \A k \in 1..Len(old) :
                  IF k \in piece THEN new[k] \in Byte ELSE new[k] = old[k]
             /\ torn \ ({i} \X piece) \subseteq torn'
             /\ torn' \subseteq torn \cup ({i} \X piece)

\* An operation under way changes one file.
Change(i) ==
  /\ active # {}
  /\ UNCHANGED <<active, durable>>
  /\ content' = [content EXCEPT ![i] = content'[i]]
  /\ \E off \in 0..Len(content[i]) : Write(i, off) \/ Tear(i, off)

\* What is torn falls back to what is durable.
Lose ==
  /\ torn' \subseteq torn
  /\ content' = [i \in Inodes |-> [k \in DOMAIN content[i] |->
                   IF <<i, k>> \in torn \ torn' THEN durable[i][k] ELSE content[i][k]]]
  /\ UNCHANGED <<durable, active>>

\* The last one to end makes the contents durable.
End(p) ==
  /\ p \in active
  /\ active' = active \ {p}
  /\ IF active' # {} THEN UNCHANGED durable
     ELSE durable' = [i \in Inodes |-> [k \in DOMAIN content[i] |->
                        IF <<i, k>> \in torn THEN durable[i][k] ELSE content[i][k]]]
  /\ UNCHANGED <<content, torn>>

Crash ==
  /\ active' = {}
  /\ torn' = {}
  /\ content' = durable
  /\ UNCHANGED durable

Next ==
  \/ \E p \in Procs : Begin(p) \/ End(p)
  \/ Lose
  \/ Crash
  \/ \E i \in Inodes : Empty(i) \/ Change(i)

Spec == Init /\ [][Next]_vars
=============================================================================
