------------------------------- MODULE Ledger -------------------------------
(***************************************************************************)
(* What a session's log promises, however many requests write it: a ledger *)
(* whose entries are made once and never change.  Store.appendEvents says  *)
(* it in two sentences: events are appended in the server's order, and one *)
(* already in the log is dropped.                                          *)
(***************************************************************************)
EXTENDS Integers, Sequences

CONSTANTS Keys,     \* what may be entered
          NoEvent,  \* the content of a line nothing is entered on
          Numbers,  \* the lines
          MaxEntry  \* how many lines one entry may take

VARIABLE ledger

Entries == UNION {[1..n -> Keys] : n \in 1..MaxEntry}

Init == ledger = [n \in Numbers |-> NoEvent]

\* Enter the keys of `e`, none of them entered before, on as many adjacent
\* lines, none of them taken, after line `base`.
Enter(e, base) ==
  /\ \A i \in DOMAIN e : \A n \in Numbers : ledger[n] # e[i]
  /\ \A i \in DOMAIN e : base + i \in Numbers /\ ledger[base + i] = NoEvent
  /\ ledger' = [n \in Numbers |-> IF n - base \in DOMAIN e THEN e[n - base] ELSE ledger[n]]

Next == \E e \in Entries : \E base \in {n - 1 : n \in Numbers} : Enter(e, base)

Spec == Init /\ [][Next]_ledger
=============================================================================
