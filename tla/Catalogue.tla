------------------------------- MODULE Catalogue -------------------------------
(***************************************************************************)
(* What benchmark/store promises of the uploaded sets (store.py:3-6): an   *)
(* upload makes a set and never edits one, the same bytes are one set, a   *)
(* set is removed deliberately and its id never names another.             *)
(***************************************************************************)
CONSTANTS
  Id,      \* numbers a set can carry
  File,    \* files, told apart by their bytes
  Name,    \* labels
  NoSet    \* no set has this number

VARIABLES
  held,    \* [Id -> Set \cup {NoSet}], the sets there are
  used     \* SUBSET Id, the numbers that have ever named one

Set == [file: File, name: Name]

Init ==
  /\ held = [i \in Id |-> NoSet]
  /\ used = {}

Add(i, f, n) ==
  /\ i \notin used
  /\ \A j \in Id : held[j] # NoSet => held[j].file # f
  /\ held' = [held EXCEPT ![i] = [file |-> f, name |-> n]]
  /\ used' = used \cup {i}

Relabel(i, n) ==
  /\ held[i] # NoSet
  /\ held' = [held EXCEPT ![i] = [file |-> held[i].file, name |-> n]]
  /\ UNCHANGED used

Remove(i) ==
  /\ held[i] # NoSet
  /\ held' = [held EXCEPT ![i] = NoSet]
  /\ UNCHANGED used

Next ==
  \E i \in Id :
    \/ \E n \in Name : Relabel(i, n) \/ \E f \in File : Add(i, f, n)
    \/ Remove(i)

Spec == Init /\ [][Next]_<<held, used>>
=============================================================================
