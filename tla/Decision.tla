------------------------------ MODULE Decision ------------------------------
(***************************************************************************)
(* A decision that the program makes as a pure function of what it is      *)
(* given: an input of some kind is decided once, and the decision stays.   *)
(***************************************************************************)
EXTENDS Integers

CONSTANTS
  None,    \* a value that is not there
  Inputs   \* what is decided about: records with a kind

\* What is not there is no number and no answer.
ASSUME NoneAssumption == None \notin Int /\ None \notin BOOLEAN

VARIABLES
  input,   \* what is decided about
  output   \* the decision, None before it is made

vars == <<input, output>>

Decide(kind, decision) ==
  /\ output = None /\ input.kind = kind
  /\ output' = decision
  /\ UNCHANGED input

\* The first of a set of places in a list.
earliest(places) == CHOOSE n \in places : \A m \in places : n <= m

Decided == output # None /\ UNCHANGED vars

DecidedOf(kind) == output # None /\ input.kind = kind

=============================================================================
