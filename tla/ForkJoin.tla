------------------------------ MODULE ForkJoin ------------------------------
(***************************************************************************)
(* What the scheduler promises to a program that uses spork (or par, which *)
(* is a spork): nested fork-join.  A strand is the main program (Root) or  *)
(* the right side of a fork.  A strand may fork; the right side of a fork  *)
(* is then run once, by another worker or, after the body, by the forking  *)
(* strand itself; and the strand goes on only when the right side is done. *)
(***************************************************************************)
EXTENDS Integers, Sequences

CONSTANTS
  Forks,    \* the forks the program may reach
  Root      \* the main program

VARIABLES
  phase,    \* how far the right side of each fork is
  open      \* the forks of each strand that it has not joined yet, in order

vars == <<phase, open>>

Strands == Forks \union {Root}

Init ==
  /\ phase = [f \in Forks |-> "none"]
  /\ open = [s \in Strands |-> <<>>]

Runs(s) == s = Root \/ phase[s] = "running"

Innermost(s) == open[s][Len(open[s])]

Close(s) == open' = [open EXCEPT ![s] = SubSeq(@, 1, Len(@) - 1)]

Fork(s, f) ==
  /\ Runs(s)
  /\ phase[f] = "none"
  /\ phase' = [phase EXCEPT ![f] = "forked"]
  /\ open' = [open EXCEPT ![s] = Append(@, f)]

(* Another worker takes the right side.                                    *)
Start(f) ==
  /\ phase[f] = "forked"
  /\ phase' = [phase EXCEPT ![f] = "running"]
  /\ UNCHANGED open

(* It is done once all its own forks are joined.                           *)
Finish(f) ==
  /\ phase[f] = "running"
  /\ open[f] = <<>>
  /\ phase' = [phase EXCEPT ![f] = "done"]
  /\ UNCHANGED open

Join(s) ==
  /\ Runs(s)
  /\ open[s] # <<>>
  /\ phase[Innermost(s)] = "done"
  /\ phase' = [phase EXCEPT ![Innermost(s)] = "joined"]
  /\ Close(s)

(* Nobody took the right side: the strand runs it as its own code, or      *)
(* leaves it out if the body raised an exception.                          *)
Inline(s) ==
  /\ Runs(s)
  /\ open[s] # <<>>
  /\ phase[Innermost(s)] = "forked"
  /\ \E p \in {"inlined", "dropped"} :
       phase' = [phase EXCEPT ![Innermost(s)] = p]
  /\ Close(s)

Next ==
  \/ \E s \in Strands, f \in Forks : Fork(s, f)
  \/ \E f \in Forks : Start(f) \/ Finish(f)
  \/ \E s \in Strands : Join(s) \/ Inline(s)

Spec == Init /\ [][Next]_vars

=============================================================================
