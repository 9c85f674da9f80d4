----------------------------- MODULE BatchLedger -----------------------------
(***************************************************************************)
(* What summarizer/batch_generate.py promises over any number of runs:     *)
(* what the LLM has described is kept until the user asks for a fresh run, *)
(* every run publishes all of it, and the work directory is given up only  *)
(* once everything due is published.                                       *)
(***************************************************************************)
VARIABLES
  due,        \* the classes the work directory is for
  described,  \* those it holds a description of
  published,  \* those arch-merged.json describes
  clearing    \* the user asked for a fresh run

ledger == <<due, described, published, clearing>>

Init == described = {} /\ published = {} /\ clearing = FALSE

\* The user asks for a fresh run; a killed one leaves the rest in place.
Restart ==
  /\ clearing' = ~clearing
  /\ UNCHANGED <<due, described, published>>

Forget ==
  /\ clearing
  /\ described' \subseteq described
  /\ UNCHANGED <<due, published, clearing>>

\* Another arch.json is taken up.
TakeUp ==
  /\ ~clearing
  /\ UNCHANGED <<described, published, clearing>>

Learn ==
  /\ ~clearing
  /\ described \subseteq described'
  /\ UNCHANGED <<due, published, clearing>>

Publish ==
  /\ published' = described \cap due
  /\ UNCHANGED <<due, described, clearing>>

\* The work directory is removed, file by file.
Retire ==
  /\ due \subseteq published
  /\ described' \subseteq described
  /\ UNCHANGED <<due, published, clearing>>

Next == Restart \/ Forget \/ TakeUp \/ Learn \/ Publish \/ Retire

Spec == Init /\ [][Next]_ledger

=============================================================================
