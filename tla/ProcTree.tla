------------------------------- MODULE ProcTree -------------------------------
(***************************************************************************)
(* One call of run_tree_captured (utils/proc.py, POSIX) and what           *)
(* run_gigacode of summarizer/harness.py makes of it.                      *)
(*                                                                         *)
(* The child leads a process group of its own and may start any tree of    *)
(* processes.  They inherit its group and its stdout and stderr, which are *)
(* one pipe here; any of them but the leader may leave the group (setsid,  *)
(* setpgid), close the pipe, write to it, write the output file, or exit.  *)
(* None of that is in the caller's hands.                                  *)
(***************************************************************************)
EXTENDS Integers, FiniteSets

CONSTANTS Process, Child

ASSUME ProcessAssumption == Child \in Process

VARIABLES
  state,    \* [Process -> "none", "running", "zombie" (the child alone), "gone"]
  group,    \* members of the child's process group
  writers,  \* holders of the pipe's write end
  said,     \* processes that have written to the pipe
  file,     \* processes that have written to the output file; Earlier: a former call
  pc,       \* of the calling thread
  captured, \* the processes heard in the stdout of the result
  error,    \* the result's error: "none", "launch", "timeout"
  mode,     \* where the harness expects the answer: "stdout", "file"
  data      \* whose words it takes for the answer, {} for none

tree == <<state, group, writers, said, file>>
call == <<captured, error, mode, data>>
vars == <<tree, pc, call>>

Earlier == "earlier"
Running == {p \in Process : state[p] = "running"}

-----------------------------------------------------------------------------
(* The processes.                                                           *)

Fork(p) ==
  /\ p \in Running
  /\ \E q \in Process :
       /\ state[q] = "none"
       /\ state' = [state EXCEPT ![q] = "running"]
       /\ group' = IF p \in group THEN group \cup {q} ELSE group
       /\ writers' = IF p \in writers THEN writers \cup {q} ELSE writers
  /\ UNCHANGED <<said, file, pc, call>>

LeaveGroup(p) ==
  /\ p \in Running \cap group /\ p # Child
  /\ group' = group \ {p}
  /\ UNCHANGED <<state, writers, said, file, pc, call>>

ClosePipe(p) ==
  /\ p \in Running \cap writers
  /\ writers' = writers \ {p}
  /\ UNCHANGED <<state, group, said, file, pc, call>>

Say(p) ==
  /\ p \in Running \cap writers
  /\ said' = said \cup {p}
  /\ UNCHANGED <<state, group, writers, file, pc, call>>

WriteFile(p) ==
  /\ p \in Running /\ mode = "file"
  /\ file' = (file \ {Earlier}) \cup {p}
  /\ UNCHANGED <<state, group, writers, said, pc, call>>

\* The dead hold nothing; the child stays a zombie until it is waited for.
Dead(S) == [p \in Process |-> IF p \notin S THEN state[p]
                              ELSE IF p = Child THEN "zombie" ELSE "gone"]

Exit(p) ==
  /\ p \in Running
  /\ state' = Dead({p})
  /\ writers' = writers \ {p}
  /\ UNCHANGED <<group, said, file, pc, call>>

-----------------------------------------------------------------------------
(* The caller.                                                              *)

\* Mutant: an OSError of Popen reaches the caller.
LaunchOrRaise ==
  /\ pc = "launch"
  /\ \/ /\ state' = [state EXCEPT ![Child] = "running"]
        /\ group' = {Child} /\ writers' = {Child}
        /\ pc' = "communicate"
     \/ /\ pc' = "raised"
        /\ UNCHANGED <<state, group, writers>>
  /\ UNCHANGED <<said, file, captured, error, mode, data>>

\* Popen with start_new_session, or OSError.
Launch ==
  /\ pc = "launch"
  /\ \/ /\ state' = [state EXCEPT ![Child] = "running"]
        /\ group' = {Child} /\ writers' = {Child}
        /\ pc' = "communicate" /\ UNCHANGED error
     \/ /\ error' = "launch" /\ pc' = "answer"
        /\ UNCHANGED <<state, group, writers>>
  /\ UNCHANGED <<said, file, captured, mode, data>>

AtEnd == writers = {} /\ state[Child] = "zombie"
Reap == [state EXCEPT ![Child] = "gone"]

\* communicate returns at the end of the pipe, once the child has exited.
Communicate ==
  /\ pc = "communicate" /\ AtEnd
  /\ state' = Reap /\ captured' = said
  /\ pc' = "answer"
  /\ UNCHANGED <<group, writers, said, file, error, mode, data>>

\* The timeout may pass at any moment, also when the child has just exited.
TimeOut ==
  /\ pc = "communicate"
  /\ error' = "timeout"
  /\ pc' = "kill_group"
  /\ UNCHANGED <<tree, captured, mode, data>>

\* Mutant: only the child is killed.
KillChildOnly ==
  /\ pc = "kill_group"
  /\ state' = Dead({Child} \cap Running)
  /\ writers' = writers \ {Child}
  /\ pc' = "kill_child"
  /\ UNCHANGED <<group, said, file, call>>

\* Mutant: proc.kill goes first; it polls, and of a reaped child the group is
\* not known any more.
KillGroupOfLiveChild ==
  /\ pc = "kill_group"
  /\ IF state[Child] = "zombie"
     THEN state' = Reap /\ UNCHANGED writers
     ELSE state' = Dead(group \cap Running) /\ writers' = writers \ group
  /\ pc' = "kill_child"
  /\ UNCHANGED <<group, said, file, call>>

\* killpg: nobody has waited for the child, so its group has a name.
KillGroup ==
  /\ pc = "kill_group"
  /\ state' = Dead(group \cap Running)
  /\ writers' = writers \ group
  /\ pc' = "kill_child"
  /\ UNCHANGED <<group, said, file, call>>

\* proc.kill polls first, and so may reap what the group's death left.
KillChild ==
  /\ pc = "kill_child"
  /\ state' \in {Reap, state}
  /\ pc' = "drain"
  /\ UNCHANGED <<group, writers, said, file, call>>

\* Mutant: the second wait has no timeout.
DrainToTheEnd ==
  /\ pc = "drain"
  /\ writers = {} /\ state' = Reap /\ captured' = said
  /\ pc' = "answer"
  /\ UNCHANGED <<group, writers, said, file, error, mode, data>>

\* The rest of the output, or nothing after 15 s.
Drain ==
  /\ pc = "drain"
  /\ \/ writers = {} /\ state' = Reap /\ captured' = said
     \/ UNCHANGED <<state, captured>>
  /\ pc' = "answer"
  /\ UNCHANGED <<group, writers, said, file, error, mode, data>>

\* Mutant: what a timed-out call has written so far is good enough.
AnswerInTime ==
  /\ pc = "answer"
  /\ data' = CASE error = "launch" -> {} [] mode = "file" -> file [] OTHER -> said
  /\ pc' = "returned"
  /\ UNCHANGED <<tree, captured, error, mode>>

\* run_gigacode: an error means no answer; the exit status is not looked at,
\* and the output file is taken whoever wrote it.
Answer ==
  /\ pc = "answer"
  /\ data' = CASE error # "none" -> {} [] mode = "file" -> file [] OTHER -> captured
  /\ pc' = "returned"
  /\ UNCHANGED <<tree, captured, error, mode>>

-----------------------------------------------------------------------------
Init ==
  /\ state = [p \in Process |-> "none"]
  /\ group = {} /\ writers = {} /\ said = {}
  /\ mode \in {"stdout", "file"}
  /\ file \in IF mode = "file" THEN {{}, {Earlier}} ELSE {{}}
  /\ pc = "launch" /\ captured = {} /\ error = "none" /\ data = {}

Caller ==
  \/ Launch \/ Communicate \/ TimeOut \/ KillGroup \/ KillChild \/ Drain \/ Answer

Tree(p) ==
  \/ Fork(p) \/ LeaveGroup(p) \/ ClosePipe(p) \/ Say(p) \/ WriteFile(p) \/ Exit(p)

Next == Caller \/ \E p \in Process : Tree(p)

\* The caller's own steps and its two clocks; nothing of the processes.
Fairness == WF_vars(Caller)

Spec == Init /\ [][Next]_vars /\ Fairness

-----------------------------------------------------------------------------
(* Properties.                                                              *)

\* The variables keep their types.
TypeOK ==
  /\ state \in [Process -> {"none", "running", "zombie", "gone"}]
  /\ group \subseteq Process /\ writers \subseteq Process /\ said \subseteq Process
  /\ file \subseteq Process \cup {Earlier} /\ data \subseteq Process \cup {Earlier}
  /\ captured \subseteq Process
  /\ pc \in {"launch", "communicate", "kill_group", "kill_child", "drain", "answer", "returned"}
  /\ error \in {"none", "launch", "timeout"}
  /\ mode \in {"stdout", "file"}

\* When a timed-out call has returned, nothing of the child's group lives, and
\* nothing will: who is still there had left the group before the kill.
GroupIsDead ==
  pc \in {"answer", "returned"} /\ error = "timeout" => group \cap Running = {}

\* An answer taken from stdout is all that was ever said: no process is left
\* that could add to it, and none of its words came after a timeout.
AnswerIsFinal ==
  pc = "returned" /\ mode = "stdout" /\ data # {} =>
    /\ error = "none" /\ data = said
    /\ writers \cap Running = {}

\* The call returns whatever the processes do.
CallReturns == <>(pc = "returned")
=============================================================================
