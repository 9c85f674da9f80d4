---------------------------- MODULE ProcTree_proofs ----------------------------
(* For any number of processes: a timed-out call leaves no member of the       *)
(* child's group behind, and none of the whole tree if nobody has left it; an  *)
(* answer from stdout is complete.                                             *)
EXTENDS ProcTree, TLAPS

-----------------------------------------------------------------------------
(* The inductive invariant: only the living hold the pipe; the group is dead    *)
(* from the kill on, and stays so since only its members could add to it; what  *)
(* was captured is all there was because nobody is left to write.               *)

WritersLive == writers \subseteq Running

ErrorFollowsCall ==
  /\ pc \in {"launch", "communicate"} => error = "none"
  /\ pc \in {"kill_group", "kill_child", "drain"} => error = "timeout"

NothingBeforeLaunch == pc = "launch" => Running = {}

Leader ==
  pc \in {"communicate", "kill_group", "kill_child", "drain"} => Child \in group

MembersStarted == \A p \in group : state[p] # "none"

GroupKilled ==
  pc \in {"kill_child", "drain"} \/ (pc \in {"answer", "returned"} /\ error = "timeout")
    => group \cap Running = {}

CapturedIsAll ==
  pc \in {"answer", "returned"} /\ error = "none" => writers = {} /\ captured = said

DataIsCaptured ==
  pc = "returned" /\ mode = "stdout" /\ data # {} => error = "none" /\ data = captured

ProcInv ==
  /\ TypeOK /\ WritersLive /\ ErrorFollowsCall /\ NothingBeforeLaunch
  /\ Leader /\ MembersStarted /\ GroupKilled /\ CapturedIsAll /\ DataIsCaptured

LEMMA ProcInit == Init => ProcInv
BY ProcessAssumption DEF Init, ProcInv, TypeOK, WritersLive, ErrorFollowsCall, NothingBeforeLaunch, Leader, MembersStarted,
   GroupKilled, CapturedIsAll, DataIsCaptured, Running, Earlier

\* Who dies stops running; nobody else is touched.
LEMMA DeadRun ==
  ASSUME TypeOK, NEW S \in SUBSET Process
  PROVE  /\ Dead(S) \in [Process -> {"none", "running", "zombie", "gone"}]
         /\ {p \in Process : Dead(S)[p] = "running"} = Running \ S
         /\ \A p \in Process : Dead(S)[p] = "none" => state[p] = "none"
BY DEF TypeOK, Dead, Running

\* Waiting for the child makes nobody run.
LEMMA ReapRun ==
  ASSUME TypeOK
  PROVE  /\ Reap \in [Process -> {"none", "running", "zombie", "gone"}]
         /\ {p \in Process : Reap[p] = "running"} = Running \ {Child}
         /\ \A p \in Process : Reap[p] = "none" => state[p] = "none"
BY ProcessAssumption DEF TypeOK, Reap, Running

-----------------------------------------------------------------------------
(* One lemma per side. *)

LEMMA TreeStep ==
  ASSUME ProcInv, NEW p \in Process, Tree(p)
  PROVE  ProcInv'
<1> USE DEF ProcInv
<1>1. CASE Fork(p)
  <2>1. PICK q \in Process : /\ state[q] = "none"
                             /\ state' = [state EXCEPT ![q] = "running"]
                             /\ group' = IF p \in group THEN group \cup {q} ELSE group
                             /\ writers' = IF p \in writers THEN writers \cup {q} ELSE writers
    BY <1>1 DEF Fork
  <2>2. Running' = Running \cup {q} /\ p \in Running /\ UNCHANGED <<said, file, pc, call>>
    BY <1>1, <2>1 DEF Fork, Running, TypeOK
  <2>3. TypeOK'
    BY <2>1, <2>2 DEF TypeOK, call
  <2>4. WritersLive' /\ NothingBeforeLaunch' /\ Leader' /\ MembersStarted'
    BY <2>1, <2>2 DEF WritersLive, NothingBeforeLaunch, Leader, MembersStarted, TypeOK, Running
  <2>5. GroupKilled'
    <3>1. q \notin group
      BY <2>1 DEF MembersStarted
    <3>2. p \in group => ~(pc \in {"kill_child", "drain"} \/ (pc \in {"answer", "returned"} /\ error = "timeout"))
      BY <2>2 DEF GroupKilled
    <3> QED BY <2>1, <2>2, <3>1, <3>2 DEF GroupKilled, call
  <2>6. CapturedIsAll' /\ DataIsCaptured' /\ ErrorFollowsCall'
    BY <2>1, <2>2 DEF CapturedIsAll, DataIsCaptured, ErrorFollowsCall, call
  <2> QED BY <2>3, <2>4, <2>5, <2>6
<1>2. CASE LeaveGroup(p)
  BY <1>2 DEF LeaveGroup, TypeOK, WritersLive, ErrorFollowsCall, NothingBeforeLaunch, Leader, MembersStarted, GroupKilled,
     CapturedIsAll, DataIsCaptured, Running, call
<1>3. CASE ClosePipe(p)
  BY <1>3 DEF ClosePipe, TypeOK, WritersLive, ErrorFollowsCall, NothingBeforeLaunch, Leader, MembersStarted, GroupKilled,
     CapturedIsAll, DataIsCaptured, Running, call
<1>4. CASE Say(p)
  BY <1>4 DEF Say, TypeOK, WritersLive, ErrorFollowsCall, NothingBeforeLaunch, Leader, MembersStarted, GroupKilled,
     CapturedIsAll, DataIsCaptured, Running, call
<1>5. CASE WriteFile(p)
  BY <1>5 DEF WriteFile, TypeOK, WritersLive, ErrorFollowsCall, NothingBeforeLaunch, Leader, MembersStarted, GroupKilled,
     CapturedIsAll, DataIsCaptured, Running, call
<1>6. CASE Exit(p)
  <2>1. /\ Running' = Running \ {p}
        /\ state' \in [Process -> {"none", "running", "zombie", "gone"}]
        /\ \A q \in Process : state'[q] = "none" => state[q] = "none"
    BY <1>6, DeadRun DEF Exit, Running
  <2> QED BY <1>6, <2>1 DEF Exit, TypeOK, WritersLive, ErrorFollowsCall, NothingBeforeLaunch, Leader, MembersStarted,
     GroupKilled, CapturedIsAll, DataIsCaptured, call
<1> QED BY <1>1, <1>2, <1>3, <1>4, <1>5, <1>6 DEF Tree

LEMMA CallerStep ==
  ASSUME ProcInv, Caller
  PROVE  ProcInv'
<1> USE DEF ProcInv
<1>1. CASE Launch
  BY <1>1, ProcessAssumption DEF Launch, TypeOK, WritersLive, ErrorFollowsCall, NothingBeforeLaunch, Leader, MembersStarted,
     GroupKilled, CapturedIsAll, DataIsCaptured, Running
<1>2. CASE Communicate
  <2>1. /\ Running' = Running
        /\ state' \in [Process -> {"none", "running", "zombie", "gone"}]
        /\ \A p \in Process : state'[p] = "none" => state[p] = "none"
    BY <1>2, ReapRun, ProcessAssumption DEF Communicate, AtEnd, Running
  <2> QED BY <1>2, <2>1 DEF Communicate, AtEnd, TypeOK, WritersLive, ErrorFollowsCall,
     NothingBeforeLaunch, Leader, MembersStarted, GroupKilled, CapturedIsAll, DataIsCaptured
<1>3. CASE TimeOut
  BY <1>3 DEF TimeOut, TypeOK, WritersLive, ErrorFollowsCall, NothingBeforeLaunch, Leader, MembersStarted, GroupKilled,
     CapturedIsAll, DataIsCaptured, Running, tree
<1>4. CASE KillGroup
  <2>1. /\ Running' = Running \ (group \cap Running)
        /\ state' \in [Process -> {"none", "running", "zombie", "gone"}]
        /\ \A p \in Process : state'[p] = "none" => state[p] = "none"
    BY <1>4, DeadRun DEF KillGroup, Running, TypeOK
  <2> QED BY <1>4, <2>1 DEF KillGroup, TypeOK, WritersLive, ErrorFollowsCall,
     NothingBeforeLaunch, Leader, MembersStarted, GroupKilled, CapturedIsAll, DataIsCaptured, call
<1>5. CASE KillChild
  <2>1. /\ Running' = Running
        /\ state' \in [Process -> {"none", "running", "zombie", "gone"}]
        /\ \A p \in Process : state'[p] = "none" => state[p] = "none"
    BY <1>5, ReapRun DEF KillChild, Running, TypeOK, Leader, GroupKilled
  <2> QED BY <1>5, <2>1 DEF KillChild, TypeOK, WritersLive, ErrorFollowsCall,
     NothingBeforeLaunch, Leader, MembersStarted, GroupKilled, CapturedIsAll, DataIsCaptured, call
<1>6. CASE Drain
  <2>1. /\ Running' = Running
        /\ state' \in [Process -> {"none", "running", "zombie", "gone"}]
        /\ \A p \in Process : state'[p] = "none" => state[p] = "none"
    BY <1>6, ReapRun DEF Drain, Running, TypeOK, Leader, GroupKilled
  <2> QED BY <1>6, <2>1 DEF Drain, TypeOK, WritersLive, ErrorFollowsCall,
     NothingBeforeLaunch, Leader, MembersStarted, GroupKilled, CapturedIsAll, DataIsCaptured
<1>7. CASE Answer
  BY <1>7 DEF Answer, TypeOK, WritersLive, ErrorFollowsCall, NothingBeforeLaunch, Leader, MembersStarted, GroupKilled,
     CapturedIsAll, DataIsCaptured, Running, tree
<1> QED BY <1>1, <1>2, <1>3, <1>4, <1>5, <1>6, <1>7 DEF Caller

LEMMA ProcInvariant == Spec => []ProcInv
<1>1. ProcInv /\ UNCHANGED vars => ProcInv'
  BY DEF ProcInv, vars, tree, call, TypeOK, WritersLive, ErrorFollowsCall, NothingBeforeLaunch, Leader, MembersStarted,
     GroupKilled, CapturedIsAll, DataIsCaptured, Running
<1>2. ProcInv /\ [Next]_vars => ProcInv'
  BY <1>1, TreeStep, CallerStep DEF Next
<1> QED BY ProcInit, <1>2, PTL DEF Spec

-----------------------------------------------------------------------------

\* The variables keep their types, for any number of processes.
THEOREM TypeCorrect == Spec => []TypeOK
BY ProcInvariant, PTL DEF ProcInv

\* run_tree_captured: when a timed-out call returns, the whole group is dead.
THEOREM TimeoutKillsGroup == Spec => []GroupIsDead
<1>1. ProcInv => GroupIsDead
  BY DEF ProcInv, GroupKilled, GroupIsDead
<1> QED BY ProcInvariant, <1>1, PTL

\* run_gigacode on stdout: an answer that is accepted is the whole output.
THEOREM AcceptedAnswerIsFinal == Spec => []AnswerIsFinal
<1>1. ProcInv => AnswerIsFinal
  BY DEF ProcInv, CapturedIsAll, DataIsCaptured, AnswerIsFinal
<1> QED BY ProcInvariant, <1>1, PTL

-----------------------------------------------------------------------------
(* The docstring of utils/proc.py promises more than the group: "kills the     *)
(* whole tree".  That is so exactly as long as the tree stays in the group.    *)

Killed ==
  pc \in {"kill_child", "drain"} \/ (pc \in {"answer", "returned"} /\ error = "timeout")

\* From the kill on nothing the child has started runs, and nobody holds the
\* pipe: the second communicate need not wait for its timeout.
TreeIsDead == Killed => Running = {} /\ writers = {}

\* Nobody who was started is outside the group.
AllMembers == Running \subseteq group

LEMMA MembersStay ==
  ASSUME ProcInv, AllMembers, [Next]_vars, [group \subseteq group']_vars
  PROVE  AllMembers'
<1>1. CASE UNCHANGED vars
  BY <1>1 DEF vars, tree, AllMembers, Running
<1>2. ASSUME NEW p \in Process, Tree(p) PROVE AllMembers'
  <2>1. CASE Fork(p)
    <3>1. PICK q \in Process : /\ state' = [state EXCEPT ![q] = "running"]
                               /\ group' = IF p \in group THEN group \cup {q} ELSE group
      BY <2>1 DEF Fork
    <3>2. Running' = Running \cup {q} /\ p \in group
      BY <2>1, <3>1 DEF Fork, Running, ProcInv, TypeOK, AllMembers
    <3> QED
      BY <3>1, <3>2 DEF AllMembers
  <2>2. CASE LeaveGroup(p)
    <3>1. p \in group /\ p \notin group' /\ group \subseteq group'
      BY <2>2 DEF LeaveGroup, vars, tree
    <3> QED
      BY <3>1
  <2>3. CASE ClosePipe(p) \/ Say(p) \/ WriteFile(p)
    BY <2>3 DEF ClosePipe, Say, WriteFile, AllMembers, Running
  <2>4. CASE Exit(p)
    <3>1. Running' = Running \ {p}
      BY <2>4, DeadRun DEF Exit, Running, ProcInv
    <3> QED
      BY <2>4, <3>1 DEF Exit, AllMembers
  <2> QED
    BY <1>2, <2>1, <2>2, <2>3, <2>4 DEF Tree
<1>3. ASSUME Caller PROVE AllMembers'
  <2>1. CASE Launch
    <3>1. Running = {}
      BY <2>1 DEF Launch, ProcInv, NothingBeforeLaunch
    <3>2. Running' \subseteq {Child} /\ (Running' = {} \/ group' = {Child})
      BY <2>1, <3>1 DEF Launch, Running, ProcInv, TypeOK
    <3> QED
      BY <3>2 DEF AllMembers
  <2>2. CASE Communicate \/ KillChild \/ Drain
    <3>1. state' \in {Reap, state} /\ group' = group
      BY <2>2 DEF Communicate, KillChild, Drain
    <3>2. Running' \subseteq Running
      BY <3>1, ReapRun DEF Running, ProcInv
    <3> QED
      BY <3>1, <3>2 DEF AllMembers
  <2>3. CASE KillGroup
    <3>1. Running' = Running \ (group \cap Running) /\ group' = group
      BY <2>3, DeadRun DEF KillGroup, Running, ProcInv, TypeOK
    <3> QED
      BY <3>1 DEF AllMembers
  <2>4. CASE TimeOut \/ Answer
    BY <2>4 DEF TimeOut, Answer, tree, AllMembers, Running
  <2> QED
    BY <1>3, <2>1, <2>2, <2>3, <2>4 DEF Caller
<1> QED
  BY <1>1, <1>2, <1>3 DEF Next

\* _kill_tree: if no process leaves the group (setsid, setpgid), the whole tree
\* is dead once the group has been killed, and stays dead.
THEOREM TimeoutKillsTree ==
  Spec /\ [][group \subseteq group']_vars => []TreeIsDead
<1>1. Init => AllMembers
  BY DEF Init, AllMembers, Running
<1>2. ProcInv /\ AllMembers => TreeIsDead
  BY DEF ProcInv, GroupKilled, WritersLive, AllMembers, TreeIsDead, Killed
<1> QED
  BY ProcInvariant, MembersStay, <1>1, <1>2, PTL DEF Spec
=============================================================================
