--------------------------- MODULE PaperclipProofs ----------------------------
(***************************************************************************)
(* Proofs about the two ways in which Paperclip and the dashboard work     *)
(* together: the task runner, for any set of issues and any number of      *)
(* loops, and the bridge, for any requests and agents. That an issue is    *)
(* not done twice holds for one loop.                                      *)
(***************************************************************************)
EXTENDS Paperclip, FiniteSetTheorems, TLAPS

----------------------------------------------------------------------------
(***************************************************************************)
(* The task runner.                                                        *)
(***************************************************************************)

\* A loop at work has an issue, and one with a result to report has a result.
LoopOK(l) ==
    /\ pc[l] \in {"checkout", "processing", "commenting", "closing", "follow-up"}
       => issue[l] \in Issues
    /\ pc[l] \in {"commenting", "closing", "follow-up"} => results[issue[l]] > 0

\* What is not filed yet has no traces.
Unfiled(i) == status[i] = "none" => parent[i] = NoIssue /\ results[i] = 0

IInv ==
    /\ TypeOK
    /\ \A l \in Loops : LoopOK(l)
    /\ \A l \in Loops : issue[l] \in Issues => status[issue[l]] # "none"
    /\ \A i \in Issues : Unfiled(i)
    /\ DoneMeansHandled

\* The initial state satisfies the invariant.
LEMMA InitIInv == Init => IInv
<1> SUFFICES ASSUME Init PROVE IInv
  OBVIOUS
<1>1. TypeOK
  <2>1. 0 \in 0..MaxUnclosed
    BY RunnerAssumption
  <2>2. running \in BOOLEAN
    BY ZenonT(20) DEF Init
  <2>3. signedOff \in SUBSET Issues
    BY DEF Init
  <2>4. "off" \in LoopPCs
    BY DEF LoopPCs
  <2> QED
    BY <2>1, <2>2, <2>3, <2>4 DEF Init, TypeOK
<1>2. \A l \in Loops : LoopOK(l) /\ issue[l] \notin Issues
  BY RunnerAssumption DEF Init, LoopOK
<1>3. (\A i \in Issues : Unfiled(i)) /\ DoneMeansHandled
  BY DEF Init, Unfiled, DoneMeansHandled
<1> QED
  BY <1>1, <1>2, <1>3 DEF IInv

\* A call of the dashboard keeps the invariant.
LEMMA RouteIInv ==
    ASSUME IInv, NEW i \in Issues,
           CreateAndAssign(i) \/ DelegateIssue(i) \/ CloseIssue(i)
    PROVE  IInv'
<1> USE DEF IInv, TypeOK
<1>1. CASE CreateAndAssign(i)
  BY <1>1, RunnerAssumption DEF CreateAndAssign, File, LoopOK, Unfiled, DoneMeansHandled
<1>2. CASE DelegateIssue(i)
  BY <1>2 DEF DelegateIssue, LoopOK, Unfiled, DoneMeansHandled
<1>3. CASE CloseIssue(i)
  BY <1>3 DEF CloseIssue, SetDone, LoopOK, Unfiled, DoneMeansHandled
<1> QED
  BY <1>1, <1>2, <1>3

\* A step of a loop's cycle keeps the invariant.
LEMMA CycleIInv ==
    ASSUME IInv, NEW l \in Loops, LoopStep(l)
    PROVE  IInv'
<1> USE RunnerAssumption DEF IInv, TypeOK, GoTo, tracker, LoopPCs
<1>1. CASE GrabNextTask(l)
  BY <1>1 DEF GrabNextTask, Queue, LoopOK, Unfiled, DoneMeansHandled
<1>2. CASE Checkout(l)
  BY <1>2 DEF Checkout, LoopOK, Unfiled, DoneMeansHandled
<1>3. CASE ProcessReturns(l)
  <2>1. issue[l] \in Issues /\ status[issue[l]] # "none"
    BY <1>3 DEF ProcessReturns, LoopOK
  <2>2. \A i \in Issues : results'[i] \in Nat /\ results'[i] >= results[i]
    BY <1>3, <2>1 DEF ProcessReturns
  <2>3. results'[issue[l]] > 0
    BY <1>3, <2>1 DEF ProcessReturns
  <2>4. TypeOK'
    BY <1>3, <2>1 DEF ProcessReturns
  <2>5. \A k \in Loops : LoopOK(k)'
    BY <1>3, <2>1, <2>2, <2>3 DEF ProcessReturns, LoopOK
  <2>6. \A i \in Issues : Unfiled(i)'
    BY <1>3, <2>1 DEF ProcessReturns, Unfiled
  <2>7. DoneMeansHandled'
    BY <1>3, <2>2 DEF ProcessReturns, DoneMeansHandled
  <2>8. \A k \in Loops : issue'[k] \in Issues => status'[issue'[k]] # "none"
    BY <1>3 DEF ProcessReturns
  <2> QED
    BY <2>4, <2>5, <2>6, <2>7, <2>8
<1>4. CASE ProcessRaises(l)
  BY <1>4 DEF ProcessRaises, LoopOK, Unfiled, DoneMeansHandled
<1>5. CASE Comment(l)
  BY <1>5 DEF Comment, LoopOK, Unfiled, DoneMeansHandled
<1>9. CASE CommentRaises(l)
  <2>1. issue[l] \in Issues
    BY <1>9 DEF CommentRaises, LoopOK
  <2> QED
    BY <1>9, <2>1 DEF CommentRaises, CountUnclosed, LoopOK, Unfiled, DoneMeansHandled
<1>6. CASE Close(l)
  <2>1. issue[l] \in Issues /\ status[issue[l]] # "none" /\ results[issue[l]] > 0
    BY <1>6 DEF Close, LoopOK
  <2>2. CASE SetDone(issue[l]) /\ UNCHANGED unclosed
    BY <1>6, <2>1, <2>2 DEF Close, SetDone, LoopOK, Unfiled, DoneMeansHandled
  <2>3. CASE CountUnclosed(issue[l]) /\ UNCHANGED status
    BY <1>6, <2>1, <2>3 DEF Close, CountUnclosed, LoopOK, Unfiled, DoneMeansHandled
  <2> QED
    BY <1>6, <2>2, <2>3 DEF Close
<1>7. CASE CreateFollowUp(l)
  <2>1. issue[l] \in Issues /\ status[issue[l]] # "none"
    BY <1>7 DEF CreateFollowUp, LoopOK
  <2>2. CASE \E i \in Issues : File(i, "Timmy", issue[l])
    BY <1>7, <2>1, <2>2 DEF CreateFollowUp, File, LoopOK, Unfiled, DoneMeansHandled
  <2>3. CASE UNCHANGED <<status, assignee, parent>>
    BY <1>7, <2>3 DEF CreateFollowUp, LoopOK, Unfiled, DoneMeansHandled
  <2> QED
    BY <1>7, <2>2, <2>3 DEF CreateFollowUp
<1>8. CASE Wake(l)
  BY <1>8 DEF Wake, LoopOK, Unfiled, DoneMeansHandled
<1> QED
  BY <1>1, <1>2, <1>3, <1>4, <1>5, <1>6, <1>7, <1>8, <1>9 DEF LoopStep

\* A crash loses the loops and nothing of the tracker.
LEMMA CrashIInv == IInv /\ Crash => IInv'
<1> SUFFICES ASSUME IInv, Crash PROVE IInv'
  OBVIOUS
<1> DEFINE lost(i) == {l \in Loops : issue[l] = i /\ pc[l] \in {"commenting", "closing"}}
<1>1. \A i \in Issues : Cardinality(lost(i)) \in Nat
  BY RunnerAssumption, FS_Subset, FS_CardinalityType
<1>2. unclosed' = [i \in Issues |-> unclosed[i] + Cardinality(lost(i))]
  BY DEF Crash
<1> HIDE DEF lost
<1>3. unclosed' \in [Issues -> 0..MaxUnclosed]
  <2>1. \A i \in Issues : unclosed'[i] \in Nat /\ unclosed'[i] <= MaxUnclosed
    BY <1>1, <1>2 DEF Crash, IInv, TypeOK
  <2> QED
    BY <1>2, <2>1, RunnerAssumption
<1> QED
  BY <1>3, RunnerAssumption
     DEF Crash, IInv, TypeOK, tracker, LoopOK, Unfiled, DoneMeansHandled, LoopPCs

\* Every step keeps the invariant.
LEMMA NextIInv == IInv /\ [Next]_vars => IInv'
<1> SUFFICES ASSUME IInv, [Next]_vars PROVE IInv'
  OBVIOUS
<1>1. ASSUME NEW l \in Loops, Start(l) PROVE IInv'
  BY <1>1 DEF Start, tracker, IInv, TypeOK, LoopOK, Unfiled, DoneMeansHandled, LoopPCs
<1>2. CASE Stop
  BY <1>2 DEF Stop, tracker, IInv, TypeOK, LoopOK, Unfiled, DoneMeansHandled
<1>3. CASE UNCHANGED vars
  BY <1>3 DEF vars, IInv, TypeOK, LoopOK, Unfiled, DoneMeansHandled
<1> QED
  BY <1>1, <1>2, <1>3, RouteIInv, CycleIInv, CrashIInv DEF Next

\* The invariant, for every behaviour.
THEOREM RunnerInvariant == Spec => []IInv
<1> QED
  BY InitIInv, NextIInv, PTL DEF Spec

\* The variables have their types, for every number of issues and loops.
THEOREM RunnerTypeCorrect == Spec => []TypeOK
<1>1. IInv => TypeOK
  BY DEF IInv
<1> QED
  BY <1>1, RunnerInvariant, PTL

\* An issue is done only when it was signed off or has a result, for every
\* number of issues and of loops that work on the same issue.
THEOREM DoneIsHandled == Spec => []DoneMeansHandled
<1>1. IInv => DoneMeansHandled
  BY DEF IInv
<1> QED
  BY <1>1, RunnerInvariant, PTL

-----------------------------------------------------------------------------
(* One loop: an issue is done again only if it could not be closed.        *)

\* The only loop l: unless the result of issue i is just being reported, each
\* result was followed by a closing or is counted as unclosed; and an issue that
\* is being worked on, or could be taken, has only results of the latter kind.
OnceOK(l, i) ==
    /\ results[i] <= unclosed[i] + 1
    /\ \/ status[i] = "open" /\ ~(issue[l] = i /\ pc[l] \in {"commenting", "closing"})
       \/ issue[l] = i /\ pc[l] \in {"checkout", "processing"}
       => results[i] <= unclosed[i]

\* With one loop every step keeps it.
LEMMA OnceNext ==
    ASSUME NEW l \in Loops, Loops = {l}, IInv, IInv', [Next]_vars,
           \A i \in Issues : OnceOK(l, i)
    PROVE  \A i \in Issues : OnceOK(l, i)'
<1> SUFFICES ASSUME NEW i \in Issues PROVE OnceOK(l, i)'
  OBVIOUS
<1>0. /\ results \in [Issues -> Nat] /\ unclosed \in [Issues -> 0..MaxUnclosed]
      /\ pc \in [Loops -> LoopPCs] /\ issue \in [Loops -> Issues \cup {NoIssue}]
      /\ status \in [Issues -> {"none", "open", "done"}]
      /\ Unfiled(i) /\ LoopOK(l) /\ OnceOK(l, i) /\ MaxUnclosed \in Nat
  BY RunnerAssumption DEF IInv, TypeOK
<1> USE <1>0 DEF OnceOK
<1>1. ASSUME NEW j \in Issues, CreateAndAssign(j) \/ DelegateIssue(j) \/ CloseIssue(j)
      PROVE  OnceOK(l, i)'
  BY <1>1 DEF CreateAndAssign, DelegateIssue, CloseIssue, File, SetDone, Unfiled
<1>2. CASE LoopStep(l)
  <2> USE DEF GoTo, tracker
  <2>1. CASE GrabNextTask(l) \/ Checkout(l) \/ Wake(l)
    BY <2>1 DEF GrabNextTask, Checkout, Wake, Queue
  <2>2. CASE ProcessReturns(l)
    BY <2>2 DEF ProcessReturns, LoopOK
  <2>3. CASE ProcessRaises(l) \/ Comment(l)
    BY <2>3 DEF ProcessRaises, Comment, LoopOK
  <2>4. CASE Close(l)
    BY <2>4 DEF Close, SetDone, CountUnclosed, LoopOK
  <2>5. CASE CreateFollowUp(l)
    BY <2>5 DEF CreateFollowUp, File, Unfiled, LoopOK
  <2>6. CASE CommentRaises(l)
    BY <2>6 DEF CommentRaises, CountUnclosed, LoopOK
  <2> QED
    BY <1>2, <2>1, <2>2, <2>3, <2>4, <2>5, <2>6 DEF LoopStep
<1>3. CASE Start(l) \/ Stop \/ UNCHANGED vars
  BY <1>3 DEF Start, Stop, vars, tracker
<1>4. CASE Crash
  <2> DEFINE lost == {k \in Loops : issue[k] = i /\ pc[k] \in {"commenting", "closing"}}
  <2>1. unclosed'[i] = unclosed[i] + Cardinality(lost)
    BY <1>4 DEF Crash
  <2>2. /\ issue[l] = i /\ pc[l] \in {"commenting", "closing"} => lost = {l}
        /\ ~(issue[l] = i /\ pc[l] \in {"commenting", "closing"}) => lost = {}
    OBVIOUS
  <2>3. Cardinality({l}) = 1 /\ Cardinality({}) = 0
    BY FS_Singleton, FS_EmptySet
  <2> HIDE DEF lost
  <2>4. /\ issue[l] = i /\ pc[l] \in {"commenting", "closing"}
           => unclosed'[i] = unclosed[i] + 1
        /\ ~(issue[l] = i /\ pc[l] \in {"commenting", "closing"})
           => unclosed'[i] = unclosed[i]
    BY <2>1, <2>2, <2>3
  <2>5. /\ UNCHANGED <<status, results>>
        /\ pc'[l] = "off" /\ issue'[l] = NoIssue
    BY <1>4 DEF Crash, tracker
  <2> QED
    BY <2>4, <2>5
<1> QED
  BY <1>1, <1>2, <1>3, <1>4 DEF Next

\* Where one loop is under way at a time, an issue gets another result only
\* after a result that did not lead to its closing.
THEOREM OneLoopRepeats ==
    ASSUME NEW l \in Loops, Loops = {l}
    PROVE  Spec => []RepeatedOnlyIfUnclosed
<1> DEFINE Once == \A i \in Issues : OnceOK(l, i)
<1>1. Init => Once
  BY DEF Init, OnceOK
<1>2. IInv /\ IInv' /\ Once /\ [Next]_vars => Once'
  BY OnceNext
<1>3. Once => RepeatedOnlyIfUnclosed
  BY DEF OnceOK, RepeatedOnlyIfUnclosed
<1> QED
  BY <1>1, <1>2, <1>3, RunnerInvariant, PTL DEF Spec

-----------------------------------------------------------------------------
(* Follow-ups: any number of loops.                                        *)

\* The loops that have a result for issue i and have not filed its follow-up.
Reporting(i) ==
    {l \in Loops : issue[l] = i /\ pc[l] \in {"commenting", "closing", "follow-up"}}

FollowUpInv ==
    \A i \in Issues : Cardinality(FollowUps(i)) + Cardinality(Reporting(i)) <= results[i]

\* The sets that are counted are finite.
LEMMA CountedFinite ==
    ASSUME NEW i
    PROVE  /\ IsFiniteSet(FollowUps(i)) /\ Cardinality(FollowUps(i)) \in Nat
           /\ IsFiniteSet(Reporting(i)) /\ Cardinality(Reporting(i)) \in Nat
  BY RunnerAssumption, FS_Subset, FS_CardinalityType DEF FollowUps, Reporting

\* At the start nothing is filed and nobody reports.
LEMMA FollowUpInit == Init => FollowUpInv
<1> SUFFICES ASSUME Init, NEW i \in Issues
             PROVE  Cardinality(FollowUps(i)) + Cardinality(Reporting(i)) <= results[i]
  BY DEF FollowUpInv
<1>1. FollowUps(i) = {} /\ Reporting(i) = {}
  BY RunnerAssumption DEF Init, FollowUps, Reporting
<1> QED
  BY <1>1, FS_EmptySet DEF Init

\* A step that leaves the follow-ups and the results alone, and after which nobody
\* reports who did not before.
LEMMA FollowUpIdle ==
    ASSUME IInv, FollowUpInv, UNCHANGED <<parent, results>>,
           \A i \in Issues : Reporting(i)' \subseteq Reporting(i)
    PROVE  FollowUpInv'
<1> SUFFICES ASSUME NEW i \in Issues
             PROVE  (Cardinality(FollowUps(i)) + Cardinality(Reporting(i)) <= results[i])'
  BY DEF FollowUpInv
<1>1. FollowUps(i)' = FollowUps(i) /\ results'[i] = results[i] /\ results[i] \in Nat
  BY DEF FollowUps, IInv, TypeOK
<1>2. Cardinality(Reporting(i)') <= Cardinality(Reporting(i)) /\ Cardinality(Reporting(i)') \in Nat
  BY CountedFinite, FS_Subset, FS_CardinalityType
<1>3. Cardinality(FollowUps(i)) + Cardinality(Reporting(i)) <= results[i]
  BY DEF FollowUpInv
<1> QED
  BY <1>1, <1>2, <1>3, CountedFinite

\* The result of an issue is one more loop that reports.
LEMMA FollowUpReturns ==
    ASSUME IInv, FollowUpInv, NEW l \in Loops, ProcessReturns(l)
    PROVE  FollowUpInv'
<1>1. /\ issue[l] \in Issues /\ pc[l] = "processing" /\ issue' = issue
      /\ pc' = [pc EXCEPT ![l] = "commenting"] /\ parent' = parent
      /\ results' = [results EXCEPT ![issue[l]] = @ + 1]
      /\ pc \in [Loops -> LoopPCs] /\ results \in [Issues -> Nat]
  BY DEF ProcessReturns, GoTo, tracker, IInv, TypeOK, LoopOK
<1> SUFFICES ASSUME NEW i \in Issues
             PROVE  (Cardinality(FollowUps(i)) + Cardinality(Reporting(i)) <= results[i])'
  BY DEF FollowUpInv
<1>2. FollowUps(i)' = FollowUps(i)
  BY <1>1 DEF FollowUps
<1>3. CASE i = issue[l]
  <2>1. Reporting(i)' = Reporting(i) \cup {l} /\ l \notin Reporting(i)
    BY <1>1, <1>3 DEF Reporting
  <2>2. Cardinality(Reporting(i)') = Cardinality(Reporting(i)) + 1
    BY <2>1, CountedFinite, FS_AddElement
  <2>3. results'[i] = results[i] + 1
    BY <1>1, <1>3
  <2> QED
    BY <1>1, <1>2, <2>2, <2>3, CountedFinite DEF FollowUpInv
<1>4. CASE i # issue[l]
  <2>1. Reporting(i)' = Reporting(i) /\ results'[i] = results[i]
    BY <1>1, <1>4 DEF Reporting
  <2> QED
    BY <1>2, <2>1 DEF FollowUpInv
<1> QED
  BY <1>3, <1>4

\* Filing a follow-up, or failing to, is one loop less that reports.
LEMMA FollowUpFiled ==
    ASSUME IInv, FollowUpInv, NEW l \in Loops, CreateFollowUp(l)
    PROVE  FollowUpInv'
<1>1. /\ issue[l] \in Issues /\ pc[l] = "follow-up" /\ results' = results
      /\ pc' = [pc EXCEPT ![l] = "sleeping"] /\ issue' = [issue EXCEPT ![l] = NoIssue]
      /\ pc \in [Loops -> LoopPCs] /\ issue \in [Loops -> Issues \cup {NoIssue}]
      /\ results \in [Issues -> Nat] /\ parent \in [Issues -> Issues \cup {NoIssue}]
  BY DEF CreateFollowUp, GoTo, IInv, TypeOK, LoopOK
<1> SUFFICES ASSUME NEW i \in Issues
             PROVE  (Cardinality(FollowUps(i)) + Cardinality(Reporting(i)) <= results[i])'
  BY DEF FollowUpInv
<1>2. Cardinality(FollowUps(i)) + Cardinality(Reporting(i)) <= results[i]
  BY DEF FollowUpInv
<1>3. CASE i = issue[l]
  <2>1. Reporting(i)' = Reporting(i) \ {l} /\ l \in Reporting(i)
    BY <1>1, <1>3, RunnerAssumption DEF Reporting
  <2>2. Cardinality(Reporting(i)') = Cardinality(Reporting(i)) - 1
    BY <2>1, CountedFinite, FS_RemoveElement
  <2>3. Cardinality(FollowUps(i)') <= Cardinality(FollowUps(i)) + 1
    <3>1. CASE \E j \in Issues : File(j, "Timmy", issue[l])
      <4>1. PICK j \in Issues : parent' = [parent EXCEPT ![j] = issue[l]]
        BY <3>1 DEF File
      <4>2. FollowUps(i)' = FollowUps(i) \cup {j}
        BY <1>1, <1>3, <4>1 DEF FollowUps
      <4>3. IsFiniteSet(FollowUps(i)) /\ Cardinality(FollowUps(i)) \in Nat
        BY CountedFinite
      <4>4. Cardinality(FollowUps(i) \cup {j}) <= Cardinality(FollowUps(i)) + 1
        BY <4>3, FS_AddElement
      <4> QED
        BY <4>2, <4>4
    <3>2. CASE UNCHANGED parent
      <4>1. FollowUps(i)' = FollowUps(i)
        BY <3>2 DEF FollowUps
      <4> QED
        BY <4>1, CountedFinite
    <3> QED
      BY <3>1, <3>2 DEF CreateFollowUp
  <2>4. Cardinality(FollowUps(i)') \in Nat
    BY RunnerAssumption, FS_Subset, FS_CardinalityType DEF FollowUps
  <2> QED
    BY <1>1, <1>2, <2>2, <2>3, <2>4, CountedFinite
<1>4. CASE i # issue[l]
  <2>1. Reporting(i)' = Reporting(i)
    BY <1>1, <1>4, RunnerAssumption DEF Reporting
  <2>2. FollowUps(i)' = FollowUps(i)
    <3>1. \A j \in Issues : status[j] = "none" => parent[j] = NoIssue
      BY DEF IInv, Unfiled
    <3> QED
      BY <1>1, <1>4, <3>1, RunnerAssumption DEF FollowUps, CreateFollowUp, File
  <2> QED
    BY <1>1, <1>2, <2>1, <2>2
<1> QED
  BY <1>3, <1>4

\* Every step keeps it.
LEMMA FollowUpNext == IInv /\ FollowUpInv /\ [Next]_vars => FollowUpInv'
<1> SUFFICES ASSUME IInv, FollowUpInv, [Next]_vars PROVE FollowUpInv'
  OBVIOUS
<1>0. /\ pc \in [Loops -> LoopPCs] /\ issue \in [Loops -> Issues \cup {NoIssue}]
      /\ parent \in [Issues -> Issues \cup {NoIssue}]
      /\ \A i \in Issues : status[i] = "none" => parent[i] = NoIssue
  BY DEF IInv, TypeOK, Unfiled
<1>1. ASSUME NEW i \in Issues, CreateAndAssign(i) \/ DelegateIssue(i) \/ CloseIssue(i)
      PROVE  FollowUpInv'
  <2>1. UNCHANGED <<pc, issue, results>> /\ parent' = parent
    BY <1>0, <1>1 DEF CreateAndAssign, DelegateIssue, CloseIssue, File
  <2> QED
    BY <2>1, FollowUpIdle DEF Reporting
<1>2. ASSUME NEW l \in Loops, LoopStep(l) \/ Start(l) PROVE FollowUpInv'
  <2>1. CASE GrabNextTask(l) \/ Checkout(l) \/ ProcessRaises(l) \/ Wake(l) \/ Start(l)
    <3>1. UNCHANGED <<parent, results>>
      BY <2>1 DEF GrabNextTask, Checkout, ProcessRaises, Wake, Start, tracker
    <3>2. /\ pc[l] \notin {"commenting", "closing", "follow-up"}
          /\ pc'[l] \notin {"commenting", "closing", "follow-up"}
      BY <1>0, <2>1 DEF GrabNextTask, Checkout, ProcessRaises, Wake, Start, GoTo
    <3>3. \A k \in Loops \ {l} : pc'[k] = pc[k] /\ issue'[k] = issue[k]
      BY <1>0, <2>1 DEF GrabNextTask, Checkout, ProcessRaises, Wake, Start, GoTo
    <3>4. \A i \in Issues : Reporting(i)' = Reporting(i)
      BY <3>2, <3>3 DEF Reporting
    <3> QED
      BY <3>1, <3>4, FollowUpIdle
  <2>2. CASE Comment(l) \/ CommentRaises(l) \/ Close(l)
    <3>1. UNCHANGED <<parent, results>>
      BY <2>2 DEF Comment, CommentRaises, Close, tracker
    <3>2. /\ pc[l] \in {"commenting", "closing"}
          /\ \/ issue' = issue
             \/ pc'[l] = "sleeping" /\ \A k \in Loops \ {l} : issue'[k] = issue[k]
          /\ \A k \in Loops \ {l} : pc'[k] = pc[k]
      BY <1>0, <2>2 DEF Comment, CommentRaises, Close, GoTo
    <3>3. \A i \in Issues : Reporting(i)' \subseteq Reporting(i)
      BY <3>2 DEF Reporting
    <3> QED
      BY <3>1, <3>3, FollowUpIdle
  <2> QED
    BY <1>2, <2>1, <2>2, FollowUpReturns, FollowUpFiled DEF LoopStep
<1>3. CASE Stop \/ UNCHANGED vars
  BY <1>3, FollowUpIdle DEF Stop, vars, tracker, Reporting
<1>4. CASE Crash
  <2>1. \A i \in Issues : Reporting(i)' = {}
    BY <1>4 DEF Crash, Reporting
  <2>2. UNCHANGED <<parent, results>>
    BY <1>4 DEF Crash, tracker
  <2> QED
    BY <2>1, <2>2, FollowUpIdle
<1> QED
  BY <1>1, <1>2, <1>3, <1>4 DEF Next

\* An issue never has more follow-ups than results, for every number of loops
\* that work on it, failing calls and crashes.
THEOREM FollowUpsAnswerResults == Spec => []FollowUpsHaveResults
<1>1. IInv /\ FollowUpInv => FollowUpsHaveResults
  <2> SUFFICES ASSUME IInv, FollowUpInv, NEW i \in Issues
               PROVE  Cardinality(FollowUps(i)) <= results[i]
    BY DEF FollowUpsHaveResults
  <2> QED
    BY CountedFinite DEF FollowUpInv, IInv, TypeOK
<1> QED
  BY <1>1, FollowUpInit, FollowUpNext, RunnerInvariant, PTL DEF Spec

----------------------------------------------------------------------------
(***************************************************************************)
(* The bridge.                                                             *)
(***************************************************************************)

\* What a request was made for has happened.
Happened(q) ==
    /\ q.op # "wake" => q.ticket \in filed
    /\ q.op \in {"file", "delegate"} /\ q.agent # NoAgent => <<q.agent, q.ticket>> \in given
    /\ q.op = "close" => q.ticket \in closed
    /\ q.op = "wake" => <<q.agent, q.ticket>> \in woken

\* A request has failed, has been told ok, or is on its way: its own call is still
\* to come, or only a message and a wake-up are.
OnItsWay(q) ==
    \/ q.op = "file" /\ q.calls = <<"create">>
    \/ q.op = "file" /\ q.calls = <<"create", "wake">> /\ q.agent \in Agents
    \/ /\ q.op = "delegate" /\ q.calls \in {<<"assign", "wake">>, <<"assign", "comment", "wake">>}
       /\ q.agent \in Agents /\ q.ticket \in filed
    \/ /\ q.op = "close" /\ q.calls \in {<<"done">>, <<"comment", "done">>}
       /\ q.agent = NoAgent /\ q.ticket \in filed
    \/ /\ q.op \in {"file", "delegate"} /\ q.calls \in {<<"wake">>, <<"comment", "wake">>}
       /\ q.agent \in Agents /\ Happened(q)
    \/ q.op = "wake" /\ q.calls = <<"wake">> /\ q.agent \in Agents

RequestOK(q) ==
    \/ q = Unsent
    \/ q.answer = "error" /\ q.calls = <<>>
    \/ q.answer = "ok" /\ q.calls = <<>> /\ Happened(q)
    \/ q.answer = "none" /\ OnItsWay(q)

BridgeIInv ==
    /\ BridgeTypeOK
    /\ woken \subseteq given \cup Asked
    /\ \A r \in Routes : RequestOK(request[r])

Requests ==
    [op : {"none", "file", "delegate", "close", "wake"}, agent : Agents \cup {NoAgent},
     ticket : Tickets \cup {NoTicket}, calls : Seq(ApiCalls), answer : {"none", "ok", "error"}]

LEMMA CallsAreCalls ==
    /\ <<"create">> \in Seq(ApiCalls) /\ <<"create", "wake">> \in Seq(ApiCalls)
    /\ <<"assign", "wake">> \in Seq(ApiCalls) /\ <<"assign", "comment", "wake">> \in Seq(ApiCalls)
    /\ <<"done">> \in Seq(ApiCalls) /\ <<"comment", "done">> \in Seq(ApiCalls)
    /\ <<"wake">> \in Seq(ApiCalls)
<1> DEFINE A == ApiCalls
<1>1. "create" \in A /\ "assign" \in A /\ "comment" \in A /\ "done" \in A /\ "wake" \in A
  BY DEF ApiCalls
<1> HIDE DEF A
<1>2. <<"create">> \in Seq(A) /\ <<"create", "wake">> \in Seq(A)
  BY <1>1
<1>3. <<"assign", "wake">> \in Seq(A) /\ <<"assign", "comment", "wake">> \in Seq(A)
  BY <1>1
<1>4. <<"done">> \in Seq(A) /\ <<"comment", "done">> \in Seq(A)
  BY <1>1
<1>5. <<"wake">> \in Seq(A)
  BY <1>1
<1> QED
  BY <1>2, <1>3, <1>4, <1>5 DEF A

\* What the tracker knows it goes on knowing.
Recorded ==
    /\ filed \subseteq filed' /\ given \subseteq given' /\ closed \subseteq closed'
    /\ woken \subseteq woken'

\* The tracker forgets nothing, so that a request stays as far as it is.
LEMMA RequestStays == ASSUME Recorded, NEW q \in Requests, RequestOK(q) PROVE RequestOK(q)'
BY DEF Recorded, RequestOK, OnItsWay, Happened

\* The next call of a request on its way, and what is left after it.
Goes(q, head, rest) ==
    \/ head = "create" /\ q.op = "file" /\ rest = <<>>
    \/ head = "create" /\ q.op = "file" /\ rest = <<"wake">> /\ q.agent \in Agents
    \/ /\ head = "assign" /\ q.op = "delegate" /\ q.agent \in Agents /\ q.ticket \in filed
       /\ rest \in {<<"wake">>, <<"comment", "wake">>}
    \/ /\ head = "comment" /\ q.op = "close" /\ q.agent = NoAgent /\ q.ticket \in filed
       /\ rest = <<"done">>
    \/ head = "done" /\ q.op = "close" /\ q.agent = NoAgent /\ q.ticket \in filed /\ rest = <<>>
    \/ /\ head = "comment" /\ q.op \in {"file", "delegate"} /\ q.agent \in Agents /\ Happened(q)
       /\ rest = <<"wake">>
    \/ /\ head = "wake" /\ q.op \in {"file", "delegate"} /\ q.agent \in Agents /\ Happened(q)
       /\ rest = <<>>
    \/ head = "wake" /\ q.op = "wake" /\ q.agent \in Agents /\ rest = <<>>

LEMMA NextCall ==
    ASSUME NEW q \in Requests, OnItsWay(q)
    PROVE  /\ q.calls # <<>> /\ Head(q.calls) \in ApiCalls /\ Tail(q.calls) \in Seq(ApiCalls)
           /\ Goes(q, Head(q.calls), Tail(q.calls))
<1>1. CASE q.op = "file" /\ q.calls = <<"create">>
  BY <1>1 DEF ApiCalls, Goes
<1>2. CASE q.op = "file" /\ q.calls = <<"create", "wake">> /\ q.agent \in Agents
  BY <1>2 DEF ApiCalls, Goes
<1>3. CASE /\ q.op = "delegate" /\ q.calls = <<"assign", "wake">>
           /\ q.agent \in Agents /\ q.ticket \in filed
  BY <1>3 DEF ApiCalls, Goes
<1>4. CASE /\ q.op = "delegate" /\ q.calls = <<"assign", "comment", "wake">>
           /\ q.agent \in Agents /\ q.ticket \in filed
  BY <1>4 DEF ApiCalls, Goes
<1>5. CASE q.op = "close" /\ q.calls = <<"done">> /\ q.agent = NoAgent /\ q.ticket \in filed
  BY <1>5 DEF ApiCalls, Goes
<1>6. CASE q.op = "close" /\ q.calls = <<"comment", "done">> /\ q.agent = NoAgent /\ q.ticket \in filed
  BY <1>6 DEF ApiCalls, Goes
<1>7. CASE q.op \in {"file", "delegate"} /\ q.calls = <<"wake">> /\ q.agent \in Agents /\ Happened(q)
  BY <1>7 DEF ApiCalls, Goes
<1>8. CASE /\ q.op \in {"file", "delegate"} /\ q.calls = <<"comment", "wake">>
           /\ q.agent \in Agents /\ Happened(q)
  BY <1>8 DEF ApiCalls, Goes
<1>9. CASE q.op = "wake" /\ q.calls = <<"wake">> /\ q.agent \in Agents
  BY <1>9 DEF ApiCalls, Goes
<1> QED
  BY <1>1, <1>2, <1>3, <1>4, <1>5, <1>6, <1>7, <1>8, <1>9 DEF OnItsWay

LEMMA InitBridge == BridgeInit => BridgeIInv
<1> SUFFICES ASSUME BridgeInit PROVE BridgeIInv
  OBVIOUS
<1>1. Unsent \in Requests
  BY DEF Unsent, Requests
<1>2. BridgeTypeOK
  BY <1>1 DEF BridgeInit, BridgeTypeOK, Requests
<1> QED
  BY <1>2 DEF BridgeInit, BridgeIInv, RequestOK

----------------------------------------------------------------------------
\* A new request has nothing but calls to come.
LEMMA SendsKeeps ==
    ASSUME BridgeIInv, NEW r \in Routes, NEW op, NEW who, NEW i, NEW calls,
           Sends(r, op, who, i, calls),
           [op |-> op, agent |-> who, ticket |-> i, calls |-> calls, answer |-> "none"] \in Requests,
           OnItsWay([op |-> op, agent |-> who, ticket |-> i, calls |-> calls, answer |-> "none"])
    PROVE  BridgeIInv'
<1> DEFINE q == [op |-> op, agent |-> who, ticket |-> i, calls |-> calls, answer |-> "none"]
<1>1. request' = [request EXCEPT ![r] = q] /\ UNCHANGED <<filed, given, closed, woken>>
  BY DEF Sends
<1>2. q \in Requests /\ RequestOK(q)
  BY DEF RequestOK
<1> HIDE DEF q
<1>3. request \in [Routes -> Requests]
  BY DEF BridgeIInv, BridgeTypeOK, Requests
<1>4. BridgeTypeOK'
  BY <1>1, <1>2, <1>3 DEF BridgeIInv, BridgeTypeOK, Requests
<1>5. \A s \in Routes : RequestOK(request'[s])
  BY <1>1, <1>2, <1>3 DEF BridgeIInv
<1>6. \A s \in Routes : RequestOK(request[s])'
  BY <1>1, <1>5 DEF RequestOK, OnItsWay, Happened
<1>7. Asked \subseteq Asked'
  <2>1. request[r].op # "wake"
    BY DEF Sends, Unsent
  <2>2. \A s \in Routes \ {r} : request'[s] = request[s]
    BY <1>1, <1>3
  <2> QED
    BY <2>1, <2>2 DEF Asked
<1> QED
  BY <1>1, <1>4, <1>6, <1>7 DEF BridgeIInv

LEMMA IssueKeeps == ASSUME BridgeIInv, NEW r \in Routes, RequestIssue(r) PROVE BridgeIInv'
<1>1. PICK who \in Agents \cup {NoAgent}, wake \in BOOLEAN :
          Sends(r, "file", who, NoTicket,
                IF who # NoAgent /\ wake THEN <<"create", "wake">> ELSE <<"create">>)
  BY DEF RequestIssue
<1> DEFINE calls == IF who # NoAgent /\ wake THEN <<"create", "wake">> ELSE <<"create">>
           q == [op |-> "file", agent |-> who, ticket |-> NoTicket, calls |-> calls, answer |-> "none"]
<1>2. \/ calls = <<"create">>
      \/ calls = <<"create", "wake">> /\ who \in Agents
  OBVIOUS
<1>3. calls \in Seq(ApiCalls)
  BY <1>2, CallsAreCalls
<1>4. Sends(r, "file", who, NoTicket, calls)
  BY <1>1
<1> HIDE DEF calls
<1>5. q \in Requests
  BY <1>3 DEF Requests
<1>6. OnItsWay(q)
  BY <1>2 DEF OnItsWay
<1> QED
  BY <1>4, <1>5, <1>6, SendsKeeps

LEMMA DelegationKeeps == ASSUME BridgeIInv, NEW r \in Routes, RequestDelegation(r) PROVE BridgeIInv'
<1>1. PICK who \in Agents, i \in filed,
           calls \in {<<"assign", "wake">>, <<"assign", "comment", "wake">>} :
          Sends(r, "delegate", who, i, calls)
  BY DEF RequestDelegation
<1> DEFINE q == [op |-> "delegate", agent |-> who, ticket |-> i, calls |-> calls, answer |-> "none"]
<1>2. i \in Tickets
  BY DEF BridgeIInv, BridgeTypeOK
<1>3. calls \in Seq(ApiCalls)
  BY CallsAreCalls
<1>4. q \in Requests
  BY <1>2, <1>3 DEF Requests
<1>5. OnItsWay(q)
  BY DEF OnItsWay
<1> QED
  BY <1>1, <1>4, <1>5, SendsKeeps

LEMMA ClosingKeeps == ASSUME BridgeIInv, NEW r \in Routes, RequestClosing(r) PROVE BridgeIInv'
<1>1. PICK i \in filed, calls \in {<<"done">>, <<"comment", "done">>} :
          Sends(r, "close", NoAgent, i, calls)
  BY DEF RequestClosing
<1> DEFINE q == [op |-> "close", agent |-> NoAgent, ticket |-> i, calls |-> calls, answer |-> "none"]
<1>2. i \in Tickets
  BY DEF BridgeIInv, BridgeTypeOK
<1>3. calls \in Seq(ApiCalls)
  BY CallsAreCalls
<1>4. q \in Requests
  BY <1>2, <1>3 DEF Requests
<1>5. OnItsWay(q)
  BY DEF OnItsWay
<1> QED
  BY <1>1, <1>4, <1>5, SendsKeeps

LEMMA WakingKeeps == ASSUME BridgeIInv, NEW r \in Routes, RequestWaking(r) PROVE BridgeIInv'
<1>1. PICK who \in Agents, i \in filed \cup {NoTicket} : Sends(r, "wake", who, i, <<"wake">>)
  BY DEF RequestWaking
<1> DEFINE calls == <<"wake">>
           q == [op |-> "wake", agent |-> who, ticket |-> i, calls |-> calls, answer |-> "none"]
<1>2. i \in Tickets \cup {NoTicket}
  BY DEF BridgeIInv, BridgeTypeOK
<1>3. calls \in Seq(ApiCalls)
  BY CallsAreCalls
<1>4. q \in Requests
  BY <1>2, <1>3 DEF Requests
<1>5. OnItsWay(q)
  BY DEF OnItsWay
<1> QED
  BY <1>1, <1>4, <1>5, SendsKeeps

----------------------------------------------------------------------------
\* Whatever the tracker executes, it goes on knowing what it knew, and it knows
\* what it executed.
LEMMA ExecuteRecords ==
    ASSUME BridgeIInv, NEW call \in ApiCalls, NEW who \in Agents \cup {NoAgent},
           NEW i \in Tickets \cup {NoTicket}, call # "wake" => i \in Tickets,
           call = "wake" => who \in Agents /\ <<who, i>> \in given \cup Asked,
           Execute(call, who, i)
    PROVE  /\ Recorded
           /\ call = "create" => i \in filed'
           /\ call \in {"create", "assign"} /\ who # NoAgent => <<who, i>> \in given'
           /\ call = "done" => i \in closed'
           /\ call = "wake" => <<who, i>> \in woken'
           /\ filed' \subseteq Tickets /\ closed' \subseteq Tickets
           /\ given' \subseteq Agents \X Tickets
           /\ woken' \subseteq Agents \X (Tickets \cup {NoTicket})
           /\ woken' \subseteq given' \cup Asked
BY DEF Execute, Recorded, BridgeIInv, BridgeTypeOK, ApiCalls

\* The request whose call is made: its next call, and for which issue it is made.
LEMMA NextCallOf ==
    ASSUME BridgeIInv, NEW r \in Routes, Pending(r)
    PROVE  /\ request[r] \in Requests /\ request[r].answer = "none" /\ OnItsWay(request[r])
           /\ Target(r) \in Tickets \cup {NoTicket}
           /\ Head(request[r].calls) # "wake" => Target(r) \in Tickets
           /\ Head(request[r].calls) # "create" => Target(r) = request[r].ticket
<1> DEFINE q == request[r]
<1>1. q \in Requests /\ RequestOK(q)
  BY DEF BridgeIInv, BridgeTypeOK, Requests
<1>2. q.calls # <<>>
  BY DEF Pending
<1>3. q.answer = "none" /\ OnItsWay(q)
  BY <1>1, <1>2 DEF RequestOK, Unsent
<1>4. Head(q.calls) # "create" => Target(r) = q.ticket
  BY DEF Target
<1>5. /\ Target(r) \in Tickets \cup {NoTicket}
      /\ Head(q.calls) # "wake" => Target(r) \in Tickets
  <2>1. CASE Head(q.calls) = "create"
    <3>1. filed # Tickets /\ filed \subseteq Tickets
      BY <2>1 DEF Pending, BridgeIInv, BridgeTypeOK
    <3>2. \E i \in Tickets : i \notin filed
      BY <3>1
    <3> QED
      BY <2>1, <3>2 DEF Target
  <2>2. CASE Head(q.calls) # "create"
    <3> HIDE DEF q
    <3>1. Head(q.calls) # "wake" => q.ticket \in filed
      BY <1>1, <1>3, <2>2, NextCall DEF Goes, Happened
    <3>2. q.ticket \in Tickets \cup {NoTicket}
      BY <1>1 DEF Requests
    <3> QED
      BY <1>4, <2>2, <3>1, <3>2 DEF BridgeIInv, BridgeTypeOK
  <2> QED
    BY <2>1, <2>2
<1> QED
  BY <1>1, <1>3, <1>4, <1>5

\* After a step in which the tracker forgets nothing, and one request goes on.
LEMMA RequestGoesOn ==
    ASSUME BridgeIInv, NEW r \in Routes, NEW q \in Requests, Recorded,
           request' = [request EXCEPT ![r] = q], RequestOK(q)',
           q.op = request[r].op, q.agent = request[r].agent,
           q.op = "wake" => q.ticket = request[r].ticket,
           filed' \subseteq Tickets, closed' \subseteq Tickets,
           given' \subseteq Agents \X Tickets, woken' \subseteq Agents \X (Tickets \cup {NoTicket}),
           woken' \subseteq given' \cup Asked
    PROVE  BridgeIInv'
<1>1. request \in [Routes -> Requests] /\ \A s \in Routes : RequestOK(request[s])
  BY DEF BridgeIInv, BridgeTypeOK, Requests
<1>2. BridgeTypeOK'
  BY <1>1 DEF BridgeTypeOK, Requests
<1>3. ASSUME NEW s \in Routes PROVE RequestOK(request[s])'
  <2>1. CASE s = r
    <3>1. request'[s] = q
      BY <1>1, <2>1
    <3> QED
      BY <3>1 DEF RequestOK, OnItsWay, Happened
  <2>2. CASE s # r
    <3>1. request'[s] = request[s]
      BY <1>1, <2>2
    <3>2. request[s] \in Requests /\ RequestOK(request[s])
      BY <1>1
    <3> DEFINE t == request[s]
    <3>3. t \in Requests /\ RequestOK(t) /\ t' = t
      BY <3>1, <3>2
    <3> QED
      BY <3>3 DEF RequestOK, OnItsWay, Happened, Recorded
  <2> QED
    BY <2>1, <2>2
<1>4. Asked \subseteq Asked'
  <2>1. request'[r] = q /\ \A s \in Routes \ {r} : request'[s] = request[s]
    BY <1>1
  <2> QED
    BY <2>1 DEF Asked
<1> QED
  BY <1>2, <1>3, <1>4 DEF BridgeIInv

\* An agent is woken for what it was given, or for what somebody asked.
LEMMA WakesForGiven ==
    ASSUME NEW r \in Routes, NEW q \in Requests, q = request[r], OnItsWay(q), Head(q.calls) = "wake"
    PROVE  q.agent \in Agents /\ <<q.agent, q.ticket>> \in given \cup Asked
<1>0. Goes(q, "wake", Tail(q.calls))
  BY NextCall
<1>1. /\ q.agent \in Agents
      /\ q.op = "wake" \/ (q.op \in {"file", "delegate"} /\ Happened(q))
  BY <1>0, Zenon DEF Goes
<1>2. q.agent # NoAgent
  BY <1>1, BridgeAssumption
<1>3. CASE q.op = "wake"
  BY <1>1, <1>3 DEF Asked
<1>4. CASE q.op \in {"file", "delegate"} /\ Happened(q)
  BY <1>1, <1>2, <1>4 DEF Happened
<1> QED
  BY <1>1, <1>3, <1>4

\* What a request becomes whose call the tracker executed, and which hears of it.
LEMMA GoesOK ==
    ASSUME NEW q, NEW head, NEW rest, Goes(q, head, rest), NEW i, Recorded,
           head # "create" => i = q.ticket,
           head = "create" => i \in filed',
           head \in {"create", "assign"} /\ q.agent # NoAgent => <<q.agent, i>> \in given',
           head = "done" => i \in closed',
           head = "wake" => <<q.agent, i>> \in woken',
           NEW next, next.op = q.op, next.agent = q.agent, next.ticket = i,
           next.calls = rest, next.answer = Answer(rest)
    PROVE  RequestOK(next)'
<1>1. ASSUME head = "create", q.op = "file"
      PROVE  Happened(next)'
  BY <1>1 DEF Happened
<1>2. CASE /\ head = "assign" /\ q.op = "delegate" /\ q.agent \in Agents /\ q.ticket \in filed
           /\ rest \in {<<"wake">>, <<"comment", "wake">>}
  <2>1. Happened(next)'
    BY <1>2, BridgeAssumption DEF Happened, Recorded
  <2>2. next.answer = "none"
    BY <1>2 DEF Answer
  <2> QED
    BY <1>2, <2>1, <2>2 DEF RequestOK, OnItsWay
<1>3. CASE /\ head = "comment" /\ q.op = "close" /\ q.agent = NoAgent /\ q.ticket \in filed
           /\ rest = <<"done">>
  <2>1. next.answer = "none" /\ q.ticket \in filed'
    BY <1>3 DEF Answer, Recorded
  <2> QED
    BY <1>3, <2>1 DEF RequestOK, OnItsWay
<1>4. CASE head = "done" /\ q.op = "close" /\ q.agent = NoAgent /\ q.ticket \in filed /\ rest = <<>>
  <2>1. Happened(next)'
    BY <1>4 DEF Happened, Recorded
  <2> QED
    BY <1>4, <2>1 DEF RequestOK, Answer
<1>5. CASE /\ head \in {"comment", "wake"} /\ q.op \in {"file", "delegate"}
           /\ rest \in {<<>>, <<"wake">>} /\ q.agent \in Agents /\ Happened(q)
  <2>1. Happened(next)'
    BY <1>5 DEF Happened, Recorded
  <2> QED
    BY <1>5, <2>1 DEF RequestOK, OnItsWay, Answer
<1>6. CASE head = "create" /\ q.op = "file" /\ rest = <<>>
  BY <1>1, <1>6 DEF RequestOK, Answer
<1>7. CASE head = "create" /\ q.op = "file" /\ rest = <<"wake">> /\ q.agent \in Agents
  BY <1>1, <1>7 DEF RequestOK, OnItsWay, Answer
<1>8. CASE /\ head = "comment" /\ q.op \in {"file", "delegate"} /\ q.agent \in Agents /\ Happened(q)
           /\ rest = <<"wake">>
  BY <1>5, <1>8
<1>9. CASE /\ head = "wake" /\ q.op \in {"file", "delegate"} /\ q.agent \in Agents /\ Happened(q)
           /\ rest = <<>>
  BY <1>5, <1>9
<1>10. CASE head = "wake" /\ q.op = "wake" /\ q.agent \in Agents /\ rest = <<>>
  <2>1. Happened(next)'
    BY <1>10 DEF Happened
  <2> QED
    BY <1>10, <2>1 DEF RequestOK, Answer
<1> QED
  BY <1>2, <1>3, <1>4, <1>6, <1>7, <1>8, <1>9, <1>10, Zenon DEF Goes

LEMMA AnsweredKeeps == ASSUME BridgeIInv, NEW r \in Routes, ApiCallAnswered(r) PROVE BridgeIInv'
<1>1. PICK q \in Requests, i \in Tickets \cup {NoTicket} :
          /\ q = request[r] /\ q.answer = "none" /\ OnItsWay(q)
          /\ i = Target(r) /\ (Head(q.calls) # "create" => i = q.ticket)
          /\ Head(q.calls) # "wake" => i \in Tickets
  BY NextCallOf DEF ApiCallAnswered
<1> DEFINE next == [q EXCEPT !.ticket = i, !.calls = Tail(q.calls), !.answer = Answer(Tail(q.calls))]
<1>2. Execute(Head(q.calls), q.agent, i) /\ request' = [request EXCEPT ![r] = next]
  BY <1>1 DEF ApiCallAnswered
<1>3. Head(q.calls) \in ApiCalls /\ q.agent \in Agents \cup {NoAgent}
  BY <1>1, NextCall DEF Requests
<1>4. Head(q.calls) = "wake" => q.agent \in Agents /\ <<q.agent, i>> \in given \cup Asked
  BY <1>1, WakesForGiven
<1>5. /\ Recorded
      /\ Head(q.calls) = "create" => i \in filed'
      /\ Head(q.calls) \in {"create", "assign"} /\ q.agent # NoAgent => <<q.agent, i>> \in given'
      /\ Head(q.calls) = "done" => i \in closed'
      /\ Head(q.calls) = "wake" => <<q.agent, i>> \in woken'
      /\ filed' \subseteq Tickets /\ closed' \subseteq Tickets
      /\ given' \subseteq Agents \X Tickets /\ woken' \subseteq Agents \X (Tickets \cup {NoTicket})
      /\ woken' \subseteq given' \cup Asked
  BY <1>1, <1>2, <1>3, <1>4, ExecuteRecords
<1>6. next \in Requests
  BY <1>1, NextCall DEF Requests, Answer
<1>7. /\ next.op = q.op /\ next.agent = q.agent /\ next.ticket = i
      /\ next.calls = Tail(q.calls) /\ next.answer = Answer(Tail(q.calls))
  BY DEF Requests
<1>8. RequestOK(next)'
  <2> HIDE DEF next
  <2> QED
    BY <1>1, <1>5, <1>7, NextCall, GoesOK
<1>9. q.op = "wake" => i = q.ticket
  BY <1>1, NextCall DEF Goes
<1> HIDE DEF next
<1> QED
  BY <1>1, <1>2, <1>5, <1>6, <1>7, <1>8, <1>9, RequestGoesOn

\* A request that ends in an error.
LEMMA ErrorOK ==
    ASSUME NEW q \in Requests, NEW t, t = [q EXCEPT !.calls = <<>>, !.answer = "error"]
    PROVE  /\ t \in Requests /\ RequestOK(t)'
           /\ t.op = q.op /\ t.agent = q.agent /\ t.ticket = q.ticket
<1>1. <<>> \in Seq(ApiCalls)
  OBVIOUS
<1>2. t \in Requests
  BY <1>1 DEF Requests
<1>3. /\ t.answer = "error" /\ t.calls = <<>>
      /\ t.op = q.op /\ t.agent = q.agent /\ t.ticket = q.ticket
  BY DEF Requests
<1> QED
  BY <1>2, <1>3 DEF RequestOK

\* What a request becomes whose call failed, or seems to have.
LEMMA GoOnOK ==
    ASSUME BridgeIInv, NEW r \in Routes, Pending(r), GoOn(r, Head(request[r].calls)), Recorded
    PROVE  \E q \in Requests :
              /\ request' = [request EXCEPT ![r] = q] /\ RequestOK(q)'
              /\ q.op = request[r].op /\ q.agent = request[r].agent /\ q.ticket = request[r].ticket
<1>1. PICK q \in Requests : q = request[r] /\ q.answer = "none" /\ OnItsWay(q)
  BY NextCallOf
<1> DEFINE head == Head(q.calls)  rest == Tail(q.calls)
           failed == [q EXCEPT !.calls = <<>>, !.answer = "error"]
           next == [q EXCEPT !.calls = rest, !.answer = Answer(rest)]
           ends == head \in {"create", "assign", "done"} \/ q.op = "wake"
<1>2. request' = [request EXCEPT ![r] = IF ends THEN failed ELSE next]
  BY <1>1 DEF GoOn
<1>3. CASE ends
  <2>1. /\ failed \in Requests /\ RequestOK(failed)'
        /\ failed.op = q.op /\ failed.agent = q.agent /\ failed.ticket = q.ticket
    BY ErrorOK
  <2> HIDE DEF failed, ends
  <2> QED
    BY <1>1, <1>2, <1>3, <2>1
<1>4. CASE ~ends
  <2>1. rest \in Seq(ApiCalls)
    BY <1>1, NextCall
  <2>2. next \in Requests
    BY <2>1 DEF Requests, Answer
  <2>3. /\ next.op = q.op /\ next.agent = q.agent /\ next.ticket = q.ticket
        /\ next.calls = rest /\ next.answer = Answer(rest)
    BY DEF Requests
  <2>4. \/ q.op = "close" /\ rest = <<"done">> /\ q.agent = NoAgent /\ q.ticket \in filed
        \/ /\ q.op \in {"file", "delegate"} /\ rest \in {<<>>, <<"wake">>}
           /\ q.agent \in Agents /\ Happened(q)
    BY <1>1, <1>4, NextCall DEF Goes
  <2> HIDE DEF next, rest, head, ends
  <2>5. RequestOK(next)'
    <3>1. CASE q.op = "close" /\ rest = <<"done">> /\ q.agent = NoAgent /\ q.ticket \in filed
      BY <2>3, <3>1 DEF RequestOK, OnItsWay, Answer, Recorded
    <3>2. CASE /\ q.op \in {"file", "delegate"} /\ rest \in {<<>>, <<"wake">>}
               /\ q.agent \in Agents /\ Happened(q)
      <4>1. Happened(next)'
        BY <2>3, <3>2 DEF Happened, Recorded
      <4> QED
        BY <2>3, <3>2, <4>1 DEF RequestOK, OnItsWay, Answer
    <3> QED
      BY <2>4, <3>1, <3>2
  <2> QED
    BY <1>1, <1>2, <1>4, <2>2, <2>3, <2>5
<1> QED
  BY <1>3, <1>4

LEMMA FailsKeeps == ASSUME BridgeIInv, NEW r \in Routes, ApiCallFails(r) PROVE BridgeIInv'
<1>1. /\ Pending(r) /\ GoOn(r, Head(request[r].calls)) /\ Recorded
      /\ UNCHANGED <<filed, given, closed, woken>>
  BY DEF ApiCallFails, Recorded
<1>2. PICK q \in Requests :
          /\ request' = [request EXCEPT ![r] = q] /\ RequestOK(q)'
          /\ q.op = request[r].op /\ q.agent = request[r].agent /\ q.ticket = request[r].ticket
  BY <1>1, GoOnOK
<1>3. /\ filed \subseteq Tickets /\ closed \subseteq Tickets
      /\ given \subseteq Agents \X Tickets /\ woken \subseteq Agents \X (Tickets \cup {NoTicket})
      /\ woken \subseteq given \cup Asked
  BY DEF BridgeIInv, BridgeTypeOK
<1> QED
  BY <1>1, <1>2, <1>3, RequestGoesOn

LEMMA LostKeeps == ASSUME BridgeIInv, NEW r \in Routes, AnswerIsLost(r) PROVE BridgeIInv'
<1>1. PICK q \in Requests, i \in Tickets \cup {NoTicket} :
          /\ q = request[r] /\ q.answer = "none" /\ OnItsWay(q)
          /\ i = Target(r) /\ (Head(q.calls) # "create" => i = q.ticket)
          /\ Head(q.calls) # "wake" => i \in Tickets
  BY NextCallOf DEF AnswerIsLost
<1>2. Execute(Head(q.calls), q.agent, i)
  BY <1>1 DEF AnswerIsLost
<1>3. Head(q.calls) \in ApiCalls /\ q.agent \in Agents \cup {NoAgent}
  BY <1>1, NextCall DEF Requests
<1>4. Head(q.calls) = "wake" => q.agent \in Agents /\ <<q.agent, i>> \in given \cup Asked
  BY <1>1, WakesForGiven
<1>5. /\ Recorded
      /\ filed' \subseteq Tickets /\ closed' \subseteq Tickets
      /\ given' \subseteq Agents \X Tickets /\ woken' \subseteq Agents \X (Tickets \cup {NoTicket})
      /\ woken' \subseteq given' \cup Asked
  BY <1>1, <1>2, <1>3, <1>4, ExecuteRecords
<1>6. PICK t \in Requests :
          /\ request' = [request EXCEPT ![r] = t] /\ RequestOK(t)'
          /\ t.op = request[r].op /\ t.agent = request[r].agent /\ t.ticket = request[r].ticket
  BY <1>5, GoOnOK DEF AnswerIsLost
<1> QED
  BY <1>5, <1>6, RequestGoesOn

LEMMA UnparsedKeeps == ASSUME BridgeIInv, NEW r \in Routes, AnswerIsUnparsed(r) PROVE BridgeIInv'
<1>1. PICK q \in Requests, i \in Tickets \cup {NoTicket} :
          /\ q = request[r] /\ OnItsWay(q) /\ i = Target(r)
          /\ Head(q.calls) # "wake" => i \in Tickets
  BY NextCallOf DEF AnswerIsUnparsed
<1>2. Execute(Head(q.calls), q.agent, i) /\ Head(q.calls) # "wake"
  BY <1>1 DEF AnswerIsUnparsed
<1>3. Head(q.calls) \in ApiCalls /\ q.agent \in Agents \cup {NoAgent}
  BY <1>1, NextCall DEF Requests
<1>4. /\ Recorded
      /\ filed' \subseteq Tickets /\ closed' \subseteq Tickets
      /\ given' \subseteq Agents \X Tickets /\ woken' \subseteq Agents \X (Tickets \cup {NoTicket})
      /\ woken' \subseteq given' \cup Asked
  BY <1>1, <1>2, <1>3, ExecuteRecords
<1>5. PICK t : t = [q EXCEPT !.calls = <<>>, !.answer = "error"]
  OBVIOUS
<1>6. /\ t \in Requests /\ RequestOK(t)'
      /\ t.op = q.op /\ t.agent = q.agent /\ t.ticket = q.ticket
  BY <1>5, ErrorOK
<1>7. request' = [request EXCEPT ![r] = t]
  BY <1>1, <1>5 DEF AnswerIsUnparsed
<1> QED
  BY <1>1, <1>4, <1>6, <1>7, RequestGoesOn

LEMMA NextBridge == BridgeIInv /\ [BridgeNext]_bridgeVars => BridgeIInv'
<1> SUFFICES ASSUME BridgeIInv, [BridgeNext]_bridgeVars PROVE BridgeIInv'
  OBVIOUS
<1>1. CASE UNCHANGED bridgeVars
  BY <1>1 DEF BridgeIInv, BridgeTypeOK, RequestOK, OnItsWay, Happened, Asked, bridgeVars
<1>2. ASSUME NEW r \in Routes,
             \/ RequestIssue(r) \/ RequestDelegation(r) \/ RequestClosing(r) \/ RequestWaking(r)
             \/ ApiCallAnswered(r) \/ ApiCallFails(r) \/ AnswerIsLost(r) \/ AnswerIsUnparsed(r)
      PROVE  BridgeIInv'
  BY <1>2, IssueKeeps, DelegationKeeps, ClosingKeeps, WakingKeeps, AnsweredKeeps, FailsKeeps,
     LostKeeps, UnparsedKeeps
<1> QED
  BY <1>1, <1>2 DEF BridgeNext

----------------------------------------------------------------------------
\* The inductive invariant of the bridge holds whatever its requests and calls do.
THEOREM BridgeInvariant == BridgeSpec => []BridgeIInv
<1> QED
  BY InitBridge, NextBridge, PTL DEF BridgeSpec

\* The variables of the bridge keep their types.
THEOREM BridgeTypeCorrect == BridgeSpec => []BridgeTypeOK
<1>1. BridgeIInv => BridgeTypeOK
  BY DEF BridgeIInv
<1> QED
  BY <1>1, BridgeInvariant, PTL

\* However calls fail, lose their answers and overlap, an agent is woken for an issue
\* only if it was given it or if somebody asked for just that, and an ok means that
\* the request's own call has happened (integrations/paperclip/bridge.py).
THEOREM OkTrue == BridgeSpec => []OkIsTrue
<1>1. BridgeIInv => OkIsTrue
  BY DEF BridgeIInv, RequestOK, OkIsTrue, Happened, Unsent
<1> QED
  BY <1>1, BridgeInvariant, PTL

----------------------------------------------------------------------------
(* The runner and the bridge side by side.                                *)
LEMMA PaperclipComposes ==
    PaperclipSpec => Spec /\ BridgeSpec
<1>1. PaperclipInit => Init /\ BridgeInit
  BY DEF PaperclipInit
<1>2. [PaperclipNext]_<<vars, bridgeVars>> => [Next]_vars /\ [BridgeNext]_bridgeVars
  BY DEF PaperclipNext
<1> QED BY <1>1, <1>2, PTL DEF PaperclipSpec, Spec, BridgeSpec

\* Side by side too: "done" means handled, and "ok" that it happened.
THEOREM PaperclipCorrect == PaperclipSpec => [](DoneMeansHandled /\ OkIsTrue)
<1> QED BY PaperclipComposes, DoneIsHandled, OkTrue, PTL
=============================================================================
