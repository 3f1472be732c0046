------------------------- MODULE NodeReconfig_proof -------------------------
(***************************************************************************)
(* Proofs about NodeReconfig, for any number of pods, GPUs and profiles:   *)
(* type correctness, and where the taint can be left behind; and, for live *)
(* reads that fail on absent pods only, that the wait loop waits for the   *)
(* whole list, that a clean plan frees the GPUs to be repartitioned, and   *)
(* that Reconcile keeps what NodePromise promises.  A plan is clean when   *)
(* it is made after the scheduler has noticed the taint: the code does not *)
(* wait for that, and the last two say nothing of a plan made before.      *)
(***************************************************************************)
EXTENDS NodeReconfig, TLAPS

\* A field of a node object may be rewritten.
LEMMA Rewritten ==
    ASSUME NEW obj \in NodeObject
    PROVE  /\ \A p \in Pods : [obj EXCEPT !.target = p] \in NodeObject
           /\ \A c \in Configs : [obj EXCEPT !.config = c] \in NodeObject
           /\ \A b \in BOOLEAN : [obj EXCEPT !.tainted = b] \in NodeObject
  BY DEF NodeObject

\* The labels of a node object, and of the first one.
LEMMA FirstLabels ==
    /\ \A obj \in NodeObject : Labels(obj) \in LabelPair
    /\ Labels(FirstNode) \in LabelPair
  BY NamesAssumption DEF NodeObject, LabelPair, Labels, FirstNode

\* Every step keeps every variable within its type.
LEMMA TypeStep ==
    ASSUME TypeOK, [Next]_vars
    PROVE  TypeOK'
<1> USE NamesAssumption, FlagsAssumption DEF TypeOK, ObjectsTyped, ClusterTyped, LocalsTyped, HistoryTyped, Busy, OnNode, clusterVars, localVars, histVars, ctlVars
<1>1. ASSUME NEW p \in Pods, RequestReconfig(p) PROVE TypeOK'
  <2>1. ObjectsTyped'
    <3>1. node' \in NodeObject
      BY <1>1, Rewritten DEF RequestReconfig
    <3>. QED
      BY <1>1, <3>1 DEF RequestReconfig, ControllerIdle, ForeignWrite
  <2>2. ClusterTyped'
    BY <1>1 DEF RequestReconfig, ControllerIdle, ForeignWrite
  <2>3. LocalsTyped'
    BY <1>1 DEF RequestReconfig, ControllerIdle, ForeignWrite
  <2>4. HistoryTyped'
    BY <1>1 DEF RequestReconfig, ControllerIdle, ForeignWrite
  <2>. QED
    BY <2>1, <2>2, <2>3, <2>4
<1>2. ASSUME NEW p \in Pods, Assume(p) PROVE TypeOK'
  <2>1. ObjectsTyped'
    BY <1>2 DEF Assume, ControllerIdle
  <2>2. ClusterTyped'
    BY <1>2 DEF Assume, ControllerIdle
  <2>3. LocalsTyped'
    BY <1>2 DEF Assume, ControllerIdle
  <2>4. HistoryTyped'
    BY <1>2 DEF Assume, ControllerIdle
  <2>. QED
    BY <2>1, <2>2, <2>3, <2>4
<1>3. ASSUME NEW p \in Pods, Bind(p) PROVE TypeOK'
  <2>1. ObjectsTyped'
    BY <1>3 DEF Bind, ControllerIdle
  <2>2. ClusterTyped'
    BY <1>3 DEF Bind, ControllerIdle
  <2>3. LocalsTyped'
    BY <1>3 DEF Bind, ControllerIdle
  <2>4. HistoryTyped'
    BY <1>3 DEF Bind, ControllerIdle
  <2>. QED
    BY <2>1, <2>2, <2>3, <2>4
<1>4. ASSUME NEW p \in Pods, Report(p) PROVE TypeOK'
  <2>1. ObjectsTyped'
    BY <1>4 DEF Report, ControllerIdle
  <2>2. ClusterTyped'
    BY <1>4 DEF Report, ControllerIdle
  <2>3. LocalsTyped'
    BY <1>4 DEF Report, ControllerIdle
  <2>4. HistoryTyped'
    BY <1>4 DEF Report, ControllerIdle
  <2>. QED
    BY <2>1, <2>2, <2>3, <2>4
<1>5. ASSUME NEW p \in Pods, PodGone(p) PROVE TypeOK'
  <2>1. ObjectsTyped'
    BY <1>5 DEF PodGone, ControllerIdle
  <2>2. ClusterTyped'
    BY <1>5 DEF PodGone, ControllerIdle
  <2>3. LocalsTyped'
    BY <1>5 DEF PodGone, ControllerIdle
  <2>4. HistoryTyped'
    BY <1>5 DEF PodGone, ControllerIdle
  <2>. QED
    BY <2>1, <2>2, <2>3, <2>4
<1>6. ASSUME NEW p \in Pods, UserDelete(p) PROVE TypeOK'
  <2>1. ObjectsTyped'
    BY <1>6 DEF UserDelete, ControllerIdle
  <2>2. ClusterTyped'
    BY <1>6 DEF UserDelete, ControllerIdle
  <2>3. LocalsTyped'
    BY <1>6 DEF UserDelete, ControllerIdle
  <2>4. HistoryTyped'
    BY <1>6 DEF UserDelete, ControllerIdle
  <2>. QED
    BY <2>1, <2>2, <2>3, <2>4
<1>7. CASE SchedulerNotices
  <2>1. ObjectsTyped'
    BY <1>7 DEF SchedulerNotices, ControllerIdle
  <2>2. ClusterTyped'
    BY <1>7 DEF SchedulerNotices, ControllerIdle
  <2>3. LocalsTyped'
    BY <1>7 DEF SchedulerNotices, ControllerIdle
  <2>4. HistoryTyped'
    BY <1>7 DEF SchedulerNotices, ControllerIdle
  <2>. QED
    BY <2>1, <2>2, <2>3, <2>4
<1>8. CASE OperatorStart
  <2>1. ObjectsTyped'
    BY <1>8 DEF OperatorStart, ControllerIdle, ForeignWrite
  <2>2. ClusterTyped'
    BY <1>8 DEF OperatorStart, ControllerIdle, ForeignWrite, NodeObject
  <2>3. LocalsTyped'
    BY <1>8 DEF OperatorStart, ControllerIdle, ForeignWrite
  <2>4. HistoryTyped'
    BY <1>8 DEF OperatorStart, ControllerIdle, ForeignWrite
  <2>. QED
    BY <2>1, <2>2, <2>3, <2>4
<1>9. CASE OperatorFinish
  <2>1. ObjectsTyped'
    BY <1>9 DEF OperatorFinish, ControllerIdle, ForeignWrite
  <2>2. ClusterTyped'
    BY <1>9 DEF OperatorFinish, ControllerIdle, ForeignWrite
  <2>3. LocalsTyped'
    BY <1>9 DEF OperatorFinish, ControllerIdle, ForeignWrite
  <2>4. HistoryTyped'
    BY <1>9 DEF OperatorFinish, ControllerIdle, ForeignWrite
  <2>. QED
    BY <2>1, <2>2, <2>3, <2>4
<1>10. CASE Heartbeat
  <2>1. ObjectsTyped'
    BY <1>10 DEF Heartbeat, ControllerIdle, ForeignWrite
  <2>2. ClusterTyped'
    BY <1>10 DEF Heartbeat, ControllerIdle, ForeignWrite
  <2>3. LocalsTyped'
    BY <1>10 DEF Heartbeat, ControllerIdle, ForeignWrite
  <2>4. HistoryTyped'
    BY <1>10 DEF Heartbeat, ControllerIdle, ForeignWrite
  <2>. QED
    BY <2>1, <2>2, <2>3, <2>4
<1>11. CASE CacheSync
  <2>1. ObjectsTyped'
    BY <1>11, FirstLabels DEF CacheSync
  <2>2. ClusterTyped'
    BY <1>11 DEF CacheSync
  <2>3. LocalsTyped'
    BY <1>11 DEF CacheSync
  <2>4. HistoryTyped'
    BY <1>11 DEF CacheSync
  <2>. QED
    BY <2>1, <2>2, <2>3, <2>4
<1>12. CASE Start
  <2>1. ObjectsTyped'
    BY <1>12 DEF Start, ReadCache
  <2>2. ClusterTyped'
    BY <1>12 DEF Start, ReadCache
  <2>3. LocalsTyped'
    BY <1>12 DEF Start, ReadCache
  <2>4. HistoryTyped'
    BY <1>12 DEF Start, ReadCache
  <2>. QED
    BY <2>1, <2>2, <2>3, <2>4
<1>13. CASE CheckTarget
  <2>1. ObjectsTyped'
    BY <1>13, FirstLabels DEF CheckTarget, ForgetCopy
  <2>2. ClusterTyped'
    BY <1>13 DEF CheckTarget, ForgetCopy
  <2>3. LocalsTyped'
    BY <1>13 DEF CheckTarget, ForgetCopy
  <2>4. HistoryTyped'
    BY <1>13 DEF CheckTarget, ForgetCopy
  <2>. QED
    BY <2>1, <2>2, <2>3, <2>4
<1>14. CASE AddTaint
  <2>1. ObjectsTyped'
    BY <1>14, Rewritten DEF AddTaint, Write
  <2>2. ClusterTyped'
    BY <1>14 DEF AddTaint, Write
  <2>3. LocalsTyped'
    BY <1>14 DEF AddTaint, Write
  <2>4. HistoryTyped'
    BY <1>14 DEF AddTaint, Write
  <2>. QED
    BY <2>1, <2>2, <2>3, <2>4
<1>15. CASE Plan
  <2>1. ObjectsTyped'
    BY <1>15, FirstLabels DEF Plan, ForgetCopy
  <2>2. ClusterTyped'
    BY <1>15 DEF Plan, ForgetCopy
  <2>3. LocalsTyped'
    <3>1. CASE UNCHANGED localVars
      BY <1>15, <3>1 DEF Plan, ForgetCopy
    <3>2. CASE /\ newConfig' \in Configs
               /\ stopList' = Located(copy.config, newConfig')
               /\ toStop' = stopList'
               /\ UNCHANGED <<queued, checked, confirmed>>
               /\ pc' = "stop"
      <4>1. stopList' \subseteq Pods
        BY <3>2 DEF Located
      <4>2. checked = {} /\ confirmed = {}
        BY <1>15 DEF Plan, ForgetCopy
      <4>. QED
        BY <1>15, <3>2, <4>1, <4>2
    <3>. QED
      BY <1>15, <3>1, <3>2 DEF Plan, ForgetCopy
  <2>4. HistoryTyped'
    BY <1>15 DEF Plan, ForgetCopy
  <2>. QED
    BY <2>1, <2>2, <2>3, <2>4
<1>16. ASSUME NEW p \in Pods, StopPod(p) PROVE TypeOK'
  <2>1. ObjectsTyped'
    BY <1>16 DEF StopPod
  <2>2. ClusterTyped'
    BY <1>16 DEF StopPod
  <2>3. LocalsTyped'
    BY <1>16 DEF StopPod
  <2>4. HistoryTyped'
    BY <1>16 DEF StopPod
  <2>. QED
    BY <2>1, <2>2, <2>3, <2>4
<1>17. CASE StopDone
  <2>1. ObjectsTyped'
    BY <1>17 DEF StopDone
  <2>2. ClusterTyped'
    BY <1>17 DEF StopDone
  <2>3. LocalsTyped'
    BY <1>17 DEF StopDone
  <2>4. HistoryTyped'
    BY <1>17 DEF StopDone
  <2>. QED
    BY <2>1, <2>2, <2>3, <2>4
<1>18. ASSUME NEW p \in Pods, CheckDeleted(p) PROVE TypeOK'
  <2>1. ObjectsTyped'
    BY <1>18 DEF CheckDeleted
  <2>2. ClusterTyped'
    BY <1>18 DEF CheckDeleted
  <2>3. LocalsTyped'
    BY <1>18 DEF CheckDeleted
  <2>4. HistoryTyped'
    BY <1>18 DEF CheckDeleted
  <2>. QED
    BY <2>1, <2>2, <2>3, <2>4
<1>19. CASE EndPass
  <2>1. ObjectsTyped'
    BY <1>19 DEF EndPass
  <2>2. ClusterTyped'
    BY <1>19 DEF EndPass
  <2>3. LocalsTyped'
    BY <1>19 DEF EndPass
  <2>4. HistoryTyped'
    BY <1>19 DEF EndPass
  <2>. QED
    BY <2>1, <2>2, <2>3, <2>4
<1>20. CASE StopReporter
  <2>1. ObjectsTyped'
    BY <1>20 DEF StopReporter
  <2>2. ClusterTyped'
    BY <1>20 DEF StopReporter
  <2>3. LocalsTyped'
    BY <1>20 DEF StopReporter
  <2>4. HistoryTyped'
    BY <1>20 DEF StopReporter
  <2>. QED
    BY <2>1, <2>2, <2>3, <2>4
<1>21. CASE GetNode
  <2>1. ObjectsTyped'
    BY <1>21 DEF GetNode, ReadToWrite
  <2>2. ClusterTyped'
    BY <1>21 DEF GetNode, ReadToWrite
  <2>3. LocalsTyped'
    BY <1>21 DEF GetNode, ReadToWrite
  <2>4. HistoryTyped'
    BY <1>21 DEF GetNode, ReadToWrite
  <2>. QED
    BY <2>1, <2>2, <2>3, <2>4
<1>22. CASE SetLabel
  <2>1. ObjectsTyped'
    <3>1. [node EXCEPT !.config = newConfig] \in NodeObject
      BY <1>22, Rewritten DEF SetLabel
    <3>. QED
      BY <1>22, <3>1, FirstLabels DEF SetLabel, Write, ForgetCopy
  <2>2. ClusterTyped'
    BY <1>22 DEF SetLabel, Write, ForgetCopy, ResetLocals
  <2>3. LocalsTyped'
    BY <1>22 DEF SetLabel, Write, ForgetCopy, ResetLocals
  <2>4. HistoryTyped'
    BY <1>22 DEF SetLabel, Write, ForgetCopy, ResetLocals, NodeObject
  <2>. QED
    BY <2>1, <2>2, <2>3, <2>4
<1>23. CASE Poll
  <2>1. ObjectsTyped'
    BY <1>23 DEF Poll
  <2>2. ClusterTyped'
    BY <1>23 DEF Poll
  <2>3. LocalsTyped'
    BY <1>23 DEF Poll
  <2>4. HistoryTyped'
    BY <1>23 DEF Poll
  <2>. QED
    BY <2>1, <2>2, <2>3, <2>4
<1>24. CASE UntaintGet
  <2>1. ObjectsTyped'
    BY <1>24 DEF UntaintGet, ReadToWrite
  <2>2. ClusterTyped'
    BY <1>24 DEF UntaintGet, ReadToWrite
  <2>3. LocalsTyped'
    BY <1>24 DEF UntaintGet, ReadToWrite
  <2>4. HistoryTyped'
    BY <1>24 DEF UntaintGet, ReadToWrite
  <2>. QED
    BY <2>1, <2>2, <2>3, <2>4
<1>25. CASE Untaint
  <2>1. ObjectsTyped'
    BY <1>25, FirstLabels, Rewritten DEF Untaint, Write, ForgetCopy, ResetLocals
  <2>2. ClusterTyped'
    BY <1>25 DEF Untaint, Write, ForgetCopy, ResetLocals
  <2>3. LocalsTyped'
    BY <1>25 DEF Untaint, Write, ForgetCopy, ResetLocals
  <2>4. HistoryTyped'
    BY <1>25 DEF Untaint, Write, ForgetCopy, ResetLocals, NodeObject
  <2>. QED
    BY <2>1, <2>2, <2>3, <2>4
<1>26. CASE Crash
  <2>1. ObjectsTyped'
    BY <1>26, FirstLabels DEF Crash, ForgetCopy, ResetLocals
  <2>2. ClusterTyped'
    BY <1>26 DEF Crash, ForgetCopy, ResetLocals
  <2>3. LocalsTyped'
    BY <1>26 DEF Crash, ForgetCopy, ResetLocals
  <2>4. HistoryTyped'
    BY <1>26 DEF Crash, ForgetCopy, ResetLocals, NodeObject
  <2>. QED
    BY <2>1, <2>2, <2>3, <2>4
<1>27. CASE Restart
  <2>1. ObjectsTyped'
    BY <1>27, FirstLabels DEF Restart
  <2>2. ClusterTyped'
    BY <1>27 DEF Restart
  <2>3. LocalsTyped'
    BY <1>27 DEF Restart
  <2>4. HistoryTyped'
    BY <1>27 DEF Restart
  <2>. QED
    BY <2>1, <2>2, <2>3, <2>4
<1>28. CASE UNCHANGED vars
  BY <1>28 DEF vars
<1>. QED
  BY <1>1, <1>2, <1>3, <1>4, <1>5, <1>6, <1>7, <1>8, <1>9, <1>10, <1>11, <1>12, <1>13, <1>14,
     <1>15, <1>16, <1>17, <1>18, <1>19, <1>20, <1>21, <1>22, <1>23, <1>24, <1>25, <1>26,
     <1>27, <1>28
  DEF Next, Reconcile

\* No step leaves the taint behind unnoticed.
LEMMA TaintStep ==
    ASSUME TypeOK, TaintOnlyWhileBusy, [Next]_vars
    PROVE  TaintOnlyWhileBusy'
<1> USE NamesAssumption, FlagsAssumption DEF TypeOK, ObjectsTyped, ClusterTyped, LocalsTyped, HistoryTyped, NodeObject, TaintOnlyWhileBusy, Busy, clusterVars, localVars, histVars, ctlVars
<1>1. ASSUME NEW p \in Pods, RequestReconfig(p) PROVE TaintOnlyWhileBusy'
  BY <1>1 DEF RequestReconfig, ControllerIdle, ForeignWrite
<1>2. ASSUME NEW p \in Pods, Assume(p) PROVE TaintOnlyWhileBusy'
  BY <1>2 DEF Assume, ControllerIdle
<1>3. ASSUME NEW p \in Pods, Bind(p) PROVE TaintOnlyWhileBusy'
  BY <1>3 DEF Bind, ControllerIdle
<1>4. ASSUME NEW p \in Pods, Report(p) PROVE TaintOnlyWhileBusy'
  BY <1>4 DEF Report, ControllerIdle
<1>5. ASSUME NEW p \in Pods, PodGone(p) PROVE TaintOnlyWhileBusy'
  BY <1>5 DEF PodGone, ControllerIdle
<1>6. ASSUME NEW p \in Pods, UserDelete(p) PROVE TaintOnlyWhileBusy'
  BY <1>6 DEF UserDelete, ControllerIdle
<1>7. CASE SchedulerNotices
  BY <1>7 DEF SchedulerNotices, ControllerIdle
<1>8. CASE OperatorStart
  BY <1>8 DEF OperatorStart, ControllerIdle, ForeignWrite
<1>9. CASE OperatorFinish
  BY <1>9 DEF OperatorFinish, ControllerIdle, ForeignWrite
<1>10. CASE Heartbeat
  BY <1>10 DEF Heartbeat, ControllerIdle, ForeignWrite
<1>11. CASE CacheSync
  BY <1>11 DEF CacheSync
<1>12. CASE Start
  BY <1>12 DEF Start, ReadCache
<1>13. CASE CheckTarget
  BY <1>13 DEF CheckTarget, ForgetCopy
<1>14. CASE AddTaint
  BY <1>14 DEF AddTaint, Write
<1>15. CASE Plan
  BY <1>15 DEF Plan, ForgetCopy
<1>16. ASSUME NEW p \in Pods, StopPod(p) PROVE TaintOnlyWhileBusy'
  BY <1>16 DEF StopPod
<1>17. CASE StopDone
  BY <1>17 DEF StopDone
<1>18. ASSUME NEW p \in Pods, CheckDeleted(p) PROVE TaintOnlyWhileBusy'
  BY <1>18 DEF CheckDeleted
<1>19. CASE EndPass
  BY <1>19 DEF EndPass
<1>20. CASE StopReporter
  BY <1>20 DEF StopReporter
<1>21. CASE GetNode
  BY <1>21 DEF GetNode, ReadToWrite
<1>22. CASE SetLabel
  BY <1>22 DEF SetLabel, Write, ForgetCopy, ResetLocals
<1>23. CASE Poll
  BY <1>23 DEF Poll
<1>24. CASE UntaintGet
  BY <1>24 DEF UntaintGet, ReadToWrite
<1>25. CASE Untaint
  BY <1>25 DEF Untaint, Write, ForgetCopy, ResetLocals
<1>26. CASE Crash
  BY <1>26 DEF Crash, ForgetCopy, ResetLocals
<1>27. CASE Restart
  BY <1>27 DEF Restart
<1>28. CASE UNCHANGED vars
  BY <1>28 DEF vars
<1>. QED
  BY <1>1, <1>2, <1>3, <1>4, <1>5, <1>6, <1>7, <1>8, <1>9, <1>10, <1>11, <1>12, <1>13, <1>14,
     <1>15, <1>16, <1>17, <1>18, <1>19, <1>20, <1>21, <1>22, <1>23, <1>24, <1>25, <1>26,
     <1>27, <1>28
  DEF Next, Reconcile

\* The scheduler has noticed a taint that is there, and notices it at the latest when
\* a clean plan is made.
LEMMA UnderTaintStep ==
    ASSUME TypeOK, UnderTaint, [Next]_vars
    PROVE  UnderTaint'
<1> USE NamesAssumption, FlagsAssumption DEF TypeOK, ObjectsTyped, ClusterTyped, LocalsTyped, HistoryTyped, NodeObject, UnderTaint, BeforeLabel, clusterVars, localVars, histVars, ctlVars
<1>1. ASSUME NEW p \in Pods, RequestReconfig(p) PROVE UnderTaint'
  BY <1>1 DEF RequestReconfig, ControllerIdle, ForeignWrite
<1>2. ASSUME NEW p \in Pods, Assume(p) PROVE UnderTaint'
  BY <1>2 DEF Assume, ControllerIdle
<1>3. ASSUME NEW p \in Pods, Bind(p) PROVE UnderTaint'
  BY <1>3 DEF Bind, ControllerIdle
<1>4. ASSUME NEW p \in Pods, Report(p) PROVE UnderTaint'
  BY <1>4 DEF Report, ControllerIdle
<1>5. ASSUME NEW p \in Pods, PodGone(p) PROVE UnderTaint'
  BY <1>5 DEF PodGone, ControllerIdle
<1>6. ASSUME NEW p \in Pods, UserDelete(p) PROVE UnderTaint'
  BY <1>6 DEF UserDelete, ControllerIdle
<1>7. CASE SchedulerNotices
  BY <1>7 DEF SchedulerNotices, ControllerIdle
<1>8. CASE OperatorStart
  BY <1>8 DEF OperatorStart, ControllerIdle, ForeignWrite
<1>9. CASE OperatorFinish
  BY <1>9 DEF OperatorFinish, ControllerIdle, ForeignWrite
<1>10. CASE Heartbeat
  BY <1>10 DEF Heartbeat, ControllerIdle, ForeignWrite
<1>11. CASE CacheSync
  BY <1>11 DEF CacheSync
<1>12. CASE Start
  BY <1>12 DEF Start, ReadCache
<1>13. CASE CheckTarget
  BY <1>13 DEF CheckTarget, ForgetCopy
<1>14. CASE AddTaint
  BY <1>14 DEF AddTaint, Write
<1>15. CASE Plan
  BY <1>15 DEF Plan, ForgetCopy
<1>16. ASSUME NEW p \in Pods, StopPod(p) PROVE UnderTaint'
  BY <1>16 DEF StopPod
<1>17. CASE StopDone
  BY <1>17 DEF StopDone
<1>18. ASSUME NEW p \in Pods, CheckDeleted(p) PROVE UnderTaint'
  BY <1>18 DEF CheckDeleted
<1>19. CASE EndPass
  BY <1>19 DEF EndPass
<1>20. CASE StopReporter
  BY <1>20 DEF StopReporter
<1>21. CASE GetNode
  BY <1>21 DEF GetNode, ReadToWrite
<1>22. CASE SetLabel
  BY <1>22 DEF SetLabel, Write, ForgetCopy, ResetLocals
<1>23. CASE Poll
  BY <1>23 DEF Poll
<1>24. CASE UntaintGet
  BY <1>24 DEF UntaintGet, ReadToWrite
<1>25. CASE Untaint
  BY <1>25 DEF Untaint, Write, ForgetCopy, ResetLocals
<1>26. CASE Crash
  BY <1>26 DEF Crash, ForgetCopy, ResetLocals
<1>27. CASE Restart
  BY <1>27 DEF Restart
<1>28. CASE UNCHANGED vars
  BY <1>28 DEF vars
<1>. QED
  BY <1>1, <1>2, <1>3, <1>4, <1>5, <1>6, <1>7, <1>8, <1>9, <1>10, <1>11, <1>12, <1>13, <1>14,
     <1>15, <1>16, <1>17, <1>18, <1>19, <1>20, <1>21, <1>22, <1>23, <1>24, <1>25, <1>26,
     <1>27, <1>28
  DEF Next, Reconcile

\* Nothing slips under a clean plan.
LEMMA PlanStep ==
    ASSUME TypeOK, UnderTaint, PlanComplete, [Next]_vars
    PROVE  PlanComplete'
<1> USE NamesAssumption, FlagsAssumption DEF TypeOK, ObjectsTyped, ClusterTyped, LocalsTyped, HistoryTyped, NodeObject, UnderTaint, PlanComplete, BeforeLabel, OnNode, Located, Reconf, clusterVars, localVars, histVars, ctlVars
<1>1. ASSUME NEW p \in Pods, RequestReconfig(p) PROVE PlanComplete'
  BY <1>1 DEF RequestReconfig, ControllerIdle, ForeignWrite
<1>2. ASSUME NEW p \in Pods, Assume(p) PROVE PlanComplete'
  BY <1>2 DEF Assume, ControllerIdle
<1>3. ASSUME NEW p \in Pods, Bind(p) PROVE PlanComplete'
  BY <1>3 DEF Bind, ControllerIdle
<1>4. ASSUME NEW p \in Pods, Report(p) PROVE PlanComplete'
  BY <1>4 DEF Report, ControllerIdle
<1>5. ASSUME NEW p \in Pods, PodGone(p) PROVE PlanComplete'
  BY <1>5 DEF PodGone, ControllerIdle
<1>6. ASSUME NEW p \in Pods, UserDelete(p) PROVE PlanComplete'
  BY <1>6 DEF UserDelete, ControllerIdle
<1>7. CASE SchedulerNotices
  BY <1>7 DEF SchedulerNotices, ControllerIdle
<1>8. CASE OperatorStart
  BY <1>8 DEF OperatorStart, ControllerIdle, ForeignWrite
<1>9. CASE OperatorFinish
  BY <1>9 DEF OperatorFinish, ControllerIdle, ForeignWrite
<1>10. CASE Heartbeat
  BY <1>10 DEF Heartbeat, ControllerIdle, ForeignWrite
<1>11. CASE CacheSync
  BY <1>11 DEF CacheSync
<1>12. CASE Start
  BY <1>12 DEF Start, ReadCache
<1>13. CASE CheckTarget
  BY <1>13 DEF CheckTarget, ForgetCopy
<1>14. CASE AddTaint
  BY <1>14 DEF AddTaint, Write
<1>15. CASE Plan
  <2>. SUFFICES ASSUME pc' = "stop", clean', NEW p \in Pods
                PROVE  /\ phase'[p] # "binding"
                       /\ OnNode(p)' /\ gpus'[p] \cap Reconf(node.config', newConfig') # {}
                             => p \in stopList'
    BY <1>15 DEF Plan, ForgetCopy
  <2>1. /\ stopList' = Located(copy.config, newConfig')
        /\ UNCHANGED <<phase, gpus, node>>
    BY <1>15 DEF Plan, ForgetCopy
  <2>2. /\ copy.config = node.config
        /\ phase[p] # "binding"
        /\ OnNode(p) => p \in labelled
    BY <1>15 DEF Plan
  <2>. QED
    BY <2>1, <2>2
<1>16. ASSUME NEW p \in Pods, StopPod(p) PROVE PlanComplete'
  BY <1>16 DEF StopPod
<1>17. CASE StopDone
  BY <1>17 DEF StopDone
<1>18. ASSUME NEW p \in Pods, CheckDeleted(p) PROVE PlanComplete'
  BY <1>18 DEF CheckDeleted
<1>19. CASE EndPass
  BY <1>19 DEF EndPass
<1>20. CASE StopReporter
  BY <1>20 DEF StopReporter
<1>21. CASE GetNode
  BY <1>21 DEF GetNode, ReadToWrite
<1>22. CASE SetLabel
  BY <1>22 DEF SetLabel, Write, ForgetCopy, ResetLocals
<1>23. CASE Poll
  BY <1>23 DEF Poll
<1>24. CASE UntaintGet
  BY <1>24 DEF UntaintGet, ReadToWrite
<1>25. CASE Untaint
  BY <1>25 DEF Untaint, Write, ForgetCopy, ResetLocals
<1>26. CASE Crash
  BY <1>26 DEF Crash, ForgetCopy, ResetLocals
<1>27. CASE Restart
  BY <1>27 DEF Restart
<1>28. CASE UNCHANGED vars
  BY <1>28 DEF vars
<1>. QED
  BY <1>1, <1>2, <1>3, <1>4, <1>5, <1>6, <1>7, <1>8, <1>9, <1>10, <1>11, <1>12, <1>13, <1>14,
     <1>15, <1>16, <1>17, <1>18, <1>19, <1>20, <1>21, <1>22, <1>23, <1>24, <1>25, <1>26,
     <1>27, <1>28
  DEF Next, Reconcile

\* The pods of the list are deleted, waited for, and stay gone.
LEMMA StopStep ==
    ASSUME TypeOK, StopProgress, [Next]_vars
    PROVE  StopProgress'
<1> USE NamesAssumption, FlagsAssumption DEF TypeOK, ClusterTyped, LocalsTyped, StopProgress, OnNode, Located, clusterVars, localVars, histVars, ctlVars
<1>1. ASSUME NEW p \in Pods, RequestReconfig(p) PROVE StopProgress'
  BY <1>1 DEF RequestReconfig, ControllerIdle, ForeignWrite
<1>2. ASSUME NEW p \in Pods, Assume(p) PROVE StopProgress'
  BY <1>2 DEF Assume, ControllerIdle
<1>3. ASSUME NEW p \in Pods, Bind(p) PROVE StopProgress'
  BY <1>3 DEF Bind, ControllerIdle
<1>4. ASSUME NEW p \in Pods, Report(p) PROVE StopProgress'
  BY <1>4 DEF Report, ControllerIdle
<1>5. ASSUME NEW p \in Pods, PodGone(p) PROVE StopProgress'
  BY <1>5 DEF PodGone, ControllerIdle
<1>6. ASSUME NEW p \in Pods, UserDelete(p) PROVE StopProgress'
  BY <1>6 DEF UserDelete, ControllerIdle
<1>7. CASE SchedulerNotices
  BY <1>7 DEF SchedulerNotices, ControllerIdle
<1>8. CASE OperatorStart
  BY <1>8 DEF OperatorStart, ControllerIdle, ForeignWrite
<1>9. CASE OperatorFinish
  BY <1>9 DEF OperatorFinish, ControllerIdle, ForeignWrite
<1>10. CASE Heartbeat
  BY <1>10 DEF Heartbeat, ControllerIdle, ForeignWrite
<1>11. CASE CacheSync
  BY <1>11 DEF CacheSync
<1>12. CASE Start
  BY <1>12 DEF Start, ReadCache
<1>13. CASE CheckTarget
  BY <1>13 DEF CheckTarget, ForgetCopy
<1>14. CASE AddTaint
  BY <1>14 DEF AddTaint, Write
<1>15. CASE Plan
  BY <1>15 DEF Plan, ForgetCopy
<1>16. ASSUME NEW p \in Pods, StopPod(p) PROVE StopProgress'
  BY <1>16 DEF StopPod
<1>17. CASE StopDone
  BY <1>17 DEF StopDone
<1>18. ASSUME NEW p \in Pods, CheckDeleted(p) PROVE StopProgress'
  BY <1>18 DEF CheckDeleted
<1>19. CASE EndPass
  BY <1>19 DEF EndPass
<1>20. CASE StopReporter
  BY <1>20 DEF StopReporter
<1>21. CASE GetNode
  BY <1>21 DEF GetNode, ReadToWrite
<1>22. CASE SetLabel
  BY <1>22 DEF SetLabel, Write, ForgetCopy, ResetLocals
<1>23. CASE Poll
  BY <1>23 DEF Poll
<1>24. CASE UntaintGet
  BY <1>24 DEF UntaintGet, ReadToWrite
<1>25. CASE Untaint
  BY <1>25 DEF Untaint, Write, ForgetCopy, ResetLocals
<1>26. CASE Crash
  BY <1>26 DEF Crash, ForgetCopy, ResetLocals
<1>27. CASE Restart
  BY <1>27 DEF Restart
<1>28. CASE UNCHANGED vars
  BY <1>28 DEF vars
<1>. QED
  BY <1>1, <1>2, <1>3, <1>4, <1>5, <1>6, <1>7, <1>8, <1>9, <1>10, <1>11, <1>12, <1>13, <1>14,
     <1>15, <1>16, <1>17, <1>18, <1>19, <1>20, <1>21, <1>22, <1>23, <1>24, <1>25, <1>26,
     <1>27, <1>28
  DEF Next, Reconcile

\* The initial states satisfy the invariant.
LEMMA InitIInv == Init => IInv
<1> SUFFICES ASSUME Init PROVE IInv
  OBVIOUS
<1>1. ObjectsTyped
  BY NamesAssumption, FirstLabels DEF Init, ObjectsTyped, NodeObject, FirstNode
<1>2. ClusterTyped
  BY NamesAssumption DEF Init, ClusterTyped
<1>3. LocalsTyped
  BY DEF Init, LocalsTyped
<1>4. HistoryTyped
  BY DEF Init, HistoryTyped
<1>5. TaintOnlyWhileBusy
  BY DEF Init, TaintOnlyWhileBusy, FirstNode
<1>6. UnderTaint /\ PlanComplete /\ StopProgress
  BY DEF Init, FirstNode, UnderTaint, PlanComplete, StopProgress, BeforeLabel
<1>. QED
  BY <1>1, <1>2, <1>3, <1>4, <1>5, <1>6 DEF IInv, TypeOK

\* IInv is an inductive invariant.
THEOREM Invariance == Spec => []IInv
<1>1. IInv /\ [Next]_vars => IInv'
  BY TypeStep, TaintStep, UnderTaintStep, PlanStep, StopStep DEF IInv
<1>. QED
  BY InitIInv, <1>1, PTL DEF Spec

\* Every variable keeps its type.
THEOREM TypeCorrect == Spec => []TypeOK
  BY Invariance, PTL DEF IInv

\* A taint outlives its reconciliation only when the removal was refused or the
\* process died: no other way out of Reconcile forgets it.
THEOREM TaintIsAccountedFor == Spec => []TaintOnlyWhileBusy
  BY Invariance, PTL DEF IInv

\* Where a live read fails for absent pods only, no pod of the stop list is on
\* the node once the wait loop has ended, whatever the pods and the scheduler do.
THEOREM WaitLoopWaits == ASSUME ~GetErrors PROVE Spec => []StopListGone
<1>1. IInv => StopListGone
  BY DEF IInv, StopProgress, StopListGone, OnNode
<1>. QED
  BY Invariance, <1>1, PTL

\* Under the same condition a plan made under a taint that the scheduler has noticed,
\* with no pod on its way and every pod of the node labelled, leaves the GPUs to be
\* repartitioned without a pod, whatever fails on the way.
THEOREM CleanPlanWorks == ASSUME ~GetErrors PROVE Spec => []CleanPlanFreesGPUs
<1>1. IInv => CleanPlanFreesGPUs
  <2>. SUFFICES ASSUME IInv, pc = "setLabel", clean, NEW p \in Pods, OnNode(p),
                       gpus[p] \cap Reconf(node.config, newConfig) # {}
                PROVE  FALSE
    BY DEF CleanPlanFreesGPUs
  <2>1. p \in stopList
    BY DEF IInv, PlanComplete, BeforeLabel
  <2>. QED
    BY <2>1 DEF IInv, StopProgress, OnNode
<1>. QED
  BY Invariance, <1>1, PTL

\* Whatever reads and deletions fail, nothing slips under a plan made after the
\* scheduler noticed the taint: until the label is written no pod is on its way to the
\* node, and the pods on the GPUs to be repartitioned are in the stop list.
THEOREM PlansStayComplete == Spec => []PlanComplete
  BY Invariance, PTL DEF IInv

-----------------------------------------------------------------------------
(* A reconciliation keeps the promise of NodePromise *)

\* What the promise sees of the node.
Coming == {p \in Pods : phase[p] = "binding"}
Holds == [p \in Pods |-> IF OnNode(p) THEN gpus[p] ELSE {}]
PlanNow == IF UnderWay THEN newConfig ELSE NoConfig
Doomed == IF UnderWay THEN stopList ELSE {}

\* The initial states are initial states of the promise.
LEMMA PromiseInit == Init => Promise!Init
  BY DEF Init, FirstNode, Promise!Init, OnNode, UnderWay, BeforeLabel

\* What a step may leave alone: the node's label, what the scheduler knows of its
\* taint, the pods, the plan.
LEMMA Unseen ==
    ASSUME UNCHANGED <<node.config, noticed, Coming, Holds, PlanNow, Doomed>>
    PROVE  [Promise!Next]_(Promise!promise)
  BY DEF Promise!promise, Coming, Holds, PlanNow, Doomed

\* The steps that touch neither the node nor a pod, nor begin or end a plan.
LEMMA Untouched ==
    ASSUME UNCHANGED <<node.config, noticed, phase, gpus, newConfig, stopList>>,
           UnderWay' = UnderWay
    PROVE  [Promise!Next]_(Promise!promise)
<1>1. UNCHANGED <<Coming, Holds>>
  BY DEF Coming, Holds, OnNode
<1>2. UNCHANGED <<PlanNow, Doomed>>
  BY DEF PlanNow, Doomed
<1>. QED
  BY <1>1, <1>2, Unseen

\* Every step of the system is a step of the promise, or none.
LEMMA PromiseStep ==
    ASSUME ~GetErrors, IInv, IInv', [Next]_vars
    PROVE  [Promise!Next]_(Promise!promise)
<1> USE NamesAssumption DEF clusterVars, localVars, histVars, ctlVars
<1>0. /\ ObjectsTyped /\ ClusterTyped /\ LocalsTyped /\ HistoryTyped
      /\ UnderTaint /\ PlanComplete /\ StopProgress
  BY DEF IInv, TypeOK
<1>1. ASSUME NEW p \in Pods, RequestReconfig(p) PROVE [Promise!Next]_(Promise!promise)
  <2>1. node'.config = node.config
    BY <1>0, <1>1 DEF RequestReconfig, ObjectsTyped, NodeObject
  <2>. QED
    BY <1>1, <2>1, Untouched DEF RequestReconfig, ControllerIdle, UnderWay
<1>2. ASSUME NEW p \in Pods, Assume(p) PROVE [Promise!Next]_(Promise!promise)
  <2>1. /\ ~noticed /\ phase[p] = "pending" /\ phase' = [phase EXCEPT ![p] = "binding"]
        /\ UNCHANGED <<node, noticed, gpus, newConfig, stopList, pc, clean>>
    BY <1>2 DEF Assume, ControllerIdle
  <2>2. Coming' = Coming \cup {p}
    BY <1>0, <2>1 DEF Coming, ClusterTyped
  <2>3. Holds' = Holds
    BY <1>0, <2>1 DEF Holds, OnNode, ClusterTyped
  <2>4. UNCHANGED <<PlanNow, Doomed>>
    BY <2>1 DEF PlanNow, Doomed, UnderWay
  <2>5. Promise!Send(p)
    BY <2>1, <2>2, <2>3, <2>4 DEF Promise!Send, Coming, Holds, PlanNow, Doomed
  <2>. QED
    BY <2>5 DEF Promise!Next
<1>3. ASSUME NEW p \in Pods, Bind(p) PROVE [Promise!Next]_(Promise!promise)
  <2>1. /\ phase[p] = "binding"
        /\ UNCHANGED <<node, noticed, newConfig, stopList, pc, clean>>
    BY <1>3 DEF Bind, ControllerIdle
  <2>2. UNCHANGED <<PlanNow, Doomed>>
    BY <2>1 DEF PlanNow, Doomed, UnderWay
  <2>3. p \in Coming /\ Coming' = Coming \ {p}
    BY <1>0, <1>3 DEF Bind, Coming, ClusterTyped
  <2>4. \/ \E held \in (SUBSET GPUs) \ {{}} : Holds' = [Holds EXCEPT ![p] = held]
        \/ Holds' = Holds
    <3>1. ASSUME NEW held \in (SUBSET GPUs) \ {{}},
                 phase' = [phase EXCEPT ![p] = "running"], gpus' = [gpus EXCEPT ![p] = held]
          PROVE  Holds' = [Holds EXCEPT ![p] = held]
      BY <1>0, <2>1, <3>1 DEF Holds, OnNode, ClusterTyped
    <3>2. ASSUME phase' = [phase EXCEPT ![p] = "gone"], gpus' = gpus PROVE Holds' = Holds
      BY <1>0, <2>1, <3>2 DEF Holds, OnNode, ClusterTyped
    <3>. QED
      BY <1>3, <3>1, <3>2 DEF Bind
  <2>5. Promise!Arrive(p)
    BY <2>1, <2>2, <2>3, <2>4 DEF Promise!Arrive, Coming, Holds, PlanNow, Doomed
  <2>. QED
    BY <2>5 DEF Promise!Next
<1>4. ASSUME NEW p \in Pods, Report(p) PROVE [Promise!Next]_(Promise!promise)
  BY <1>4, Untouched DEF Report, ControllerIdle, UnderWay
<1>5. ASSUME NEW p \in Pods, PodGone(p) PROVE [Promise!Next]_(Promise!promise)
  <2>1. /\ phase[p] = "terminating" /\ phase' = [phase EXCEPT ![p] = "gone"]
        /\ gpus' = [gpus EXCEPT ![p] = {}]
        /\ UNCHANGED <<node, noticed, newConfig, stopList, pc, clean>>
    BY <1>5 DEF PodGone, ControllerIdle
  <2>2. UNCHANGED <<PlanNow, Doomed>>
    BY <2>1 DEF PlanNow, Doomed, UnderWay
  <2>3. Coming' = Coming
    BY <1>0, <2>1 DEF Coming, ClusterTyped
  <2>4. Holds' = [Holds EXCEPT ![p] = {}]
    BY <1>0, <2>1 DEF Holds, OnNode, ClusterTyped
  <2>5. Promise!Leave(p)
    BY <2>1, <2>2, <2>3, <2>4 DEF Promise!Leave, Coming, Holds, PlanNow, Doomed
  <2>. QED
    BY <2>5 DEF Promise!Next
<1>6. ASSUME NEW p \in Pods, UserDelete(p) PROVE [Promise!Next]_(Promise!promise)
  <2>1. /\ phase[p] \in {"pending", "running"}
        /\ phase' = [phase EXCEPT ![p] = IF @ = "pending" THEN "gone" ELSE "terminating"]
        /\ UNCHANGED <<node, noticed, gpus, newConfig, stopList, pc, clean>>
    BY <1>6 DEF UserDelete, ControllerIdle
  <2>2. UNCHANGED <<PlanNow, Doomed>>
    BY <2>1 DEF PlanNow, Doomed, UnderWay
  <2>3. Coming' = Coming
    BY <1>0, <2>1 DEF Coming, ClusterTyped
  <2>4. Holds' = Holds
    BY <1>0, <2>1 DEF Holds, OnNode, ClusterTyped
  <2>. QED
    BY <2>1, <2>2, <2>3, <2>4, Unseen
<1>7. CASE SchedulerNotices
  <2>1. noticed' = TRUE /\ UNCHANGED <<node, phase, gpus, newConfig, stopList, pc, clean>>
    BY <1>7 DEF SchedulerNotices, ControllerIdle
  <2>2. UNCHANGED <<Coming, Holds, PlanNow, Doomed>>
    BY <2>1 DEF Coming, Holds, OnNode, PlanNow, Doomed, UnderWay
  <2>3. Promise!Close
    BY <2>1, <2>2 DEF Promise!Close, Coming, Holds, PlanNow, Doomed
  <2>. QED
    BY <2>3 DEF Promise!Next
<1>8. CASE OperatorStart
  BY <1>8, Untouched DEF OperatorStart, ControllerIdle, UnderWay
<1>9. CASE OperatorFinish
  BY <1>9, Untouched DEF OperatorFinish, ControllerIdle, UnderWay
<1>10. CASE Heartbeat
  BY <1>10, Untouched DEF Heartbeat, ControllerIdle, UnderWay
<1>11. CASE CacheSync
  BY <1>11, Untouched DEF CacheSync, UnderWay
<1>12. CASE Start
  BY <1>12, Untouched DEF Start, UnderWay, BeforeLabel
<1>13. CASE CheckTarget
  BY <1>13, Untouched DEF CheckTarget, UnderWay, BeforeLabel
<1>14. CASE AddTaint
  <2>1. node'.config = node.config
    BY <1>0, <1>14 DEF AddTaint, Write, ObjectsTyped, NodeObject
  <2>. QED
    BY <1>14, <2>1, Untouched DEF AddTaint, UnderWay, BeforeLabel
<1>15. CASE Plan
  <2>1. pc = "plan" /\ ~UnderWay /\ UNCHANGED <<node, noticed, phase, gpus>>
    BY <1>15 DEF Plan, UnderWay, BeforeLabel
  <2>2. UNCHANGED <<Coming, Holds>>
    BY <2>1 DEF Coming, Holds, OnNode
  <2>3. CASE ~UnderWay'
    <3>1. UNCHANGED <<PlanNow, Doomed>>
      BY <2>1, <2>3 DEF PlanNow, Doomed
    <3>. QED
      BY <2>1, <2>2, <3>1, Unseen
  <2>4. CASE UnderWay'
    <3>1. pc' = "stop" /\ clean'
      BY <1>15, <2>4 DEF Plan, UnderWay, BeforeLabel
    <3>2. /\ newConfig' \in Configs
          /\ stopList' = Located(copy.config, newConfig')
          /\ noticed /\ copy.config = node.config
          /\ \A p \in Pods : phase[p] # "binding" /\ (OnNode(p) => p \in labelled)
      BY <1>15, <3>1 DEF Plan, ForgetCopy
    <3>3. Coming = {}
      BY <3>2 DEF Coming
    <3>4. Doomed' = {p \in Pods : Holds[p] \cap Reconf(node.config, newConfig') # {}}
      <4>1. \A p \in Pods : p \in labelled /\ OnNode(p) /\ gpus[p] \cap Reconf(node.config, newConfig') # {}
                            <=> Holds[p] \cap Reconf(node.config, newConfig') # {}
        BY <3>2 DEF Holds
      <4>2. labelled \subseteq Pods
        BY <1>0 DEF ClusterTyped
      <4>3. Located(node.config, newConfig') = {p \in Pods : Holds[p] \cap Reconf(node.config, newConfig') # {}}
        BY <4>1, <4>2 DEF Located
      <4>. QED
        BY <2>4, <3>2, <4>3 DEF Doomed
    <3>5. PlanNow = NoConfig /\ PlanNow' = newConfig'
      BY <2>1, <2>4 DEF PlanNow
    <3>6. Promise!Begin(newConfig')
      BY <2>1, <2>2, <3>2, <3>3, <3>4, <3>5
      DEF Promise!Begin, Promise!InUse, Promise!Changed, Reconf, Coming, Holds, PlanNow, Doomed
    <3>. QED
      BY <3>2, <3>6 DEF Promise!Next
  <2>. QED
    BY <2>3, <2>4
<1>16. ASSUME NEW p \in Pods, StopPod(p) PROVE [Promise!Next]_(Promise!promise)
  <2>1. /\ phase' \in {phase, [phase EXCEPT ![p] = IF OnNode(p) THEN "terminating" ELSE @]}
        /\ UNCHANGED <<node, noticed, gpus, newConfig, stopList, pc, clean>>
    BY <1>16 DEF StopPod
  <2>2. UNCHANGED <<PlanNow, Doomed>>
    BY <2>1 DEF PlanNow, Doomed, UnderWay
  <2>3. Coming' = Coming
    BY <1>0, <2>1 DEF Coming, OnNode, ClusterTyped
  <2>4. Holds' = Holds
    BY <1>0, <2>1 DEF Holds, OnNode, ClusterTyped
  <2>. QED
    BY <2>1, <2>2, <2>3, <2>4, Unseen
<1>17. CASE StopDone
  BY <1>17, Untouched DEF StopDone, UnderWay, BeforeLabel
<1>18. ASSUME NEW p \in Pods, CheckDeleted(p) PROVE [Promise!Next]_(Promise!promise)
  BY <1>18, Untouched DEF CheckDeleted, UnderWay
<1>19. CASE EndPass
  BY <1>19, Untouched DEF EndPass, UnderWay, BeforeLabel
<1>20. CASE StopReporter
  BY <1>20, Untouched DEF StopReporter, UnderWay, BeforeLabel
<1>21. CASE GetNode
  BY <1>21, Untouched DEF GetNode, UnderWay, BeforeLabel
<1>22. CASE SetLabel
  <2>1. pc = "setLabel" /\ UNCHANGED <<noticed, phase, gpus>>
    BY <1>22 DEF SetLabel
  <2>2. UNCHANGED <<Coming, Holds>>
    BY <2>1 DEF Coming, Holds, OnNode
  <2>3. PlanNow' = NoConfig /\ Doomed' = {}
    BY <1>22 DEF SetLabel, PlanNow, Doomed, UnderWay, BeforeLabel
  <2>4. CASE UNCHANGED node
    <3>1. Promise!Abandon
      BY <2>1, <2>2, <2>3, <2>4 DEF Promise!Abandon, Coming, Holds, PlanNow, Doomed
    <3>. QED
      BY <3>1 DEF Promise!Next
  <2>5. CASE node' = [node EXCEPT !.config = newConfig]
    <3>1. newConfig \in Configs /\ node'.config = newConfig
      BY <1>0, <2>1, <2>5 DEF ObjectsTyped, NodeObject, LocalsTyped
    <3>2. CASE UnderWay
      <4>1. PlanNow = newConfig
        BY <3>2 DEF PlanNow
      <4>2. \A p \in Pods : Holds[p] \cap Reconf(node.config, newConfig) = {}
        <5>1. \A p \in Pods : OnNode(p) => p \notin stopList
          BY <1>0, <2>1 DEF StopProgress, OnNode
        <5>. QED
          BY <1>0, <3>2, <5>1 DEF PlanComplete, UnderWay, Holds
      <4>3. Promise!Switch
        BY <2>1, <2>2, <2>3, <3>1, <4>1, <4>2
        DEF Promise!Switch, Promise!InUse, Promise!Changed, Reconf, Coming, Holds, PlanNow, Doomed
      <4>. QED
        BY <4>3 DEF Promise!Next
    <3>3. CASE ~UnderWay
      <4>1. PlanNow = NoConfig /\ Doomed = {}
        BY <3>3 DEF PlanNow, Doomed
      <4>2. Promise!SwitchInTheDark(newConfig)
        BY <2>1, <2>2, <2>3, <3>1, <4>1 DEF Promise!SwitchInTheDark, Coming, Holds, PlanNow, Doomed
      <4>. QED
        BY <3>1, <4>2 DEF Promise!Next
    <3>. QED
      BY <3>2, <3>3
  <2>. QED
    BY <1>22, <2>4, <2>5 DEF SetLabel, Write, ForgetCopy
<1>23. CASE Poll
  BY <1>23, Untouched DEF Poll, UnderWay, BeforeLabel
<1>24. CASE UntaintGet
  BY <1>24, Untouched DEF UntaintGet, UnderWay, BeforeLabel
<1>25. CASE Untaint
  <2>1. UNCHANGED <<phase, gpus>> /\ ~UnderWay /\ ~UnderWay'
    BY <1>25 DEF Untaint, UnderWay, BeforeLabel
  <2>2. UNCHANGED <<PlanNow, Doomed>> /\ PlanNow = NoConfig
    BY <2>1 DEF PlanNow, Doomed
  <2>3. UNCHANGED <<Coming, Holds>>
    BY <2>1 DEF Coming, Holds, OnNode
  <2>4. CASE UNCHANGED <<node, noticed>>
    BY <2>2, <2>3, <2>4, Unseen
  <2>5. CASE node' = [node EXCEPT !.tainted = FALSE] /\ noticed' = FALSE
    <3>1. node'.config = node.config
      BY <1>0, <2>5 DEF ObjectsTyped, NodeObject
    <3>2. Promise!Open
      BY <2>2, <2>3, <2>5, <3>1 DEF Promise!Open, Coming, Holds, PlanNow, Doomed
    <3>. QED
      BY <3>2 DEF Promise!Next
  <2>. QED
    BY <1>25, <2>4, <2>5 DEF Untaint, Write
<1>26. CASE Crash
  <2>1. UNCHANGED <<node, noticed, phase, gpus>> /\ ~UnderWay'
    BY <1>26 DEF Crash, UnderWay, BeforeLabel
  <2>2. UNCHANGED <<Coming, Holds>>
    BY <2>1 DEF Coming, Holds, OnNode
  <2>3. PlanNow' = NoConfig /\ Doomed' = {}
    BY <2>1 DEF PlanNow, Doomed
  <2>4. Promise!Abandon
    BY <2>1, <2>2, <2>3 DEF Promise!Abandon, Coming, Holds, PlanNow, Doomed
  <2>. QED
    BY <2>4 DEF Promise!Next
<1>27. CASE Restart
  BY <1>27, Untouched DEF Restart, UnderWay, BeforeLabel
<1>28. CASE UNCHANGED vars
  BY <1>28, Untouched DEF vars, UnderWay
<1>. QED
  BY <1>1, <1>2, <1>3, <1>4, <1>5, <1>6, <1>7, <1>8, <1>9, <1>10, <1>11, <1>12, <1>13, <1>14,
     <1>15, <1>16, <1>17, <1>18, <1>19, <1>20, <1>21, <1>22, <1>23, <1>24, <1>25, <1>26,
     <1>27, <1>28
  DEF Next, Reconcile

\* Where a live read fails for absent pods only, what Reconcile does to the node is
\* what NodePromise promises: a plan made on the closed node, one whose taint the
\* scheduler has noticed, stops the pods on the GPUs it changes and no other, and the
\* label is written when these GPUs are free, whatever conflicts, stale copies, failed
\* deletions and crashes come between.  Of the other plans it promises nothing.
THEOREM KeepsPromise == ASSUME ~GetErrors PROVE Spec => PromiseSpec
<1>1. IInv /\ IInv' /\ [Next]_vars => [Promise!Next]_(Promise!promise)
  BY PromiseStep
<1>. QED
  BY PromiseInit, Invariance, <1>1, PTL DEF Spec, PromiseSpec, Promise!Spec
=============================================================================
