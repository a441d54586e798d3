------------------------- MODULE CheckStreamProofs -------------------------
(***************************************************************************)
(* Proofs about the check pipeline, for every set of candidates, limit,    *)
(* concurrency and channel capacity, and every interleaving of the driver, *)
(* the tasks and the consumer.                                             *)
(***************************************************************************)
EXTENDS CheckStream, FiniteSetTheorems, TLAPS

-----------------------------------------------------------------------------
(***************************************************************************)
(* The inductive invariant, one definition for each thing it says.         *)
(***************************************************************************)

\* A candidate is in one place: the source, the driver's hand, or a task.
FlowInv ==
  /\ \A p \in source \cup cand : task[p] = "idle"
  /\ cand \cap source = {}
  /\ driver = "done" => Active = {}

\* The addresses find let through are distinct, and all of them were seen.
LetThrough == {p \in Cand : task[p] # "idle"} \cup cand

DedupInv ==
  Dedup => /\ \A p \in LetThrough : AddrOf[p] \in seen
           /\ \A p, q \in LetThrough : AddrOf[p] = AddrOf[q] => p = q

\* What a task has done by the time it is where it is.
TaskInv ==
  \A p \in Cand :
    /\ task[p] \in {"reserve", "send", "cancel"} => p \in good /\ p \in recorded
    /\ task[p] = "finished" => p \in recorded \/ cancelled
    /\ p \in recorded => task[p] \notin {"idle", "checking"}

OutInv ==
  \A i \in DOMAIN out :
    out[i] \in recorded /\ task[out[i]] \in {"cancel", "finished"}

\* Every slot below the limit is an item sent, or one whose send is waiting.
Sending == {p \in Cand : task[p] = "send"}

Slots == Len(out) + Cardinality(Sending)

SlotInv == Limit # Unlimited => Slots <= sent /\ Slots <= Limit

\* While the consumer listens no slot is lost, only the limit cancels the
\* run, and a good candidate goes missing only when the limit is reached.
Spent == Limit # Unlimited /\ sent >= Limit

OpenInv ==
  rx = "open" =>
    /\ Slots = sent \/ (Spent /\ Slots = Limit)
    /\ cancelled => Spent
    /\ \A p \in Cand : task[p] = "cancel" => Spent
    /\ \A p \in Cand : task[p] = "send" => slot[p] < sent
    /\ \A p \in good : task[p] \in {"cancel", "finished"} =>
         Spent \/ \E i \in DOMAIN out : out[i] = p

IndInv ==
  /\ TypeOK /\ FlowInv /\ DedupInv /\ PermitsConserved /\ TaskInv /\ OutInv
  /\ SlotInv /\ OpenInv

\* The tasks alive and the tasks sending are finitely many.
LEMMA FiniteTasks ==
  /\ IsFiniteSet(Active) /\ IsFiniteSet(Sending)
  /\ Cardinality(Active) \in Nat /\ Cardinality(Sending) \in Nat
<1>1. Active \in SUBSET Cand /\ Sending \in SUBSET Cand
  BY DEF Active, Sending
<1>2. IsFiniteSet(Cand)
  BY CheckStreamAssumption
<1>3. IsFiniteSet(Active) /\ IsFiniteSet(Sending)
  BY <1>1, <1>2, FS_Subset
<1> QED
  BY <1>3, FS_CardinalityType

AliveStates == {"checking", "reserve", "send", "cancel"}

\* How the move of one task changes the number of those alive.
LEMMA ActiveCount ==
  ASSUME TypeOK, NEW p \in Cand, NEW x \in TaskStates,
         task' = [task EXCEPT ![p] = x]
  PROVE  /\ task[p] \in AliveStates /\ x \in AliveStates =>
              Cardinality(Active') = Cardinality(Active)
         /\ task[p] \in AliveStates /\ x \notin AliveStates =>
              Cardinality(Active') = Cardinality(Active) - 1
         /\ task[p] \notin AliveStates /\ x \in AliveStates =>
              Cardinality(Active') = Cardinality(Active) + 1
<1>1. Active' = IF x \in AliveStates THEN Active \cup {p} ELSE Active \ {p}
  BY DEF TypeOK, Active, AliveStates
<1>2. p \in Active <=> task[p] \in AliveStates
  BY DEF Active, AliveStates
<1>3. CASE task[p] \in AliveStates /\ x \in AliveStates
  <2>1. Active' = Active
    BY <1>1, <1>2, <1>3
  <2> QED
    BY <1>3, <2>1
<1>4. CASE task[p] \in AliveStates /\ x \notin AliveStates
  <2>1. Active' = Active \ {p} /\ p \in Active
    BY <1>1, <1>2, <1>4
  <2>2. Cardinality(Active \ {p}) = Cardinality(Active) - 1
    BY <2>1, FiniteTasks, FS_RemoveElement
  <2> QED
    BY <1>4, <2>1, <2>2
<1>5. CASE task[p] \notin AliveStates /\ x \in AliveStates
  <2>1. Active' = Active \cup {p} /\ p \notin Active
    BY <1>1, <1>2, <1>5
  <2>2. Cardinality(Active \cup {p}) = Cardinality(Active) + 1
    BY <2>1, FiniteTasks, FS_AddElement
  <2> QED
    BY <1>5, <2>1, <2>2
<1> QED
  BY <1>3, <1>4, <1>5

\* How it changes the number of those sending.
LEMMA SendingCount ==
  ASSUME TypeOK, NEW p \in Cand, NEW x \in TaskStates,
         task' = [task EXCEPT ![p] = x]
  PROVE  /\ task[p] # "send" /\ x # "send" =>
              Cardinality(Sending') = Cardinality(Sending)
         /\ task[p] = "send" /\ x # "send" =>
              Cardinality(Sending') = Cardinality(Sending) - 1
         /\ task[p] # "send" /\ x = "send" =>
              Cardinality(Sending') = Cardinality(Sending) + 1
<1>1. Sending' = IF x = "send" THEN Sending \cup {p} ELSE Sending \ {p}
  BY DEF TypeOK, Sending
<1>2. p \in Sending <=> task[p] = "send"
  BY DEF Sending
<1>3. CASE task[p] # "send" /\ x # "send"
  <2>1. Sending' = Sending
    BY <1>1, <1>2, <1>3
  <2> QED
    BY <1>3, <2>1
<1>4. CASE task[p] = "send" /\ x # "send"
  <2>1. Sending' = Sending \ {p} /\ p \in Sending
    BY <1>1, <1>2, <1>4
  <2>2. Cardinality(Sending \ {p}) = Cardinality(Sending) - 1
    BY <2>1, FiniteTasks, FS_RemoveElement
  <2> QED
    BY <1>4, <2>1, <2>2
<1>5. CASE task[p] # "send" /\ x = "send"
  <2>1. Sending' = Sending \cup {p} /\ p \notin Sending
    BY <1>1, <1>2, <1>5
  <2>2. Cardinality(Sending \cup {p}) = Cardinality(Sending) + 1
    BY <2>1, FiniteTasks, FS_AddElement
  <2> QED
    BY <1>5, <2>1, <2>2
<1> QED
  BY <1>3, <1>4, <1>5

\* Initially every candidate is in the source and every permit is free.
LEMMA IndInvInit == Init => IndInv
<1> SUFFICES ASSUME Init PROVE IndInv
  OBVIOUS
<1> USE DEF Init
<1>1. Active = {} /\ Sending = {}
  BY DEF Active, Sending
<1>2. Cardinality(Active) = 0 /\ Cardinality(Sending) = 0
  BY <1>1, FS_EmptySet
<1>3. TypeOK
  <2>1. MaxConn \in Nat
    BY CheckStreamAssumption
  <2>2. "idle" \in TaskStates
    BY DEF TaskStates
  <2>3. task \in [Cand -> TaskStates]
    BY <2>2
  <2>4. slot \in [Cand -> Nat]
    OBVIOUS
  <2>5. chan \in Seq(Cand) /\ out \in Seq(Cand)
    OBVIOUS
  <2>6. good \subseteq Cand
    OBVIOUS
  <2> QED
    BY <2>1, <2>3, <2>4, <2>5, <2>6 DEF TypeOK
<1>4. FlowInv /\ DedupInv /\ TaskInv /\ OutInv
  BY <1>1 DEF FlowInv, DedupInv, LetThrough, TaskInv, OutInv
<1>5. Len(out) = 0 /\ Slots = 0
  BY <1>2 DEF Slots
<1>6. PermitsConserved
  BY <1>2, CheckStreamAssumption DEF PermitsConserved
<1>7. SlotInv /\ OpenInv
  <2>1. Limit # Unlimited => Limit \in Nat
    BY CheckStreamAssumption
  <2> QED
    BY <1>5, <2>1 DEF SlotInv, OpenInv
<1> QED
  BY <1>3, <1>4, <1>6, <1>7 DEF IndInv

\* The channel after its head is taken.
LEMMA TailType ==
  ASSUME NEW s \in Seq(Cand), s # << >>
  PROVE  Tail(s) \in Seq(Cand)
  OBVIOUS

\* The steps that touch no task keep the invariant.
LEMMA QuietStep ==
  ASSUME IndInv,
         SourceEnd \/ Admit \/ Drained \/ Consuming
           \/ \E p \in Cand : SourceYield(p)
  PROVE  IndInv'
<1> USE DEF IndInv
<1>1. UNCHANGED <<good, task, permits, sent, slot, recorded, out>>
  BY DEF SourceEnd, Admit, Drained, Consuming, Receive, DropReceiver, DropGuard,
         SourceYield
<1>2. Active' = Active /\ Sending' = Sending /\ Slots' = Slots
  BY <1>1 DEF Active, Sending, Slots
<1>3. TypeOK'
  <2>1. chan' \in Seq(Cand)
    <3>1. chan' = chan \/ chan' = << >> \/ (chan # << >> /\ chan' = Tail(chan))
      BY DEF SourceEnd, Admit, Drained, Consuming, Receive, DropReceiver,
             DropGuard, SourceYield
    <3>2. chan \in Seq(Cand)
      BY DEF TypeOK
    <3>3. CASE chan' = chan
      BY <3>2, <3>3
    <3>4. CASE chan' = << >>
      BY <3>4
    <3>5. CASE chan # << >> /\ chan' = Tail(chan)
      BY <3>2, <3>5, TailType
    <3> QED
      BY <3>1, <3>3, <3>4, <3>5
  <2>2. seen' \subseteq {AddrOf[p] : p \in Cand}
    BY DEF SourceEnd, Admit, Drained, Consuming, Receive, DropReceiver,
           DropGuard, SourceYield, TypeOK
  <2> QED
    BY <1>1, <2>1, <2>2
    DEF SourceEnd, Admit, Drained, Consuming, Receive, DropReceiver,
        DropGuard, SourceYield, TypeOK
<1>4. FlowInv'
  BY <1>1, <1>2
  DEF SourceEnd, Admit, Drained, Consuming, Receive, DropReceiver, DropGuard,
      SourceYield, FlowInv
<1>5. DedupInv'
  <2>1. CASE SourceEnd \/ Admit \/ Drained \/ Consuming
    BY <1>1, <2>1 DEF SourceEnd, Admit, Drained, Consuming, Receive,
                      DropReceiver, DropGuard, DedupInv, LetThrough
  <2>2. ASSUME NEW p \in Cand, SourceYield(p)
        PROVE  DedupInv'
    <3>1. CASE Fresh(p) /\ p \in Screened
      BY <1>1, <2>2, <3>1 DEF SourceYield, Fresh, DedupInv, LetThrough
    <3>2. CASE ~(Fresh(p) /\ p \in Screened)
      BY <1>1, <2>2, <3>2 DEF SourceYield, DedupInv, LetThrough
    <3> QED
      BY <3>1, <3>2
  <2> QED
    BY <2>1, <2>2
<1>6. PermitsConserved'
  BY <1>1, <1>2 DEF PermitsConserved
<1>7. cancelled => cancelled'
  BY DEF SourceEnd, Admit, Drained, Consuming, Receive, DropReceiver, DropGuard,
         SourceYield
<1>8. TaskInv' /\ OutInv'
  BY <1>1, <1>7 DEF TaskInv, OutInv
<1>9. SlotInv'
  BY <1>1, <1>2 DEF SlotInv
<1>10. rx' = "open" => rx = "open" /\ cancelled' = cancelled
  BY DEF SourceEnd, Admit, Drained, Consuming, Receive, DropReceiver, DropGuard,
         SourceYield
<1>11. OpenInv'
  BY <1>1, <1>2, <1>10 DEF OpenInv, Spent
<1> QED
  BY <1>3, <1>4, <1>5, <1>6, <1>8, <1>9, <1>11

-----------------------------------------------------------------------------
\* A new task takes the permit and the driver's candidate.
LEMMA SpawnStep ==
  ASSUME IndInv, NEW p \in Cand, Spawn(p)
  PROVE  IndInv'
<1> USE DEF IndInv
<1>1. task[p] = "idle"
  BY DEF Spawn, FlowInv
<1>2. /\ task' = [task EXCEPT ![p] = "checking"]
      /\ permits > 0 /\ permits' = permits - 1
      /\ UNCHANGED <<good, source, seen, sent, slot, cancelled, recorded, chan,
                     rx, out>>
      /\ driver' = "next" /\ cand' = {} /\ cand = {p}
  BY DEF Spawn
<1>3. "checking" \in TaskStates /\ "checking" \in AliveStates
      /\ "idle" \notin AliveStates
  BY DEF TaskStates, AliveStates
<1>4. Cardinality(Active') = Cardinality(Active) + 1
  BY <1>1, <1>2, <1>3, ActiveCount
<1>5. Cardinality(Sending') = Cardinality(Sending)
  BY <1>1, <1>2, <1>3, SendingCount
<1>6. TypeOK'
  <2>1. permits' \in Nat
    BY <1>2 DEF TypeOK
  <2>2. task' \in [Cand -> TaskStates]
    BY <1>2, <1>3 DEF TypeOK
  <2> QED
    BY <1>2, <2>1, <2>2 DEF TypeOK
<1>7. FlowInv'
  BY <1>2 DEF FlowInv, TypeOK
<1>8. DedupInv'
  <2>1. LetThrough' = LetThrough
    BY <1>1, <1>2 DEF LetThrough, TypeOK
  <2> QED
    BY <1>2, <2>1 DEF DedupInv
<1>9. PermitsConserved'
  BY <1>2, <1>4, FiniteTasks, CheckStreamAssumption
  DEF PermitsConserved, TypeOK
<1>10. TaskInv'
  BY <1>1, <1>2 DEF TaskInv, TypeOK
<1>11. OutInv'
  BY <1>1, <1>2 DEF OutInv, TypeOK
<1>12. Slots' = Slots
  BY <1>2, <1>5 DEF Slots
<1>13. SlotInv'
  BY <1>2, <1>12 DEF SlotInv
<1>14. OpenInv'
  BY <1>1, <1>2, <1>12 DEF OpenInv, Spent, TypeOK
<1> QED
  BY <1>6, <1>7, <1>8, <1>9, <1>10, <1>11, <1>13, <1>14

\* What every move of a task that is alive leaves in order.
LEMMA TaskMove ==
  ASSUME IndInv, NEW p \in Cand, NEW x \in TaskStates, x # "idle",
         task[p] \in AliveStates,
         task' = [task EXCEPT ![p] = x],
         permits' = IF x \in AliveStates THEN permits ELSE permits + 1,
         UNCHANGED <<source, seen, driver, cand>>
  PROVE  /\ FlowInv' /\ DedupInv' /\ PermitsConserved'
         /\ permits' \in Nat /\ task' \in [Cand -> TaskStates]
<1> USE DEF IndInv
<1>1. p \in Active
  BY DEF Active, AliveStates
<1>2. task[p] # "idle"
  BY DEF AliveStates
<1>3. FlowInv'
  BY <1>1, <1>2 DEF FlowInv, TypeOK
<1>4. DedupInv'
  <2>1. LetThrough' = LetThrough
    BY <1>2 DEF LetThrough, TypeOK
  <2> QED
    BY <2>1 DEF DedupInv
<1>5. PermitsConserved'
  <2>1. CASE x \in AliveStates
    <3>1. Cardinality(Active') = Cardinality(Active)
      BY <2>1, ActiveCount
    <3> QED
      BY <2>1, <3>1 DEF PermitsConserved
  <2>2. CASE x \notin AliveStates
    <3>1. Cardinality(Active') = Cardinality(Active) - 1
      BY <2>2, ActiveCount
    <3> QED
      BY <2>2, <3>1, FiniteTasks DEF PermitsConserved, TypeOK
  <2> QED
    BY <2>1, <2>2
<1>6. permits' \in Nat
  BY DEF TypeOK
<1>7. task' \in [Cand -> TaskStates]
  BY DEF TypeOK
<1> QED
  BY <1>3, <1>4, <1>5, <1>6, <1>7

\* Two moves of a task, as TaskMove takes them.
LEMMA MoveStates ==
  /\ \A x \in {"reserve", "send", "cancel", "finished"} :
       x \in TaskStates /\ x # "idle"
  /\ {"checking", "reserve", "send", "cancel"} = AliveStates
  /\ "finished" \notin AliveStates
BY DEF TaskStates, AliveStates

\* A cancelled check gives its permit back and is not recorded.
LEMMA AbortStep ==
  ASSUME IndInv, NEW p \in Cand, Abort(p)
  PROVE  IndInv'
<1> USE DEF IndInv
<1>1. /\ task[p] = "checking" /\ cancelled
      /\ task' = [task EXCEPT ![p] = "finished"]
      /\ permits' = permits + 1
      /\ UNCHANGED <<good, source, seen, driver, cand, sent, slot, cancelled,
                     recorded, chan, rx, out>>
  BY DEF Abort, Finish
<1>2. /\ FlowInv' /\ DedupInv' /\ PermitsConserved'
      /\ permits' \in Nat /\ task' \in [Cand -> TaskStates]
  BY <1>1, MoveStates, TaskMove
<1>3. Cardinality(Sending') = Cardinality(Sending)
  BY <1>1, MoveStates, SendingCount
<1>4. TypeOK'
  BY <1>1, <1>2 DEF TypeOK
<1>5. TaskInv' /\ OutInv'
  BY <1>1 DEF TaskInv, OutInv, TypeOK
<1>6. Slots' = Slots
  BY <1>1, <1>3 DEF Slots
<1>7. SlotInv'
  BY <1>1, <1>6 DEF SlotInv
<1>8. OpenInv'
  BY <1>1, <1>6 DEF OpenInv, Spent, TypeOK
<1> QED
  BY <1>2, <1>4, <1>5, <1>7, <1>8

\* A check that ran is recorded, and goes on if its proxy is good.
LEMMA CheckedStep ==
  ASSUME IndInv, NEW p \in Cand, Checked(p)
  PROVE  IndInv'
<1> USE DEF IndInv
<1>1. /\ task[p] = "checking"
      /\ recorded' = recorded \cup {p}
      /\ UNCHANGED <<good, source, seen, driver, cand, sent, slot, cancelled,
                     chan, rx, out>>
  BY DEF Checked
<1>2. PICK x \in {"reserve", "finished"} :
        /\ task' = [task EXCEPT ![p] = x]
        /\ permits' = IF x \in AliveStates THEN permits ELSE permits + 1
        /\ x = "reserve" <=> p \in good
  BY MoveStates DEF Checked, Finish
<1>3. x \in TaskStates /\ x # "idle" /\ task[p] \in AliveStates
  BY <1>1, MoveStates
<1>4. /\ FlowInv' /\ DedupInv' /\ PermitsConserved'
      /\ permits' \in Nat /\ task' \in [Cand -> TaskStates]
  BY <1>1, <1>2, <1>3, TaskMove
<1>5. Cardinality(Sending') = Cardinality(Sending)
  BY <1>1, <1>2, <1>3, SendingCount
<1>6. TypeOK'
  BY <1>1, <1>4 DEF TypeOK
<1>7. TaskInv'
  BY <1>1, <1>2 DEF TaskInv, TypeOK
<1>8. OutInv'
  BY <1>1, <1>2 DEF OutInv, TypeOK
<1>9. Slots' = Slots
  BY <1>1, <1>5 DEF Slots
<1>10. SlotInv'
  BY <1>1, <1>9 DEF SlotInv
<1>11. OpenInv'
  BY <1>1, <1>2, <1>9 DEF OpenInv, Spent, TypeOK
<1> QED
  BY <1>4, <1>6, <1>7, <1>8, <1>10, <1>11

\* The limit, when there is one, is a number, and slots are counted by numbers.
LEMMA Numbers ==
  ASSUME TypeOK
  PROVE  /\ Limit # Unlimited => Limit \in Nat
         /\ Slots \in Nat /\ Len(out) \in Nat /\ sent \in Nat
         /\ \A q \in Cand : slot[q] \in Nat
<1>1. Limit # Unlimited => Limit \in Nat
  BY CheckStreamAssumption
<1>2. Len(out) \in Nat /\ sent \in Nat
  BY DEF TypeOK
<1>3. Slots \in Nat
  BY <1>2, FiniteTasks DEF Slots
<1>4. \A q \in Cand : slot[q] \in Nat
  BY DEF TypeOK
<1> QED
  BY <1>1, <1>2, <1>3, <1>4

\* A reserved slot below the limit becomes a send; one beyond it ends the run.
LEMMA ReserveStep ==
  ASSUME IndInv, NEW p \in Cand, Reserve(p)
  PROVE  IndInv'
<1> USE DEF IndInv
<1>1. /\ task[p] = "reserve"
      /\ sent' = sent + 1
      /\ slot' = [slot EXCEPT ![p] = sent]
      /\ UNCHANGED <<good, source, seen, driver, cand, recorded, chan, rx, out>>
  BY DEF Reserve
<1>2. PICK x \in {"send", "finished"} :
        /\ task' = [task EXCEPT ![p] = x]
        /\ permits' = IF x \in AliveStates THEN permits ELSE permits + 1
        /\ x = "finished" <=> is_limit_reached
        /\ cancelled' = (cancelled \/ x = "finished")
  <2>1. CASE is_limit_reached
    BY <2>1, MoveStates DEF Reserve, Finish
  <2>2. CASE ~is_limit_reached
    BY <2>2, MoveStates DEF Reserve, TypeOK
  <2> QED
    BY <2>1, <2>2
<1>3. x \in TaskStates /\ x # "idle" /\ task[p] \in AliveStates
  BY <1>1, MoveStates
<1>4. /\ FlowInv' /\ DedupInv' /\ PermitsConserved'
      /\ permits' \in Nat /\ task' \in [Cand -> TaskStates]
  BY <1>1, <1>2, <1>3, TaskMove
<1>5. TypeOK'
  <2>1. sent' \in Nat /\ slot' \in [Cand -> Nat]
    BY <1>1 DEF TypeOK
  <2>2. cancelled' \in BOOLEAN
    BY <1>2
  <2> QED
    BY <1>1, <1>4, <2>1, <2>2 DEF TypeOK
<1>6. TaskInv'
  BY <1>1, <1>2 DEF TaskInv, TypeOK
<1>7. OutInv'
  BY <1>1, <1>2 DEF OutInv, TypeOK
<1>8. /\ is_limit_reached => Slots' = Slots
      /\ ~is_limit_reached => Slots' = Slots + 1
  <2>1. CASE is_limit_reached
    <3>1. Cardinality(Sending') = Cardinality(Sending)
      BY <1>1, <1>2, <1>3, <2>1, SendingCount
    <3> QED
      BY <1>1, <2>1, <3>1 DEF Slots
  <2>2. CASE ~is_limit_reached
    <3>1. Cardinality(Sending') = Cardinality(Sending) + 1
      BY <1>1, <1>2, <1>3, <2>2, SendingCount
    <3>2. Len(out) \in Nat /\ Cardinality(Sending) \in Nat
      BY Numbers, FiniteTasks
    <3> QED
      BY <1>1, <2>2, <3>1, <3>2 DEF Slots
  <2> QED
    BY <2>1, <2>2
<1>9. SlotInv'
  BY <1>1, <1>8, Numbers DEF SlotInv, is_limit_reached
<1>10. Spent => Spent'
  BY <1>1, Numbers DEF Spent
<1>11. is_limit_reached <=> Spent
  BY DEF is_limit_reached, Spent
<1>12. ASSUME rx = "open"
       PROVE  Slots' = sent' \/ (Spent' /\ Slots' = Limit)
  <2>1. CASE Spent
    <3>1. Slots = Limit
      BY <1>12, <2>1, Numbers DEF OpenInv, SlotInv, Spent
    <3> QED
      BY <1>8, <1>10, <1>11, <2>1, <3>1
  <2>2. CASE ~Spent
    BY <1>1, <1>8, <1>11, <1>12, <2>2 DEF OpenInv
  <2> QED
    BY <2>1, <2>2
<1>13. OpenInv'
  <2> SUFFICES ASSUME rx = "open" PROVE OpenInv'
    BY <1>1 DEF OpenInv
  <2>1. cancelled' => Spent'
    BY <1>2, <1>10, <1>11 DEF OpenInv
  <2>2. \A q \in Cand : task'[q] = "cancel" => Spent'
    BY <1>2, <1>10 DEF OpenInv, TypeOK
  <2>3. \A q \in Cand : task'[q] = "send" => slot'[q] < sent'
    BY <1>1, <1>2, Numbers DEF OpenInv, TypeOK
  <2>4. \A q \in good : task'[q] \in {"cancel", "finished"} =>
          Spent' \/ \E i \in DOMAIN out : out[i] = q
    BY <1>2, <1>10, <1>11 DEF OpenInv, TypeOK
  <2> QED
    BY <1>1, <1>12, <2>1, <2>2, <2>3, <2>4 DEF OpenInv
<1> QED
  BY <1>4, <1>5, <1>6, <1>7, <1>9, <1>13

\* Cancelling the run: the last slot is sent, so the limit is spent.
LEMMA CancelStep ==
  ASSUME IndInv, NEW p \in Cand, Cancel(p)
  PROVE  IndInv'
<1> USE DEF IndInv
<1>1. /\ task[p] = "cancel" /\ cancelled' = TRUE
      /\ task' = [task EXCEPT ![p] = "finished"]
      /\ permits' = permits + 1
      /\ UNCHANGED <<good, source, seen, driver, cand, sent, slot, recorded,
                     chan, rx, out>>
  BY DEF Cancel, Finish
<1>2. /\ FlowInv' /\ DedupInv' /\ PermitsConserved'
      /\ permits' \in Nat /\ task' \in [Cand -> TaskStates]
  BY <1>1, MoveStates, TaskMove
<1>3. Cardinality(Sending') = Cardinality(Sending)
  BY <1>1, MoveStates, SendingCount
<1>4. TypeOK'
  BY <1>1, <1>2 DEF TypeOK
<1>5. TaskInv' /\ OutInv'
  BY <1>1 DEF TaskInv, OutInv, TypeOK
<1>6. Slots' = Slots
  BY <1>1, <1>3 DEF Slots
<1>7. SlotInv'
  BY <1>1, <1>6 DEF SlotInv
<1>8. OpenInv'
  BY <1>1, <1>6 DEF OpenInv, Spent, TypeOK
<1> QED
  BY <1>2, <1>4, <1>5, <1>7, <1>8

\* What Append does.
LEMMA Appended ==
  ASSUME NEW s \in Seq(Cand), NEW p \in Cand
  PROVE  /\ Append(s, p) \in Seq(Cand)
         /\ Len(Append(s, p)) = Len(s) + 1
         /\ \A i \in DOMAIN Append(s, p) :
              (i \in DOMAIN s /\ Append(s, p)[i] = s[i]) \/ Append(s, p)[i] = p
         /\ \A i \in DOMAIN s : i \in DOMAIN Append(s, p) /\ Append(s, p)[i] = s[i]
         /\ \E i \in DOMAIN Append(s, p) : Append(s, p)[i] = p
<1>1. /\ Append(s, p) \in Seq(Cand)
      /\ Len(Append(s, p)) = Len(s) + 1
      /\ Append(s, p)[Len(s) + 1] = p
      /\ \A i \in 1..Len(s) : Append(s, p)[i] = s[i]
  OBVIOUS
<1>2. DOMAIN s = 1..Len(s) /\ DOMAIN Append(s, p) = 1..Len(s) + 1
  BY <1>1
<1>3. Len(s) \in Nat
  OBVIOUS
<1> QED
  BY <1>1, <1>2, <1>3

\* Where a send, done or failed, takes the task.
LEMMA AfterSendMove ==
  ASSUME IndInv, NEW p \in Cand, task[p] = "send", AfterSend(p),
         UNCHANGED <<source, seen, driver, cand>>
  PROVE  \E x \in {"cancel", "finished"} :
           /\ task' = [task EXCEPT ![p] = x]
           /\ x = "cancel" => Limit # Unlimited /\ slot[p] + 1 >= Limit
           /\ FlowInv' /\ DedupInv' /\ PermitsConserved'
           /\ permits' \in Nat /\ task' \in [Cand -> TaskStates]
           /\ Cardinality(Sending') = Cardinality(Sending) - 1
<1> USE DEF IndInv
<1>1. PICK x \in {"cancel", "finished"} :
        /\ task' = [task EXCEPT ![p] = x]
        /\ x = "cancel" => Limit # Unlimited /\ slot[p] + 1 >= Limit
        /\ permits' = IF x \in AliveStates THEN permits ELSE permits + 1
  BY MoveStates DEF AfterSend, Finish
<1>2. x \in TaskStates /\ x # "idle" /\ task[p] \in AliveStates /\ x # "send"
  BY MoveStates
<1>3. /\ FlowInv' /\ DedupInv' /\ PermitsConserved'
      /\ permits' \in Nat /\ task' \in [Cand -> TaskStates]
  BY <1>1, <1>2, TaskMove
<1>4. Cardinality(Sending') = Cardinality(Sending) - 1
  BY <1>1, <1>2, SendingCount
<1> QED
  BY <1>1, <1>3, <1>4

\* A slot that waited to be sent becomes an item of the output.
LEMMA SendStep ==
  ASSUME IndInv, NEW p \in Cand, Send(p)
  PROVE  IndInv'
<1> USE DEF IndInv
<1>1. /\ task[p] = "send" /\ rx = "open"
      /\ chan' = Append(chan, p) /\ out' = Append(out, p)
      /\ UNCHANGED <<good, source, seen, driver, cand, sent, slot, cancelled,
                     recorded, rx>>
  BY DEF Send
<1>2. PICK x \in {"cancel", "finished"} :
        /\ task' = [task EXCEPT ![p] = x]
        /\ x = "cancel" => Limit # Unlimited /\ slot[p] + 1 >= Limit
        /\ FlowInv' /\ DedupInv' /\ PermitsConserved'
        /\ permits' \in Nat /\ task' \in [Cand -> TaskStates]
        /\ Cardinality(Sending') = Cardinality(Sending) - 1
  BY <1>1, AfterSendMove DEF Send
<1>3. out \in Seq(Cand) /\ chan \in Seq(Cand)
  BY DEF TypeOK
<1>4. out' \in Seq(Cand) /\ chan' \in Seq(Cand) /\ Len(out') = Len(out) + 1
  BY <1>1, <1>3, Appended
<1>5. /\ \A i \in DOMAIN out' : (i \in DOMAIN out /\ out'[i] = out[i]) \/ out'[i] = p
      /\ \A i \in DOMAIN out : i \in DOMAIN out' /\ out'[i] = out[i]
      /\ \E i \in DOMAIN out' : out'[i] = p
  <2> DEFINE s == out
             r == Append(s, p)
  <2>1. s \in Seq(Cand)
    BY <1>3
  <2>2. /\ \A i \in DOMAIN r : (i \in DOMAIN s /\ r[i] = s[i]) \/ r[i] = p
        /\ \A i \in DOMAIN s : i \in DOMAIN r /\ r[i] = s[i]
        /\ \E i \in DOMAIN r : r[i] = p
    BY <2>1, Appended, Zenon
  <2>3. out' = r
    BY <1>1
  <2> QED
    BY <2>2, <2>3, Zenon
<1>6. TypeOK'
  BY <1>1, <1>2, <1>4 DEF TypeOK
<1>7. TaskInv'
  BY <1>1, <1>2 DEF TaskInv, TypeOK
<1>8. OutInv'
  <2> SUFFICES ASSUME NEW i \in DOMAIN out'
               PROVE  out'[i] \in recorded /\ task'[out'[i]] \in {"cancel", "finished"}
    BY <1>1 DEF OutInv
  <2>1. CASE out'[i] = p
    BY <1>1, <1>2, <2>1 DEF TaskInv, TypeOK
  <2>2. CASE i \in DOMAIN out /\ out'[i] = out[i]
    <3>1. out[i] \in Cand
      BY <1>3, <2>2
    <3> QED
      BY <1>1, <1>2, <2>2, <3>1 DEF OutInv, TypeOK
  <2> QED
    BY <1>5, <2>1, <2>2
<1>9. Slots' = Slots
  <2>1. Len(out) \in Nat /\ Cardinality(Sending) \in Nat
    BY Numbers, FiniteTasks
  <2> QED
    BY <1>2, <1>4, <2>1 DEF Slots
<1>10. SlotInv'
  BY <1>1, <1>9 DEF SlotInv
<1>11. OpenInv'
  <2>1. Spent' <=> Spent
    BY <1>1 DEF Spent
  <2>2. Slots' = sent' \/ (Spent' /\ Slots' = Limit)
    BY <1>1, <1>9, <2>1 DEF OpenInv
  <2>3. cancelled' => Spent'
    BY <1>1, <2>1 DEF OpenInv
  <2>4. x = "cancel" => Spent
    BY <1>1, <1>2, Numbers DEF OpenInv, Spent
  <2>5. \A q \in Cand : task'[q] = "cancel" => Spent'
    BY <1>1, <1>2, <2>1, <2>4 DEF OpenInv, TypeOK
  <2>6. \A q \in Cand : task'[q] = "send" => slot'[q] < sent'
    BY <1>1, <1>2 DEF OpenInv, TypeOK
  <2>7. ASSUME NEW q \in good, task'[q] \in {"cancel", "finished"}, ~Spent'
        PROVE  \E i \in DOMAIN out' : out'[i] = q
    <3>1. CASE q = p
      BY <1>5, <3>1
    <3>2. CASE q # p
      <4>1. task[q] \in {"cancel", "finished"}
        BY <1>2, <2>7, <3>2 DEF TypeOK
      <4>2. PICK i \in DOMAIN out : out[i] = q
        BY <1>1, <2>1, <2>7, <4>1 DEF OpenInv
      <4> QED
        BY <1>5, <4>2
    <3> QED
      BY <3>1, <3>2
  <2> QED
    BY <1>1, <2>2, <2>3, <2>5, <2>6, <2>7 DEF OpenInv
<1> QED
  BY <1>2, <1>6, <1>7, <1>8, <1>10, <1>11

\* A send that fails loses its slot, and nobody listens any more.
LEMMA SendFailsStep ==
  ASSUME IndInv, NEW p \in Cand, SendFails(p)
  PROVE  IndInv'
<1> USE DEF IndInv
<1>1. /\ task[p] = "send" /\ rx # "open"
      /\ UNCHANGED <<good, source, seen, driver, cand, sent, slot, cancelled,
                     recorded, chan, rx, out>>
  BY DEF SendFails
<1>2. PICK x \in {"cancel", "finished"} :
        /\ task' = [task EXCEPT ![p] = x]
        /\ x = "cancel" => Limit # Unlimited /\ slot[p] + 1 >= Limit
        /\ FlowInv' /\ DedupInv' /\ PermitsConserved'
        /\ permits' \in Nat /\ task' \in [Cand -> TaskStates]
        /\ Cardinality(Sending') = Cardinality(Sending) - 1
  BY <1>1, AfterSendMove DEF SendFails
<1>3. TypeOK'
  BY <1>1, <1>2 DEF TypeOK
<1>4. TaskInv'
  BY <1>1, <1>2 DEF TaskInv, TypeOK
<1>5. OutInv'
  BY <1>1, <1>2 DEF OutInv, TypeOK
<1>6. Slots' = Slots - 1
  <2>1. Len(out) \in Nat /\ Cardinality(Sending) \in Nat
    BY Numbers, FiniteTasks
  <2> QED
    BY <1>1, <1>2, <2>1 DEF Slots
<1>7. SlotInv'
  BY <1>1, <1>6, Numbers DEF SlotInv
<1>8. OpenInv'
  BY <1>1 DEF OpenInv
<1> QED
  BY <1>2, <1>3, <1>4, <1>5, <1>7, <1>8

\* The invariant is inductive.
LEMMA IndInvNext == IndInv /\ [Next]_vars => IndInv'
<1> SUFFICES ASSUME IndInv, [Next]_vars PROVE IndInv'
  OBVIOUS
<1>1. CASE SourceEnd \/ Admit \/ Drained \/ Consuming
             \/ \E p \in Cand : SourceYield(p)
  BY <1>1, QuietStep
<1>2. ASSUME NEW p \in Cand,
             Spawn(p) \/ Checking(p) \/ Running(p)
      PROVE  IndInv'
  BY <1>2, SpawnStep, AbortStep, CheckedStep, ReserveStep, SendStep,
     SendFailsStep, CancelStep
  DEF Checking, Running
<1>3. CASE UNCHANGED vars
  BY <1>3
  DEF vars, IndInv, TypeOK, FlowInv, Active, DedupInv, LetThrough,
      PermitsConserved, TaskInv, OutInv, SlotInv, Slots, Sending, OpenInv, Spent
<1> QED
  BY <1>1, <1>2, <1>3 DEF Next, Sourcing, Driving

\* It holds throughout every run.
LEMMA IndInvHolds == Spec => []IndInv
BY IndInvInit, IndInvNext, PTL DEF Spec

-----------------------------------------------------------------------------
(***************************************************************************)
(* The pipeline's state keeps its shape; above all the free permits never  *)
(* go below zero.                                                          *)
(***************************************************************************)
THEOREM StreamTypeCorrect == Spec => []TypeOK
<1>1. IndInv => TypeOK
  BY DEF IndInv
<1> QED
  BY <1>1, IndInvHolds, PTL

(***************************************************************************)
(* Every check task holds exactly one permit from its spawn to its end, in *)
(* each of its ways to end (aborted, failed, over the limit, sent, sent to *)
(* nobody): the free permits and the live tasks add up to max_conn.        *)
(***************************************************************************)
THEOREM StreamPermitsConserved == Spec => []PermitsConserved
<1>1. IndInv => PermitsConserved
  BY DEF IndInv
<1> QED
  BY <1>1, IndInvHolds, PTL

(***************************************************************************)
(* Every proxy the stream emits was recorded in the statistics first, and  *)
(* a run nobody cancelled recorded every check it spawned.                 *)
(***************************************************************************)
THEOREM StreamStatsCoverOutput == Spec => []StatsCoverOutput
<1>1. ASSUME IndInv PROVE StatsCoverOutput
  <2> USE <1>1 DEF IndInv
  <2>1. \A i \in DOMAIN out : out[i] \in recorded
    BY DEF OutInv
  <2>2. ASSUME driver = "done", ~cancelled
        PROVE  recorded = {p \in Cand : task[p] # "idle"}
    <3>1. \A p \in Cand : task[p] \in {"idle", "finished"}
      BY <2>2 DEF FlowInv, Active, TypeOK, TaskStates
    <3>2. \A p \in Cand : p \in recorded <=> task[p] # "idle"
      BY <2>2, <3>1 DEF TaskInv
    <3> QED
      BY <3>2 DEF TypeOK
  <2> QED
    BY <2>1, <2>2 DEF StatsCoverOutput
<1> QED
  BY <1>1, IndInvHolds, PTL

(***************************************************************************)
(* The limit is exact: a run that ends with its consumer listening emitted *)
(* Limit proxies, or fewer and then every good candidate it had checked.   *)
(***************************************************************************)
THEOREM StreamExactLimit == Spec => []ExactLimit
<1>1. ASSUME IndInv PROVE ExactLimit
  <2> USE <1>1 DEF IndInv
  <2> SUFFICES ASSUME driver = "done", rx = "open"
               PROVE  \/ Limit # Unlimited /\ Len(out) = Limit
                      \/ /\ Limit # Unlimited => Len(out) < Limit
                         /\ \A p \in Cand : p \in good /\ task[p] # "idle" =>
                              \E i \in DOMAIN out : out[i] = p
    BY DEF ExactLimit
  <2>1. \A p \in Cand : task[p] \in {"idle", "finished"}
    BY DEF FlowInv, Active, TypeOK, TaskStates
  <2>2. Slots = Len(out)
    <3>1. Sending = {}
      BY <2>1 DEF Sending
    <3>2. Cardinality(Sending) = 0
      BY <3>1, FS_EmptySet
    <3> QED
      BY <3>2, Numbers DEF Slots
  <2>3. CASE Spent
    BY <2>2, <2>3, Numbers DEF OpenInv, SlotInv, Spent
  <2>4. CASE ~Spent
    <3>1. Limit # Unlimited => Len(out) < Limit
      BY <2>2, <2>4, Numbers DEF OpenInv, Spent
    <3>2. \A p \in Cand : p \in good /\ task[p] # "idle" =>
            \E i \in DOMAIN out : out[i] = p
      BY <2>1, <2>4 DEF OpenInv
    <3> QED
      BY <3>1, <3>2
  <2> QED
    BY <2>3, <2>4
<1> QED
  BY <1>1, IndInvHolds, PTL

-----------------------------------------------------------------------------
\* A send emits: it is the one step that does.
LEMMA SendEmits ==
  ASSUME IndInv, NEW p \in Cand, Send(p)
  PROVE  Stream!Emit(p)
<1> USE DEF IndInv
<1>1. /\ task[p] = "send"
      /\ out' = Append(out, p)
      /\ UNCHANGED <<good, driver>>
  BY DEF Send
<1>2. driver # "done"
  BY <1>1 DEF FlowInv, Active
<1>3. p \in good
  BY <1>1 DEF TaskInv
<1>4. ASSUME NEW i \in DOMAIN out
      PROVE  out[i] # p /\ (Dedup => AddrOf[out[i]] # AddrOf[p])
  <2>1. out[i] \in Cand
    BY DEF TypeOK
  <2>2. task[out[i]] \in {"cancel", "finished"}
    BY DEF OutInv
  <2>3. out[i] # p
    BY <1>1, <2>2
  <2>4. out[i] \in LetThrough /\ p \in LetThrough
    BY <1>1, <2>1, <2>2 DEF LetThrough
  <2> QED
    BY <2>3, <2>4 DEF DedupInv
<1>5. Limit = Unlimited \/ Len(out) < Limit
  <2>1. p \in Sending
    BY <1>1 DEF Sending
  <2>2. Cardinality(Sending) # 0
    BY <2>1, FiniteTasks, FS_EmptySet
  <2> QED
    BY <2>2, FiniteTasks, Numbers DEF SlotInv, Slots
<1> QED
  BY <1>1, <1>2, <1>3, <1>4, <1>5 DEF Stream!Emit

\* No other step of a task or of the driver before its end shows.
LEMMA OthersStutter ==
  ASSUME IndInv,
         SourceEnd \/ Admit \/ Consuming \/ UNCHANGED vars
           \/ \E p \in Cand : \/ SourceYield(p) \/ Spawn(p) \/ Abort(p)
                              \/ Checked(p) \/ Reserve(p) \/ SendFails(p)
                              \/ Cancel(p)
  PROVE  UNCHANGED <<good, out, driver = "done">>
BY DEF SourceEnd, Admit, Consuming, Receive, DropReceiver, DropGuard, vars,
       SourceYield, Spawn, Abort, Checked, Reserve, SendFails, Cancel

(***************************************************************************)
(* The pipeline implements the abstract stream: what its consumer may see  *)
(* is a duplicate-free sequence of at most Limit good candidates (of       *)
(* distinct addresses, from find), with nothing after the end.             *)
(***************************************************************************)
THEOREM StreamRefinement == Spec => ImplementsStream
<1>1. Init => Stream!Init
  BY DEF Init, Stream!Init
<1>2. ASSUME IndInv, [Next]_vars
      PROVE  [Stream!Next]_<<good, out, driver = "done">>
  <2>1. CASE Drained
    <3>1. Stream!End
      BY <2>1 DEF Drained, Stream!End
    <3> QED
      BY <3>1 DEF Stream!Next
  <2>2. ASSUME NEW p \in Cand, Send(p)
        PROVE  Stream!Next
    BY <1>2, <2>2, SendEmits DEF Stream!Next
  <2> QED
    BY <1>2, <2>1, <2>2, OthersStutter
    DEF Next, Sourcing, Driving, Checking, Running
<1> QED
  BY <1>1, <1>2, IndInvHolds, PTL DEF Spec, ImplementsStream, Stream!Spec
=============================================================================
