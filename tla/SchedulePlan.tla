---------------------------- MODULE SchedulePlan ----------------------------
(***************************************************************************)
(* What EventScheduler promises of the schedule it keeps: a plan that says *)
(* for every frame and slot of the multiframe what the radio does there.   *)
(* A full event replaces the plan.  An update overrides the slots it names *)
(* when the plan has all of them; otherwise no plan is left, never a half  *)
(* applied one.  An event that cannot be read leaves no plan either, and   *)
(* an update changes nothing while there is no plan to update.             *)
(***************************************************************************)
EXTENDS Integers, Sequences

CONSTANT ScheduleEvents     \* the decoded events that may be received

VARIABLE plan               \* a function from <<frame, slot>> to slot infos

NoPlan == [p \in {} |-> 0]

Cells(st) == (0..(st.frames - 1)) \X (0..(st.slots - 1))

\* The entries of an event that speak of a cell; the last one counts.
Naming(e, p) == {j \in DOMAIN e.slots : <<e.slots[j].frame, e.slots[j].slot>> = p}

LastOf(e, p) == CHOOSE j \in Naming(e, p) : \A i \in Naming(e, p) : i <= j

Init == plan = NoPlan

Replace(e) ==
  /\ e.kind = "full"
  /\ plan' = [p \in Cells(e.structure) |-> e.slots[LastOf(e, p)]]

Override(e) ==
  /\ e.kind = "update"
  /\ plan # NoPlan
  /\ \A j \in DOMAIN e.slots : <<e.slots[j].frame, e.slots[j].slot>> \in DOMAIN plan
  /\ plan' = [p \in DOMAIN plan |->
                IF Naming(e, p) = {} THEN plan[p] ELSE e.slots[LastOf(e, p)]]

Drop(e) ==
  /\ \/ e.kind = "exception"
     \/ /\ e.kind = "update"
        /\ \E j \in DOMAIN e.slots :
             <<e.slots[j].frame, e.slots[j].slot>> \notin DOMAIN plan
  /\ plan' = NoPlan

Next == \E e \in ScheduleEvents : Replace(e) \/ Override(e) \/ Drop(e)

Spec == Init /\ [][Next]_plan
=============================================================================
