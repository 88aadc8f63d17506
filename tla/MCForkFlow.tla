----------------------------- MODULE MCForkFlow -----------------------------
EXTENDS TvMonitor, TransporterScreen, TLC

Symmetry == Permutations(Operators) \cup Permutations(Slots)

\* An edit writes a machine and a type or keeps them.  Where there is one of each it
\* changes nothing whatever it names: such edits count as one.
JobView(j) ==
  IF j.kind = "edit" /\ Cardinality(Machines) = 1 /\ Cardinality(TaskTypes) = 1
  THEN [kind |-> "edit", d |-> j.d] ELSE j

\* What a screen still shows of a task that is no longer CREATED cannot be used
\* any more: two states that differ in nothing else count as one.
LiveView ==
  <<tables, production, mode, [w \in Slots |-> JobView(job[w])], seen.trip,
    {d \in seen.deliver : delivery[d].status = "CREATED"},
    {p \in seen.pickup : pickup[p].status = "CREATED"}>>

\* For the search of a race that needs neither: no request is cut short before one of
\* its writes, and no task is edited or completed.
ShortSearch ==
  \A w \in Slots :
    /\ job'[w].kind \notin {"edit", "clearMode", "completeDeliver", "completePickup"}
    /\ Fail(w) => job[w].kind \in {"bind", "sync", "list", "link"}

\* No request is cut short between linking a pickup to a delivery on its way and
\* handing it to that delivery's transporter.
JoinsComplete == \A w \in Slots : job[w].kind = "join" => ~ Fail(w)
=============================================================================
