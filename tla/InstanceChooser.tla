--------------------------- MODULE InstanceChooser ---------------------------
(***************************************************************************)
(* Which instance a caller is given (src/naming/chooser/mod.rs and the     *)
(* selection of src/naming/mod.rs).  Weights are natural numbers; a draw d *)
(* stands for the random number d / (Grain * the sum of the weights).      *)
(***************************************************************************)
EXTENDS Naturals, Sequences, SequencesExt

CONSTANT Grain   \* draws for each unit of weight

ASSUME ChooserAssumption == Grain \in Nat \ {0}

\* A list of instances, as the server sends it.
AreHosts(hosts) ==
    /\ hosts \in Seq(Range(hosts))
    /\ \A i \in Range(hosts) :
          i.weight \in Nat /\ i.healthy \in BOOLEAN /\ i.enabled \in BOOLEAN

NoInstance == [addr |-> "none"]

\* A variant of Usable that does not look at enabled.
UsableDisabled(i, healthy) == i.healthy = healthy /\ i.weight > 0

Usable(i, healthy) == i.healthy = healthy /\ i.enabled /\ i.weight > 0

\* select_instances_async: the usable ones, in their order.
Selectable(hosts, healthy) ==
    LET kept[n \in 0..Len(hosts)] ==
          IF n = 0 THEN << >>
          ELSE IF Usable(hosts[n], healthy) THEN Append(kept[n - 1], hosts[n])
          ELSE kept[n - 1]
    IN kept[Len(hosts)]

\* RandomWeightChooser::new: the upper end of each item's share of the draws.
Cumulative(items) ==
    LET ends[n \in 0..Len(items)] ==
          IF n = 0 THEN 0 ELSE ends[n - 1] + Grain * items[n].weight
    IN ends

Draws(items) == 0..(Cumulative(items)[Len(items)] - 1)

\* choose, where binary_search finds the first weight that is not less; what
\* rounding puts above the last weight goes to the last item.
Choose(items, d) ==
    LET notLess == {n \in DOMAIN items : d <= Cumulative(items)[n]} IN
    IF items = << >> THEN NoInstance
    ELSE IF notLess = {} THEN Last(items) ELSE items[Min(notLess)]

\* select_one_healthy_instance_async: no item is an error of the constructor.
SelectOne(hosts, d) == Choose(Selectable(hosts, TRUE), d)

-----------------------------------------------------------------------------
(* What a choice has to be.                                                *)

IsGood(hosts, i) ==
    i \in Range(hosts) /\ i.healthy /\ i.enabled /\ i.weight > 0

\* Of the draws, as many choose an instance as its weight says; a draw on the
\* border of two shares may go to either.
Fair(hosts) ==
    LET items == Selectable(hosts, TRUE)
        Times(i) == Cardinality({d \in Draws(items) : SelectOne(hosts, d) = i})
    IN \A i \in Range(items) :
          /\ Times(i) + 1 >= Grain * i.weight
          /\ Times(i) <= Grain * i.weight + 1
=============================================================================
