-------------------------- MODULE MCPolicyVersions --------------------------
(***************************************************************************)
(* Two versions, one category, one vendor and one claim of two items.      *)
(***************************************************************************)
EXTENDS PolicyVersions

CONSTANTS meals, cafe

MCWindows == {[from |-> 0, to |-> 0], [from |-> 0, to |-> 2], [from |-> 1, to |-> 2]}

MCCategoryLimit == [k \in {meals} |-> 2]

Rule(vendor, day, trip, receipt) ==
    [category |-> Any, vendor |-> vendor, max_per_day |-> day, max_per_trip |-> trip,
     per_category_cap |-> NoCap, receipt_required_above |-> receipt]

MCRuleSets == {{}, {Rule(Any, 3, NoCap, NoCap), Rule(cafe, NoCap, 2, 2)}}

Item(amount, date, vendor) ==
    [amount |-> amount, date |-> date, category |-> meals, vendor |-> vendor, receipt |-> FALSE]

\* The first breaks no rule.  In the second no item is over the cap of a day,
\* though their sum is, and one is over the limit of its category.
MCBaskets ==
    { <<Item(1, 0, cafe), Item(1, 0, Any)>>,
      <<Item(3, 0, Any), Item(1, 0, Any)>> }

=============================================================================
