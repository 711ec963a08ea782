--------------------------- MODULE PolicyVersions ---------------------------
(***************************************************************************)
(* PolicyVersions: the versions of the reimbursement policy, the rules     *)
(* they hold, and the claims that are validated against them.              *)
(*                                                                         *)
(* Sources: backend/app/services/policy_service.py, validation_service.py, *)
(* the submission in report_service.py, and the categories and vendors     *)
(* that rules name.  policies and policy_rules compare versions, but       *)
(* activation clears the other versions by a bulk UPDATE that does not,    *)
(* and a change of rules alone leaves the row of its policy untouched.     *)
(* A request of an administrator is one step or, as in OrgAdmin, the slow  *)
(* one: others commit between its read and its commit.  So is an edit of   *)
(* an item: it leaves the row of the claim alone, and nothing that happens *)
(* to the claim meanwhile refuses it.                                      *)
(***************************************************************************)
EXTENDS Integers, FiniteSets, FiniteSetsExt

CONSTANTS
    Versions,       \* rows of policies, numbered as they are created
    Categories,     \* rows of expense_categories
    Vendors,        \* rows of vendors
    Any,            \* NULL in the scope of a rule, and the vendor of an item
    CategoryLimit,  \* max_amount of each category
    Windows,        \* when versions are effective, as administrators enter it
    RuleSets,       \* the rules that administrators write
    Claims,
    Baskets,        \* the items of a claim: what its employee may enter
    MaxTime,        \* bound: the days that pass
    MaxChanges      \* bound: committed requests of administrators

ASSUME PolicyAssumption ==
    /\ Versions \subseteq Nat
    /\ Any \notin Categories \cup Vendors
    /\ Categories \cap Vendors = {}
    /\ {MaxTime, MaxChanges} \subseteq Nat
    /\ Windows \subseteq { w \in [from : 0..MaxTime, to : 0..MaxTime + 1] : w.from <= w.to }
    /\ \A rules \in RuleSets : \A r \in rules :
         {r.max_per_day, r.max_per_trip, r.per_category_cap} \subseteq Nat \cup {-1}
    /\ \A items \in Baskets :
         /\ IsFiniteSet(DOMAIN items)
         /\ \A i \in DOMAIN items : items[i].amount \in Nat /\ items[i].category \in Categories

VARIABLES
    policy,     \* policies with their policy_rules
    catalogue,  \* expense_categories and vendors: live or removed
    claim,      \* expense_reports with their items and the applied policy, see ClaimRow
    now,
    slow,       \* the request that takes its time, with what it has seen
    superseded, \* history: versions another activation has cleared
    overlapped, \* history: versions activated while their rules were edited
    changes     \* history: the number of committed requests

policyVars == <<policy, catalogue, claim, now, slow, superseded, overlapped, changes>>

-----------------------------------------------------------------------------
Times == 0..MaxTime

Forever == MaxTime + 1      \* NULL in effective_to

NoCap == -1                 \* NULL in a cap of a rule

NoPolicy == [state |-> "absent"]

Policy == [state : {"kept"}, is_active : BOOLEAN, window : Windows, rules : RuleSets]

Kept(v) == policy[v] # NoPolicy

Active(v) == Kept(v) /\ policy[v].is_active

Idle == [kind |-> "idle"]

\* What others may have done to the row of the slow request, and to its rules.
Marks == {"row", "rules", "activation"}

-----------------------------------------------------------------------------
(***************************************************************************)
(* Selection, get_active_policy and _active_policy of report_service.      *)
(***************************************************************************)
InForce(t) ==
    { v \in Versions : /\ Active(v)
                       /\ policy[v].window.from <= t
                       /\ t <= policy[v].window.to }

\* What draft items are flagged by: any one of those that came last.
Newest(t) ==
    { v \in InForce(t) : \A w \in InForce(t) :
        policy[w].window.from <= policy[v].window.from }

\* What a submission applies: of these, the last that was created.
Applied(t) == { v \in Newest(t) : \A w \in Newest(t) : w <= v }

-----------------------------------------------------------------------------
(***************************************************************************)
(* Validation, validate_report.                                            *)
(***************************************************************************)
Applicable(r, item) ==
    /\ r.category \in {Any, item.category}
    /\ r.vendor \in {Any, item.vendor}

Total(items, lines) == MapThenSumSet(LAMBDA i : items[i].amount, lines)

Exceeds(amount, cap) == cap # NoCap /\ amount > cap

\* Fault: the day's total is that of the item alone.
ItemByItem(items, i, r) ==
    \/ Exceeds(items[i].amount, r.max_per_day)
    \/ Exceeds(items[i].amount, r.max_per_trip)
    \/ r.receipt_required_above # NoCap /\ items[i].amount >= r.receipt_required_above
         /\ ~ items[i].receipt

\* The reasons a rule that applies to item i gives against it.
Breaks(items, i, r) ==
    LET scoped == { j \in DOMAIN items : Applicable(r, items[j]) }
        day    == { j \in scoped : items[j].date = items[i].date }
        same   == { j \in scoped : items[j].category = items[i].category }
    IN  \/ Exceeds(Total(items, day), r.max_per_day)
        \/ Exceeds(Total(items, scoped), r.max_per_trip)
        \/ Exceeds(Total(items, same), r.per_category_cap)
        \/ r.receipt_required_above # NoCap /\ items[i].amount >= r.receipt_required_above
             /\ ~ items[i].receipt

\* The limit of an archived category is not looked up.
OverCategoryLimit(item) ==
    catalogue[item.category] = "live" /\ Exceeds(item.amount, CategoryLimit[item.category])

\* The lines that get is_policy_violated.
Violations(items, rules) ==
    { i \in DOMAIN items :
        \/ OverCategoryLimit(items[i])
        \/ \E r \in rules : Applicable(r, items[i]) /\ Breaks(items, i, r) }

-----------------------------------------------------------------------------
(***************************************************************************)
(* Rules that can be saved, _replace_rules.                                *)
(***************************************************************************)
Scope(rules) == ({ r.category : r \in rules } \cup { r.vendor : r \in rules }) \ {Any}

\* Two rules of one full scope break uq_policy_rules_scope; a removed vendor
\* keeps its name, a removed category is not found.
Savable(rules) ==
    /\ \A r \in rules : r # [category |-> Any, vendor |-> Any, max_per_day |-> NoCap,
                             max_per_trip |-> NoCap, per_category_cap |-> NoCap,
                             receipt_required_above |-> NoCap]
    /\ \A r, s \in rules :
         (r # s /\ r.category = s.category /\ r.vendor = s.vendor) => Any \in {r.category, r.vendor}
    /\ \A x \in Scope(rules) : catalogue[x] # "removed"

\* Names that are new get a row in the same transaction.
WithRowsFor(rules) ==
    [x \in DOMAIN catalogue |-> IF x \in Scope(rules) THEN "live" ELSE catalogue[x]]

-----------------------------------------------------------------------------
(***************************************************************************)
(* Requests of administrators.                                             *)
(***************************************************************************)
Counted ==
    /\ changes < MaxChanges
    /\ changes' = changes + 1

\* What a commit on version v does to the slow request.
Meet(v, marks) ==
    slow' = IF slow = Idle THEN Idle
            ELSE [slow EXCEPT !.met = IF slow.version = v THEN @ \cup marks ELSE @,
                              !.activated = IF "activation" \in marks THEN @ \cup {v} ELSE @]

CreateVersion(v, window, rules) ==
    /\ ~ Kept(v)
    /\ \A w \in Versions : w < v => Kept(w)
    /\ Savable(rules)
    /\ policy' = [policy EXCEPT ![v] = [state |-> "kept", is_active |-> FALSE,
                                        window |-> window, rules |-> rules]]
    /\ catalogue' = WithRowsFor(rules)
    /\ Counted
    /\ UNCHANGED <<claim, now, slow, superseded, overlapped>>

\* Fault: an active version can be edited.
EditableAlways(v) == Kept(v)

Editable(v) == Kept(v) /\ ~ policy[v].is_active

\* The window is written when it differs, the rules when they are given.
UpdateVersion(v, window, given, rules) ==
    /\ Editable(v)
    /\ given => Savable(rules)
    /\ policy' = [policy EXCEPT ![v].window = window,
                                ![v].rules = IF given THEN rules ELSE @]
    /\ catalogue' = IF given THEN WithRowsFor(rules) ELSE catalogue
    /\ Meet(v, (IF window # policy[v].window THEN {"row"} ELSE {})
                 \cup (IF given THEN {"rules"} ELSE {}))
    /\ Counted
    /\ UNCHANGED <<claim, now, superseded, overlapped>>

\* Fault: scheduled versions are cleared as well.
ClearedWithSchedule(v, from, at) ==
    { w \in Versions \ {v} : from <= at /\ Active(w) }

\* Fault: a version that is only scheduled clears the present one.
ClearedBySchedule(v, from, at) ==
    { w \in Versions \ {v} : Active(w) /\ policy[w].window.from <= at }

\* Those the bulk UPDATE of an activation finds; none for a future version.
Cleared(v, from, at) ==
    { w \in Versions \ {v} : from <= at /\ Active(w) /\ policy[w].window.from <= at }

Activated(v, cleared, becomes) ==
    [w \in Versions |->
        IF w \in cleared THEN [policy[w] EXCEPT !.is_active = FALSE]
        ELSE IF w = v THEN [policy[w] EXCEPT !.is_active = becomes]
        ELSE policy[w]]

\* The row of an active version is not written again.
ActivateVersion(v) ==
    /\ Kept(v)
    /\ LET cleared == Cleared(v, policy[v].window.from, now)
       IN  /\ policy' = Activated(v, cleared, TRUE)
           /\ superseded' = superseded \cup cleared
    /\ Meet(v, IF Active(v) THEN {} ELSE {"row", "activation"})
    /\ Counted
    /\ UNCHANGED <<catalogue, claim, now, overlapped>>

\* attach_document writes the row and nothing else of it.
AttachDocument(v) ==
    /\ Kept(v)
    /\ Meet(v, {"row"})
    /\ Counted
    /\ UNCHANGED <<policy, catalogue, claim, now, superseded, overlapped>>

\* A change of the catalogue touches nothing else.
Catalogued(x, state) ==
    /\ catalogue' = [catalogue EXCEPT ![x] = state]
    /\ Counted
    /\ UNCHANGED <<policy, claim, now, slow, superseded, overlapped>>

\* create_category, restore_category.
AddCategory(x) == catalogue[x] # "live" /\ Catalogued(x, "live")

\* Categories without children: who else uses them is not asked.
DeactivateCategory(x) == catalogue[x] = "live" /\ Catalogued(x, "removed")

\* The name of a deactivated vendor is free for create_vendor, not for the
\* unique constraint.
CreateVendor(x) == catalogue[x] = "absent" /\ Catalogued(x, "live")

DeactivateVendor(x) == catalogue[x] = "live" /\ Catalogued(x, "removed")

-----------------------------------------------------------------------------
(***************************************************************************)
(* The slow request.                                                       *)
(***************************************************************************)
ReadToUpdate(v, window, given, rules) ==
    /\ slow = Idle
    /\ Editable(v)
    /\ given => Savable(rules)
    /\ slow' = [kind |-> "update", version |-> v, seen |-> policy[v], window |-> window,
                given |-> given, rules |-> rules, met |-> {}, activated |-> {}]
    /\ UNCHANGED <<policy, catalogue, claim, now, superseded, overlapped, changes>>

ReadToActivate(v) ==
    /\ slow = Idle
    /\ Kept(v)
    /\ slow' = [kind |-> "activate", version |-> v, seen |-> policy[v], at |-> now,
                met |-> {}, activated |-> {}]
    /\ UNCHANGED <<policy, catalogue, claim, now, superseded, overlapped, changes>>

\* The row is compared when it is written, each rule when it is deleted; a
\* version that had no rules when it was read keeps those it has got since.
CommitUpdate ==
    /\ slow.kind = "update"
    /\ LET v     == slow.version
           moved == slow.window # slow.seen.window
           kept  == IF slow.seen.rules = {} THEN policy[v].rules ELSE {}
       IN  /\ moved => "row" \notin slow.met
           /\ slow.given /\ slow.seen.rules # {} => "rules" \notin slow.met
           /\ slow.given => Savable(kept \cup slow.rules)
           /\ policy' = [policy EXCEPT ![v].window = IF moved THEN slow.window ELSE @,
                                       ![v].rules = IF slow.given THEN kept \cup slow.rules ELSE @]
           /\ catalogue' = IF slow.given THEN WithRowsFor(slow.rules) ELSE catalogue
           /\ overlapped' = IF "activation" \in slow.met THEN overlapped \cup {v} ELSE overlapped
    /\ slow' = Idle
    /\ Counted
    /\ UNCHANGED <<claim, now, superseded>>

\* The bulk UPDATE sees the activations committed before it starts, which is
\* at any time since the read.
CommitActivate ==
    /\ slow.kind = "activate"
    /\ slow.seen.is_active \/ "row" \notin slow.met
    /\ \E missed \in SUBSET slow.activated :
         LET v       == slow.version
             cleared == Cleared(v, slow.seen.window.from, slow.at) \ missed
         IN  /\ policy' = Activated(v, cleared, slow.seen.is_active => policy[v].is_active)
             /\ superseded' = superseded \cup cleared
    /\ slow' = Idle
    /\ Counted
    /\ UNCHANGED <<catalogue, claim, now, overlapped>>

\* Refused by a comparison of versions, or given up.
Abandon ==
    /\ slow # Idle
    /\ slow' = Idle
    /\ UNCHANGED <<policy, catalogue, claim, now, superseded, overlapped, changes>>

-----------------------------------------------------------------------------
(***************************************************************************)
(* Claims.                                                                 *)
(***************************************************************************)
NoVersion == -1

(***************************************************************************)
(* A claim.  edits holds the items that an open request will leave, if     *)
(* there is one; rules, lifted and behind are history: what the claim was  *)
(* validated with, and whether the edit that was open at its submission    *)
(* has been committed behind it.                                           *)
(***************************************************************************)
ClaimRow == [status : {"editable", "submitted"}, items : Baskets, edits : SUBSET Baskets,
             applied : Versions \cup {NoVersion}, rules : SUBSET UNION RuleSets,
             lifted : SUBSET Categories, behind : {"none", "open", "committed"}]

\* A line keeps an archived category or a removed vendor until it gets another.
Selectable(before, items) ==
    \A i \in DOMAIN items : \A field \in {"category", "vendor"} :
        \/ items[i][field] \in {Any} \cup { x \in DOMAIN catalogue : catalogue[x] = "live" }
        \/ i \in DOMAIN before /\ before[i][field] = items[i][field]

\* items are those before with one line added, changed or deleted.
OneLineDiffers(before, items) ==
    /\ items # before
    /\ \E i \in DOMAIN before \cup DOMAIN items :
         /\ DOMAIN before \ {i} = DOMAIN items \ {i}
         /\ \A j \in DOMAIN items \ {i} : items[j] = before[j]

\* add_item, update_item and delete_item up to their commit: the claim is
\* editable when they read it.
OpenItems(c, items) ==
    /\ claim[c].status = "editable"
    /\ claim[c].edits = {}
    /\ OneLineDiffers(claim[c].items, items)
    /\ Selectable(claim[c].items, items)
    /\ claim' = [claim EXCEPT ![c].edits = {items}]
    /\ UNCHANGED <<policy, catalogue, now, slow, superseded, overlapped, changes>>

\* Their commit.  A request that finds the total it had read (update_item and
\* delete_item sum before they flush) does not write the row of the claim, so
\* the claim may have been submitted since.
CommitItems(c) ==
    /\ \E items \in claim[c].edits :
         claim' = [claim EXCEPT
                     ![c].items = items,
                     ![c].edits = {},
                     ![c].behind = IF @ = "open" THEN "committed" ELSE @]
    /\ UNCHANGED <<policy, catalogue, now, slow, superseded, overlapped, changes>>

\* A request that would write the row of a claim that has moved, or any other
\* refusal.
GiveUpItems(c) ==
    /\ claim[c].edits # {}
    /\ claim' = [claim EXCEPT ![c].edits = {}]
    /\ UNCHANGED <<policy, catalogue, now, slow, superseded, overlapped, changes>>

\* submit_report: the version is noted before it is evaluated, and stays
\* noted when the claim is refused.
Submit(c) ==
    /\ claim[c].status = "editable"
    /\ \E v \in Applied(now) :
         claim' = [claim EXCEPT
                     ![c].applied = v,
                     ![c].rules = policy[v].rules,
                     ![c].lifted = { k \in Categories : catalogue[k] # "live" },
                     ![c].status = IF Violations(claim[c].items, policy[v].rules) = {}
                                   THEN "submitted" ELSE "editable",
                     ![c].behind = IF /\ Violations(claim[c].items, policy[v].rules) = {}
                                      /\ claim[c].edits # {}
                                   THEN "open" ELSE "none"]
    /\ UNCHANGED <<policy, catalogue, now, slow, superseded, overlapped, changes>>

\* withdraw_report, and an approver who sends it back.
Return(c) ==
    /\ claim[c].status = "submitted"
    /\ claim' = [claim EXCEPT ![c].status = "editable", ![c].lifted = {},
                              ![c].behind = "none"]
    /\ UNCHANGED <<policy, catalogue, now, slow, superseded, overlapped, changes>>

Tick ==
    /\ now < MaxTime
    /\ now' = now + 1
    /\ UNCHANGED <<policy, catalogue, claim, slow, superseded, overlapped, changes>>

-----------------------------------------------------------------------------
\* A first version is in force, later ones are being prepared.
PolicyInit ==
    /\ policy \in [Versions -> {NoPolicy} \cup Policy]
    /\ \A v, w \in Versions : v < w /\ Kept(w) => Kept(v)
    /\ \A v \in Versions : Active(v) <=> \A w \in Versions : v <= w
    /\ \A v \in Versions : Active(v) => policy[v].window.from = 0
    /\ \A v \in Versions : Kept(v) => \A r \in policy[v].rules : r.vendor = Any
    /\ catalogue = [x \in Categories \cup Vendors |-> IF x \in Categories THEN "live" ELSE "absent"]
    /\ claim \in [Claims -> [status : {"editable"}, items : Baskets, edits : {{}},
                             applied : {NoVersion}, rules : {{}}, lifted : {{}},
                             behind : {"none"}]]
    /\ \A c \in Claims : Selectable(<<>>, claim[c].items)
    /\ now = 0
    /\ slow = Idle
    /\ superseded = {}
    /\ overlapped = {}
    /\ changes = 0

\* What an update asks for: a window, rules, or both.
Edits(v) ==
    { e \in [window : Windows, given : BOOLEAN, rules : RuleSets \cup {{}}] :
        /\ e.given \/ (Kept(v) /\ e.window # policy[v].window)
        /\ e.given => e.rules \in RuleSets
        /\ ~ e.given => e.rules = {} }

VersionNext(v) ==
    \/ \E window \in Windows, rules \in RuleSets : CreateVersion(v, window, rules)
    \/ \E e \in Edits(v) : UpdateVersion(v, e.window, e.given, e.rules)
    \/ ActivateVersion(v)
    \/ AttachDocument(v)
    \/ \E e \in Edits(v) : ReadToUpdate(v, e.window, e.given, e.rules)
    \/ ReadToActivate(v)

ClaimNext(c) ==
    \/ \E items \in Baskets : OpenItems(c, items)
    \/ CommitItems(c)
    \/ GiveUpItems(c)
    \/ Submit(c)
    \/ Return(c)

PolicyNext ==
    \/ \E v \in Versions : VersionNext(v)
    \/ \E x \in Categories : AddCategory(x) \/ DeactivateCategory(x)
    \/ \E x \in Vendors : CreateVendor(x) \/ DeactivateVendor(x)
    \/ CommitUpdate
    \/ CommitActivate
    \/ Abandon
    \/ \E c \in Claims : ClaimNext(c)
    \/ Tick

PolicySpec == PolicyInit /\ [][PolicyNext]_policyVars

-----------------------------------------------------------------------------
(***************************************************************************)
(* Correctness.                                                            *)
(***************************************************************************)

\* Versions, catalogues and claims hold what the requests may store in them.
PolicyTypeOK ==
    /\ \A v \in Versions : Kept(v) =>
         /\ policy[v].is_active \in BOOLEAN
         /\ policy[v].window \in Windows
         /\ policy[v].rules \subseteq UNION RuleSets
    /\ catalogue \in [Categories \cup Vendors -> {"absent", "live", "removed"}]
    /\ claim \in [Claims -> ClaimRow]
    /\ now \in Times
    /\ superseded \cup overlapped \subseteq Versions
    /\ changes \in 0..MaxChanges

\* update_policy_version, "Active policy versions are immutable": the version
\* a claim keeps as its applied policy has the rules the claim was validated
\* with.  It loses them only when another version has superseded it, for then
\* it can be edited again, or when an edit of its rules was under way while it
\* was activated.
AppliedRulesFrozen ==
    \A c \in Claims :
        claim[c].applied # NoVersion /\ policy[claim[c].applied].rules # claim[c].rules =>
            claim[c].applied \in superseded \cup overlapped

\* activate_policy, "without creating a future-effective gap": no request
\* leaves an organisation without a policy, except the activation of a version
\* whose time is over, and the renewed activation of one that was active when
\* it was read and that another activation has superseded since.
NoGap ==
    [][ (now' = now /\ InForce(now) # {} /\ InForce(now)' = {}) =>
          \/ \E v \in Versions : policy'[v] # NoPolicy /\ policy'[v].is_active
                                   /\ policy'[v].window.to < now
          \/ /\ slow.kind = "activate"
             /\ slow.seen.is_active
             /\ ~ Active(slow.version) \/ "activation" \in slow.met ]_policyVars

\* activate_policy: a version that is scheduled stays so until its day.
ScheduleKept ==
    [][ \A v \in Versions : Active(v) /\ policy[v].window.from > now =>
          policy'[v].is_active /\ policy'[v].window = policy[v].window ]_policyVars

\* validate_report, which flags line by line: the items of a submitted claim
\* respect every cap of the rules it was validated with, and every limit of a
\* category that was not archived then, unless an item edit that was open at
\* the submission has been committed behind it (see MCItemEdits).
SubmittedWithinLimits ==
    \A c \in Claims : claim[c].status = "submitted" /\ claim[c].behind # "committed" =>
        LET items == claim[c].items
            In(r) == { i \in DOMAIN items : Applicable(r, items[i]) }
        IN  /\ \A r \in claim[c].rules, lines \in SUBSET DOMAIN items :
                 lines \subseteq In(r) =>
                   /\ ~ Exceeds(Total(items, lines), r.max_per_trip)
                   /\ Cardinality({ items[i].date : i \in lines }) = 1 =>
                        ~ Exceeds(Total(items, lines), r.max_per_day)
                   /\ Cardinality({ items[i].category : i \in lines }) = 1 =>
                        ~ Exceeds(Total(items, lines), r.per_category_cap)
            /\ \A i \in DOMAIN items : items[i].category \notin claim[c].lifted =>
                 ~ Exceeds(items[i].amount, CategoryLimit[items[i].category])

=============================================================================
