------------------------------ MODULE ViewOrder ------------------------------
(***************************************************************************)
(* Database._get_views_sorted_by_dependencies of database.py: the order in   *)
(* which copy, export and clone create the views of a database.  A view's    *)
(* definition is split at each "from": what stands before the first, and     *)
(* what follows each, are the sets of the views they name.                   *)
(***************************************************************************)
EXTENDS Sequences, SequencesExt

CONSTANTS
  VoViews,        \* the views, in the order the server lists them
  VoDefinitions   \* the definitions: functions [VoSet -> Seq(SUBSET VoSet)]; none is <<>>

VoSet == ToSet(VoViews)

ASSUME VoAssumption ==
  /\ VoViews \in Seq(VoSet)
  /\ VoDefinitions \subseteq [VoSet -> Seq(SUBSET VoSet)]
  /\ \A d \in VoDefinitions : \A v \in VoSet : d[v] # <<>>

VARIABLES
  definition,     \* what get_create_statement returns for each view
  viewStack,      \* view_stack, its top last
  visitedViews, processedViews,
  sortedViews     \* sorted_views

voVars == <<definition, viewStack, visitedViews, processedViews, sortedViews>>

VoTypeOK ==
  /\ definition \in VoDefinitions
  /\ {viewStack, sortedViews} \subseteq Seq(VoSet)
  /\ processedViews \subseteq visitedViews /\ visitedViews \subseteq VoSet

VoInit ==
  /\ definition \in VoDefinitions
  /\ viewStack = VoViews /\ sortedViews = <<>>
  /\ visitedViews = {} /\ processedViews = {}

\* _get_dependent_views: only what follows the last "from" is searched, or all of a
\* statement that has none.
DependentViews(v) == Last(definition[v]) \ {v}

\* Fault: a base view that waits on the stack is not pushed again.
StackedIfAbsent(v) ==
  LET waiting == processedViews \cup ToSet(viewStack)
  IN  {viewStack \o bases : bases \in SetToSeqs(DependentViews(v) \ waiting)}

\* The base views not yet processed go on the stack, above the view.  They come
\* out of a dictionary of names, in an order of its own.
Stacked(v) ==
  {viewStack \o bases : bases \in SetToSeqs(DependentViews(v) \ processedViews)}

LookAt ==
  /\ viewStack # <<>> /\ Last(viewStack) \notin visitedViews
  /\ visitedViews' = visitedViews \cup {Last(viewStack)}
  /\ viewStack' \in Stacked(Last(viewStack))
  /\ UNCHANGED <<definition, processedViews, sortedViews>>

PopView ==
  LET v == Last(viewStack)
  IN  /\ viewStack # <<>> /\ v \in visitedViews
      /\ viewStack' = Front(viewStack)
      /\ processedViews' = processedViews \cup {v}
      /\ sortedViews' = IF v \in processedViews THEN sortedViews ELSE Append(sortedViews, v)
      /\ UNCHANGED <<definition, visitedViews>>

VoNext == LookAt \/ PopView
VoSpec == VoInit /\ [][VoNext]_voVars

----------------------------------------------------------------------------
\* Properties.

\* No set of views each of which names another of the set.
NoCircle == \A S \in (SUBSET VoSet) \ {{}} : \E v \in S : DependentViews(v) \cap S = {}

\* Each view is created once, and not before a view it was found to depend on:
\* however the lists overlap, and, where names found in the text seem to go
\* round in a circle, still all of them.
BasesFirst ==
  /\ IsInjective(sortedViews)
  /\ viewStack = <<>> => ToSet(sortedViews) = VoSet
  /\ NoCircle => \A i \in DOMAIN sortedViews :
       DependentViews(sortedViews[i]) \subseteq {sortedViews[j] : j \in 1..(i - 1)}

\* Views are created after every view their definition names: not when it is
\* named before the last FROM.
AllBasesFirst ==
  viewStack = <<>> => \A i \in DOMAIN sortedViews :
    UNION ToSet(definition[sortedViews[i]]) \subseteq {sortedViews[j] : j \in 1..i}
=============================================================================
