-------------------------------- MODULE Sets --------------------------------
(***************************************************************************)
(* What a product is made of and described by: sets, which are bought      *)
(* whole, products sold in parts, and the attribute values a variant is    *)
(* given (products/set.service, products/admin-product.controller,         *)
(* modules/attributes).                                                    *)
(***************************************************************************)
EXTENDS Handlers

CONSTANTS
    Good,         \* products, each with one variant
    Value         \* of the one attribute

ASSUME SetsAssumption == Value # {}

VARIABLES
    piece,        \* ProductComponent: [Good -> the pieces of it as a set]
    parted,       \* those with set options: sold in parts
    valued,       \* AttributeValue: the values there are
    has,          \* VariantAttributeValue: [Good -> values]
    \* History.
    given         \* [Good -> the values it was last given]

sets       == <<piece, parted>>
attributes == <<valued, has, given>>

assertUsableComponents(s, pieces) ==
    /\ Cardinality(pieces) >= 2 /\ s \notin pieces
    /\ pieces \cap parted = {}
    /\ \A p \in pieces : piece[p] = {}

\* Without pieces a set becomes an ordinary product again, at once.
setComponentsHandler(j, s, pieces) ==
    /\ IF pieces = {} THEN Begin(j, Idle) /\ piece' = [piece EXCEPT ![s] = {}]
       ELSE /\ assertUsableComponents(s, pieces)
            /\ Begin(j, [op |-> "components", set |-> s, pieces |-> pieces])
            /\ UNCHANGED piece
    /\ UNCHANGED parted

writeComponents(j) ==
    /\ At(j, "components") /\ Goto(j, Idle)
    /\ piece' = [piece EXCEPT ![job[j].set] = job[j].pieces]
    /\ UNCHANGED parted

\* A piece of a set is sold whole.
setOptionsHandler(j, g, parts) ==
    /\ parts => \A s \in Good : g \notin piece[s]
    /\ Begin(j, [op |-> "options", good |-> g, parts |-> parts])
    /\ UNCHANGED sets

WriteOptions(j) ==
    /\ At(j, "options") /\ Goto(j, Idle)
    /\ parted' = IF job[j].parts THEN parted \cup {job[j].good} ELSE parted \ {job[j].good}
    /\ UNCHANGED piece

SetsNext(j) ==
    \/ \E s \in Good, pieces \in SUBSET Good : setComponentsHandler(j, s, pieces)
    \/ \E g \in Good, b \in BOOLEAN : setOptionsHandler(j, g, b)
    \/ writeComponents(j) \/ WriteOptions(j)

-----------------------------------------------------------------------------
(* Attribute values *)

InUse(v) == \E g \in Good : v \in has[g]

CreateValue(j, v) ==
    /\ v \notin valued
    /\ Begin(j, [op |-> "value", value |-> v])
    /\ UNCHANGED attributes

\* A slug there by now fails (unique).
AddValue(j) ==
    /\ At(j, "value") /\ Goto(j, Idle)
    /\ valued' = valued \cup {job[j].value}
    /\ UNCHANGED <<has, given>>

DeleteValue(j, v) ==
    /\ v \in valued /\ ~InUse(v)
    /\ Begin(j, [op |-> "values_gone", values |-> {v}])
    /\ UNCHANGED attributes

\* The attribute goes with all its values, and may come back empty.
DeleteAttribute(j) ==
    /\ valued # {} /\ \A v \in valued : ~InUse(v)
    /\ Begin(j, [op |-> "values_gone", values |-> Value])
    /\ UNCHANGED attributes

\* What was ticked in between goes with it (ON DELETE CASCADE).
RemoveValues(j) ==
    /\ At(j, "values_gone") /\ Goto(j, Idle)
    /\ valued' = valued \ job[j].values
    /\ has' = [g \in Good |-> has[g] \ job[j].values]
    /\ UNCHANGED given

\* The form sends the whole set of ticks.
AssignValues(j, g, ticked) ==
    /\ ticked \subseteq valued
    /\ Begin(j, [op |-> "ticks", good |-> g, ticked |-> ticked])
    /\ UNCHANGED attributes

\* A value that has gone fails the transaction (a foreign key).
WriteTicks(j) ==
    /\ At(j, "ticks") /\ Goto(j, Idle)
    /\ LET ticks(row) == IF job[j].ticked \subseteq valued
                         THEN [row EXCEPT ![job[j].good] = job[j].ticked] ELSE row
       IN  has' = ticks(has) /\ given' = ticks(given)
    /\ UNCHANGED valued

AttributesNext(j) ==
    \/ \E v \in Value : CreateValue(j, v) \/ DeleteValue(j, v)
    \/ \E g \in Good, ticked \in SUBSET Value : AssignValues(j, g, ticked)
    \/ AddValue(j) \/ DeleteAttribute(j) \/ RemoveValues(j) \/ WriteTicks(j)

-----------------------------------------------------------------------------

\* Nothing is a set at first, and every variant has its size.
seedAttributes ==
    /\ piece = [g \in Good |-> {}] /\ parted = {}
    /\ valued = Value /\ has = [g \in Good |-> {CHOOSE v \in Value : TRUE}]
    /\ given = has

=============================================================================
