------------------------------ MODULE ZoneMoves ------------------------------
(***************************************************************************)
(* Zones of entries (engine/zones.ts): decks, hands, queues, bags and rows *)
(* of slots, with transfers planned on one collection and committed later, *)
(* shuffles, draws and deals; and what a seat is shown of them             *)
(* (engine/information.ts).                                                *)
(*                                                                         *)
(* A collection is immutable: an operation gives a new one, with its own   *)
(* identity (the number version).  A list zone is a sequence from bottom   *)
(* to top, a slotted one a function from its slots.  A seeded permutation  *)
(* is any permutation.                                                     *)
(***************************************************************************)
EXTENDS Naturals, Sequences, SequencesExt, FiniteSets

CONSTANTS Configs,      \* by zone: access, order, capacity, slots and, by seat, what it may see
          First,        \* the collection at the start
          Entries, Seats, MaxVersion, MaxPlans, MaxDeal, None

VARIABLES
    zones,     \* the product's current collection
    version,   \* its identity
    plans,     \* the plans made and not yet used
    drawn      \* entries drawn and now held by the product

vars == <<zones, version, plans, drawn>>

Zones == DOMAIN Configs
Slotted(z) == Configs[z].access = "slots"
InZone(c, z) == IF Slotted(z) THEN {c[z][s] : s \in Configs[z].slots} \ {None} ELSE ToSet(c[z])
Count(c, z) == IF Slotted(z) THEN Cardinality({s \in Configs[z].slots : c[z][s] # None})
               ELSE Len(c[z])

\* validateCollection
Valid(c) ==
    /\ \A z \in Zones : Count(c, z) = Cardinality(InZone(c, z))
                        /\ Count(c, z) <= Configs[z].capacity
    /\ \A y, z \in Zones : y # z => InZone(c, y) \cap InZone(c, z) = {}

-----------------------------------------------------------------------------
\* Transfers. A refusal is a string, a result a collection in a record.

\* removeEntries: what the access of a zone lets go, in the order named
Removable(c, z, entries) ==
    LET n == Len(entries)
        have == Len(c[z])
    IN  CASE Slotted(z) -> TRUE
          [] Configs[z].access = "lifo" -> n <= have /\ SubSeq(c[z], have - n + 1, have) = entries
          [] Configs[z].access = "fifo" -> n <= have /\ SubSeq(c[z], 1, n) = entries
          [] OTHER -> TRUE

Without(c, z, entries) ==
    [c EXCEPT ![z] =
        IF Slotted(z) THEN [s \in Configs[z].slots |->
                              IF c[z][s] \in ToSet(entries) THEN None ELSE c[z][s]]
        ELSE SelectSeq(c[z], LAMBDA e : e \notin ToSet(entries))]

InsertRefusal(c, z, entries, insert) ==
    CASE Count(c, z) + Len(entries) > Configs[z].capacity -> "capacity_exceeded"
      [] Slotted(z) /\ (insert.at # "slot" \/ Len(entries) # 1) -> "access_denied"
      [] Slotted(z) /\ insert.slot \notin Configs[z].slots -> "access_denied"
      [] Slotted(z) /\ c[z][insert.slot] # None -> "slot_unavailable"
      [] ~Slotted(z) /\ insert.at = "slot" -> "access_denied"
      [] Configs[z].access \in {"lifo", "fifo"} /\ insert.at # "top" -> "access_denied"
      [] insert.at = "index" /\ insert.index > Len(c[z]) -> "invalid_location"
      [] OTHER -> None

Inserted(c, z, entries, insert) ==
    [c EXCEPT ![z] =
        CASE Slotted(z) -> [c[z] EXCEPT ![insert.slot] = Head(entries)]
          [] insert.at = "top" -> c[z] \o entries
          [] insert.at = "bottom" -> entries \o c[z]
          [] OTHER -> SubSeq(c[z], 1, insert.index) \o entries
                        \o SubSeq(c[z], insert.index + 1, Len(c[z]))]

\* The location of a transfer must be where its first entry is
Held(c, z, e) == e \in InZone(c, z)

\* planZoneTransfer: entries of one zone to another, or within one
TransferRefusal(c, t) ==
    CASE Cardinality(ToSet(t.entries)) # Len(t.entries) -> "duplicate_entry"
      [] ~Held(c, t.from, Head(t.entries)) -> "invalid_location"
      [] \E k \in DOMAIN t.entries : ~Held(c, t.from, t.entries[k]) -> "entry_not_found"
      [] ~Removable(c, t.from, t.entries) -> "access_denied"
      [] OTHER -> InsertRefusal(Without(c, t.from, t.entries), t.to, t.entries, t.insert)

Transferred(c, t) == Inserted(Without(c, t.from, t.entries), t.to, t.entries, t.insert)

\* commitZoneTransfer: only on the very collection the plan was made on
Stale(plan) == plan.base # version

-----------------------------------------------------------------------------
\* Shuffles, draws and deals

Orders(s) == {[k \in DOMAIN s |-> s[p[k]]] : p \in
                {f \in [DOMAIN s -> DOMAIN s] : Cardinality({f[k] : k \in DOMAIN f}) = Len(s)}}
Ordered(z) == Configs[z].order = "ordered" /\ ~Slotted(z)

\* drawSelection: a bag gives any entry, a queue its front, the rest their top
Drawable(c, z) ==
    CASE c[z] = <<>> -> {}
      [] Configs[z].order = "bag" -> ToSet(c[z])
      [] Configs[z].access = "fifo" -> {Head(c[z])}
      [] OTHER -> {Last(c[z])}

\* The default place of a dealt entry
DealInsert(c, z) ==
    LET free == {s \in Configs[z].slots : c[z][s] = None}
    IN  IF ~Slotted(z) THEN [at |-> "top"]
        ELSE IF free = {} THEN None
        ELSE [at |-> "slot", slot |-> CHOOSE s \in free : \A r \in free : s <= r]

\* One step of deal: the next entry to the next destination, or the reason it stops
DealOne(c, from, to, e) ==
    LET insert == DealInsert(c, to)
        t == [entries |-> <<e>>, from |-> from, to |-> to, insert |-> insert]
    IN  IF insert = None \/ TransferRefusal(c, t) # None THEN None ELSE Transferred(c, t)

\* All results of dealing along the order of destinations; None is a failure, which leaves
\* the collection as it was (an empty source throws before anything is given back)
Dealt(c, from, order) ==
    FoldLeft(LAMBDA out, to :
                UNION {IF x = None THEN {None}
                       ELSE IF Drawable(x, from) = {} THEN {None}
                       ELSE {DealOne(x, from, to, e) : e \in Drawable(x, from)} : x \in out},
             IF Ordered(from) THEN {[c EXCEPT ![from] = s] : s \in Orders(c[from])} ELSE {c},
             order)

\* dealRoundRobin goes round by round, dealBatches destination by destination
RoundRobin(to, n) == FoldLeft(LAMBDA order, k : order \o to, <<>>, [k \in 1..n |-> k])
Batches(to, n) == FoldLeft(LAMBDA order, z : order \o [k \in 1..n |-> z], <<>>, to)

-----------------------------------------------------------------------------
Inserts == {[at |-> "top"], [at |-> "bottom"], [at |-> "index", index |-> 1]}
              \cup [at : {"slot"}, slot : UNION {Configs[z].slots : z \in Zones}]
Transfers ==
    [entries : {<<e>> : e \in Entries} \cup {<<d, e>> : d, e \in Entries},
     from : Zones, to : Zones, insert : Inserts]

Init ==
    /\ zones = First
    /\ version = 0
    /\ plans = {}
    /\ drawn = {}

Changed(c) == zones' = c /\ version' = version + 1

Plan(t) ==
    /\ Cardinality(plans) < MaxPlans
    /\ TransferRefusal(zones, t) = None
    /\ plans' = plans \cup {[base |-> version, zones |-> Transferred(zones, t), spec |-> t]}
    /\ UNCHANGED <<zones, version, drawn>>

\* A stale plan is refused and changes nothing
Commit(plan) ==
    /\ plan \in plans
    /\ version < MaxVersion
    /\ plans' = plans \ {plan}
    /\ IF Stale(plan) THEN UNCHANGED <<zones, version>> ELSE Changed(plan.zones)
    /\ UNCHANGED drawn

Shuffle(z, s) ==
    /\ version < MaxVersion
    /\ Ordered(z)
    /\ Changed([zones EXCEPT ![z] = s])
    /\ UNCHANGED <<plans, drawn>>

Draw(z, e) ==
    /\ version < MaxVersion
    /\ Changed(Without(zones, z, <<e>>))
    /\ drawn' = drawn \cup {e}
    /\ UNCHANGED plans

Deal(c) ==
    /\ version < MaxVersion
    /\ IF c = None THEN UNCHANGED <<zones, version>> ELSE Changed(c)
    /\ UNCHANGED <<plans, drawn>>

Next ==
    \/ \E t \in Transfers : Plan(t)
    \/ \E plan \in plans : Commit(plan)
    \/ \E z \in {y \in Zones : Ordered(y)} : \E s \in Orders(zones[z]) : Shuffle(z, s)
    \/ \E z \in {y \in Zones : ~Slotted(y)} : \E e \in Drawable(zones, z) : Draw(z, e)
    \/ \E from \in {y \in Zones : ~Slotted(y)}, n \in 1..MaxDeal :
         \E to \in {SetToSeq(Zones \ {from}), Reverse(SetToSeq(Zones \ {from}))} :
           \E c \in Dealt(zones, from, RoundRobin(to, n)) \cup Dealt(zones, from, Batches(to, n)) :
             Deal(c)

Spec == Init /\ [][Next]_vars

-----------------------------------------------------------------------------
\* What a seat is shown (redactZone): the number of entries always, the entries to those
\* who may identify them, sorted unless they may see the order

SeatView(c, z, seat) ==
    [count |-> Count(c, z),
     entries |-> CASE seat \notin Configs[z].identity -> None
                   [] seat \notin Configs[z].ordering ->
                        IF Count(c, z) = 0 THEN None ELSE SetToSeq(InZone(c, z))
                   [] OTHER -> c[z]]

\* The collections a seat must not tell apart from c: the same but for the order, or the
\* slots, of one zone whose entries or order are hidden from it
Alike(c, seat) ==
    UNION {{[c EXCEPT ![z] = s] : s \in Orders(c[z])} :
             z \in {y \in Zones : ~Slotted(y) /\ seat \notin Configs[y].identity \cap Configs[y].ordering}}
    \cup UNION {{[c EXCEPT ![z] = [s \in Configs[z].slots |-> c[z][f[s]]]] :
                   f \in {g \in [Configs[z].slots -> Configs[z].slots] :
                            \A s, r \in Configs[z].slots : s # r => g[s] # g[r]}} :
             z \in {y \in Zones : Slotted(y) /\ seat \notin Configs[y].identity \cap Configs[y].ordering}}

-----------------------------------------------------------------------------
\* Properties

TypeOK ==
    /\ version \in 0..MaxVersion
    /\ Cardinality(plans) <= MaxPlans
    /\ drawn \subseteq Entries

\* Whatever is planned, committed, shuffled, drawn and dealt, and in whatever order, every
\* entry stays in exactly one place and every zone within its capacity: a plan made before a
\* draw cannot bring the entry back.
EntriesConserved ==
    /\ Valid(zones)
    /\ drawn \cup UNION {InZone(zones, z) : z \in Zones} = Entries
    /\ \A z \in Zones : InZone(zones, z) \cap drawn = {}

\* A seat that may not identify a zone's entries, or may not see their order, sees the same
\* whatever that order is.
OrderHidden ==
    \A seat \in Seats : \A c \in Alike(zones, seat) : \A z \in Zones :
        SeatView(c, z, seat) = SeatView(zones, z, seat)
=============================================================================
