---------------------------- MODULE RoomWatchers ----------------------------
(***************************************************************************)
(* RoomInteractionWatcherRegistry: watchers look at each committed         *)
(* revision of a room once.  Concurrent reports of a revision join the     *)
(* batch under way; a batch that fails leaves no trace and may be retried. *)
(* A watcher that is registered anew gets a new id.                        *)
(***************************************************************************)
EXTENDS Naturals, Sequences, SequenceFilter

CONSTANTS Watchers, Revisions, MaxRaises   \* MaxRaises: bound on reports of a revision

VARIABLES
    order,      \* registered watchers in the order of the map
    spentIds,   \* watchers that were registered at some time
    seen,       \* watchers that are done with a revision
    batches,    \* batches in flight: the watchers passed, and those of them that ran
    returned,   \* how often a caller was given the drafts of a watcher for a revision
    joined,     \* reports that joined a batch and wait for it
    raises

vars == <<order, spentIds, seen, batches, returned, joined, raises>>

NoBatch == [open |-> FALSE, passed |-> {}, ran |-> {}]

Init ==
    /\ order = <<>>
    /\ spentIds = {}
    /\ seen = {}
    /\ batches = [r \in Revisions |-> NoBatch]
    /\ returned = [k \in Watchers \X Revisions |-> 0]
    /\ joined = [r \in Revisions |-> 0]
    /\ raises = [r \in Revisions |-> 0]

Register(w) ==
    /\ w \notin spentIds
    /\ order' = Append(order, w)
    /\ spentIds' = spentIds \cup {w}
    /\ UNCHANGED <<seen, batches, returned, joined, raises>>

Unregister(w) ==
    /\ w \in Elements(order)
    /\ order' = Filtered(order, Watchers \ {w})
    /\ UNCHANGED <<spentIds, seen, batches, returned, joined, raises>>

\* raiseCommitted: the first report of a revision opens the batch, the others wait for it.
Raise(r) ==
    /\ raises[r] < MaxRaises
    /\ raises' = [raises EXCEPT ![r] = @ + 1]
    /\ IF batches[r].open
       THEN joined' = [joined EXCEPT ![r] = @ + 1] /\ UNCHANGED batches
       ELSE batches' = [batches EXCEPT ![r] = [NoBatch EXCEPT !.open = TRUE]] /\ UNCHANGED joined
    /\ UNCHANGED <<order, spentIds, seen, returned>>

\* raiseCommittedBatch iterates the live map.
Due(r) == {k \in DOMAIN order : order[k] \notin batches[r].passed}
NextWatcher(r) == order[CHOOSE k \in Due(r) : \A j \in Due(r) : k <= j]

Visit(r) ==
    LET w == NextWatcher(r) IN
    /\ batches[r].open /\ Due(r) # {}
    /\ batches' = [batches EXCEPT ![r].passed = @ \cup {w},
                                  ![r].ran = IF <<w, r>> \in seen THEN @ ELSE @ \cup {w}]
    /\ UNCHANGED <<order, spentIds, seen, returned, joined, raises>>

\* A watcher throws or returns no drafts list: the batch fails for everybody who waits.
Fail(r) ==
    /\ batches[r].open /\ Due(r) # {} /\ <<NextWatcher(r), r>> \notin seen
    /\ batches' = [batches EXCEPT ![r] = NoBatch]
    /\ joined' = [joined EXCEPT ![r] = 0]
    /\ UNCHANGED <<order, spentIds, seen, returned, raises>>

\* Mutant: the batch is handed over without a note of who saw it.
CompleteUnseen(r) ==
    /\ batches[r].open /\ Due(r) = {}
    /\ returned' = [k \in Watchers \X Revisions |->
           returned[k] + IF k[2] = r /\ k[1] \in batches[r].ran THEN 1 ELSE 0]
    /\ batches' = [batches EXCEPT ![r] = NoBatch]
    /\ joined' = [joined EXCEPT ![r] = 0]
    /\ UNCHANGED <<order, spentIds, seen, raises>>

\* The caller that opened the batch gets the emissions, the others an empty list.
Complete(r) ==
    /\ batches[r].open /\ Due(r) = {}
    /\ seen' = seen \cup (batches[r].ran \X {r})
    /\ returned' = [k \in Watchers \X Revisions |->
           returned[k] + IF k[2] = r /\ k[1] \in batches[r].ran THEN 1 ELSE 0]
    /\ batches' = [batches EXCEPT ![r] = NoBatch]
    /\ joined' = [joined EXCEPT ![r] = 0]
    /\ UNCHANGED <<order, spentIds, raises>>

Next ==
    \/ \E w \in Watchers : Register(w) \/ Unregister(w)
    \/ \E r \in Revisions : Raise(r) \/ Visit(r) \/ Fail(r) \/ Complete(r)

Spec == Init /\ [][Next]_vars

-----------------------------------------------------------------------------
TypeOK ==
    /\ Elements(order) \subseteq spentIds
    /\ \A r \in Revisions : batches[r].ran \subseteq batches[r].passed
    /\ \A r \in Revisions : ~batches[r].open => joined[r] = 0

\* However reports of a revision overlap and fail, the drafts of a watcher reach exactly one
\* caller before the watcher counts as done, and no caller afterwards.
EmittedOnce ==
    \A w \in Watchers, r \in Revisions :
        returned[<<w, r>>] = IF <<w, r>> \in seen THEN 1 ELSE 0

-----------------------------------------------------------------------------
\* The inductive invariant of these properties: a batch under way runs no watcher that is
\* done with its revision.

Batch(b) == b = [open |-> b.open, passed |-> b.passed, ran |-> b.ran]
WatchTyped ==
    /\ order \in Seq(Watchers)
    /\ batches = [r \in Revisions |-> batches[r]]
    /\ \A r \in Revisions : Batch(batches[r]) /\ batches[r].open \in BOOLEAN
    /\ returned \in [Watchers \X Revisions -> Nat]
    /\ joined \in [Revisions -> Nat]
RunsNew ==
    \A r \in Revisions : /\ \A w \in batches[r].ran : <<w, r>> \notin seen
                         /\ ~batches[r].open => batches[r].ran = {}
WatchInv == WatchTyped /\ TypeOK /\ RunsNew /\ EmittedOnce
=============================================================================
