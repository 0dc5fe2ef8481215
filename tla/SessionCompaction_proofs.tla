----------------------- MODULE SessionCompaction_proofs -----------------------
(***************************************************************************)
(* Proofs about SessionCompaction for every set of seats, ids and slots    *)
(* and every bound.                                                        *)
(*                                                                         *)
(* The live kernel and the kernel every stored checkpoint recovers to are  *)
(* compared with the durable log, which none of them reads whole.  Each    *)
(* step takes all of these kernels forward alike, so what holds of the     *)
(* live one holds of what any recovery puts in its place.  Ids stay unique *)
(* however the host compacts; the rejections and the transcript need a     *)
(* host that compacts only when it holds no draft.                         *)
(***************************************************************************)
EXTENDS SessionCompaction, SequenceFilter

\* The ids the durable log has used.
Gameplay == {log[n].key : n \in {m \in DOMAIN log : log[m].kind \in {"intent", "interest"}}}
Controls == {log[n].key : n \in {m \in DOMAIN log : log[m].kind = "control"}}

Live == [state |-> live, registers |-> registers]
Recovered == {Rehydrated(c, log) : c \in stored}

\* Only a tick has no key.
Keyed(b) == IF b.kind = "tick" THEN b.key = NoKey ELSE b.key \in Key

LogKeyed ==
    \A n \in DOMAIN log :
        Keyed(log[n]) /\ (log[n].kind = "rejection" => log[n].key \in Gameplay)

\* A kernel at the end of the log that refuses every id the log has used.
Remembers(k, r) ==
    /\ k.revision = Len(log)
    /\ Gameplay \subseteq r.historical \cup history.gameplay
    /\ Controls \subseteq k.controls \cup history.controls
    /\ \A i \in k.intents : i.key \in Gameplay

KernelsRemember ==
    /\ Remembers(live, registers)
    /\ \A p \in Recovered : p \in Checkpoint /\ Remembers(p.state, p.registers)
    /\ \A c \in stored : c.state.revision <= Len(log)

\* A draft that can be committed brings an id the log has not used.
FreshId(b) ==
    /\ b.kind \in {"intent", "interest"} => b.key \notin Gameplay
    /\ b.kind = "control" => b.key \notin Gameplay \cup Controls
    /\ b.kind = "rejection" => b.key \in Gameplay
DraftFresh(d) ==
    /\ d.base <= live.revision /\ d.next.revision = d.base + 1 /\ Keyed(d.batch)
    /\ d.base = live.revision =>
         /\ FreshId(d.batch)
         /\ Controls \subseteq d.next.controls \cup history.controls
         /\ d.batch.kind = "control" => d.batch.key \in d.next.controls
         /\ \A i \in d.next.intents :
              i.key \in Gameplay \/ (d.batch.kind = "intent" /\ i.key = d.batch.key)
DraftsFresh == \A slot \in Slots : drafts[slot] # NoDraft => DraftFresh(drafts[slot])

IInv ==
    /\ TypeOK /\ LogKeyed /\ KernelsRemember /\ DraftsFresh /\ IdentitiesPermanent

\* What a kernel keeps besides: the rejections after its floor, and the events
\* from some revision at or above it.
Faithful(k, r) ==
    /\ r.floor <= Len(log)
    /\ k.rejected = RejectionsAfter(r.floor)
    /\ \E base \in r.floor..Len(log) : k.events = (base + 1)..Len(log)

KernelsFaithful ==
    /\ Faithful(live, registers)
    /\ \A p \in Recovered : Faithful(p.state, p.registers)

\* Without a compaction in between, a draft is what its batch does to the live
\* state.
DraftsCurrent ==
    \A slot \in Slots : (drafts[slot] # NoDraft /\ drafts[slot].base = live.revision) =>
        drafts[slot].next = After(live, drafts[slot].batch)

FInv == KernelsFaithful /\ DraftsCurrent /\ RecoveryAnswersAlike

-----------------------------------------------------------------------------
(* Recovery replays the log batch by batch.                                *)

Watermark(c) == c.state.revision
IsReplay(c, events, n, f) ==
    f = [r \in 0..n |-> IF r <= c.state.revision THEN Restore(c)
                        ELSE Replay(f[r - 1], events[r])]

LEMMA ReplayExists ==
    ASSUME NEW c, c.state.revision \in Nat, NEW events
    PROVE  \A n \in Nat : \E f : IsReplay(c, events, n, f)
<1> DEFINE N == {n \in Nat : \E f : IsReplay(c, events, n, f)}
<1>1. 0 \in N
  <2> DEFINE f == [r \in 0..0 |-> Restore(c)]
  <2>1. \A r \in 0..0 : r <= c.state.revision
    OBVIOUS
  <2>2. IsReplay(c, events, 0, f)
    BY <2>1 DEF IsReplay
  <2>q. QED  BY <2>2
<1>2. ASSUME NEW n \in N PROVE n + 1 \in N
  <2>1. PICK f : IsReplay(c, events, n, f)
    OBVIOUS
  <2> DEFINE last == IF n + 1 <= c.state.revision THEN Restore(c)
                     ELSE Replay(f[n], events[n + 1])
             g == [r \in 0..(n + 1) |-> IF r = n + 1 THEN last ELSE f[r]]
  <2>2. \A r \in 0..n : f[r] = IF r <= c.state.revision THEN Restore(c)
                               ELSE Replay(f[r - 1], events[r])
    BY <2>1 DEF IsReplay
  <2>3. \A r \in 1..(n + 1) : g[r - 1] = f[r - 1]
    OBVIOUS
  <2>4. \A r \in 0..(n + 1) : g[r] = IF r <= c.state.revision THEN Restore(c)
                                     ELSE Replay(g[r - 1], events[r])
    <3> SUFFICES ASSUME NEW r \in 0..(n + 1)
                 PROVE  g[r] = IF r <= c.state.revision THEN Restore(c)
                               ELSE Replay(g[r - 1], events[r])
      OBVIOUS
    <3>1. CASE r <= c.state.revision
      BY <2>2, <3>1
    <3>2. CASE ~(r <= c.state.revision) /\ r = n + 1
      <4>1. r \in 1..(n + 1) /\ r - 1 = n /\ g[r] = last /\ g[r - 1] = f[r - 1]
        BY <2>3, <3>2
      <4>q. QED  BY <3>2, <4>1
    <3>3. CASE ~(r <= c.state.revision) /\ r # n + 1
      <4>1. r \in 1..(n + 1) /\ r \in 0..n /\ g[r] = f[r]
        BY <3>3
      <4>2. g[r - 1] = f[r - 1]
        BY <2>3, <4>1
      <4>3. f[r] = Replay(f[r - 1], events[r])
        BY <2>2, <3>3, <4>1
      <4>q. QED  BY <3>3, <4>1, <4>2, <4>3
    <3>q. QED  BY <3>1, <3>2, <3>3
  <2>5. DOMAIN g = 0..(n + 1) /\ g = [r \in 0..(n + 1) |-> g[r]]
    OBVIOUS
  <2> HIDE DEF g
  <2>6. IsReplay(c, events, n + 1, g)
    BY <2>4, <2>5 DEF IsReplay
  <2>q. QED  BY <2>6
<1> HIDE DEF N
<1>3. N = Nat
  <2>1. N \subseteq Nat
    BY DEF N
  <2>q. QED  BY <1>1, <1>2, <2>1, SetInduction
<1>q. QED  BY <1>3 DEF N

\* Two replays of one checkpoint agree as long as their events do.

LEMMA ReplayAgrees ==
    ASSUME NEW c, Watermark(c) \in Nat, NEW e1, NEW e2, NEW k \in Nat, NEW l \in Nat,
           NEW f, NEW g, IsReplay(c, e1, k, f), IsReplay(c, e2, l, g),
           \A j \in 1..k : j <= l => e1[j] = e2[j]
    PROVE  \A n \in Nat : n <= k /\ n <= l => f[n] = g[n]
<1> DEFINE N == {n \in Nat : n <= k /\ n <= l => f[n] = g[n]}
<1>f. \A r \in 0..k : f[r] = IF r <= c.state.revision THEN Restore(c)
                             ELSE Replay(f[r - 1], e1[r])
  BY DEF IsReplay
<1>g. \A r \in 0..l : g[r] = IF r <= c.state.revision THEN Restore(c)
                             ELSE Replay(g[r - 1], e2[r])
  BY DEF IsReplay
<1>1. 0 \in N
  <2>1. 0 \in 0..k /\ 0 \in 0..l /\ 0 <= c.state.revision
    BY DEF Watermark
  <2>2. f[0] = Restore(c) /\ g[0] = Restore(c)
    BY <1>f, <1>g, <2>1
  <2>q. QED  BY <2>2
<1>2. ASSUME NEW n \in N PROVE n + 1 \in N
  <2> SUFFICES ASSUME n + 1 <= k, n + 1 <= l PROVE f[n + 1] = g[n + 1]
    OBVIOUS
  <2>1. f[n] = g[n] /\ e1[n + 1] = e2[n + 1]
    OBVIOUS
  <2>2. n + 1 \in 0..k /\ n + 1 \in 0..l /\ (n + 1) - 1 = n
    OBVIOUS
  <2> HIDE DEF N
  <2>q. QED  BY <1>f, <1>g, <2>1, <2>2
<1> HIDE DEF N
<1>3. N = Nat
  <2>1. N \subseteq Nat
    BY DEF N
  <2>q. QED  BY <1>1, <1>2, <2>1, SetInduction
<1>q. QED  BY <1>3 DEF N

AgreeUpTo(e1, e2, k) == \A j \in 1..k : e1[j] = e2[j]

\* f replays the first k events of e1, and g the events of a log that begins with them.
Extends(c, e1, k, f, e2, l, g) ==
    /\ Watermark(c) \in Nat /\ k \in Nat /\ l \in Nat /\ k <= l
    /\ IsReplay(c, e1, k, f) /\ IsReplay(c, e2, l, g)
    /\ AgreeUpTo(e1, e2, k)

LEMMA ReplayAgreesAt ==
    ASSUME NEW c, NEW e1, NEW e2, NEW k, NEW l, NEW f, NEW g,
           Extends(c, e1, k, f, e2, l, g)
    PROVE  f[k] = g[k]
<1>1. /\ Watermark(c) \in Nat /\ k \in Nat /\ l \in Nat /\ k <= l
      /\ IsReplay(c, e1, k, f) /\ IsReplay(c, e2, l, g)
      /\ \A j \in 1..k : j <= l => e1[j] = e2[j]
  BY DEF Extends, AgreeUpTo
<1>2. \A n \in Nat : n <= k /\ n <= l => f[n] = g[n]
  BY <1>1, ReplayAgrees
<1>q. QED  BY <1>1, <1>2

LEMMA RehydratedIsReplay ==
    ASSUME NEW c, c.state.revision \in Nat, NEW S, NEW events \in Seq(S)
    PROVE  \E f : /\ IsReplay(c, events, Len(events), f)
                  /\ Rehydrated(c, events) = f[Len(events)]
<1> DEFINE kernel == CHOOSE f : IsReplay(c, events, Len(events), f)
<1>1. IsReplay(c, events, Len(events), kernel)
  <2>1. Len(events) \in Nat
    OBVIOUS
  <2>2. \E f : IsReplay(c, events, Len(events), f)
    BY <2>1, ReplayExists, Zenon
  <2>q. QED  BY <2>2
<1>2. Rehydrated(c, events) = kernel[Len(events)]
  BY Zenon DEF Rehydrated, IsReplay
<1>q. QED  BY <1>1, <1>2

\* Recovery from the end of the log is the checkpoint itself.

LEMMA RehydratedAtEnd ==
    ASSUME NEW c, c.state.revision \in Nat, NEW S, NEW events \in Seq(S),
           Len(events) <= c.state.revision
    PROVE  Rehydrated(c, events) = Restore(c)
<1>1. PICK f : IsReplay(c, events, Len(events), f) /\ Rehydrated(c, events) = f[Len(events)]
  BY RehydratedIsReplay
<1>2. Len(events) \in 0..Len(events)
  OBVIOUS
<1>q. QED  BY <1>1, <1>2 DEF IsReplay

\* One more event in the log is one more step of the recovery.

LEMMA RehydratedAppend ==
    ASSUME NEW c, c.state.revision \in Nat, NEW S, NEW events \in Seq(S), NEW b \in S,
           c.state.revision <= Len(events)
    PROVE  Rehydrated(c, Append(events, b)) = Replay(Rehydrated(c, events), b)
<1> DEFINE more == Append(events, b)
           size == Len(events)
<1>1. /\ more \in Seq(S) /\ Len(more) = size + 1 /\ more[size + 1] = b /\ size \in Nat
      /\ \A j \in 1..size : events[j] = more[j]
  OBVIOUS
<1>2. PICK f : IsReplay(c, events, size, f) /\ Rehydrated(c, events) = f[size]
  BY RehydratedIsReplay
<1> HIDE DEF more
<1>3. PICK g : IsReplay(c, more, size + 1, g) /\ Rehydrated(c, more) = g[size + 1]
  BY <1>1, RehydratedIsReplay
<1> HIDE DEF size
<1>4. size + 1 \in Nat /\ \A j \in 1..size : j <= size + 1 => events[j] = more[j]
  BY <1>1
<1>6. f[size] = g[size]
  <2> DEFINE m == size + 1
  <2>0. Watermark(c) \in Nat
    BY DEF Watermark
  <2>1. m \in Nat /\ size \in Nat /\ size <= size /\ size <= m
        /\ IsReplay(c, events, size, f) /\ IsReplay(c, more, m, g)
        /\ AgreeUpTo(events, more, size)
    BY <1>1, <1>2, <1>3, <1>4 DEF AgreeUpTo
  <2>2. Extends(c, events, size, f, more, m, g)
    BY <2>0, <2>1 DEF Extends
  <2> HIDE DEF m
  <2>q. QED  BY ONLY <2>2, ReplayAgreesAt
<1>7. g[size + 1] = Replay(g[size], b)
  <2>1. size + 1 \in 0..(size + 1) /\ ~(size + 1 <= c.state.revision) /\ (size + 1) - 1 = size
    BY <1>1 DEF size
  <2>2. \A r \in 0..(size + 1) : g[r] = IF r <= c.state.revision THEN Restore(c)
                                     ELSE Replay(g[r - 1], more[r])
    BY <1>3 DEF IsReplay
  <2>q. QED  BY <1>1, <2>1, <2>2
<1>q. QED  BY <1>2, <1>3, <1>6, <1>7 DEF more

-----------------------------------------------------------------------------
(* What a batch does to a kernel.                                          *)

LEMMA AfterFacts ==
    ASSUME NEW k \in KernelState, NEW b \in Batch, Keyed(b)
    PROVE  /\ After(k, b) \in KernelState
           /\ After(k, b).revision = k.revision + 1
           /\ After(k, b).events = k.events \cup {k.revision + 1}
           /\ After(k, b).controls =
                IF b.kind = "control" THEN k.controls \cup {b.key} ELSE k.controls
           /\ After(k, b).rejected =
                IF b.kind = "rejection"
                THEN k.rejected \cup {[key |-> b.key, at |-> k.revision + 1]} ELSE k.rejected
           /\ \A i \in After(k, b).intents :
                i \in k.intents \/ (b.kind = "intent" /\ i.key = b.key)
<1>b. b.kind \in Kinds /\ b.forged \in BOOLEAN /\ (b.kind # "tick" => b.key \in Key)
  BY DEF Batch, Keyed
<1>k. /\ k.revision \in Nat /\ k.cursor \in Nat /\ k.intents \subseteq Intent
      /\ k.receipts \subseteq Receipt /\ k.rejected \subseteq Rejection
      /\ k.controls \subseteq Key /\ k.events \subseteq Nat
  BY DEF KernelState
<1>n. /\ k.revision + 1 \in Nat /\ k.cursor + 1 \in Nat
      /\ k.events \cup {k.revision + 1} \subseteq Nat
  BY <1>k
<1>1. CASE b.kind = "intent"
  <2>1. After(k, b) = [AfterIntent(k, b) EXCEPT !.revision = k.revision + 1,
                                               !.events = @ \cup {k.revision + 1}]
    BY <1>1 DEF After
  <2>2. ReceiptOf(k, b.key) \in Receipt
    BY <1>1, <1>b, <1>k DEF ReceiptOf, Receipt
  <2>3. [key |-> b.key, forged |-> b.forged] \in Intent
    BY <1>1, <1>b DEF Intent
  <2>4. /\ AfterIntent(k, b) \in KernelState /\ AfterIntent(k, b).events = k.events
        /\ AfterIntent(k, b).controls = k.controls /\ AfterIntent(k, b).rejected = k.rejected
        /\ AfterIntent(k, b).intents = k.intents \cup {[key |-> b.key, forged |-> b.forged]}
    BY <1>k, <2>2, <2>3 DEF AfterIntent, KernelState
  <2>5. /\ After(k, b) \in KernelState /\ After(k, b).revision = k.revision + 1
        /\ After(k, b).events = k.events \cup {k.revision + 1}
        /\ After(k, b).controls = k.controls /\ After(k, b).rejected = k.rejected
        /\ After(k, b).intents = k.intents \cup {[key |-> b.key, forged |-> b.forged]}
    BY <1>n, <2>1, <2>4 DEF KernelState
  <2>q. QED  BY <1>1, <2>5
<1>2. CASE b.kind = "interest"
  <2>1. After(k, b) = [k EXCEPT !.revision = k.revision + 1,
                                !.events = @ \cup {k.revision + 1}]
    BY <1>2 DEF After
  <2>q. QED  BY <1>2, <1>n, <2>1 DEF KernelState
<1>3. CASE b.kind = "control"
  <2>1. After(k, b) = [AfterControl(k, b) EXCEPT !.revision = k.revision + 1,
                                                !.events = @ \cup {k.revision + 1}]
    BY <1>3 DEF After
  <2>2. /\ AfterControl(k, b) \in KernelState /\ AfterControl(k, b).events = k.events
        /\ AfterControl(k, b).controls = k.controls \cup {b.key}
        /\ AfterControl(k, b).rejected = k.rejected /\ AfterControl(k, b).intents = k.intents
    BY <1>3, <1>b, <1>k DEF AfterControl, KernelState
  <2>q. QED  BY <1>3, <1>n, <2>1, <2>2 DEF KernelState
<1>4. CASE b.kind = "tick"
  <2>1. After(k, b) = [AfterTick(k) EXCEPT !.revision = k.revision + 1,
                                          !.events = @ \cup {k.revision + 1}]
    BY <1>4 DEF After
  <2>2. /\ AfterTick(k) \in KernelState /\ AfterTick(k).events = k.events
        /\ AfterTick(k).controls = k.controls
        /\ AfterTick(k).rejected = k.rejected /\ AfterTick(k).intents = {}
    BY <1>k, <1>n DEF AfterTick, Evict, KernelState
  <2>q. QED  BY <1>4, <1>n, <2>1, <2>2 DEF KernelState
<1>5. CASE b.kind = "rejection"
  <2>1. After(k, b) = [AfterRejection(k, b) EXCEPT !.revision = k.revision + 1,
                                                  !.events = @ \cup {k.revision + 1}]
    BY <1>5 DEF After
  <2>2. [key |-> b.key, at |-> k.revision + 1] \in Rejection
    BY <1>5, <1>b, <1>n DEF Rejection
  <2>3. /\ AfterRejection(k, b) \in KernelState /\ AfterRejection(k, b).events = k.events
        /\ AfterRejection(k, b).controls = k.controls
        /\ AfterRejection(k, b).rejected =
             k.rejected \cup {[key |-> b.key, at |-> k.revision + 1]}
        /\ AfterRejection(k, b).intents \subseteq k.intents
    BY <1>k, <2>2 DEF AfterRejection, KernelState
  <2>q. QED  BY <1>5, <1>n, <2>1, <2>3 DEF KernelState
<1>q. QED  BY <1>b, <1>1, <1>2, <1>3, <1>4, <1>5 DEF Kinds

LEMMA RegisterFacts ==
    ASSUME NEW r \in Registers, NEW b \in Batch, Keyed(b)
    PROVE  /\ Register(r, b) \in Registers /\ Register(r, b).floor = r.floor
           /\ Register(r, b).historical =
                IF b.kind \in {"intent", "interest"} THEN r.historical \cup {b.key}
                                                     ELSE r.historical
           /\ Register(r, b).interests =
                IF b.kind = "interest" THEN r.interests \cup {b.key} ELSE r.interests
<1>1. /\ r.historical \subseteq Key /\ r.interests \subseteq Key /\ r.floor \in Nat
      /\ r = [historical |-> r.historical, interests |-> r.interests, floor |-> r.floor]
  BY DEF Registers
<1>2. b.kind # "tick" => b.key \in Key
  BY DEF Keyed
<1> DEFINE h == IF b.kind \in {"intent", "interest"} THEN r.historical \cup {b.key}
                                                     ELSE r.historical
           i == IF b.kind = "interest" THEN r.interests \cup {b.key} ELSE r.interests
<1>3. h \subseteq Key /\ i \subseteq Key
  BY <1>1, <1>2
<1>4. Register(r, b) = [r EXCEPT !.historical = h, !.interests = i]
  BY DEF Register
<1> HIDE DEF h, i
<1>5. Register(r, b) = [historical |-> h, interests |-> i, floor |-> r.floor]
  BY <1>1, <1>4
<1>6. Register(r, b) \in Registers
  BY <1>1, <1>3, <1>5 DEF Registers
<1>q. QED  BY <1>5, <1>6 DEF h, i

LEMMA ReplayFacts ==
    ASSUME NEW p \in Checkpoint, NEW b \in Batch, Keyed(b)
    PROVE  /\ Replay(p, b) \in Checkpoint
           /\ Replay(p, b).state = After(p.state, b)
           /\ Replay(p, b).registers = Register(p.registers, b)
<1>1. p.state \in KernelState /\ p.registers \in Registers
  BY DEF Checkpoint
<1>2. After(p.state, b) \in KernelState /\ Register(p.registers, b) \in Registers
  BY <1>1, AfterFacts, RegisterFacts
<1>q. QED  BY <1>2 DEF Replay, Checkpoint

LEMMA RestoreFacts ==
    ASSUME NEW c \in Checkpoint
    PROVE  /\ Restore(c) \in Checkpoint
           /\ Restore(c).state = c.state /\ Restore(c).registers = c.registers
BY DEF Restore, Checkpoint

LEMMA TypeFacts ==
    ASSUME TypeOK
    PROVE  /\ live \in KernelState /\ live.revision \in Nat /\ live.controls \subseteq Key
           /\ registers \in Registers
           /\ log \in Seq(Batch) /\ Len(log) = live.revision /\ Len(log) \in Nat
           /\ \A c \in stored : /\ c \in Checkpoint /\ c.state.revision \in Nat
                                /\ c.state \in KernelState /\ c.registers \in Registers
           /\ \A slot \in Slots : drafts[slot] # NoDraft =>
                drafts[slot] \in Draft /\ drafts[slot].base \in Nat
                /\ drafts[slot].next \in KernelState /\ drafts[slot].batch \in Batch
<1>1. live \in KernelState /\ registers \in Registers /\ log \in Seq(Batch)
      /\ Len(log) = live.revision
  BY DEF TypeOK
<1>2. live.revision \in Nat /\ live.controls \subseteq Key
  BY <1>1 DEF KernelState
<1>3. \A c \in Checkpoint : /\ c.state.revision \in Nat
                            /\ c.state \in KernelState /\ c.registers \in Registers
  BY DEF Checkpoint, KernelState
<1>4. \A d \in Draft : d.base \in Nat /\ d.next \in KernelState /\ d.batch \in Batch
  BY DEF Draft
<1>q. QED  BY <1>1, <1>2, <1>3, <1>4 DEF TypeOK

-----------------------------------------------------------------------------
(* The log grows by a batch with a fresh id.                               *)

LogGrows(b) == b \in Batch /\ Keyed(b) /\ FreshId(b) /\ log' = Append(log, b)

LEMMA GrownIds ==
    ASSUME TypeOK, NEW b, LogGrows(b)
    PROVE  /\ log' \in Seq(Batch) /\ Len(log') = Len(log) + 1 /\ log'[Len(log) + 1] = b
           /\ \A n \in 1..Len(log) : log'[n] = log[n]
           /\ Gameplay' = IF b.kind \in {"intent", "interest"} THEN Gameplay \cup {b.key}
                                                               ELSE Gameplay
           /\ Controls' = IF b.kind = "control" THEN Controls \cup {b.key} ELSE Controls
<1>1. log \in Seq(Batch) /\ Len(log) \in Nat /\ b \in Batch /\ log' = Append(log, b)
  BY TypeFacts DEF LogGrows
<1>2. /\ log' \in Seq(Batch) /\ Len(log') = Len(log) + 1 /\ log'[Len(log) + 1] = b
      /\ \A n \in 1..Len(log) : log'[n] = log[n]
      /\ DOMAIN log = 1..Len(log) /\ DOMAIN log' = 1..(Len(log) + 1)
  BY <1>1
<1>3. \A K : {log'[n].key : n \in {m \in DOMAIN log' : log'[m].kind \in K}} =
        {log[n].key : n \in {m \in DOMAIN log : log[m].kind \in K}}
          \cup (IF b.kind \in K THEN {b.key} ELSE {})
  <2> SUFFICES ASSUME NEW K, NEW x
               PROVE  x \in {log'[n].key : n \in {m \in DOMAIN log' : log'[m].kind \in K}} <=>
                        \/ x \in {log[n].key : n \in {m \in DOMAIN log : log[m].kind \in K}}
                        \/ x \in (IF b.kind \in K THEN {b.key} ELSE {})
    OBVIOUS
  <2>1. x \in {log'[n].key : n \in {m \in DOMAIN log' : log'[m].kind \in K}} <=>
          \E n \in 1..(Len(log) + 1) : log'[n].kind \in K /\ x = log'[n].key
    BY <1>2
  <2>2. x \in {log[n].key : n \in {m \in DOMAIN log : log[m].kind \in K}} <=>
          \E n \in 1..Len(log) : log[n].kind \in K /\ x = log[n].key
    BY <1>2
  <2>3. \A n \in 1..(Len(log) + 1) : n \in 1..Len(log) \/ n = Len(log) + 1
    BY <1>1
  <2>4. \A n \in 1..Len(log) : n \in 1..(Len(log) + 1)
    BY <1>1
  <2>5. Len(log) + 1 \in 1..(Len(log) + 1)
    BY <1>1
  <2>q. QED  BY <1>2, <2>1, <2>2, <2>3, <2>4, <2>5
<1>4. Gameplay' = Gameplay \cup (IF b.kind \in {"intent", "interest"} THEN {b.key} ELSE {})
  BY <1>3 DEF Gameplay
<1>5. \A c : c.kind = "control" <=> c.kind \in {"control"}
  OBVIOUS
<1>6. Controls' = Controls \cup (IF b.kind \in {"control"} THEN {b.key} ELSE {})
  BY <1>3, <1>5 DEF Controls
<1>q. QED  BY <1>2, <1>4, <1>6

LEMMA GrownKernel ==
    ASSUME TypeOK, NEW b, LogGrows(b), UNCHANGED history,
           NEW k \in KernelState, NEW r \in Registers, Remembers(k, r)
    PROVE  Remembers(After(k, b), Register(r, b))'
<1>1. b \in Batch /\ Keyed(b)
  BY DEF LogGrows
<1>2. /\ After(k, b).revision = k.revision + 1
      /\ After(k, b).controls =
           IF b.kind = "control" THEN k.controls \cup {b.key} ELSE k.controls
      /\ \A i \in After(k, b).intents :
           i \in k.intents \/ (b.kind = "intent" /\ i.key = b.key)
  BY <1>1, AfterFacts
<1>3. Register(r, b).historical =
        IF b.kind \in {"intent", "interest"} THEN r.historical \cup {b.key} ELSE r.historical
  BY <1>1, RegisterFacts
<1>4. /\ Len(log') = Len(log) + 1
      /\ Gameplay' = IF b.kind \in {"intent", "interest"} THEN Gameplay \cup {b.key} ELSE Gameplay
      /\ Controls' = IF b.kind = "control" THEN Controls \cup {b.key} ELSE Controls
  BY GrownIds
<1> DEFINE k1 == After(k, b)
           r1 == Register(r, b)
<1>5. k1.revision = Len(log')
  BY <1>2, <1>4 DEF Remembers
<1>6. Gameplay' \subseteq r1.historical \cup history'.gameplay
  BY <1>3, <1>4 DEF Remembers
<1>7. Controls' \subseteq k1.controls \cup history'.controls
  BY <1>2, <1>4 DEF Remembers
<1>8. \A i \in k1.intents : i.key \in Gameplay'
  BY <1>2, <1>4 DEF Remembers
<1>q. QED  BY <1>5, <1>6, <1>7, <1>8 DEF Remembers

LEMMA GrownLog ==
    ASSUME IInv, NEW b, LogGrows(b)
    PROVE  LogKeyed' /\ IdentitiesPermanent'
<1>1. /\ Len(log) \in Nat /\ log \in Seq(Batch) /\ TypeOK
      /\ DOMAIN log = 1..Len(log)
  BY TypeFacts DEF IInv
<1>2. /\ log' \in Seq(Batch) /\ Len(log') = Len(log) + 1 /\ log'[Len(log) + 1] = b
      /\ \A n \in 1..Len(log) : log'[n] = log[n]
      /\ Gameplay \subseteq Gameplay'
  BY <1>1, GrownIds
<1>3. DOMAIN log' = 1..(Len(log) + 1)
  BY <1>1, <1>2
<1>4. Keyed(b) /\ FreshId(b) /\ b \in Batch
  BY DEF LogGrows
<1>5. LogKeyed'
  <2> SUFFICES ASSUME NEW n \in 1..(Len(log) + 1)
               PROVE  Keyed(log'[n]) /\ (log'[n].kind = "rejection" => log'[n].key \in Gameplay')
    BY <1>3 DEF LogKeyed
  <2>1. CASE n \in 1..Len(log)
    BY <1>1, <1>2, <2>1 DEF IInv, LogKeyed
  <2>2. CASE n = Len(log) + 1
    BY <1>2, <1>4, <2>2 DEF FreshId
  <2>q. QED  BY <1>1, <2>1, <2>2
<1>6. ASSUME NEW i \in 1..Len(log), log[i].key = b.key, b.kind # "rejection"
      PROVE  log[i].key = NoKey \/ (log[i].kind = "control" /\ b.kind # "control")
  <2> DEFINE e == log[i]
  <2>0. e \in Batch
    BY <1>1
  <2>1. Keyed(e) /\ (e.kind = "rejection" => e.key \in Gameplay) /\ e.kind \in Kinds
    <3>1. e.kind \in Kinds
      BY <2>0 DEF Batch
    <3>2. i \in DOMAIN log
      BY <1>1
    <3>q. QED  BY <3>1, <3>2 DEF IInv, LogKeyed
  <2>2. e.kind \in {"intent", "interest"} => e.key \in Gameplay
    BY <1>1 DEF Gameplay
  <2>3. e.kind = "control" => e.key \in Controls
    BY <1>1 DEF Controls
  <2> HIDE DEF e
  <2>4. e.kind = "tick" => e.key = NoKey
    BY <2>1 DEF Keyed
  <2>5. b.kind \in Kinds /\ (b.kind = "tick" => b.key = NoKey)
    BY <1>4 DEF Keyed, Batch
  <2>6. e.key = b.key
    BY <1>6 DEF e
  <2>7. e.key = NoKey \/ (e.kind = "control" /\ b.kind # "control")
    <3>1. CASE b.kind = "tick"
      BY <2>5, <2>6, <3>1
    <3>2. CASE e.kind = "tick"
      BY <2>4, <3>2
    <3>3. CASE b.kind \in {"intent", "interest"} /\ e.kind # "tick"
      BY <1>4, <2>1, <2>2, <2>6, <3>3 DEF FreshId, Kinds
    <3>4. CASE b.kind = "control" /\ e.kind # "tick"
      BY <1>4, <2>1, <2>2, <2>3, <2>6, <3>4 DEF FreshId, Kinds
    <3>q. QED  BY <1>6, <2>5, <3>1, <3>2, <3>3, <3>4 DEF Kinds
  <2>q. QED  BY <2>7 DEF e
<1>7. IdentitiesPermanent'
  <2> SUFFICES ASSUME NEW i \in 1..(Len(log) + 1), NEW j \in 1..(Len(log) + 1),
                      i < j, log'[i].key = log'[j].key, log'[j].kind # "rejection"
               PROVE  log'[i].key = NoKey \/ (log'[i].kind = "control" /\ log'[j].kind # "control")
    BY <1>3 DEF IdentitiesPermanent
  <2>1. i \in 1..Len(log) /\ log'[i] = log[i]
    BY <1>1, <1>2
  <2>2. CASE j \in 1..Len(log)
    <3>1. log'[j] = log[j]
      BY <1>2, <2>2
    <3>q. QED  BY <1>1, <2>1, <2>2, <3>1 DEF IInv, IdentitiesPermanent
  <2>3. CASE j = Len(log) + 1
    BY <1>2, <1>6, <2>1, <2>3
  <2>q. QED  BY <1>1, <2>2, <2>3
<1>q. QED  BY <1>5, <1>7
-----------------------------------------------------------------------------
(* Every step preserves the invariant.                                     *)

LEMMA DraftsFreshNext ==
    ASSUME \A s \in Slots : \A d : d = drafts'[s] /\ d # NoDraft => DraftFresh(d)'
    PROVE  DraftsFresh'
<1> SUFFICES ASSUME NEW s \in Slots, drafts'[s] # NoDraft PROVE DraftFresh(drafts[s])'
  BY DEF DraftsFresh
<1>1. PICK d : d = drafts'[s]
  OBVIOUS
<1>2. DraftFresh(d)'
  BY <1>1
<1>q. QED  BY <1>1, <1>2 DEF DraftFresh

LEMMA PrepareStep ==
    ASSUME IInv, NEW slot \in Slots, NEW b \in Batch, Keyed(b), FreshId(b),
           Prepare(slot, b)
    PROVE  IInv'
<1> DEFINE d == [base |-> live.revision, next |-> After(live, b), batch |-> b]
<1>1. /\ UNCHANGED <<live, registers, log, stored, history>>
      /\ drafts' = [drafts EXCEPT ![slot] = d]
  BY DEF Prepare
<1>2. live \in KernelState /\ live.revision \in Nat
  BY TypeFacts DEF IInv
<1>3. /\ After(live, b) \in KernelState /\ After(live, b).revision = live.revision + 1
      /\ After(live, b).controls =
           IF b.kind = "control" THEN live.controls \cup {b.key} ELSE live.controls
      /\ \A i \in After(live, b).intents :
           i \in live.intents \/ (b.kind = "intent" /\ i.key = b.key)
  BY <1>2, AfterFacts
<1>4. d \in Draft
  BY <1>2, <1>3 DEF Draft
<1>5. d.base = live.revision /\ d.next = After(live, b) /\ d.batch = b
  OBVIOUS
<1>6. Remembers(live, registers)
  BY DEF IInv, KernelsRemember
<1>7. DraftFresh(d)
  BY <1>2, <1>3, <1>5, <1>6 DEF DraftFresh, Remembers
<1> HIDE DEF d
<1>8. drafts \in [Slots -> Draft \cup {NoDraft}]
  BY DEF IInv, TypeOK
<1>9. TypeOK'
  <2>1. drafts' \in [Slots -> Draft \cup {NoDraft}]
    BY <1>1, <1>4, <1>8
  <2>q. QED  BY <1>1, <2>1 DEF IInv, TypeOK
<1>10. DraftsFresh'
  <2>1. \A e : DraftFresh(e)' <=> DraftFresh(e)
    BY <1>1 DEF DraftFresh, FreshId, Gameplay, Controls
  <2>2. ASSUME NEW s \in Slots, drafts'[s] # NoDraft PROVE DraftFresh(drafts'[s])
    BY <1>1, <1>7, <1>8, <2>2 DEF IInv, DraftsFresh
  <2>3. \A s \in Slots : \A e : e = drafts'[s] /\ e # NoDraft => DraftFresh(e)'
    BY <2>1, <2>2
  <2>q. QED  BY <2>3, DraftsFreshNext
<1>11. LogKeyed' /\ KernelsRemember' /\ IdentitiesPermanent'
  BY <1>1 DEF IInv, LogKeyed, KernelsRemember, IdentitiesPermanent, Remembers, Recovered,
              Gameplay, Controls
<1>q. QED  BY <1>9, <1>10, <1>11 DEF IInv

\* Each prepare refuses the ids the log has used.
LEMMA PrepareIsFresh ==
    ASSUME IInv, NEW slot \in Slots,
           \/ \E key \in Key :
                \/ \E forged \in BOOLEAN : PrepareIntent(slot, key, forged)
                \/ PrepareInterest(slot, key)
                \/ PrepareControlTransition(slot, key)
           \/ PrepareAdvance(slot)
    PROVE  \E b \in Batch : Keyed(b) /\ FreshId(b) /\ Prepare(slot, b)
<1>1. live.cursor \in Nat
  BY TypeFacts DEF IInv, KernelState
<1>2. Remembers(live, registers)
  BY DEF IInv, KernelsRemember
<1>3. \A kind \in Kinds, key \in Key \cup {NoKey}, forged \in BOOLEAN :
        /\ BatchOf(kind, key, forged) \in Batch
        /\ BatchOf(kind, key, forged).kind = kind /\ BatchOf(kind, key, forged).key = key
  BY <1>1 DEF BatchOf, Batch
<1>4. ASSUME NEW key \in Key, NEW forged \in BOOLEAN, PrepareIntent(slot, key, forged)
      PROVE  \E b \in Batch : Keyed(b) /\ FreshId(b) /\ Prepare(slot, b)
  <2> DEFINE b == BatchOf("intent", key, forged)
  <2>1. b \in Batch /\ b.kind = "intent" /\ b.key = key
    BY <1>3 DEF Kinds
  <2>2. key \notin Gameplay /\ Prepare(slot, b)
    BY <1>2, <1>4 DEF PrepareIntent, Remembers
  <2> HIDE DEF b
  <2>q. QED  BY <2>1, <2>2 DEF Keyed, FreshId
<1>5. ASSUME NEW key \in Key, PrepareInterest(slot, key)
      PROVE  \E b \in Batch : Keyed(b) /\ FreshId(b) /\ Prepare(slot, b)
  <2> DEFINE b == BatchOf("interest", key, FALSE)
  <2>1. b \in Batch /\ b.kind = "interest" /\ b.key = key
    <3>1. "interest" \in Kinds /\ FALSE \in BOOLEAN
      BY DEF Kinds
    <3>q. QED  BY <1>3, <3>1
  <2>2. key \notin Gameplay /\ Prepare(slot, b)
    BY <1>2, <1>5 DEF PrepareInterest, Remembers
  <2> HIDE DEF b
  <2>q. QED  BY <2>1, <2>2 DEF Keyed, FreshId
<1>6. ASSUME NEW key \in Key, PrepareControlTransition(slot, key)
      PROVE  \E b \in Batch : Keyed(b) /\ FreshId(b) /\ Prepare(slot, b)
  <2> DEFINE b == BatchOf("control", key, FALSE)
  <2>1. b \in Batch /\ b.kind = "control" /\ b.key = key
    BY <1>3 DEF Kinds
  <2>2. key \notin Gameplay \cup Controls /\ Prepare(slot, b)
    BY <1>2, <1>6 DEF PrepareControlTransition, Remembers
  <2> HIDE DEF b
  <2>q. QED  BY <2>1, <2>2 DEF Keyed, FreshId
<1>7. CASE PrepareAdvance(slot)
  <2>1. CASE Forged(live) = {}
    <3> DEFINE b == BatchOf("tick", NoKey, FALSE)
    <3>1. b \in Batch /\ b.kind = "tick" /\ b.key = NoKey
      BY <1>3 DEF Kinds
    <3>2. Prepare(slot, b)
      BY <1>7, <2>1 DEF PrepareAdvance
    <3> HIDE DEF b
    <3>q. QED  BY <3>1, <3>2 DEF Keyed, FreshId
  <2>2. CASE Forged(live) # {}
    <3>1. PICK i \in Forged(live) : Prepare(slot, BatchOf("rejection", i.key, TRUE))
      BY <1>7, <2>2 DEF PrepareAdvance
    <3>2. i \in live.intents
      BY <3>1 DEF Forged
    <3>3. i.key \in Key
      BY <3>2, TypeFacts DEF IInv, KernelState, Intent
    <3>4. i.key \in Gameplay
      BY <1>2, <3>2 DEF Remembers
    <3> DEFINE b == BatchOf("rejection", i.key, TRUE)
    <3>5. b \in Batch /\ b.kind = "rejection" /\ b.key = i.key
      BY <1>3, <3>3 DEF Kinds
    <3>6. Prepare(slot, b)
      BY <3>1
    <3> HIDE DEF b
    <3>q. QED  BY <3>3, <3>4, <3>5, <3>6 DEF Keyed, FreshId
  <2>q. QED  BY <2>1, <2>2
<1>q. QED  BY <1>4, <1>5, <1>6, <1>7

\* The recovered kernels follow the log.

LEMMA GrownRecovered ==
    ASSUME IInv, NEW b, LogGrows(b), UNCHANGED <<history, stored>>
    PROVE  /\ \A c \in stored : Rehydrated(c, log') = Replay(Rehydrated(c, log), b)
           /\ \A p \in Recovered' : p \in Checkpoint /\ Remembers(p.state, p.registers)'
           /\ \A c \in stored : c.state.revision <= Len(log')
<1>1. log \in Seq(Batch) /\ Len(log) \in Nat /\ b \in Batch /\ Keyed(b) /\ TypeOK
  BY TypeFacts DEF IInv, LogGrows
<1>2. \A c \in stored : c.state.revision \in Nat /\ c.state.revision <= Len(log)
  BY TypeFacts DEF IInv, KernelsRemember
<1>3. ASSUME NEW c \in stored PROVE Rehydrated(c, log') = Replay(Rehydrated(c, log), b)
  BY <1>1, <1>2, RehydratedAppend DEF LogGrows
<1>4. ASSUME NEW p \in Recovered' PROVE p \in Checkpoint /\ Remembers(p.state, p.registers)'
  <2>1. PICK c \in stored : p = Rehydrated(c, log')
    BY <1>4 DEF Recovered
  <2>2. PICK q : q = Rehydrated(c, log)
    OBVIOUS
  <2>3. q \in Recovered
    BY <2>2 DEF Recovered
  <2>4. q \in Checkpoint /\ Remembers(q.state, q.registers)
    BY <2>3 DEF IInv, KernelsRemember
  <2>5. q.state \in KernelState /\ q.registers \in Registers
    BY <2>4 DEF Checkpoint
  <2>6. p = Replay(q, b)
    BY <1>3, <2>1, <2>2
  <2>7. p \in Checkpoint /\ p.state = After(q.state, b) /\ p.registers = Register(q.registers, b)
    BY <1>1, <2>4, <2>6, ReplayFacts
  <2>8. Remembers(After(q.state, b), Register(q.registers, b))'
    BY <1>1, <2>4, <2>5, GrownKernel
  <2>q. QED  BY <2>7, <2>8
<1>5. Len(log') = Len(log) + 1
  BY <1>1, GrownIds
<1>6. \A c \in stored : c.state.revision <= Len(log')
  BY <1>1, <1>2, <1>5
<1>q. QED  BY <1>3, <1>4, <1>6

LEMMA CommitGrows ==
    ASSUME IInv, NEW slot \in Slots, drafts[slot] # NoDraft,
           drafts[slot].base = live.revision, log' = Append(log, drafts[slot].batch)
    PROVE  LogGrows(drafts[slot].batch)
<1>1. DraftFresh(drafts[slot]) /\ drafts[slot].batch \in Batch
  BY TypeFacts DEF IInv, DraftsFresh
<1>q. QED  BY <1>1 DEF DraftFresh, LogGrows

LEMMA CommitStep ==
    ASSUME IInv, NEW slot \in Slots, Commit(slot)
    PROVE  IInv'
<1>1. PICK d : d = drafts[slot]
  OBVIOUS
<1>2. /\ d # NoDraft /\ d.base = live.revision /\ live' = d.next
      /\ registers' = Register(registers, d.batch) /\ log' = Append(log, d.batch)
      /\ drafts' = [drafts EXCEPT ![slot] = NoDraft] /\ UNCHANGED <<stored, history>>
  BY <1>1 DEF Commit
<1>3. /\ live.revision \in Nat /\ registers \in Registers /\ Len(log) = live.revision
      /\ d \in Draft /\ d.next \in KernelState /\ d.batch \in Batch /\ TypeOK
      /\ drafts \in [Slots -> Draft \cup {NoDraft}]
  BY <1>1, <1>2, TypeFacts DEF IInv, TypeOK
<1>4. LogGrows(d.batch) /\ Keyed(d.batch)
  BY <1>1, <1>2, CommitGrows DEF LogGrows
<1>5. DraftFresh(d)
  BY <1>1, <1>2 DEF IInv, DraftsFresh
<1>6. /\ log' \in Seq(Batch) /\ Len(log') = Len(log) + 1
      /\ Gameplay' = IF d.batch.kind \in {"intent", "interest"} THEN Gameplay \cup {d.batch.key}
                                                                ELSE Gameplay
      /\ Controls' = IF d.batch.kind = "control" THEN Controls \cup {d.batch.key} ELSE Controls
  BY <1>3, <1>4, GrownIds
<1>7. /\ registers' \in Registers
      /\ registers'.historical =
           IF d.batch.kind \in {"intent", "interest"}
           THEN registers.historical \cup {d.batch.key} ELSE registers.historical
  BY <1>2, <1>3, <1>4, RegisterFacts
<1>8. live'.revision = Len(log')
  BY <1>2, <1>3, <1>5, <1>6 DEF DraftFresh
<1>9. TypeOK'
  <2>1. drafts' \in [Slots -> Draft \cup {NoDraft}]
    BY <1>2, <1>3
  <2>q. QED  BY <1>2, <1>3, <1>6, <1>7, <1>8, <2>1 DEF TypeOK
<1>10. Remembers(live, registers)'
  <2>1. Remembers(live, registers)
    BY DEF IInv, KernelsRemember
  <2>2. Gameplay' \subseteq registers'.historical \cup history'.gameplay
    BY <1>2, <1>6, <1>7, <2>1 DEF Remembers
  <2>3. Controls' \subseteq live'.controls \cup history'.controls
    BY <1>2, <1>5, <1>6 DEF DraftFresh
  <2>4. \A i \in live'.intents : i.key \in Gameplay'
    BY <1>2, <1>5, <1>6 DEF DraftFresh
  <2>q. QED  BY <1>8, <2>2, <2>3, <2>4 DEF Remembers
<1>11. KernelsRemember'
  BY <1>2, <1>4, <1>10, GrownRecovered DEF KernelsRemember
<1>12. LogKeyed' /\ IdentitiesPermanent'
  BY <1>4, GrownLog
<1>13. DraftsFresh'
  <2>1. ASSUME NEW s \in Slots, NEW e, e = drafts'[s], e # NoDraft PROVE DraftFresh(e)'
    <3>1. e = drafts[s]
      BY <1>2, <1>3, <2>1
    <3>2. DraftFresh(e) /\ e.base \in Nat
      BY <2>1, <3>1, TypeFacts DEF IInv, DraftsFresh
    <3>3. e.base <= live.revision /\ live'.revision = live.revision + 1
          /\ e.next.revision = e.base + 1 /\ Keyed(e.batch)
      BY <1>3, <1>6, <1>8, <3>2 DEF DraftFresh
    <3>4. e.base <= live'.revision /\ e.base # live'.revision
      BY <1>3, <3>2, <3>3
    <3>q. QED  BY <3>3, <3>4 DEF DraftFresh
  <2>q. QED  BY <2>1, DraftsFreshNext
<1>q. QED  BY <1>9, <1>11, <1>12, <1>13 DEF IInv

LEMMA DiscardStep ==
    ASSUME IInv, NEW slot \in Slots, Discard(slot)
    PROVE  IInv'
<1>1. /\ UNCHANGED <<live, registers, log, stored, history>>
      /\ drafts' = [drafts EXCEPT ![slot] = NoDraft]
  BY DEF Discard
<1>2. drafts \in [Slots -> Draft \cup {NoDraft}]
  BY DEF IInv, TypeOK
<1>3. TypeOK'
  <2>1. drafts' \in [Slots -> Draft \cup {NoDraft}]
    BY <1>1, <1>2
  <2>q. QED  BY <1>1, <2>1 DEF IInv, TypeOK
<1>4. DraftsFresh'
  <2>1. \A e : DraftFresh(e)' <=> DraftFresh(e)
    BY <1>1 DEF DraftFresh, FreshId, Gameplay, Controls
  <2>2. ASSUME NEW s \in Slots, NEW e, e = drafts'[s], e # NoDraft PROVE DraftFresh(e)
    BY <1>1, <1>2, <2>2 DEF IInv, DraftsFresh
  <2>q. QED  BY <2>1, <2>2, DraftsFreshNext
<1>5. LogKeyed' /\ KernelsRemember' /\ IdentitiesPermanent'
  BY <1>1 DEF IInv, LogKeyed, KernelsRemember, IdentitiesPermanent, Remembers, Recovered,
              Gameplay, Controls
<1>q. QED  BY <1>3, <1>4, <1>5 DEF IInv

LEMMA CheckpointFacts ==
    ASSUME IInv
    PROVE  /\ checkpoint \in Checkpoint
           /\ checkpoint.registers = registers
           /\ checkpoint.state.revision = live.revision
           /\ checkpoint.state.cursor = live.cursor
           /\ checkpoint.state.intents = live.intents
           /\ checkpoint.state.receipts = live.receipts
           /\ checkpoint.state.rejected = live.rejected
           /\ checkpoint.state.controls = live.controls
           /\ checkpoint.state.events = {}
           /\ Rehydrated(checkpoint, log) = Restore(checkpoint)
<1>1. live \in KernelState /\ registers \in Registers /\ log \in Seq(Batch)
      /\ Len(log) = live.revision /\ live.revision \in Nat
  BY TypeFacts DEF IInv
<1> DEFINE k == [live EXCEPT !.events = {}]
<1>2. /\ k \in KernelState /\ k.revision = live.revision /\ k.cursor = live.cursor
      /\ k.intents = live.intents /\ k.receipts = live.receipts
      /\ k.rejected = live.rejected /\ k.controls = live.controls /\ k.events = {}
  BY <1>1 DEF KernelState
<1>3. checkpoint.state = k /\ checkpoint.registers = registers
      /\ checkpoint = [state |-> k, registers |-> registers]
  BY DEF checkpoint
<1> HIDE DEF k
<1>4. checkpoint \in Checkpoint
  BY <1>1, <1>2, <1>3 DEF Checkpoint
<1>5. Rehydrated(checkpoint, log) = Restore(checkpoint)
  <2>1. PICK c : c = checkpoint
    OBVIOUS
  <2>2. c.state.revision \in Nat /\ Len(log) <= c.state.revision
    BY <1>1, <1>2, <1>3, <2>1
  <2>3. Rehydrated(c, log) = Restore(c)
    BY <1>1, <2>2, RehydratedAtEnd
  <2>q. QED  BY <2>1, <2>3
<1>q. QED  BY <1>2, <1>3, <1>4, <1>5

LEMMA StoreStep ==
    ASSUME IInv, StoreCheckpoint
    PROVE  IInv'
<1>1. UNCHANGED <<live, registers, drafts, log, history>> /\ stored' = stored \cup {checkpoint}
  BY DEF StoreCheckpoint
<1>2. checkpoint \in Checkpoint /\ checkpoint.state.revision = Len(log)
      /\ Len(log) \in Nat
  BY CheckpointFacts, TypeFacts DEF IInv
<1>3. TypeOK'
  BY <1>1, <1>2 DEF IInv, TypeOK
<1>4. \A e : DraftFresh(e)' <=> DraftFresh(e)
  BY <1>1 DEF DraftFresh, FreshId, Gameplay, Controls
<1>5. DraftsFresh'
  BY <1>1, <1>4, DraftsFreshNext DEF IInv, DraftsFresh
<1>6. \A k, r : Remembers(k, r)' <=> Remembers(k, r)
  BY <1>1 DEF Remembers, Gameplay, Controls
<1>7. ASSUME NEW p \in Recovered' PROVE p \in Checkpoint /\ Remembers(p.state, p.registers)'
  <2>1. PICK c \in stored \cup {checkpoint} : p = Rehydrated(c, log)
    BY <1>1, <1>7 DEF Recovered
  <2>2. CASE c \in stored
    BY <1>6, <2>1, <2>2 DEF IInv, KernelsRemember, Recovered
  <2>3. CASE c = checkpoint
    <3>1. /\ p \in Checkpoint /\ p.state = checkpoint.state /\ p.registers = registers
      BY <2>1, <2>3, CheckpointFacts, RestoreFacts
    <3>2. p.state.revision = live.revision /\ p.state.controls = live.controls
          /\ p.state.intents = live.intents
      BY <3>1, CheckpointFacts
    <3>3. Remembers(p.state, p.registers)
      BY <3>1, <3>2 DEF IInv, KernelsRemember, Remembers
    <3>q. QED  BY <1>6, <3>1, <3>3
  <2>q. QED  BY <2>1, <2>2, <2>3
<1>8. Remembers(live, registers)'
  BY <1>1 DEF IInv, KernelsRemember, Remembers, Gameplay, Controls
<1>9. KernelsRemember'
  BY <1>1, <1>2, <1>7, <1>8 DEF IInv, KernelsRemember
<1>10. LogKeyed' /\ IdentitiesPermanent'
  BY <1>1 DEF IInv, LogKeyed, IdentitiesPermanent, Gameplay
<1>q. QED  BY <1>3, <1>5, <1>9, <1>10 DEF IInv

LEMMA RecordStep ==
    ASSUME IInv, NEW c \in stored, RecordHistory(c)
    PROVE  IInv'
<1>1. /\ UNCHANGED <<live, registers, drafts, log, stored>>
      /\ history' = [gameplay  |-> history.gameplay \cup c.registers.historical,
                     interests |-> history.interests \cup c.registers.interests,
                     controls  |-> history.controls \cup c.state.controls]
  BY DEF RecordHistory
<1>2. /\ history.gameplay \subseteq Key /\ history.interests \subseteq Key
      /\ history.controls \subseteq Key
  BY DEF IInv, TypeOK
<1>3. /\ c.registers.historical \subseteq Key /\ c.registers.interests \subseteq Key
      /\ c.state.controls \subseteq Key
  BY TypeFacts DEF IInv, KernelState, Registers
<1>4. TypeOK'
  <2>1. history' \in [gameplay : SUBSET Key, interests : SUBSET Key, controls : SUBSET Key]
    BY <1>1, <1>2, <1>3
  <2>q. QED  BY <1>1, <2>1 DEF IInv, TypeOK
<1>5. history.gameplay \subseteq history'.gameplay /\ history.controls \subseteq history'.controls
  BY <1>1
<1>6. \A e : DraftFresh(e) => DraftFresh(e)'
  BY <1>1, <1>5 DEF DraftFresh, FreshId, Gameplay, Controls
<1>7. DraftsFresh'
  BY <1>1, <1>6, DraftsFreshNext DEF IInv, DraftsFresh
<1>8. \A k, r : Remembers(k, r) => Remembers(k, r)'
  BY <1>1, <1>5 DEF Remembers, Gameplay, Controls
<1>9. Remembers(live, registers)'
  BY <1>1, <1>5 DEF IInv, KernelsRemember, Remembers, Gameplay, Controls
<1>10. KernelsRemember'
  BY <1>1, <1>8, <1>9 DEF IInv, KernelsRemember, Recovered
<1>11. LogKeyed' /\ IdentitiesPermanent'
  BY <1>1 DEF IInv, LogKeyed, IdentitiesPermanent, Gameplay
<1>q. QED  BY <1>4, <1>7, <1>10, <1>11 DEF IInv

LEMMA compactStep ==
    ASSUME IInv, NEW c \in stored, compact(c)
    PROVE  IInv'
<1>1. /\ UNCHANGED <<drafts, log, stored, history>> /\ c = checkpoint /\ Recorded(c)
      /\ live' = Compacted(live)
      /\ registers' = [historical |-> {}, interests |-> {}, floor |-> live.revision]
  BY DEF compact
<1>2. live \in KernelState /\ live.revision \in Nat
  BY TypeFacts DEF IInv
<1>3. /\ live' \in KernelState /\ live'.revision = live.revision
      /\ live'.controls = {} /\ live'.intents = live.intents
  BY <1>1, <1>2 DEF Compacted, KernelState
<1>4. TypeOK'
  <2>1. registers' \in Registers
    BY <1>1, <1>2 DEF Registers
  <2>q. QED  BY <1>1, <1>3, <2>1 DEF IInv, TypeOK
<1>5. registers.historical \subseteq history.gameplay /\ live.controls \subseteq history.controls
  BY <1>1, CheckpointFacts DEF Recorded
<1>6. Remembers(live, registers)'
  <2>1. Remembers(live, registers)
    BY DEF IInv, KernelsRemember
  <2>2. /\ live'.revision = Len(log) /\ Gameplay \subseteq history.gameplay
        /\ Controls \subseteq history.controls /\ \A i \in live'.intents : i.key \in Gameplay
    BY <1>3, <1>5, <2>1 DEF Remembers
  <2>q. QED  BY <1>1, <2>2 DEF Remembers, Gameplay, Controls
<1>7. \A k, r : Remembers(k, r)' <=> Remembers(k, r)
  BY <1>1 DEF Remembers, Gameplay, Controls
<1>8. KernelsRemember'
  BY <1>1, <1>6, <1>7 DEF IInv, KernelsRemember, Recovered
<1>9. \A e : DraftFresh(e)' <=> DraftFresh(e)
  BY <1>1, <1>3 DEF DraftFresh, FreshId, Gameplay, Controls
<1>10. DraftsFresh'
  BY <1>1, <1>9, DraftsFreshNext DEF IInv, DraftsFresh
<1>11. LogKeyed' /\ IdentitiesPermanent'
  BY <1>1 DEF IInv, LogKeyed, IdentitiesPermanent, Gameplay
<1>q. QED  BY <1>4, <1>8, <1>10, <1>11 DEF IInv

\* Recovery puts a recovered kernel in the place of the live one.
LEMMA RecoverStep ==
    ASSUME IInv, NEW c \in stored, RecoverFrom(c), log' \in Seq(Batch),
           LogKeyed', IdentitiesPermanent',
           \A p \in Recovered' : p \in Checkpoint /\ Remembers(p.state, p.registers)',
           \A d \in stored : d.state.revision <= Len(log')
    PROVE  IInv'
<1>1. /\ UNCHANGED <<stored, history>> /\ drafts' = [slot \in Slots |-> NoDraft]
      /\ live' = Rehydrated(c, log').state /\ registers' = Rehydrated(c, log').registers
  BY DEF RecoverFrom
<1>2. PICK p : p = Rehydrated(c, log')
  OBVIOUS
<1>3. p \in Checkpoint /\ Remembers(p.state, p.registers)'
  BY <1>1, <1>2 DEF Recovered
<1>4. live' = p.state /\ registers' = p.registers
  BY <1>1, <1>2
<1>5. live' \in KernelState /\ registers' \in Registers /\ Len(log') = live'.revision
  BY <1>3, <1>4 DEF Checkpoint, Remembers
<1>6. TypeOK'
  <2>1. drafts' \in [Slots -> Draft \cup {NoDraft}]
    BY <1>1
  <2>q. QED  BY <1>1, <1>5, <2>1 DEF IInv, TypeOK
<1>7. Remembers(live, registers)'
  BY <1>3, <1>4 DEF Remembers
<1>8. KernelsRemember'
  BY <1>1, <1>7 DEF KernelsRemember
<1>9. DraftsFresh'
  BY <1>1 DEF DraftsFresh
<1>q. QED  BY <1>6, <1>8, <1>9 DEF IInv

LEMMA RestartStep ==
    ASSUME IInv, NEW c \in stored, Restart(c)
    PROVE  IInv'
<1>1. UNCHANGED <<log, stored, history>> /\ RecoverFrom(c) /\ log' \in Seq(Batch)
  BY TypeFacts DEF Restart, RecoverFrom, IInv
<1>2. LogKeyed' /\ IdentitiesPermanent'
  BY <1>1 DEF IInv, LogKeyed, IdentitiesPermanent, Gameplay
<1>3. \A k, r : Remembers(k, r)' <=> Remembers(k, r)
  BY <1>1 DEF Remembers, Gameplay, Controls
<1>4. \A p \in Recovered' : p \in Checkpoint /\ Remembers(p.state, p.registers)'
  BY <1>1, <1>3 DEF IInv, KernelsRemember, Recovered
<1>5. \A d \in stored : d.state.revision <= Len(log')
  BY <1>1 DEF IInv, KernelsRemember
<1>q. QED  BY <1>1, <1>2, <1>4, <1>5, RecoverStep

LEMMA CrashStep ==
    ASSUME IInv, NEW slot \in Slots, NEW c \in stored, CrashAfterPersist(slot, c)
    PROVE  IInv'
<1>1. PICK b : b = drafts[slot].batch
  OBVIOUS
<1>2. LogGrows(b)
  BY <1>1, CommitGrows DEF CrashAfterPersist
<1>3. RecoverFrom(c) /\ UNCHANGED <<history, stored>>
  BY DEF CrashAfterPersist, RecoverFrom
<1>4. LogKeyed' /\ IdentitiesPermanent'
  BY <1>2, GrownLog
<1>5. /\ \A p \in Recovered' : p \in Checkpoint /\ Remembers(p.state, p.registers)'
      /\ \A d \in stored : d.state.revision <= Len(log')
  BY <1>2, <1>3, GrownRecovered
<1>6. log' \in Seq(Batch)
  BY <1>2, GrownIds DEF IInv
<1>q. QED  BY <1>3, <1>4, <1>5, <1>6, RecoverStep

LEMMA InvInit == Init => IInv
<1> SUFFICES ASSUME Init PROVE IInv
  OBVIOUS
<1>1. /\ live = [revision |-> 0, cursor |-> 0, intents |-> {}, receipts |-> {},
                 rejected |-> {}, controls |-> {}, events |-> {}]
      /\ registers = [historical |-> {}, interests |-> {}, floor |-> 0]
      /\ drafts = [slot \in Slots |-> NoDraft] /\ log = <<>> /\ stored = {}
      /\ history = [gameplay |-> {}, interests |-> {}, controls |-> {}]
  BY DEF Init
<1>2. TypeOK
  <2>1. live \in KernelState /\ live.revision = 0
    BY <1>1 DEF KernelState
  <2>2. registers \in Registers
    BY <1>1 DEF Registers
  <2>3. log \in Seq(Batch) /\ Len(log) = 0
    BY <1>1
  <2>q. QED  BY <1>1, <2>1, <2>2, <2>3 DEF TypeOK
<1>3. Gameplay = {} /\ Controls = {}
  BY <1>1 DEF Gameplay, Controls
<1>4. LogKeyed /\ IdentitiesPermanent /\ DraftsFresh
  BY <1>1 DEF LogKeyed, IdentitiesPermanent, DraftsFresh
<1>5. KernelsRemember
  BY <1>1, <1>3 DEF KernelsRemember, Remembers, Recovered
<1>q. QED  BY <1>2, <1>4, <1>5 DEF IInv

LEMMA InvNext == IInv /\ [Next]_vars => IInv'
<1> SUFFICES ASSUME IInv, [Next]_vars PROVE IInv'
  OBVIOUS
<1>1. ASSUME NEW slot \in Slots, NEW b \in Batch, Keyed(b), FreshId(b), Prepare(slot, b)
      PROVE  IInv'
  BY <1>1, PrepareStep
<1>2. ASSUME NEW slot \in Slots,
             \/ \E key \in Key :
                  \/ \E forged \in BOOLEAN : PrepareIntent(slot, key, forged)
                  \/ PrepareInterest(slot, key)
                  \/ PrepareControlTransition(slot, key)
             \/ PrepareAdvance(slot)
      PROVE  IInv'
  BY <1>1, <1>2, PrepareIsFresh
<1>3. ASSUME NEW slot \in Slots, Commit(slot) \/ Discard(slot) PROVE IInv'
  BY <1>3, CommitStep, DiscardStep
<1>4. ASSUME NEW slot \in Slots, NEW c \in stored, CrashAfterPersist(slot, c) PROVE IInv'
  BY <1>4, CrashStep
<1>5. CASE StoreCheckpoint
  BY <1>5, StoreStep
<1>6. ASSUME NEW c \in stored, RecordHistory(c) \/ compact(c) \/ Restart(c) PROVE IInv'
  BY <1>6, RecordStep, compactStep, RestartStep
<1>7. CASE UNCHANGED vars
  <2>1. UNCHANGED <<live, registers, drafts, log, stored, history>>
    BY <1>7 DEF vars
  <2>2. TypeOK'
    BY <2>1 DEF IInv, TypeOK
  <2>3. LogKeyed' /\ KernelsRemember' /\ IdentitiesPermanent'
    BY <2>1 DEF IInv, LogKeyed, KernelsRemember, IdentitiesPermanent, Remembers, Recovered,
                Gameplay, Controls
  <2>4. DraftsFresh'
    BY <2>1 DEF IInv, DraftsFresh, DraftFresh, FreshId, Gameplay, Controls
  <2>q. QED  BY <2>2, <2>3, <2>4 DEF IInv
<1>q. QED  BY <1>2, <1>3, <1>4, <1>5, <1>6, <1>7 DEF Next

LEMMA InvAlways == Spec => []IInv
BY InvInit, InvNext, PTL DEF Spec

\* The kernel, its registers, drafts and checkpoints and the host's log and
\* history keep their types through compaction, crashes and recovery, and the
\* log is as long as the kernel's revision (commit, compact and
\* rehydrateKernelFromCheckpoint in session.ts).
THEOREM CompactionTypeCorrect == Spec => []TypeOK
<1>1. IInv => TypeOK
  BY DEF IInv
<1>q. QED  BY <1>1, InvAlways, PTL

\* However the host compacts, restarts and recovers, no id is used twice: the
\* kernel that lost an id to compaction still refuses it through historyLookup.
THEOREM IdentitiesArePermanent == Spec => []IdentitiesPermanent
<1>1. IInv => IdentitiesPermanent
  BY DEF IInv
<1>q. QED  BY <1>1, InvAlways, PTL

-----------------------------------------------------------------------------
(* A host that compacts only when it holds no draft.                       *)

\* What kernels answer alike they answer alike after the same batch.
LEMMA AfterAlike ==
    ASSUME NEW k \in KernelState, NEW l \in KernelState, NEW b \in Batch, Keyed(b),
           k.revision = l.revision, k.cursor = l.cursor, k.intents = l.intents,
           k.receipts = l.receipts
    PROVE  /\ After(k, b).cursor = After(l, b).cursor
           /\ After(k, b).intents = After(l, b).intents
           /\ After(k, b).receipts = After(l, b).receipts
<1>b. b.kind \in Kinds
  BY DEF Batch
<1>1. CASE b.kind = "intent"
  <2>1. \A h \in KernelState : b.kind = "intent" =>
          /\ After(h, b).cursor = h.cursor
          /\ After(h, b).intents = h.intents \cup {[key |-> b.key, forged |-> b.forged]}
          /\ After(h, b).receipts = h.receipts \cup {ReceiptOf(h, b.key)}
    BY DEF After, AfterIntent, KernelState
  <2>2. ReceiptOf(k, b.key) = ReceiptOf(l, b.key)
    BY DEF ReceiptOf
  <2>q. QED  BY <1>1, <2>1, <2>2
<1>2. CASE b.kind = "interest"
  <2>1. \A h \in KernelState : b.kind = "interest" =>
          /\ After(h, b).cursor = h.cursor
          /\ After(h, b).intents = h.intents /\ After(h, b).receipts = h.receipts
    BY DEF After, KernelState
  <2>q. QED  BY <1>2, <2>1
<1>3. CASE b.kind = "control"
  <2>1. \A h \in KernelState : b.kind = "control" =>
          /\ After(h, b).cursor = h.cursor
          /\ After(h, b).intents = h.intents /\ After(h, b).receipts = h.receipts
    BY DEF After, AfterControl, KernelState
  <2>q. QED  BY <1>3, <2>1
<1>4. CASE b.kind = "tick"
  <2>1. \A h \in KernelState : b.kind = "tick" =>
          /\ After(h, b).cursor = h.cursor + 1
          /\ After(h, b).intents = {}
          /\ After(h, b).receipts =
               {r \in h.receipts : r.cursor >= (h.cursor + 1) - ReceiptRetention}
    <3> SUFFICES ASSUME NEW h \in KernelState, b.kind = "tick"
                 PROVE  /\ After(h, b).cursor = h.cursor + 1
                        /\ After(h, b).intents = {}
                        /\ After(h, b).receipts =
                             {r \in h.receipts : r.cursor >= (h.cursor + 1) - ReceiptRetention}
      OBVIOUS
    <3>1. PICK t : t = AfterTick(h)
      OBVIOUS
    <3>2. /\ t.cursor = h.cursor + 1 /\ t.intents = {}
          /\ t.receipts = {r \in h.receipts : r.cursor >= (h.cursor + 1) - ReceiptRetention}
      BY <3>1 DEF AfterTick, Evict, KernelState
    <3>3. /\ After(h, b).cursor = t.cursor /\ After(h, b).intents = t.intents
          /\ After(h, b).receipts = t.receipts
      <4>1. After(h, b) = [t EXCEPT !.revision = h.revision + 1,
                                    !.events = @ \cup {h.revision + 1}]
        BY <3>1 DEF After
      <4>2. /\ t.cursor = h.cursor + 1 /\ DOMAIN t = DOMAIN h
        BY <3>1 DEF AfterTick, Evict, KernelState
      <4>q. QED  BY <4>1, <4>2 DEF KernelState
    <3>q. QED  BY <3>2, <3>3
  <2>q. QED  BY <1>4, <2>1
<1>5. CASE b.kind = "rejection"
  <2>1. \A h \in KernelState : b.kind = "rejection" =>
          /\ After(h, b).cursor = h.cursor
          /\ After(h, b).intents = {i \in h.intents : i.key # b.key}
          /\ After(h, b).receipts = {r \in h.receipts : r.key # b.key}
    BY DEF After, AfterRejection, KernelState
  <2>q. QED  BY <1>5, <2>1
<1>q. QED  BY <1>b, <1>1, <1>2, <1>3, <1>4, <1>5 DEF Kinds

Alike(p, q) ==
    /\ p.state.revision = q.state.revision /\ p.state.cursor = q.state.cursor
    /\ p.state.intents = q.state.intents /\ p.state.receipts = q.state.receipts
    /\ p.state.controls \cup history.controls = q.state.controls \cup history.controls
    /\ p.registers.historical \cup history.gameplay
         = q.registers.historical \cup history.gameplay
    /\ p.registers.interests \cup history.interests
         = q.registers.interests \cup history.interests

LEMMA AlikeAnswers ==
    \A p, q : Alike(p, q) <=>
                Answers(p.state, p.registers) = Answers(q.state, q.registers)
BY DEF Alike, Answers

Grown(p, b, q) ==
    /\ q.state.revision = p.state.revision + 1
    /\ q.state.controls =
         IF b.kind = "control" THEN p.state.controls \cup {b.key} ELSE p.state.controls
    /\ q.registers.historical =
         IF b.kind \in {"intent", "interest"} THEN p.registers.historical \cup {b.key}
                                              ELSE p.registers.historical
    /\ q.registers.interests =
         IF b.kind = "interest" THEN p.registers.interests \cup {b.key}
                                ELSE p.registers.interests

LEMMA ReplayFields ==
    ASSUME NEW p \in Checkpoint, NEW b \in Batch, Keyed(b)
    PROVE  Grown(p, b, Replay(p, b))
<1>1. p.state \in KernelState /\ p.registers \in Registers
  BY DEF Checkpoint
<1>2. PICK k, r : k = p.state /\ r = p.registers
  OBVIOUS
<1>3. Replay(p, b).state = After(k, b) /\ Replay(p, b).registers = Register(r, b)
  BY <1>2, ReplayFacts
<1>4. /\ After(k, b).revision = k.revision + 1
      /\ After(k, b).controls =
           IF b.kind = "control" THEN k.controls \cup {b.key} ELSE k.controls
  BY <1>1, <1>2, AfterFacts
<1>5. /\ Register(r, b).historical =
           IF b.kind \in {"intent", "interest"} THEN r.historical \cup {b.key}
                                                ELSE r.historical
      /\ Register(r, b).interests =
           IF b.kind = "interest" THEN r.interests \cup {b.key} ELSE r.interests
  BY <1>1, <1>2, RegisterFacts
<1>q. QED  BY <1>2, <1>3, <1>4, <1>5 DEF Grown

LEMMA AlikeGrows ==
    ASSUME NEW p \in Checkpoint, NEW q \in Checkpoint, NEW b \in Batch, Keyed(b),
           Alike(p, q), UNCHANGED history
    PROVE  Alike(Replay(p, b), Replay(q, b))'
<1>1. /\ p.state \in KernelState /\ q.state \in KernelState
      /\ p.registers \in Registers /\ q.registers \in Registers
  BY DEF Checkpoint
<1> DEFINE pn == Replay(p, b)
           qn == Replay(q, b)
<1>2. /\ pn.state = After(p.state, b) /\ pn.registers = Register(p.registers, b)
      /\ qn.state = After(q.state, b) /\ qn.registers = Register(q.registers, b)
  BY ReplayFacts
<1>3. /\ pn.state.cursor = qn.state.cursor /\ pn.state.intents = qn.state.intents
      /\ pn.state.receipts = qn.state.receipts
  <2>1. /\ p.state.revision = q.state.revision /\ p.state.cursor = q.state.cursor
        /\ p.state.intents = q.state.intents /\ p.state.receipts = q.state.receipts
    BY DEF Alike
  <2>2. /\ After(p.state, b).cursor = After(q.state, b).cursor
        /\ After(p.state, b).intents = After(q.state, b).intents
        /\ After(p.state, b).receipts = After(q.state, b).receipts
    BY <1>1, <2>1, AfterAlike
  <2>q. QED  BY <1>2, <2>2
<1>4. /\ Grown(p, b, pn) /\ Grown(q, b, qn)
  BY ReplayFields
<1> HIDE DEF pn, qn
<1>6. pn.state.revision = qn.state.revision
  BY <1>4 DEF Alike, Grown
<1>7. pn.state.controls \cup history.controls = qn.state.controls \cup history.controls
  BY <1>4 DEF Alike, Grown
<1>8. pn.registers.historical \cup history.gameplay
        = qn.registers.historical \cup history.gameplay
  BY <1>4 DEF Alike, Grown
<1>9. pn.registers.interests \cup history.interests
        = qn.registers.interests \cup history.interests
  BY <1>4 DEF Alike, Grown
<1>10. Alike(pn, qn)
  BY <1>3, <1>6, <1>7, <1>8, <1>9 DEF Alike
<1>q. QED  BY <1>10 DEF Alike, pn, qn

LEMMA GrownRejections ==
    ASSUME TypeOK, NEW b, LogGrows(b), NEW r \in Nat, r <= Len(log)
    PROVE  RejectionsAfter(r)' =
             RejectionsAfter(r) \cup
               (IF b.kind = "rejection" THEN {[key |-> b.key, at |-> Len(log) + 1]} ELSE {})
<1>1. /\ Len(log) \in Nat /\ log \in Seq(Batch)
  BY TypeFacts
<1>2. /\ log' \in Seq(Batch) /\ Len(log') = Len(log) + 1 /\ log'[Len(log) + 1] = b
      /\ \A n \in 1..Len(log) : log'[n] = log[n]
  BY GrownIds
<1>3. DOMAIN log = 1..Len(log) /\ DOMAIN log' = 1..(Len(log) + 1)
  BY <1>1, <1>2
<1> SUFFICES ASSUME NEW x
             PROVE  x \in RejectionsAfter(r)' <=>
                      \/ x \in RejectionsAfter(r)
                      \/ b.kind = "rejection" /\ x = [key |-> b.key, at |-> Len(log) + 1]
  OBVIOUS
<1>4. x \in RejectionsAfter(r)' <=>
        \E n \in 1..(Len(log) + 1) :
            n > r /\ log'[n].kind = "rejection" /\ x = [key |-> log'[n].key, at |-> n]
  BY <1>3 DEF RejectionsAfter
<1>5. x \in RejectionsAfter(r) <=>
        \E n \in 1..Len(log) :
            n > r /\ log[n].kind = "rejection" /\ x = [key |-> log[n].key, at |-> n]
  BY <1>3 DEF RejectionsAfter
<1>6. /\ \A n \in 1..(Len(log) + 1) : n \in 1..Len(log) \/ n = Len(log) + 1
      /\ \A n \in 1..Len(log) : n \in 1..(Len(log) + 1)
      /\ Len(log) + 1 \in 1..(Len(log) + 1) /\ Len(log) + 1 > r
  BY <1>1
<1>q. QED  BY <1>2, <1>4, <1>5, <1>6

LEMMA GrownFaithful ==
    ASSUME TypeOK, NEW b, LogGrows(b), NEW k \in KernelState, NEW r \in Registers,
           k.revision = Len(log), Faithful(k, r)
    PROVE  Faithful(After(k, b), Register(r, b))'
<1>1. b \in Batch /\ Keyed(b) /\ r.floor \in Nat /\ Len(log) \in Nat
  BY TypeFacts DEF LogGrows, Registers
<1>2. /\ After(k, b).events = k.events \cup {k.revision + 1}
      /\ After(k, b).rejected =
           IF b.kind = "rejection"
           THEN k.rejected \cup {[key |-> b.key, at |-> k.revision + 1]} ELSE k.rejected
  BY <1>1, AfterFacts
<1>3. Register(r, b).floor = r.floor
  BY <1>1, RegisterFacts
<1>4. Len(log') = Len(log) + 1
  BY GrownIds
<1>5. r.floor <= Len(log) /\ r.floor <= Len(log')
  BY <1>1, <1>4 DEF Faithful
<1>6. RejectionsAfter(r.floor)' =
        RejectionsAfter(r.floor) \cup
          (IF b.kind = "rejection" THEN {[key |-> b.key, at |-> Len(log) + 1]} ELSE {})
  <2>1. PICK floor : floor = r.floor
    OBVIOUS
  <2>2. RejectionsAfter(floor)' =
          RejectionsAfter(floor) \cup
            (IF b.kind = "rejection" THEN {[key |-> b.key, at |-> Len(log) + 1]} ELSE {})
    BY <1>1, <1>5, <2>1, GrownRejections
  <2>q. QED  BY <2>1, <2>2
<1>7. After(k, b).rejected = RejectionsAfter(r.floor)'
  BY <1>2, <1>6 DEF Faithful
<1>8. \E base \in r.floor..Len(log') : After(k, b).events = (base + 1)..Len(log')
  <2>1. PICK base \in r.floor..Len(log) : k.events = (base + 1)..Len(log)
    BY DEF Faithful
  <2>2. k.events \cup {Len(log) + 1} = (base + 1)..(Len(log) + 1)
    BY <1>1, <2>1
  <2>q. QED  BY <1>1, <1>2, <1>4, <2>1, <2>2
<1>q. QED  BY <1>3, <1>5, <1>7, <1>8 DEF Faithful

\* What holds between a host that compacts only without drafts and its kernels.
LEMMA FaithfulFacts ==
    ASSUME IInv, FInv
    PROVE  /\ Live \in Checkpoint /\ Live.state = live /\ Live.registers = registers
           /\ \A p \in Recovered \cup {Live} :
                /\ p \in Checkpoint /\ p.state \in KernelState /\ p.registers \in Registers
                /\ p.state.revision = Len(log) /\ Faithful(p.state, p.registers)
                /\ Alike(p, Live)
<1>1. Live \in Checkpoint /\ Live.state = live /\ Live.registers = registers
  BY TypeFacts DEF IInv, Live, Checkpoint
<1>2. ASSUME NEW p \in Recovered PROVE Alike(p, Live)
  BY <1>1, AlikeAnswers DEF FInv, RecoveryAnswersAlike, Recovered
<1>3. Alike(Live, Live)
  BY DEF Alike
<1>4. \A p \in Checkpoint : p.state \in KernelState /\ p.registers \in Registers
  BY DEF Checkpoint
<1>5. \A p \in Recovered \cup {Live} :
        p \in Checkpoint /\ p.state.revision = Len(log) /\ Faithful(p.state, p.registers)
  BY <1>1 DEF IInv, KernelsRemember, Remembers, FInv, KernelsFaithful
<1>q. QED  BY <1>1, <1>2, <1>3, <1>4, <1>5

\* The log grows and the live kernel, or one recovered in its place, with it.
LEMMA FaithfulGrows ==
    ASSUME IInv, FInv, NEW b, LogGrows(b), UNCHANGED <<history, stored>>,
           NEW p \in Recovered \cup {Live}, Live' = Replay(p, b),
           \A s \in Slots : drafts'[s] # NoDraft => drafts'[s].base # live'.revision
    PROVE  FInv'
<1>1. b \in Batch /\ Keyed(b) /\ TypeOK
  BY DEF LogGrows, IInv
<1>2. ASSUME NEW q \in Recovered \cup {Live}
      PROVE  Faithful(Replay(q, b).state, Replay(q, b).registers)'
  <2>1. PICK k, r : k = q.state /\ r = q.registers
    OBVIOUS
  <2>2. Faithful(After(k, b), Register(r, b))'
    BY <1>1, <2>1, FaithfulFacts, GrownFaithful
  <2>3. Replay(q, b).state = After(k, b) /\ Replay(q, b).registers = Register(r, b)
    BY <1>1, <2>1, FaithfulFacts, ReplayFacts
  <2>q. QED  BY <2>2, <2>3
<1>3. Live'.state = live' /\ Live'.registers = registers'
  BY DEF Live
<1>4. PICK m : m = Replay(p, b)
  OBVIOUS
<1>5. live' = m.state /\ registers' = m.registers
  BY <1>3, <1>4
<1>6. \A c \in stored : Rehydrated(c, log') = Replay(Rehydrated(c, log), b)
  BY GrownRecovered
<1>7. Faithful(live, registers)'
  <2>1. Faithful(m.state, m.registers)'
    BY <1>2, <1>4
  <2>q. QED  BY <1>5, <2>1 DEF Faithful
<1>8. ASSUME NEW q \in Recovered' PROVE Faithful(q.state, q.registers)'
  <2>1. PICK c \in stored : q = Rehydrated(c, log')
    BY <1>8 DEF Recovered
  <2>2. PICK o : o = Rehydrated(c, log)
    OBVIOUS
  <2>3. o \in Recovered /\ q = Replay(o, b)
    BY <1>6, <2>1, <2>2 DEF Recovered
  <2>q. QED  BY <1>2, <2>3
<1>9. RecoveryAnswersAlike'
  <2>1. ASSUME NEW c \in stored, NEW q, q = Rehydrated(c, log')
        PROVE  /\ Restorable(c)
               /\ Answers(q.state, q.registers)' = Answers(live, registers)'
    <3>1. Restorable(c)
      BY DEF FInv, RecoveryAnswersAlike
    <3>2. PICK o : o = Rehydrated(c, log)
      OBVIOUS
    <3>3. o \in Recovered /\ q = Replay(o, b)
      BY <1>6, <2>1, <3>2 DEF Recovered
    <3>4. Alike(o, p) /\ o \in Checkpoint /\ p \in Checkpoint
      BY <3>3, FaithfulFacts DEF Alike
    <3>5. Alike(q, m)'
      BY <1>1, <1>4, <3>3, <3>4, AlikeGrows
    <3>6. Answers(q.state, q.registers)' = Answers(m.state, m.registers)'
      BY <3>5 DEF Alike, Answers
    <3>q. QED  BY <1>5, <3>1, <3>6 DEF Answers
  <2>2. \A c \in stored : \A q : q = Rehydrated(c, log') =>
          Restorable(c) /\ Answers(q.state, q.registers)' = Answers(live, registers)'
    BY <2>1
  <2>q. QED  BY <2>2 DEF RecoveryAnswersAlike, Answers
<1>10. KernelsFaithful' /\ DraftsCurrent'
  BY <1>7, <1>8 DEF KernelsFaithful, DraftsCurrent
<1>q. QED  BY <1>9, <1>10 DEF FInv

LEMMA FaithfulCommit ==
    ASSUME IInv, FInv, NEW slot \in Slots, Commit(slot)
    PROVE  FInv'
<1>1. PICK d : d = drafts[slot]
  OBVIOUS
<1>2. /\ d # NoDraft /\ d.base = live.revision /\ live' = d.next
      /\ registers' = Register(registers, d.batch) /\ log' = Append(log, d.batch)
      /\ drafts' = [drafts EXCEPT ![slot] = NoDraft] /\ UNCHANGED <<stored, history>>
  BY <1>1 DEF Commit
<1>3. LogGrows(d.batch) /\ d.batch \in Batch /\ Keyed(d.batch)
  BY <1>1, <1>2, CommitGrows DEF LogGrows
<1>4. live' = After(live, d.batch)
  BY <1>1, <1>2 DEF FInv, DraftsCurrent
<1>5. Live' = Replay(Live, d.batch)
  BY <1>2, <1>4 DEF Live, Replay
<1>6. \A s \in Slots : drafts'[s] # NoDraft => drafts'[s].base # live'.revision
  <2>1. live \in KernelState /\ live.revision \in Nat
    BY TypeFacts DEF IInv
  <2>2. live'.revision = live.revision + 1
    BY <1>3, <1>4, <2>1, AfterFacts
  <2>3. drafts \in [Slots -> Draft \cup {NoDraft}]
    BY DEF IInv, TypeOK
  <2>4. ASSUME NEW s \in Slots, drafts[s] # NoDraft
        PROVE  drafts[s].base \in Nat /\ drafts[s].base <= live.revision
    BY <2>4, TypeFacts DEF IInv, DraftsFresh, DraftFresh
  <2>5. ASSUME NEW s \in Slots, drafts'[s] # NoDraft PROVE drafts'[s].base # live'.revision
    <3>1. drafts'[s] = drafts[s]
      BY <1>2, <2>3, <2>5
    <3>2. drafts[s].base \in Nat /\ drafts[s].base <= live.revision
      BY <2>4, <2>5, <3>1
    <3>q. QED  BY <2>1, <2>2, <3>1, <3>2
  <2>q. QED  BY <2>5
<1>7. PICK b : b = d.batch
  OBVIOUS
<1>8. PICK p : p = Live
  OBVIOUS
<1>9. LogGrows(b) /\ p \in Recovered \cup {Live} /\ Live' = Replay(p, b)
  BY <1>3, <1>5, <1>7, <1>8
<1>q. QED  BY <1>2, <1>6, <1>9, FaithfulGrows

LEMMA FaithfulCrash ==
    ASSUME IInv, FInv, NEW slot \in Slots, NEW c \in stored, CrashAfterPersist(slot, c)
    PROVE  FInv'
<1>1. PICK b : b = drafts[slot].batch
  OBVIOUS
<1>2. LogGrows(b)
  BY <1>1, CommitGrows DEF CrashAfterPersist
<1>3. /\ UNCHANGED <<history, stored>> /\ drafts' = [s \in Slots |-> NoDraft]
      /\ live' = Rehydrated(c, log').state /\ registers' = Rehydrated(c, log').registers
  BY DEF CrashAfterPersist, RecoverFrom
<1>4. PICK p : p = Rehydrated(c, log)
  OBVIOUS
<1>5. p \in Recovered /\ Rehydrated(c, log') = Replay(p, b)
  BY <1>2, <1>3, <1>4, GrownRecovered DEF Recovered
<1>6. Live' = Replay(p, b)
  BY <1>3, <1>5 DEF Live, Replay
<1>q. QED  BY <1>2, <1>3, <1>5, <1>6, FaithfulGrows

LEMMA FaithfulRestart ==
    ASSUME IInv, FInv, NEW c \in stored, Restart(c)
    PROVE  FInv'
<1>1. /\ UNCHANGED <<log, stored, history>> /\ drafts' = [s \in Slots |-> NoDraft]
      /\ live' = Rehydrated(c, log).state /\ registers' = Rehydrated(c, log).registers
  BY DEF Restart, RecoverFrom
<1>2. PICK p : p = Rehydrated(c, log)
  OBVIOUS
<1>3. p \in Recovered /\ live' = p.state /\ registers' = p.registers
  BY <1>1, <1>2 DEF Recovered
<1>4. Faithful(p.state, p.registers) /\ Alike(p, Live)
  BY <1>3, FaithfulFacts
<1>5. \A k, r : Faithful(k, r)' <=> Faithful(k, r)
  BY <1>1 DEF Faithful, RejectionsAfter
<1>6. KernelsFaithful'
  <2>1. Faithful(live, registers)'
    BY <1>1, <1>3, <1>4 DEF Faithful, RejectionsAfter
  <2>q. QED  BY <1>1, <1>5, <2>1 DEF FInv, KernelsFaithful, Recovered
<1>7. RecoveryAnswersAlike'
  <2>1. Answers(p.state, p.registers) = Answers(live, registers)
    BY <1>4, AlikeAnswers DEF Live
  <2>2. Answers(live, registers)' = Answers(live, registers)
    BY <1>1, <1>3, <2>1 DEF Answers
  <2>q. QED  BY <1>1, <2>2 DEF FInv, RecoveryAnswersAlike, Answers
<1>8. DraftsCurrent'
  BY <1>1 DEF DraftsCurrent
<1>q. QED  BY <1>6, <1>7, <1>8 DEF FInv

LEMMA FaithfulDrafts ==
    ASSUME IInv, FInv, UNCHANGED <<live, registers, log, stored, history>>,
           \A s \in Slots : \/ drafts'[s] = drafts[s] \/ drafts'[s] = NoDraft
                            \/ drafts'[s].next = After(live, drafts'[s].batch)
    PROVE  FInv'
<1>1. KernelsFaithful' /\ RecoveryAnswersAlike'
  <2>1. \A k, r : Faithful(k, r)' <=> Faithful(k, r)
    BY DEF Faithful, RejectionsAfter
  <2>2. Faithful(live, registers)'
    BY DEF FInv, KernelsFaithful, Faithful, RejectionsAfter
  <2>3. KernelsFaithful'
    BY <2>1, <2>2 DEF FInv, KernelsFaithful, Recovered
  <2>4. RecoveryAnswersAlike'
    BY DEF FInv, RecoveryAnswersAlike, Answers
  <2>q. QED  BY <2>3, <2>4
<1>2. DraftsCurrent'
  <2>1. ASSUME NEW s \in Slots, drafts'[s] # NoDraft, drafts'[s].base = live.revision
        PROVE  drafts'[s].next = After(live, drafts'[s].batch)
    BY <2>1 DEF FInv, DraftsCurrent
  <2>2. \A b : After(live', b) = After(live, b)
    OBVIOUS
  <2>q. QED  BY <2>1, <2>2 DEF DraftsCurrent
<1>q. QED  BY <1>1, <1>2 DEF FInv

LEMMA FaithfulPrepare ==
    ASSUME IInv, FInv, NEW slot \in Slots, NEW b, Prepare(slot, b)
    PROVE  FInv'
<1>1. /\ UNCHANGED <<live, registers, log, stored, history>>
      /\ drafts' = [drafts EXCEPT ![slot] =
            [base |-> live.revision, next |-> After(live, b), batch |-> b]]
      /\ drafts \in [Slots -> Draft \cup {NoDraft}]
  BY DEF Prepare, IInv, TypeOK
<1>2. \A s \in Slots : drafts'[s] = drafts[s]
                       \/ drafts'[s].next = After(live, drafts'[s].batch)
  BY <1>1
<1>q. QED  BY <1>1, <1>2, FaithfulDrafts

LEMMA FaithfulDiscard ==
    ASSUME IInv, FInv, NEW slot \in Slots, Discard(slot)
    PROVE  FInv'
<1>1. /\ UNCHANGED <<live, registers, log, stored, history>>
      /\ drafts' = [drafts EXCEPT ![slot] = NoDraft]
      /\ drafts \in [Slots -> Draft \cup {NoDraft}]
  BY DEF Discard, IInv, TypeOK
<1>2. \A s \in Slots : drafts'[s] = drafts[s] \/ drafts'[s] = NoDraft
  BY <1>1
<1>q. QED  BY <1>1, <1>2, FaithfulDrafts

\* A checkpoint restores to a kernel like the live one, without its events.
LEMMA FaithfulStore ==
    ASSUME IInv, FInv, StoreCheckpoint
    PROVE  FInv'
<1>1. UNCHANGED <<live, registers, drafts, log, history>> /\ stored' = stored \cup {checkpoint}
  BY DEF StoreCheckpoint
<1>2. PICK c : c = checkpoint
  OBVIOUS
<1>3. PICK p : p = Restore(c)
  OBVIOUS
<1>4. /\ Rehydrated(c, log) = p /\ c.registers = registers
      /\ c.state.revision = live.revision /\ c.state.rejected = live.rejected
      /\ p.state = c.state /\ p.registers = registers /\ p.state.events = {}
      /\ p.state.cursor = live.cursor /\ p.state.intents = live.intents
      /\ p.state.receipts = live.receipts /\ p.state.controls = live.controls
  BY <1>2, <1>3, CheckpointFacts, RestoreFacts
<1>5. /\ Len(log) = live.revision /\ Len(log) \in Nat /\ registers.floor \in Nat
      /\ registers.floor <= Len(log) /\ live.rejected = RejectionsAfter(registers.floor)
  BY TypeFacts DEF IInv, FInv, KernelsFaithful, Faithful, Registers
<1>6. Faithful(p.state, p.registers)
  <2>1. p.state.events = (Len(log) + 1)..Len(log) /\ Len(log) \in registers.floor..Len(log)
    BY <1>4, <1>5
  <2>2. p.state.rejected = RejectionsAfter(registers.floor)
    BY <1>4, <1>5
  <2>q. QED  BY <1>4, <1>5, <2>1, <2>2 DEF Faithful
<1>7. Restorable(c)
  <2>1. \A t \in RejectionsAfter(registers.floor) : t.at \in (registers.floor + 1)..live.revision
    <3>1. DOMAIN log = 1..Len(log)
      BY TypeFacts DEF IInv
    <3>q. QED  BY <1>5, <3>1 DEF RejectionsAfter
  <2>q. QED  BY <1>4, <1>5, <2>1 DEF Restorable
<1>8. Answers(p.state, p.registers) = Answers(live, registers)
  BY <1>4 DEF Answers
<1>9. RecoveryAnswersAlike'
  <2>1. \A d \in stored \cup {c} :
          /\ Restorable(d)
          /\ Answers(Rehydrated(d, log).state, Rehydrated(d, log).registers)
               = Answers(live, registers)
    BY <1>4, <1>7, <1>8 DEF FInv, RecoveryAnswersAlike
  <2>q. QED  BY <1>1, <1>2, <2>1 DEF RecoveryAnswersAlike, Answers
<1>10. KernelsFaithful'
  <2>1. Recovered' = Recovered \cup {p}
    BY <1>1, <1>2, <1>4 DEF Recovered
  <2>2. \A k, r : Faithful(k, r)' <=> Faithful(k, r)
    BY <1>1 DEF Faithful, RejectionsAfter
  <2>3. Faithful(live, registers)'
    BY <1>1 DEF FInv, KernelsFaithful, Faithful, RejectionsAfter
  <2>q. QED  BY <1>6, <2>1, <2>2, <2>3 DEF FInv, KernelsFaithful
<1>11. DraftsCurrent'
  BY <1>1 DEF FInv, DraftsCurrent
<1>q. QED  BY <1>9, <1>10, <1>11 DEF FInv

LEMMA FaithfulRecord ==
    ASSUME IInv, FInv, NEW c \in stored, RecordHistory(c)
    PROVE  FInv'
<1>1. /\ UNCHANGED <<live, registers, drafts, log, stored>>
      /\ history' = [gameplay  |-> history.gameplay \cup c.registers.historical,
                     interests |-> history.interests \cup c.registers.interests,
                     controls  |-> history.controls \cup c.state.controls]
  BY DEF RecordHistory
<1>2. \A p, q : Alike(p, q) => Alike(p, q)'
  BY <1>1 DEF Alike
<1>3. ASSUME NEW d \in stored, NEW p, p = Rehydrated(d, log)
      PROVE  Restorable(d) /\ Answers(p.state, p.registers)' = Answers(live, registers)'
  <2>1. PICK l : l = Live
    OBVIOUS
  <2>2. p \in Recovered /\ l.state = live /\ l.registers = registers
    BY <1>3, <2>1 DEF Recovered, Live
  <2>3. Alike(p, l)
    BY <2>1, <2>2, FaithfulFacts
  <2>4. Alike(p, l)'
    BY <1>2, <2>3
  <2>5. Answers(p.state, p.registers)' = Answers(l.state, l.registers)'
    BY <2>4 DEF Alike, Answers
  <2>q. QED  BY <1>1, <2>2, <2>5 DEF FInv, RecoveryAnswersAlike, Answers
<1>4. RecoveryAnswersAlike'
  <2>1. \A d \in stored : \A p : p = Rehydrated(d, log) =>
          Restorable(d) /\ Answers(p.state, p.registers)' = Answers(live, registers)'
    BY <1>3
  <2>q. QED  BY <1>1, <2>1 DEF RecoveryAnswersAlike, Answers
<1>5. KernelsFaithful' /\ DraftsCurrent'
  BY <1>1 DEF FInv, KernelsFaithful, Recovered, Faithful, RejectionsAfter, DraftsCurrent
<1>q. QED  BY <1>4, <1>5 DEF FInv

LEMMA FaithfulCompact ==
    ASSUME ~StraddlingCompaction, IInv, FInv, NEW c \in stored, compact(c)
    PROVE  FInv'
<1>1. /\ UNCHANGED <<drafts, log, stored, history>> /\ c = checkpoint /\ Recorded(c)
      /\ live' = Compacted(live) /\ \A s \in Slots : drafts[s] = NoDraft
      /\ registers' = [historical |-> {}, interests |-> {}, floor |-> live.revision]
  BY DEF compact
<1>2. live \in KernelState /\ live.revision \in Nat /\ Len(log) = live.revision
  BY TypeFacts DEF IInv
<1>3. /\ live'.revision = live.revision /\ live'.cursor = live.cursor
      /\ live'.intents = live.intents /\ live'.receipts = live.receipts
      /\ live'.controls = {} /\ live'.rejected = {} /\ live'.events = {}
  BY <1>1, <1>2 DEF Compacted, KernelState
<1>4. /\ registers.historical \subseteq history.gameplay
      /\ registers.interests \subseteq history.interests
      /\ live.controls \subseteq history.controls
  BY <1>1, CheckpointFacts DEF Recorded
<1>5. Answers(live, registers)' = Answers(live, registers)
  BY <1>1, <1>3, <1>4 DEF Answers
<1>6. RecoveryAnswersAlike'
  BY <1>1, <1>5 DEF FInv, RecoveryAnswersAlike, Answers
<1>7. Faithful(live, registers)'
  <2>1. RejectionsAfter(Len(log)) = {}
    <3>1. DOMAIN log = 1..Len(log)
      BY TypeFacts DEF IInv
    <3>q. QED  BY <1>2, <3>1 DEF RejectionsAfter
  <2>2. live'.events = (Len(log) + 1)..Len(log) /\ Len(log) \in Len(log)..Len(log)
    BY <1>2, <1>3
  <2>3. registers'.floor = Len(log)
    BY <1>1, <1>2
  <2>4. live'.rejected = RejectionsAfter(Len(log))'
    BY <1>1, <1>3, <2>1 DEF RejectionsAfter
  <2>q. QED  BY <1>1, <1>2, <2>2, <2>3, <2>4 DEF Faithful, RejectionsAfter
<1>8. KernelsFaithful'
  BY <1>1, <1>7 DEF FInv, KernelsFaithful, Recovered, Faithful, RejectionsAfter
<1>9. DraftsCurrent'
  BY <1>1 DEF DraftsCurrent
<1>q. QED  BY <1>6, <1>8, <1>9 DEF FInv

LEMMA FaithfulInit == Init => FInv
<1> SUFFICES ASSUME Init PROVE FInv
  OBVIOUS
<1>1. live.rejected = {} /\ live.events = {} /\ registers.floor = 0 /\ log = <<>>
      /\ drafts = [slot \in Slots |-> NoDraft] /\ stored = {}
  BY DEF Init
<1>2. RejectionsAfter(0) = {} /\ Len(log) = 0 /\ live.events = (0 + 1)..0
  BY <1>1 DEF RejectionsAfter
<1>3. Faithful(live, registers)
  BY <1>1, <1>2 DEF Faithful
<1>q. QED  BY <1>1, <1>3 DEF FInv, KernelsFaithful, Recovered, DraftsCurrent,
                             RecoveryAnswersAlike

LEMMA FaithfulNext == ~StraddlingCompaction /\ IInv /\ FInv /\ [Next]_vars => FInv'
<1> SUFFICES ASSUME ~StraddlingCompaction, IInv, FInv, [Next]_vars PROVE FInv'
  OBVIOUS
<1>1. ASSUME NEW slot \in Slots,
             \/ \E key \in Key :
                  \/ \E forged \in BOOLEAN : PrepareIntent(slot, key, forged)
                  \/ PrepareInterest(slot, key)
                  \/ PrepareControlTransition(slot, key)
             \/ PrepareAdvance(slot)
      PROVE  FInv'
  BY <1>1, PrepareIsFresh, FaithfulPrepare
<1>2. ASSUME NEW slot \in Slots, Commit(slot) \/ Discard(slot) PROVE FInv'
  BY <1>2, FaithfulCommit, FaithfulDiscard
<1>3. ASSUME NEW slot \in Slots, NEW c \in stored, CrashAfterPersist(slot, c) PROVE FInv'
  BY <1>3, FaithfulCrash
<1>4. CASE StoreCheckpoint
  BY <1>4, FaithfulStore
<1>5. ASSUME NEW c \in stored, RecordHistory(c) \/ compact(c) \/ Restart(c) PROVE FInv'
  BY <1>5, FaithfulRecord, FaithfulCompact, FaithfulRestart
<1>6. CASE UNCHANGED vars
  BY <1>6, FaithfulDrafts DEF vars
<1>q. QED  BY <1>1, <1>2, <1>3, <1>4, <1>5, <1>6 DEF Next

LEMMA FaithfulAlways ==
    ASSUME ~StraddlingCompaction
    PROVE  Spec => [](IInv /\ FInv)
<1>1. Init => IInv /\ FInv
  BY InvInit, FaithfulInit
<1>2. IInv /\ FInv /\ [Next]_vars => (IInv /\ FInv)'
  BY InvNext, FaithfulNext
<1>q. QED  BY <1>1, <1>2, PTL DEF Spec

\* A host that compacts only while it holds no draft never loses a rejection:
\* a snapshot since any revision at or above the floor names every one that
\* the log holds (rejectionNoticesSince, restoreCheckpoint).
THEOREM RejectionsSurvive ==
    ASSUME ~StraddlingCompaction
    PROVE  Spec => []NoRejectionOmitted
<1>1. IInv /\ FInv => NoRejectionOmitted
  <2> SUFFICES ASSUME IInv, FInv, NEW r \in registers.floor..live.revision
               PROVE  {t \in live.rejected : t.at > r} = RejectionsAfter(r)
    BY DEF NoRejectionOmitted
  <2>1. live.rejected = RejectionsAfter(registers.floor)
    BY DEF FInv, KernelsFaithful, Faithful
  <2>2. DOMAIN log = 1..Len(log) /\ Len(log) \in Nat /\ registers.floor \in Nat
    BY TypeFacts DEF IInv, Registers
  <2>q. QED  BY <2>1, <2>2 DEF RejectionsAfter
<1>q. QED  BY <1>1, FaithfulAlways, PTL

\* For such a host every stored checkpoint can be restored and, with the tail of
\* the log, answers submissions and snapshots as the live kernel does, however
\* the kernel was compacted or recovered since (rehydrateKernelFromCheckpoint).
THEOREM RecoveryIsFaithful ==
    ASSUME ~StraddlingCompaction
    PROVE  Spec => []RecoveryAnswersAlike
<1>1. IInv /\ FInv => RecoveryAnswersAlike
  BY DEF FInv
<1>q. QED  BY <1>1, FaithfulAlways, PTL

\* For such a host the transcript the kernel keeps is a suffix of the log that
\* begins above the floor (compact, liveEvents).
THEOREM TranscriptIsASuffix ==
    ASSUME ~StraddlingCompaction
    PROVE  Spec => []TranscriptAboveFloor
<1>1. IInv /\ FInv => TranscriptAboveFloor
  BY DEF IInv, TypeOK, FInv, KernelsFaithful, Faithful, TranscriptAboveFloor
<1>q. QED  BY <1>1, FaithfulAlways, PTL
===============================================================================
