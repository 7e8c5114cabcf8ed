------------------------ MODULE FollowupQueueProofs ------------------------
(***************************************************************************)
(* Proofs about FollowupQueue for every set of requests and texts and      *)
(* every value of its bounds.                                              *)
(***************************************************************************)
EXTENDS FollowupQueue, TLAPS

-----------------------------------------------------------------------------
(* The operators on queues                                                 *)

\* Changing the state of one item touches nothing else of the queue.
LEMMA SetStateFacts ==
    ASSUME NEW z \in Queue, NEW i \in DOMAIN z.items, NEW s \in ItemState
    PROVE  /\ SetState(z, i, s) \in Queue
           /\ DOMAIN SetState(z, i, s).items = DOMAIN z.items
           /\ Len(SetState(z, i, s).items) = Len(z.items)
           /\ SetState(z, i, s).items[i].state = s
           /\ \A j \in DOMAIN z.items : SetState(z, i, s).items[j].text = z.items[j].text
           /\ \A j \in DOMAIN z.items \ {i} : SetState(z, i, s).items[j] = z.items[j]
           /\ SetState(z, i, s).active = z.active
           /\ SetState(z, i, s).phase = z.phase
<1> DEFINE it == [z.items[i] EXCEPT !.state = s]
           its == [z.items EXCEPT ![i] = it]
<1>1. z.items \in Seq(Item) /\ z.items[i] \in Item
  BY DEF Queue
<1>2. it \in Item /\ it.state = s /\ it.text = z.items[i].text
  BY <1>1 DEF Item
<1>3. /\ its \in Seq(Item) /\ DOMAIN its = DOMAIN z.items /\ Len(its) = Len(z.items)
      /\ its[i] = it /\ \A j \in DOMAIN z.items \ {i} : its[j] = z.items[j]
  BY <1>1, <1>2
<1>4. SetState(z, i, s) = [z EXCEPT !.items = its]
  BY DEF SetState
<1>5. /\ SetState(z, i, s) \in Queue /\ SetState(z, i, s).items = its
      /\ SetState(z, i, s).active = z.active /\ SetState(z, i, s).phase = z.phase
  BY <1>3, <1>4 DEF Queue
<1> QED BY <1>2, <1>3, <1>5

\* attention marks the active item, if there is one, and nothing else.
LEMMA AttentionFacts ==
    ASSUME NEW z \in Queue
    PROVE  /\ attention(z) \in Queue
           /\ DOMAIN attention(z).items = DOMAIN z.items
           /\ Len(attention(z).items) = Len(z.items)
           /\ attention(z).phase = "attention" /\ attention(z).active = z.active
           /\ \A j \in DOMAIN z.items : attention(z).items[j].text = z.items[j].text
           /\ \A j \in DOMAIN z.items : j = z.active => attention(z).items[j].state = "attention"
           /\ \A j \in DOMAIN z.items : j # z.active => attention(z).items[j] = z.items[j]
<1> DEFINE it(i) == IF i = z.active THEN [z.items[i] EXCEPT !.state = "attention"] ELSE z.items[i]
           its == [i \in DOMAIN z.items |-> it(i)]
<1>1. z.items \in Seq(Item) /\ DOMAIN z.items = 1..Len(z.items)
  BY DEF Queue
<1>2. \A i \in DOMAIN z.items : it(i) \in Item /\ it(i).text = z.items[i].text
  <2> TAKE i \in DOMAIN z.items
  <2>1. z.items[i] \in Item
    BY <1>1
  <2>2. /\ [z.items[i] EXCEPT !.state = "attention"] \in Item
        /\ [z.items[i] EXCEPT !.state = "attention"].text = z.items[i].text
    BY <2>1 DEF Item, ItemState
  <2> QED BY <2>1, <2>2
<1>3. \A i \in DOMAIN z.items : i = z.active => it(i).state = "attention"
  BY <1>1 DEF Item
<1>4. its \in Seq(Item) /\ DOMAIN its = DOMAIN z.items /\ Len(its) = Len(z.items)
  BY <1>1, <1>2
<1>5. attention(z) = [z EXCEPT !.phase = "attention", !.paused = TRUE, !.items = its]
  BY DEF attention
<1>6. /\ attention(z) \in Queue /\ attention(z).items = its
      /\ attention(z).phase = "attention" /\ attention(z).active = z.active
  <2> HIDE DEF its, it
  <2> QED BY <1>4, <1>5 DEF Queue, Phase
<1> QED BY <1>2, <1>3, <1>4, <1>6

LEMMA EmptyQueueType == EmptyQueue \in Queue
  BY DEF EmptyQueue, Queue, Phase

LEMMA UnclaimFacts ==
    ASSUME NEW z \in Queue, z.active \in DOMAIN z.items
    PROVE  /\ unclaim(z) \in Queue
           /\ unclaim(z).items = SetState(z, z.active, "queued").items
           /\ unclaim(z).active = 0 /\ unclaim(z).phase = "ready"
<1>1. SetState(z, z.active, "queued") \in Queue
  BY SetStateFacts DEF ItemState
<1> QED BY <1>1 DEF unclaim, Queue, Phase

-----------------------------------------------------------------------------
(* What keeps a copy of the queue accounting for the past                  *)

LEMMA TypedItems ==
    ASSUME NEW typed \in Seq([item: Nat, text: Texts])
    PROVE  \A k \in DOMAIN typed : typed[k].item \in Nat /\ typed[k].text \in Texts
<1> DEFINE E == [item: Nat, text: Texts]
<1>1. \A k \in DOMAIN typed : typed[k] \in E
  <2> HIDE DEF E
  <2>1. typed \in Seq(E)
    BY DEF E
  <2> QED BY <2>1
<1>2. \A e \in E : e.item \in Nat /\ e.text \in Texts
  OBVIOUS
<1> QED BY <1>1, <1>2

\* Items that are no longer queued keep their text and stay that way.
LEMMA LogKept ==
    ASSUME NEW z \in Queue, NEW y \in Queue, NEW typed \in Seq([item: Nat, text: Texts]),
           AccountsForLog(z, typed), DOMAIN z.items \subseteq DOMAIN y.items,
           \A j \in DOMAIN z.items : z.items[j].state # "queued"
              => y.items[j].state # "queued" /\ y.items[j].text = z.items[j].text
    PROVE  AccountsForLog(y, typed)
<1> SUFFICES ASSUME NEW k \in DOMAIN typed
             PROVE  /\ typed[k].item \in DOMAIN y.items
                    /\ y.items[typed[k].item].text = typed[k].text
                    /\ \A j \in 1..typed[k].item : y.items[j].state # "queued"
  BY DEF AccountsForLog
<1> DEFINE n == typed[k].item
<1>1. /\ n \in DOMAIN z.items /\ z.items[n].text = typed[k].text
      /\ \A j \in 1..n : z.items[j].state # "queued"
  BY DEF AccountsForLog
<1>2. DOMAIN z.items = 1..Len(z.items) /\ Len(z.items) \in Nat
  BY DEF Queue
<1>3. n \in 1..n /\ 1..n \subseteq DOMAIN z.items
  BY <1>1, <1>2
<1> QED BY <1>1, <1>3

\* Parking a queue with an active item.
LEMMA ImageAttention ==
    ASSUME NEW z \in Queue, NEW typed \in Seq([item: Nat, text: Texts]),
           NEW open \in SUBSET Nat, NEW given \in SUBSET Ops,
           Image(z, typed, open, given), z.active # 0
    PROVE  Image(attention(z), typed, open, given)
<1> DEFINE y == attention(z)
<1>1. WellFormed(y)
  BY AttentionFacts DEF Image, WellFormed
<1>2. AccountsForLog(y, typed)
  <2>1. \A j \in DOMAIN z.items : z.items[j].state # "queued"
            => y.items[j].state # "queued" /\ y.items[j].text = z.items[j].text
    BY AttentionFacts
  <2> QED BY <2>1, LogKept, AttentionFacts DEF Image
<1>3. HoldsOpenItem(y, open)
  BY AttentionFacts DEF Image, HoldsOpenItem
<1>4. \A a \in given : Honours(y, a)
  BY AttentionFacts DEF Image, Honours
<1> QED BY <1>1, <1>2, <1>3, <1>4 DEF Image

\* An added item is behind everything typed and decided.
LEMMA ImageAdd ==
    ASSUME NEW z \in Queue, NEW typed \in Seq([item: Nat, text: Texts]),
           NEW open \in SUBSET Nat, NEW given \in SUBSET Ops, NEW it \in Item,
           Image(z, typed, open, given), Len(z.items) < MaxItems
    PROVE  /\ [z EXCEPT !.items = Append(@, it)] \in Queue
           /\ Len(z.items) + 1 \in DOMAIN [z EXCEPT !.items = Append(@, it)].items
           /\ Image([z EXCEPT !.items = Append(@, it)], typed, open, given)
<1> DEFINE y == [z EXCEPT !.items = Append(@, it)]
<1>0. z.items \in Seq(Item) /\ Append(z.items, it) \in Seq(Item)
  BY DEF Queue
<1>1. /\ z.items \in Seq(Item) /\ y.items = Append(z.items, it) /\ y.active = z.active
      /\ y.phase = z.phase /\ y \in Queue
  BY <1>0 DEF Queue
<1>2. /\ DOMAIN y.items = 1..(Len(z.items) + 1) /\ Len(y.items) = Len(z.items) + 1
      /\ DOMAIN z.items = 1..Len(z.items) /\ Len(z.items) \in Nat
      /\ \A j \in DOMAIN z.items : y.items[j] = z.items[j]
  BY <1>1
<1> HIDE DEF y
<1>3. WellFormed(y)
  BY <1>1, <1>2, FollowupAssumption DEF Image, WellFormed
<1>4. AccountsForLog(y, typed)
  <2>1. DOMAIN z.items \subseteq DOMAIN y.items
    BY <1>2
  <2> QED BY <1>1, <1>2, <2>1, LogKept DEF Image
<1>5. HoldsOpenItem(y, open)
  BY <1>1 DEF Image, HoldsOpenItem
<1>6. \A a \in given : Honours(y, a)
  BY <1>1, <1>2 DEF Image, Honours
<1>7. y \in Queue /\ Len(z.items) + 1 \in DOMAIN y.items /\ Image(y, typed, open, given)
  BY <1>1, <1>2, <1>3, <1>4, <1>5, <1>6 DEF Image
<1> QED BY <1>7 DEF y

\* An edited text belongs to an item that was not typed yet.
LEMMA ImageEdit ==
    ASSUME NEW z \in Queue, NEW typed \in Seq([item: Nat, text: Texts]),
           NEW open \in SUBSET Nat, NEW given \in SUBSET Ops,
           NEW i \in QueuedItems(z), NEW t \in Texts,
           Image(z, typed, open, given)
    PROVE  /\ [z EXCEPT !.items[i].text = t] \in Queue
           /\ Image([z EXCEPT !.items[i].text = t], typed, open, given)
<1> DEFINE it == [z.items[i] EXCEPT !.text = t]
           its == [z.items EXCEPT ![i] = it]
           y == [z EXCEPT !.items[i].text = t]
<1>1. z.items \in Seq(Item) /\ i \in DOMAIN z.items /\ z.items[i] \in Item /\ z.items[i].state = "queued"
  BY DEF Queue, QueuedItems
<1>2. it \in Item /\ it.state = "queued"
  BY <1>1 DEF Item
<1>3. /\ its \in Seq(Item) /\ DOMAIN its = DOMAIN z.items /\ Len(its) = Len(z.items)
      /\ its[i].state = z.items[i].state /\ \A j \in DOMAIN z.items \ {i} : its[j] = z.items[j]
  BY <1>1, <1>2
<1>4. y = [z EXCEPT !.items = its]
  OBVIOUS
<1>5. y \in Queue /\ y.items = its /\ y.active = z.active /\ y.phase = z.phase
  BY <1>3, <1>4 DEF Queue
<1> HIDE DEF y, its, it
<1>6. \A j \in DOMAIN z.items : y.items[j].state = z.items[j].state
  BY <1>3, <1>5
<1>7. WellFormed(y)
  BY <1>3, <1>5, <1>6 DEF Image, WellFormed
<1>8. AccountsForLog(y, typed)
  <2>1. \A j \in DOMAIN z.items : z.items[j].state # "queued"
            => y.items[j].state # "queued" /\ y.items[j].text = z.items[j].text
    BY <1>1, <1>3, <1>5
  <2> QED BY <1>3, <1>5, <2>1, LogKept DEF Image
<1>9. HoldsOpenItem(y, open)
  BY <1>5 DEF Image, HoldsOpenItem
<1>10. \A a \in given : Honours(y, a)
  BY <1>3, <1>5, <1>6 DEF Image, Honours
<1>11. y \in Queue /\ Image(y, typed, open, given)
  BY <1>5, <1>7, <1>8, <1>9, <1>10 DEF Image
<1> QED BY <1>11 DEF y

\* z becomes y by a change of item i to state s and of the fields around it, in
\* a way that does not touch what was typed or decided.
Becomes(z, y, i, s, typed, open, given) ==
    /\ y.items = SetState(z, i, s).items
    /\ s = "queued" => \A k \in DOMAIN typed : typed[k].item < i
    /\ \A a \in given : a.kind \in {"cancel", "resolve"} => a.item # i /\ y.active # a.item
    /\ y.active # 0 => y.active = i /\ s \in {"sending", "sent", "attention"}
    /\ y.phase # "ready" => y.active # 0
    /\ y.phase = "attention" => s = "attention"
    /\ HoldsOpenItem(y, open)

LEMMA ImageSetState ==
    ASSUME NEW z \in Queue, NEW y \in Queue, NEW typed \in Seq([item: Nat, text: Texts]),
           NEW open \in SUBSET Nat, NEW open2 \in SUBSET Nat, NEW given \in SUBSET Ops,
           NEW i \in DOMAIN z.items, NEW s \in ItemState,
           Image(z, typed, open, given),
           Becomes(z, y, i, s, typed, open2, given)
    PROVE  Image(y, typed, open2, given)
<1> USE DEF Becomes
<1> DEFINE its == SetState(z, i, s).items
<1>1. /\ DOMAIN its = DOMAIN z.items /\ Len(its) = Len(z.items) /\ its[i].state = s
      /\ \A j \in DOMAIN z.items : its[j].text = z.items[j].text
      /\ \A j \in DOMAIN z.items \ {i} : its[j] = z.items[j]
  BY SetStateFacts
<1> HIDE DEF its
<1>2. y.items = its
  BY DEF its
<1>3. WellFormed(y)
  BY <1>1, <1>2 DEF Image, WellFormed
<1>4. AccountsForLog(y, typed)
  <2>1. CASE s # "queued"
    <3>1. \A j \in DOMAIN z.items : z.items[j].state # "queued"
            => y.items[j].state # "queued" /\ y.items[j].text = z.items[j].text
      BY <1>1, <1>2, <2>1
    <3> QED BY <1>1, <1>2, <3>1, LogKept DEF Image
  <2>2. CASE s = "queued"
    <3> SUFFICES ASSUME NEW k \in DOMAIN typed
                 PROVE  /\ typed[k].item \in DOMAIN y.items
                        /\ y.items[typed[k].item].text = typed[k].text
                        /\ \A j \in 1..typed[k].item : y.items[j].state # "queued"
      BY DEF AccountsForLog
    <3>1. /\ typed[k].item \in DOMAIN z.items /\ z.items[typed[k].item].text = typed[k].text
          /\ \A j \in 1..typed[k].item : z.items[j].state # "queued"
      BY DEF Image, AccountsForLog
    <3>2. DOMAIN z.items = 1..Len(z.items) /\ Len(z.items) \in Nat
      BY DEF Queue
    <3>3. \A j \in 1..typed[k].item : j \in DOMAIN z.items \ {i}
      BY <2>2, <3>1, <3>2
    <3> QED BY <1>1, <1>2, <3>1, <3>3
  <2> QED BY <2>1, <2>2
<1>5. \A a \in given : Honours(y, a)
  <2> SUFFICES ASSUME NEW a \in given PROVE Honours(y, a)
    OBVIOUS
  <2>1. Honours(z, a) /\ (a.kind \in {"cancel", "resolve"} => a.item # i /\ y.active # a.item)
    BY DEF Image
  <2> QED BY <1>1, <1>2, <2>1 DEF Honours
<1> QED BY <1>3, <1>4, <1>5 DEF Image

\* Pausing, resuming, observing work and ending a work cycle leave items alone.
LEMMA ImageFields ==
    ASSUME NEW z \in Queue, NEW typed \in Seq([item: Nat, text: Texts]),
           NEW open \in SUBSET Nat, NEW given \in SUBSET Ops,
           Image(z, typed, open, given),
           NEW y \in Queue, y.items = z.items, y.active \in {0, z.active},
           y.phase # "ready" => y.active # 0,
           y.phase = "attention" => z.phase = "attention",
           HoldsOpenItem(y, open)
    PROVE  Image(y, typed, open, given)
<1>1. WellFormed(y)
  BY DEF Image, WellFormed
<1>2. AccountsForLog(y, typed)
  BY DEF Image, AccountsForLog
<1>3. \A a \in given : Honours(y, a)
  <2> SUFFICES ASSUME NEW a \in given PROVE Honours(y, a)
    OBVIOUS
  <2>1. Honours(z, a) /\ DOMAIN z.items = 1..Len(z.items) /\ Len(z.items) \in Nat
    BY DEF Image, Queue
  <2> QED BY <2>1 DEF Honours
<1> QED BY <1>1, <1>2, <1>3 DEF Image

\* Without an active item nothing that was typed is unsettled.
LEMMA IdleIsSettled ==
    ASSUME NEW z \in Queue, NEW typed \in Seq([item: Nat, text: Texts]),
           NEW open \in SUBSET Nat, NEW given \in SUBSET Ops,
           Image(z, typed, open, given), z.active = 0
    PROVE  open = {}
  BY DEF Image, HoldsOpenItem, WellFormed

\* The first queued item is beyond everything typed: claiming it is fresh.
LEMMA ImageClaim ==
    ASSUME NEW z \in Queue, NEW typed \in Seq([item: Nat, text: Texts]),
           NEW open \in SUBSET Nat, NEW given \in SUBSET Ops,
           Image(z, typed, open, given),
           z.active = 0, NEW i \in QueuedItems(z), \A j \in QueuedItems(z) : i <= j,
           NEW b \in Nat, NEW e \in Nat
    PROVE  LET y == [SetState(z, i, "sending") EXCEPT !.active = i, !.phase = "sending",
                                                      !.base = b, !.oep = e]
           IN  y \in Queue /\ Image(y, typed, open, given) /\ Fresh(y, typed, open, given)
<1> DEFINE x == SetState(z, i, "sending")
           y == [x EXCEPT !.active = i, !.phase = "sending", !.base = b, !.oep = e]
<1>1. i \in DOMAIN z.items /\ z.items[i].state = "queued" /\ i \in Nat \ {0}
  BY DEF QueuedItems, Queue
<1>2. /\ x \in Queue /\ DOMAIN x.items = DOMAIN z.items /\ x.items[i].state = "sending"
      /\ \A j \in DOMAIN z.items \ {i} : x.items[j] = z.items[j]
  BY <1>1, SetStateFacts DEF ItemState
<1> HIDE DEF x
<1>3. y \in Queue /\ y.items = x.items /\ y.active = i /\ y.phase = "sending"
  BY <1>1, <1>2 DEF Queue, Phase
<1> HIDE DEF y
<1>4. open = {}
  BY IdleIsSettled
<1>5. \A k \in DOMAIN typed : typed[k].item < i
  <2> SUFFICES ASSUME NEW k \in DOMAIN typed, ~(typed[k].item < i) PROVE FALSE
    OBVIOUS
  <2>1. typed[k].item \in Nat /\ \A j \in 1..typed[k].item : z.items[j].state # "queued"
    BY TypedItems DEF Image, AccountsForLog
  <2>2. i \in 1..typed[k].item
    BY <1>1, <2>1
  <2> QED BY <1>1, <2>1, <2>2
<1>6. \A a \in given : a.kind \in {"cancel", "resolve"} => a.item # i
  BY <1>1 DEF Image, Honours
<1>7. \A j \in 1..i : y.items[j].state # "queued"
  <2> SUFFICES ASSUME NEW j \in 1..i PROVE y.items[j].state # "queued"
    OBVIOUS
  <2>1. DOMAIN z.items = 1..Len(z.items) /\ Len(z.items) \in Nat
    BY DEF Queue
  <2>2. j \in DOMAIN z.items /\ j <= i
    BY <1>1, <2>1
  <2>3. CASE j = i
    BY <1>2, <1>3, <2>3
  <2>4. CASE j # i
    <3>1. j \notin QueuedItems(z)
      BY <1>1, <2>2, <2>4
    <3>2. z.items[j].state # "queued"
      BY <2>2, <3>1 DEF QueuedItems
    <3> QED BY <1>2, <1>3, <2>2, <2>4, <3>2
  <2> QED BY <2>3, <2>4
<1>8. Image(y, typed, open, given)
  <2>1. HoldsOpenItem(y, open)
    BY <1>4 DEF HoldsOpenItem
  <2>2. y.items = SetState(z, i, "sending").items
    BY <1>3 DEF x
  <2>3. \A a \in given : a.kind \in {"cancel", "resolve"} => a.item # i /\ y.active # a.item
    BY <1>3, <1>6
  <2>4. "sending" \in ItemState
    BY DEF ItemState
  <2>5. Becomes(z, y, i, "sending", typed, open, given)
    BY <1>1, <1>3, <2>1, <2>2, <2>3 DEF Becomes
  <2> QED BY <1>1, <1>3, <2>4, <2>5, ImageSetState
<1>9. Fresh(y, typed, open, given)
  BY <1>1, <1>2, <1>3, <1>4, <1>5, <1>6, <1>7 DEF Fresh
<1> QED BY <1>3, <1>8, <1>9 DEF y, x

\* A fresh claim can be taken back.
LEMMA ImageUnclaim ==
    ASSUME NEW z \in Queue, NEW typed \in Seq([item: Nat, text: Texts]),
           NEW open \in SUBSET Nat, NEW given \in SUBSET Ops,
           Image(z, typed, open, given),
           Fresh(z, typed, open, given)
    PROVE  unclaim(z) \in Queue /\ Image(unclaim(z), typed, open, given)
<1>1. /\ unclaim(z) \in Queue /\ unclaim(z).items = SetState(z, z.active, "queued").items
      /\ unclaim(z).active = 0 /\ unclaim(z).phase = "ready"
  BY UnclaimFacts DEF Fresh
<1>2. HoldsOpenItem(unclaim(z), open)
  BY DEF Fresh, HoldsOpenItem
<1>3. \A a \in given : a.kind \in {"cancel", "resolve"}
                        => a.item # z.active /\ unclaim(z).active # a.item
  <2> SUFFICES ASSUME NEW a \in given, a.kind \in {"cancel", "resolve"}
               PROVE  a.item # z.active /\ a.item # 0
    BY <1>1
  <2>1. a.item \in DOMAIN z.items /\ DOMAIN z.items = 1..Len(z.items) /\ Len(z.items) \in Nat
    BY DEF Image, Honours, Queue
  <2> QED BY <2>1 DEF Fresh
<1>4. "queued" \in ItemState /\ z.active \in DOMAIN z.items
      /\ \A k \in DOMAIN typed : typed[k].item < z.active
  BY DEF ItemState, Fresh
<1>5. Becomes(z, unclaim(z), z.active, "queued", typed, open, given)
  BY <1>1, <1>2, <1>3, <1>4 DEF Becomes
<1> QED BY <1>1, <1>4, <1>5, ImageSetState

\* The text of a fresh claim is typed: the copy that was saved accounts for it.
LEMMA ImageWrite ==
    ASSUME NEW z \in Queue, NEW typed \in Seq([item: Nat, text: Texts]),
           NEW open \in SUBSET Nat, NEW given \in SUBSET Ops,
           Image(z, typed, open, given),
           Fresh(z, typed, open, given),
           NEW open2 \in SUBSET {z.active}
    PROVE  Image(z, Append(typed, [item |-> z.active, text |-> z.items[z.active].text]),
                 open2, given)
<1> DEFINE e == [item |-> z.active, text |-> z.items[z.active].text]
           log2 == Append(typed, e)
<1>1. /\ DOMAIN log2 = DOMAIN typed \cup {Len(typed) + 1} /\ log2[Len(typed) + 1] = e
      /\ \A k \in DOMAIN typed : log2[k] = typed[k]
  OBVIOUS
<1>2. AccountsForLog(z, log2)
  <2> SUFFICES ASSUME NEW k \in DOMAIN log2
               PROVE  /\ log2[k].item \in DOMAIN z.items
                      /\ z.items[log2[k].item].text = log2[k].text
                      /\ \A j \in 1..log2[k].item : z.items[j].state # "queued"
    BY DEF AccountsForLog
  <2> HIDE DEF log2
  <2>1. CASE k \in DOMAIN typed
    BY <1>1, <2>1 DEF Image, AccountsForLog
  <2>2. CASE k = Len(typed) + 1
    BY <1>1, <2>2 DEF Fresh
  <2> QED BY <1>1, <2>1, <2>2
<1>3. HoldsOpenItem(z, open2)
  BY DEF Fresh, HoldsOpenItem
<1> QED BY <1>2, <1>3 DEF Image

\* The typed item becomes sent.
LEMMA ImageSent ==
    ASSUME NEW z \in Queue, NEW typed \in Seq([item: Nat, text: Texts]),
           NEW open \in SUBSET Nat, NEW given \in SUBSET Ops,
           Image(z, typed, open, given),
           z.active # 0, z.phase = "sending"
    PROVE  LET y == [SetState(z, z.active, "sent") EXCEPT !.phase = "awaiting"]
           IN  y \in Queue /\ y.active = z.active /\ Image(y, typed, open, given)
<1> DEFINE x == SetState(z, z.active, "sent")
           y == [x EXCEPT !.phase = "awaiting"]
<1>1. z.active \in DOMAIN z.items /\ "sent" \in ItemState
  BY DEF Image, WellFormed, ItemState
<1>2. x \in Queue /\ x.active = z.active
  BY <1>1, SetStateFacts
<1> HIDE DEF x
<1>3. y \in Queue /\ y.items = x.items /\ y.active = z.active /\ y.phase = "awaiting"
  BY <1>2 DEF Queue, Phase
<1> HIDE DEF y
<1>4. HoldsOpenItem(y, open)
  BY <1>3 DEF Image, HoldsOpenItem
<1>5. \A a \in given : a.kind \in {"cancel", "resolve"} => a.item # z.active /\ y.active # a.item
  BY <1>3 DEF Image, Honours
<1>6. y.items = SetState(z, z.active, "sent").items
  BY <1>3 DEF x
<1>7. Image(y, typed, open, given)
  <2>1. Becomes(z, y, z.active, "sent", typed, open, given)
    BY <1>3, <1>4, <1>5, <1>6 DEF Becomes
  <2> QED BY <1>1, <1>3, <2>1, ImageSetState
<1> QED BY <1>3, <1>7 DEF y, x

\* A user cancels a queued item.
LEMMA ImageCancelQueued ==
    ASSUME NEW z \in Queue, NEW typed \in Seq([item: Nat, text: Texts]),
           NEW open \in SUBSET Nat, NEW given \in SUBSET Ops,
           Image(z, typed, open, given),
           NEW i \in QueuedItems(z)
    PROVE  /\ SetState(z, i, "canceled") \in Queue
           /\ Image(SetState(z, i, "canceled"), typed, open, given)
           /\ Honours(SetState(z, i, "canceled"), [kind |-> "cancel", item |-> i])
<1> DEFINE y == SetState(z, i, "canceled")
<1>1. i \in DOMAIN z.items /\ z.items[i].state = "queued" /\ "canceled" \in ItemState
  BY DEF QueuedItems, ItemState
<1>2. /\ y \in Queue /\ DOMAIN y.items = DOMAIN z.items /\ Len(y.items) = Len(z.items)
      /\ y.items[i].state = "canceled" /\ y.active = z.active /\ y.phase = z.phase
      /\ \A j \in DOMAIN z.items \ {i} : y.items[j] = z.items[j]
      /\ \A j \in DOMAIN z.items : y.items[j].text = z.items[j].text
  BY <1>1, SetStateFacts
<1> HIDE DEF y
<1>3. z.active # i
  BY <1>1 DEF Image, WellFormed, Queue
<1>4. WellFormed(y)
  BY <1>2, <1>3 DEF Image, WellFormed
<1>5. AccountsForLog(y, typed)
  <2>1. \A j \in DOMAIN z.items : z.items[j].state # "queued"
            => y.items[j].state # "queued" /\ y.items[j].text = z.items[j].text
    BY <1>1, <1>2
  <2> QED BY <1>2, <2>1, LogKept DEF Image
<1>6. HoldsOpenItem(y, open)
  BY <1>2 DEF Image, HoldsOpenItem
<1>7. \A a \in given : Honours(y, a)
  <2> SUFFICES ASSUME NEW a \in given PROVE Honours(y, a)
    OBVIOUS
  <2>1. Honours(z, a)
    BY DEF Image
  <2> QED BY <1>1, <1>2, <2>1 DEF Honours
<1>8. Honours(y, [kind |-> "cancel", item |-> i])
  BY <1>1, <1>2, <1>3 DEF Honours
<1> QED BY <1>2, <1>4, <1>5, <1>6, <1>7, <1>8 DEF Image, y

\* A user resolves (sent) or excludes (canceled) the item up for attention.
LEMMA ImageSettle ==
    ASSUME NEW z \in Queue, NEW typed \in Seq([item: Nat, text: Texts]),
           NEW open \in SUBSET Nat, NEW given \in SUBSET Ops,
           Image(z, typed, open, given),
           z.active # 0, z.items[z.active].state = "attention",
           NEW s \in {"sent", "canceled"}
    PROVE  LET y == [SetState(z, z.active, s) EXCEPT !.active = 0, !.phase = "ready", !.paused = TRUE]
           IN  /\ y \in Queue /\ Image(y, typed, open \ {z.active}, given)
               /\ y.active = 0
               /\ Honours(y, [kind |-> IF s = "sent" THEN "resolve" ELSE "cancel", item |-> z.active])
<1> DEFINE x == SetState(z, z.active, s)
           y == [x EXCEPT !.active = 0, !.phase = "ready", !.paused = TRUE]
<1>1. z.active \in DOMAIN z.items /\ s \in ItemState /\ z.active # 0
  BY DEF Image, WellFormed, ItemState
<1>2. x \in Queue /\ DOMAIN x.items = DOMAIN z.items /\ x.items[z.active].state = s
  BY <1>1, SetStateFacts
<1> HIDE DEF x
<1>3. y \in Queue /\ y.items = x.items /\ y.active = 0 /\ y.phase = "ready"
  BY <1>2 DEF Queue, Phase
<1> HIDE DEF y
<1>4. open \ {z.active} = {} /\ HoldsOpenItem(y, open \ {z.active})
  BY DEF Image, HoldsOpenItem
<1>5. \A a \in given : a.kind \in {"cancel", "resolve"} => a.item # z.active /\ y.active # a.item
  <2> SUFFICES ASSUME NEW a \in given, a.kind \in {"cancel", "resolve"}
               PROVE  a.item # z.active /\ a.item # 0
    BY <1>3
  <2>1. a.item \in DOMAIN z.items /\ DOMAIN z.items = 1..Len(z.items) /\ Len(z.items) \in Nat
    BY DEF Image, Honours, Queue
  <2> QED BY <2>1 DEF Image, Honours
<1>6. y.items = SetState(z, z.active, s).items
  BY <1>3 DEF x
<1>7. Image(y, typed, open \ {z.active}, given)
  <2>1. Becomes(z, y, z.active, s, typed, open \ {z.active}, given)
    BY <1>3, <1>4, <1>5, <1>6 DEF Becomes
  <2>2. \A o \in SUBSET Nat : Becomes(z, y, z.active, s, typed, o, given)
                                => Image(y, typed, o, given)
    BY <1>1, <1>3, ImageSetState
  <2>3. {} \in SUBSET Nat
    OBVIOUS
  <2> QED BY <1>4, <2>1, <2>2, <2>3
<1>8. Honours(y, [kind |-> IF s = "sent" THEN "resolve" ELSE "cancel", item |-> z.active])
  BY <1>1, <1>2, <1>3 DEF Honours
<1> QED BY <1>3, <1>7, <1>8 DEF y, x

\* Settling an instruction only makes it easier to account for the rest.
LEMMA ImageFewerOpen ==
    ASSUME NEW z, NEW typed, NEW open, NEW open2 \in SUBSET open, NEW given,
           Image(z, typed, open, given)
    PROVE  Image(z, typed, open2, given)
  BY DEF Image, HoldsOpenItem

-----------------------------------------------------------------------------
(* The steps of the specification                                          *)

\* One lemma for every action that ends in Service.save: the new copy accounts
\* for the past, and the caller's location fits it.
LEMMA SaveStep ==
    ASSUME TypeOK, IInv, NEW z \in Queue, NEW cont \in Saving, save(z, cont),
           log' = log, acks' = acks, unsettled' \subseteq unsettled,
           Image(z, log, unsettled', acks),
           cont = "claim" => Fresh(z, log, unsettled', acks),
           cont = "done" => z.active = 0,
           cont \in {"working", "sent"} => z.active # 0,
           cont = "update" /\ op'.kind \in {"add", "cancel", "resolve"} => Honours(z, op'),
           op' \in Ops, obs' \in Obs, ready' \in BOOLEAN, epoch' \in Nat, rev' \in Nat,
           worked' \in BOOLEAN, late' \in BOOLEAN, pauseAcked' \in BOOLEAN,
           worked' => unsettled' = {}
    PROVE  TypeOK' /\ IInv'
<1>1. /\ q' = z /\ dirty' = TRUE /\ pc' = cont /\ durable' = durable /\ crashes' = crashes
      /\ \/ pending' = Append(pending, z) /\ wait' = Len(pending) + 1
         \/ pending' = pending /\ wait' = Refused
  BY DEF save
<1>2. pending \in Seq(Queue) /\ durable \in Queue
  BY DEF TypeOK
<1>3. /\ pending' \in Seq(Queue) /\ wait' \in Int
      /\ \/ wait' = Refused
         \/ wait' > 0 /\ wait' = Len(pending') /\ pending'[wait'] = z
      /\ \A k \in DOMAIN pending' : pending'[k] = z \/ (k \in DOMAIN pending /\ pending'[k] = pending[k])
  <2>1. CASE pending' = Append(pending, z) /\ wait' = Len(pending) + 1
    <3>1. /\ pending' \in Seq(Queue) /\ Len(pending') = Len(pending) + 1 /\ Len(pending) \in Nat
          /\ pending'[Len(pending) + 1] = z
          /\ \A k \in 1 .. Len(pending) : pending'[k] = pending[k]
      BY <1>2, <2>1
    <3>2. DOMAIN pending' = 1 .. Len(pending) + 1 /\ DOMAIN pending = 1 .. Len(pending)
      BY <1>2, <3>1
    <3> QED BY <2>1, <3>1, <3>2
  <2>2. CASE pending' = pending /\ wait' = Refused
    BY <1>2, <2>2 DEF Refused
  <2> QED BY <1>1, <2>1, <2>2
<1>4. TypeOK'
  BY <1>1, <1>2, <1>3 DEF TypeOK
<1>5. Images'
  <2>1. Image(durable', log', unsettled', acks')
    BY <1>1, ImageFewerOpen DEF IInv, Images
  <2>2. \A k \in DOMAIN pending : Image(pending[k], log, unsettled', acks)
    BY ImageFewerOpen DEF IInv, Images
  <2>3. \A k \in DOMAIN pending' : Image(pending'[k], log', unsettled', acks')
    BY <1>3, <2>2
  <2> QED BY <1>1, <2>1, <2>3 DEF Images
<1>6. DeliveredOnceInOrder'
  BY DEF IInv, DeliveredOnceInOrder
<1>7. CleanIsSaved' /\ WaitIsLast'
  BY <1>1, <1>3 DEF CleanIsSaved, WaitIsLast
<1>8. ClaimIsFresh' /\ Located'
  BY <1>1 DEF ClaimIsFresh, Located, Saving
<1> QED BY <1>4, <1>5, <1>6, <1>7, <1>8 DEF IInv

\* The holder of the lock moves on without saving.
LEMMA GotoStep ==
    ASSUME TypeOK, IInv, NEW loc \in Running, Goto(loc), pc \in Running,
           log' = log, unsettled' = unsettled,
           acks' \in SUBSET Ops, \A a \in acks' : a \in acks \/ (loc = "free" /\ Honours(q, a)),
           ~dirty \/ acks' = acks,
           loc \in {"recheck", "send", "write"} => pc \in {"recheck", "send", "write"},
           loc = "pick" => q.active = 0,
           loc = "judge" => q.active # 0,
           loc # "written",
           obs' \in Obs, ready' \in BOOLEAN, epoch' \in Nat, rev' \in Nat,
           worked' \in BOOLEAN, late' \in BOOLEAN, pauseAcked' \in BOOLEAN,
           worked' => unsettled' = {}
    PROVE  TypeOK' /\ IInv'
<1>1. pc' = loc /\ UNCHANGED <<q, dirty, wait, op, pending, durable, crashes>>
  BY DEF Goto
<1>2. TypeOK'
  BY <1>1 DEF TypeOK
<1>3. pc # "down" /\ pc \notin Saving /\ pc' # "down" /\ pc' \notin Saving
  BY <1>1 DEF Saving, Running
<1>4. Images'
  <2>1. CASE acks' \subseteq acks
    <3>1. \A z : Image(z, log, unsettled, acks) => Image(z, log, unsettled, acks')
      BY <2>1 DEF Image
    <3> QED BY <1>1, <3>1 DEF IInv, Images
  <2>2. CASE ~dirty
    <3>1. durable = q /\ pending = <<>>
      BY <1>3, <2>2 DEF IInv, CleanIsSaved, SavedCopy
    <3>2. Image(q, log, unsettled, acks')
      BY DEF IInv, Images, Image
    <3> QED BY <1>1, <3>1, <3>2 DEF Images
  <2> QED BY <2>1, <2>2
<1>5. DeliveredOnceInOrder'
  BY DEF IInv, DeliveredOnceInOrder
<1>6. CleanIsSaved'
  BY <1>1, <1>3 DEF IInv, CleanIsSaved, SavedCopy
<1>7. WaitIsLast'
  BY <1>3 DEF WaitIsLast
<1>8. ClaimIsFresh'
  BY <1>1 DEF IInv, ClaimIsFresh, Running, Fresh
<1>9. Located'
  BY <1>1, <1>3 DEF IInv, Located, Running, Saving
<1> QED BY <1>2, <1>4, <1>5, <1>6, <1>7, <1>8, <1>9 DEF IInv

\* The facts about the current state that the steps below start from.
LEMMA InvFacts ==
    ASSUME TypeOK, IInv
    PROVE  /\ q \in Queue /\ durable \in Queue
           /\ log \in Seq([item: Nat, text: Texts]) /\ unsettled \in SUBSET Nat
           /\ acks \in SUBSET Ops /\ obs \in Obs /\ op \in Ops
           /\ Image(q, log, unsettled, acks) /\ Image(durable, log, unsettled, acks)
           /\ q.active \in Nat /\ q.items \in Seq(Item) /\ NoOp \in Ops /\ NoObs \in Obs
           /\ q.active # 0 => q.active \in DOMAIN q.items
           /\ worked => unsettled = {}
  BY DEF TypeOK, IInv, Images, Queue, Image, WellFormed, Ops, NoOp, Obs, NoObs

LEMMA AddStep ==
    ASSUME TypeOK, IInv, NEW r \in Requests \cup {NoRequest}, NEW t \in Texts, Add(r, t)
    PROVE  TypeOK' /\ IInv'
<1> DEFINE it == [req |-> r, text |-> t, state |-> "queued"]
           y == [q EXCEPT !.items = Append(@, it)]
           same == {i \in DOMAIN q.items : r # NoRequest /\ q.items[i].req = r}
<1>1. pc = "free" /\ UNCHANGED <<log, unsettled, pauseAcked>>
  BY DEF Add
<1>2. \A i \in DOMAIN q.items : [kind |-> "add", item |-> i] \in Ops /\ Honours(q, [kind |-> "add", item |-> i])
  BY InvFacts DEF Honours, Ops
<1>3. CASE /\ PendingCount(q) < MaxPending /\ Len(q.items) < MaxItems
           /\ UpdateSaves(y, [kind |-> "add", item |-> Len(q.items) + 1])
           /\ UNCHANGED acks
  <2>1. it \in Item
    BY DEF Item, ItemState
  <2> HIDE DEF it
  <2>2. /\ y \in Queue /\ Len(q.items) + 1 \in DOMAIN y.items
        /\ Image(y, log, unsettled, acks)
    BY <1>3, <2>1, InvFacts, ImageAdd
  <2> HIDE DEF y
  <2>3. op' = [kind |-> "add", item |-> Len(q.items) + 1] /\ op' \in Ops /\ Honours(y, op')
    BY <1>3, <2>2, InvFacts DEF UpdateSaves, Ops, Honours
  <2>4. save(y, "update") /\ UNCHANGED <<obs, agentVars>>
    BY <1>3 DEF UpdateSaves
  <2> QED BY <1>1, <1>3, <2>2, <2>3, <2>4, InvFacts, SaveStep DEF agentVars, Saving, TypeOK
<1>4. ASSUME NEW i \in DOMAIN q.items, dirty,
             UpdateSaves(q, [kind |-> "add", item |-> i]), UNCHANGED acks
      PROVE  TypeOK' /\ IInv'
  <2>1. op' = [kind |-> "add", item |-> i] /\ op' \in Ops /\ Honours(q, op')
    BY <1>2, <1>4 DEF UpdateSaves
  <2>2. save(q, "update") /\ UNCHANGED <<obs, agentVars>>
    BY <1>4 DEF UpdateSaves
  <2> QED BY <1>1, <1>4, <2>1, <2>2, InvFacts, SaveStep DEF agentVars, Saving, TypeOK
<1>5. ASSUME NEW i \in DOMAIN q.items, ~dirty,
             acks' = acks \cup {[kind |-> "add", item |-> i]},
             Goto("free"), UNCHANGED <<obs, agentVars>>
      PROVE  TypeOK' /\ IInv'
  <2> DEFINE a == [kind |-> "add", item |-> i]
  <2>1. a \in Ops /\ Honours(q, a)
    BY <1>2
  <2> HIDE DEF a
  <2>2. acks' = acks \cup {a}
    BY <1>5 DEF a
  <2>3. acks' \in SUBSET Ops /\ \A b \in acks' : b \in acks \/ Honours(q, b)
    BY <2>1, <2>2, InvFacts
  <2>4. /\ obs' \in Obs /\ ready' \in BOOLEAN /\ epoch' \in Nat /\ rev' \in Nat
        /\ worked' \in BOOLEAN /\ late' \in BOOLEAN /\ pauseAcked' \in BOOLEAN
        /\ (worked' => unsettled' = {})
    BY <1>1, <1>5, InvFacts DEF agentVars, TypeOK
  <2> QED BY <1>1, <1>5, <2>3, <2>4, GotoStep DEF Running
<1>6. \/ /\ PendingCount(q) < MaxPending /\ Len(q.items) < MaxItems
         /\ UpdateSaves(y, [kind |-> "add", item |-> Len(q.items) + 1])
         /\ UNCHANGED acks
      \/ \E i \in DOMAIN q.items :
            \/ dirty /\ UpdateSaves(q, [kind |-> "add", item |-> i]) /\ UNCHANGED acks
            \/ /\ ~dirty /\ acks' = acks \cup {[kind |-> "add", item |-> i]}
               /\ Goto("free") /\ UNCHANGED <<obs, agentVars>>
  BY Zenon DEF Add
<1> QED BY <1>3, <1>4, <1>5, <1>6

LEMMA EditStep ==
    ASSUME TypeOK, IInv, NEW i \in DOMAIN q.items, NEW t \in Texts, Edit(i, t)
    PROVE  TypeOK' /\ IInv'
<1> DEFINE y == [q EXCEPT !.items[i].text = t]
<1>1. y \in Queue /\ Image(y, log, unsettled, acks)
  BY InvFacts, ImageEdit DEF Edit
<1>2. save(y, "update") /\ op' = NoOp /\ UNCHANGED <<obs, agentVars, histVars>>
  BY DEF Edit, UpdateSaves
<1> HIDE DEF y
<1>3. op'.kind \notin {"add", "cancel", "resolve"}
  BY <1>2 DEF NoOp
<1> QED BY <1>1, <1>2, <1>3, InvFacts, SaveStep DEF agentVars, histVars, Saving, TypeOK

LEMMA CancelStep ==
    ASSUME TypeOK, IInv, NEW i \in DOMAIN q.items, Cancel(i)
    PROVE  TypeOK' /\ IInv'
<1>1. UNCHANGED <<log, acks, pauseAcked>> /\ [kind |-> "cancel", item |-> i] \in Ops
  BY InvFacts DEF Cancel, Ops
<1>2. CASE /\ i \in QueuedItems(q)
           /\ UpdateSaves(SetState(q, i, "canceled"), [kind |-> "cancel", item |-> i])
           /\ UNCHANGED unsettled
  <2> DEFINE y == SetState(q, i, "canceled")
  <2>1. /\ y \in Queue /\ Image(y, log, unsettled, acks)
        /\ Honours(y, [kind |-> "cancel", item |-> i])
    BY <1>2, InvFacts, ImageCancelQueued
  <2>2. save(y, "update") /\ op' = [kind |-> "cancel", item |-> i] /\ UNCHANGED <<obs, agentVars>>
    BY <1>2 DEF UpdateSaves
  <2> HIDE DEF y
  <2>3. op' \in Ops /\ Honours(y, op')
    BY <1>1, <2>1, <2>2
  <2> QED BY <1>1, <1>2, <2>1, <2>2, <2>3, InvFacts, SaveStep DEF agentVars, Saving, TypeOK
<1>3. CASE /\ q.items[i].state = "attention" /\ q.active = i
           /\ UpdateSaves([SetState(q, i, "canceled") EXCEPT
                             !.active = 0, !.phase = "ready", !.paused = TRUE],
                          [kind |-> "cancel", item |-> i])
           /\ unsettled' = unsettled \ {i}
  <2> DEFINE y == [SetState(q, i, "canceled") EXCEPT !.active = 0, !.phase = "ready", !.paused = TRUE]
  <2>1. q.active # 0 /\ q.active = i /\ q.items[q.active].state = "attention"
    BY <1>3, InvFacts
  <2>2. /\ y \in Queue /\ Image(y, log, unsettled', acks)
        /\ Honours(y, [kind |-> "cancel", item |-> i])
    <3>1. LET x == [SetState(q, q.active, "canceled") EXCEPT !.active = 0, !.phase = "ready", !.paused = TRUE]
          IN  /\ x \in Queue /\ Image(x, log, unsettled \ {q.active}, acks)
              /\ Honours(x, [kind |-> IF "canceled" = "sent" THEN "resolve" ELSE "cancel", item |-> q.active])
      BY <2>1, InvFacts, ImageSettle
    <3> QED BY <1>3, <2>1, <3>1
  <2>3. save(y, "update") /\ op' = [kind |-> "cancel", item |-> i] /\ UNCHANGED <<obs, agentVars>>
    BY <1>3 DEF UpdateSaves
  <2> HIDE DEF y
  <2>4. op' \in Ops /\ Honours(y, op') /\ unsettled' \subseteq unsettled
    BY <1>1, <1>3, <2>2, <2>3
  <2> QED BY <1>1, <1>3, <2>2, <2>3, <2>4, InvFacts, SaveStep DEF agentVars, Saving, TypeOK
<1> QED BY <1>2, <1>3 DEF Cancel

LEMMA ResolveStep ==
    ASSUME TypeOK, IInv, NEW i \in DOMAIN q.items, Resolve(i)
    PROVE  TypeOK' /\ IInv'
<1> DEFINE y == [SetState(q, i, "sent") EXCEPT !.active = 0, !.phase = "ready", !.paused = TRUE]
<1>1. /\ UNCHANGED <<log, acks, pauseAcked>> /\ [kind |-> "resolve", item |-> i] \in Ops
      /\ unsettled' = unsettled \ {i} /\ unsettled' \subseteq unsettled
  BY InvFacts DEF Resolve, Ops
<1>2. q.active # 0 /\ q.active = i /\ q.items[q.active].state = "attention"
  BY InvFacts DEF Resolve
<1>3. /\ y \in Queue /\ Image(y, log, unsettled', acks)
      /\ Honours(y, [kind |-> "resolve", item |-> i])
  <2>1. LET x == [SetState(q, q.active, "sent") EXCEPT !.active = 0, !.phase = "ready", !.paused = TRUE]
        IN  /\ x \in Queue /\ Image(x, log, unsettled \ {q.active}, acks)
            /\ Honours(x, [kind |-> IF "sent" = "sent" THEN "resolve" ELSE "cancel", item |-> q.active])
    BY <1>2, InvFacts, ImageSettle
  <2> QED BY <1>1, <1>2, <2>1
<1>4. save(y, "update") /\ op' = [kind |-> "resolve", item |-> i] /\ UNCHANGED <<obs, agentVars>>
  BY DEF Resolve, UpdateSaves
<1> HIDE DEF y
<1>5. op' \in Ops /\ Honours(y, op')
  BY <1>1, <1>3, <1>4
<1> QED BY <1>1, <1>3, <1>4, <1>5, InvFacts, SaveStep DEF agentVars, Saving, TypeOK

LEMMA PauseResumeStep ==
    ASSUME TypeOK, IInv, Pause \/ Resume
    PROVE  TypeOK' /\ IInv'
<1>1. PICK b \in BOOLEAN, what \in Ops :
        /\ UpdateSaves([q EXCEPT !.paused = b], what)
        /\ what.kind \notin {"add", "cancel", "resolve"}
        /\ UNCHANGED <<log, unsettled, acks>> /\ pauseAcked' \in BOOLEAN
  BY DEF Pause, Resume, histVars, NoOp, Ops, TypeOK
<1> DEFINE y == [q EXCEPT !.paused = b]
<1>2. y \in Queue /\ y.items = q.items /\ y.active = q.active /\ y.phase = q.phase
  BY InvFacts DEF Queue
<1>3. save(y, "update") /\ op' = what /\ UNCHANGED <<obs, agentVars>>
  BY <1>1 DEF UpdateSaves
<1> HIDE DEF y
<1>4. Image(y, log, unsettled, acks)
  <2>1. HoldsOpenItem(y, unsettled) /\ (y.phase # "ready" => y.active # 0)
    BY <1>2, InvFacts DEF Image, HoldsOpenItem, WellFormed
  <2> QED BY <1>2, <2>1, InvFacts, ImageFields
<1> QED BY <1>1, <1>2, <1>3, <1>4, InvFacts, SaveStep DEF agentVars, Saving, TypeOK

\* The dispatcher parks a queue with an active item.
LEMMA ParkStep ==
    ASSUME TypeOK, IInv, q.active # 0, save(attention(q), "attn"),
           UNCHANGED <<op, agentVars, histVars>>, obs' \in Obs
    PROVE  TypeOK' /\ IInv'
<1>1. attention(q) \in Queue /\ Image(attention(q), log, unsettled, acks)
  BY InvFacts, AttentionFacts, ImageAttention
<1> QED BY <1>1, InvFacts, SaveStep DEF agentVars, histVars, Saving, TypeOK

LEMMA StepBeginStep ==
    ASSUME TypeOK, IInv, StepBegin
    PROVE  TypeOK' /\ IInv'
<1>1. CASE dirty /\ save(q, "resave") /\ UNCHANGED op
  BY <1>1, InvFacts, SaveStep DEF StepBegin, agentVars, histVars, Saving, TypeOK
<1>2. CASE ~dirty /\ Goto("observe")
  BY <1>2, InvFacts, GotoStep DEF StepBegin, agentVars, histVars, Running, TypeOK
<1> QED BY <1>1, <1>2 DEF StepBegin

LEMMA ObserveFailsStep ==
    ASSUME TypeOK, IInv, ObserveFails
    PROVE  TypeOK' /\ IInv'
<1>1. CASE q.active # 0
  BY <1>1, InvFacts, ParkStep DEF ObserveFails
<1>2. CASE q.active = 0
  BY <1>2, InvFacts, GotoStep DEF ObserveFails, Return, agentVars, histVars, Running, TypeOK
<1> QED BY <1>1, <1>2

\* Work was seen after the instruction was typed, so it is settled.
LEMMA ObserveStep ==
    ASSUME TypeOK, IInv, Observe
    PROVE  TypeOK' /\ IInv'
<1>1. /\ pc = "observe" /\ obs' \in Obs /\ UNCHANGED <<agentVars, histVars>>
  BY DEF Observe, Obs, TypeOK
<1>3. CASE q.active = 0 /\ Goto("pick")
  BY <1>1, <1>3, InvFacts, GotoStep DEF agentVars, histVars, Running, TypeOK
<1>4. CASE q.active # 0 /\ save(attention(q), "attn") /\ UNCHANGED op
  BY <1>1, <1>4, InvFacts, ParkStep
<1>5. CASE /\ q.active # 0 /\ worked
           /\ save([q EXCEPT !.phase = "working"], "working") /\ UNCHANGED op
  <2> DEFINE y == [q EXCEPT !.phase = "working"]
  <2>1. y \in Queue /\ y.items = q.items /\ y.active = q.active /\ y.phase = "working"
    BY InvFacts DEF Queue, Phase
  <2>2. save(y, "working")
    BY <1>5
  <2> HIDE DEF y
  <2>3. HoldsOpenItem(y, unsettled)
    BY <1>5, InvFacts DEF HoldsOpenItem
  <2>4. Image(y, log, unsettled, acks)
    BY <1>5, <2>1, <2>3, InvFacts, ImageFields
  <2> QED BY <1>1, <1>5, <2>1, <2>2, <2>4, InvFacts, SaveStep DEF agentVars, histVars, Saving, TypeOK
<1>6. CASE q.active # 0 /\ Goto("judge")
  BY <1>1, <1>6, InvFacts, GotoStep DEF agentVars, histVars, Running, TypeOK
<1> QED BY <1>3, <1>4, <1>5, <1>6 DEF Observe

LEMMA JudgeStep ==
    ASSUME TypeOK, IInv, Judge
    PROVE  TypeOK' /\ IInv'
<1>1. /\ pc = "judge" /\ q.active # 0 /\ UNCHANGED <<agentVars, histVars>>
  BY DEF Judge, IInv, Located
<1>2. CASE save(attention(q), "attn") /\ UNCHANGED <<op, obs>>
  BY <1>1, <1>2, InvFacts, ParkStep
<1>3. CASE Return
  BY <1>1, <1>3, InvFacts, GotoStep DEF Return, agentVars, histVars, Running, TypeOK
<1>4. CASE /\ q.phase = "working"
           /\ save([q EXCEPT !.active = 0, !.phase = "ready"], "done") /\ UNCHANGED <<op, obs>>
  <2> DEFINE y == [q EXCEPT !.active = 0, !.phase = "ready"]
  <2>1. y \in Queue /\ y.items = q.items /\ y.active = 0 /\ y.phase = "ready"
    BY InvFacts DEF Queue, Phase
  <2>2. save(y, "done")
    BY <1>4
  <2> HIDE DEF y
  <2>3. HoldsOpenItem(y, unsettled)
    BY <1>4, InvFacts DEF Image, HoldsOpenItem
  <2>4. Image(y, log, unsettled, acks)
    BY <2>1, <2>3, InvFacts, ImageFields
  <2> QED BY <1>1, <1>4, <2>1, <2>2, <2>4, InvFacts, SaveStep DEF agentVars, histVars, Saving, TypeOK
<1> QED BY <1>2, <1>3, <1>4 DEF Judge

LEMMA PickStep ==
    ASSUME TypeOK, IInv, Pick
    PROVE  TypeOK' /\ IInv'
<1>1. /\ pc = "pick" /\ q.active = 0 /\ UNCHANGED <<ready, epoch, rev, histVars>>
  BY DEF Pick, IInv, Located
<1>2. CASE Return /\ UNCHANGED <<worked, late>>
  BY <1>1, <1>2, InvFacts, GotoStep DEF Return, histVars, Running, TypeOK
<1>3. ASSUME NEW i \in QueuedItems(q), \A j \in QueuedItems(q) : i <= j,
             save([SetState(q, i, "sending") EXCEPT !.active = i, !.phase = "sending",
                      !.base = obs.rev, !.oep = obs.epoch], "claim"),
             worked' = FALSE, late' = FALSE, UNCHANGED <<op, obs>>
      PROVE  TypeOK' /\ IInv'
  <2> DEFINE y == [SetState(q, i, "sending") EXCEPT !.active = i, !.phase = "sending",
                      !.base = obs.rev, !.oep = obs.epoch]
  <2>1. obs.rev \in Nat /\ obs.epoch \in Nat
    BY InvFacts DEF Obs
  <2>2. y \in Queue /\ Image(y, log, unsettled, acks) /\ Fresh(y, log, unsettled, acks)
    BY <1>1, <1>3, <2>1, InvFacts, ImageClaim
  <2>3. save(y, "claim")
    BY <1>3
  <2> HIDE DEF y
  <2> QED BY <1>1, <1>3, <2>2, <2>3, InvFacts, SaveStep DEF histVars, Saving, TypeOK
<1> QED BY <1>2, <1>3 DEF Pick

LEMMA RecheckStep ==
    ASSUME TypeOK, IInv, Recheck
    PROVE  TypeOK' /\ IInv'
<1>1. /\ pc = "recheck" /\ UNCHANGED <<obs, ready, epoch, rev, histVars>>
      /\ Fresh(q, log, unsettled, acks) /\ ~dirty
  BY DEF Recheck, IInv, ClaimIsFresh, Located
<1>2. CASE save(unclaim(q), "unclaim") /\ UNCHANGED <<op, worked, late>>
  <2>1. unclaim(q) \in Queue /\ Image(unclaim(q), log, unsettled, acks)
    BY <1>1, InvFacts, ImageUnclaim
  <2> QED BY <1>1, <1>2, <2>1, InvFacts, SaveStep DEF histVars, Saving, TypeOK
<1>3. CASE Goto("send") /\ worked' = FALSE /\ late' = FALSE
  BY <1>1, <1>3, InvFacts, GotoStep DEF histVars, Running, TypeOK
<1> QED BY <1>2, <1>3 DEF Recheck

LEMMA SendStep ==
    ASSUME TypeOK, IInv, Send
    PROVE  TypeOK' /\ IInv'
<1>1. /\ pc = "send" /\ UNCHANGED <<obs, agentVars, histVars>>
      /\ Fresh(q, log, unsettled, acks) /\ ~dirty
  BY DEF Send, IInv, ClaimIsFresh, Located
<1>2. CASE save(unclaim(q), "unclaim") /\ UNCHANGED op
  <2>1. unclaim(q) \in Queue /\ Image(unclaim(q), log, unsettled, acks)
    BY <1>1, InvFacts, ImageUnclaim
  <2> QED BY <1>1, <1>2, <2>1, InvFacts, SaveStep DEF agentVars, histVars, Saving, TypeOK
<1>3. CASE save(attention(q), "attn") /\ UNCHANGED op
  <2>1. q.active # 0
    BY <1>1, InvFacts DEF Fresh
  <2> QED BY <1>1, <1>3, <2>1, InvFacts, ParkStep
<1>4. CASE Goto("write")
  BY <1>1, <1>4, InvFacts, GotoStep DEF agentVars, histVars, Running, TypeOK
<1> QED BY <1>2, <1>3, <1>4 DEF Send

\* The only step that types.  The claim is on disk and nothing else of the queue
\* is on its way there, so the single copy that exists accounts for the text.
LEMMA WriteStep ==
    ASSUME TypeOK, IInv, Write
    PROVE  TypeOK' /\ IInv'
<1>1. /\ pc = "write" /\ UNCHANGED <<obs, agentVars, acks, pauseAcked>>
      /\ Fresh(q, log, unsettled, acks) /\ ~dirty /\ q.active # 0
      /\ q.active \in DOMAIN q.items /\ q.phase = "sending"
  BY InvFacts DEF Write, IInv, ClaimIsFresh, Located, Fresh
<1>2. CASE save(attention(q), "attn") /\ UNCHANGED <<op, log, unsettled>>
  BY <1>1, <1>2, InvFacts, ParkStep DEF histVars
<1>3. CASE /\ Goto("written")
           /\ log' = Append(log, [item |-> q.active, text |-> q.items[q.active].text])
           /\ unsettled' = IF worked THEN unsettled ELSE unsettled \cup {q.active}
  <2> DEFINE e == [item |-> q.active, text |-> q.items[q.active].text]
  <2>1. unsettled' \in SUBSET {q.active} /\ unsettled = {} /\ (worked' => unsettled' = {})
    BY <1>1, <1>3 DEF Fresh, agentVars
  <2>2. Image(q, Append(log, e), unsettled', acks)
    BY <1>1, <2>1, InvFacts, ImageWrite
  <2>3. e \in [item: Nat, text: Texts] /\ e.item = q.active
    <3>1. q.items[q.active] \in Item
      BY <1>1, InvFacts
    <3> QED BY <3>1, InvFacts DEF Item
  <2> HIDE DEF e
  <2>4. log' = Append(log, e)
    BY <1>3 DEF e
  <2>5. pc' = "written" /\ UNCHANGED <<q, dirty, wait, op, pending, durable, crashes>>
    BY <1>3 DEF Goto
  <2>6. durable = q /\ pending = <<>>
    BY <1>1 DEF IInv, CleanIsSaved, SavedCopy
  <2>7. TypeOK'
    <3>1. log' \in Seq([item: Nat, text: Texts])
      <4> DEFINE E == [item: Nat, text: Texts]
      <4>1. log \in Seq(E) /\ e \in E
        BY <2>3, InvFacts
      <4> HIDE DEF E
      <4>2. log' \in Seq(E)
        BY <2>4, <4>1
      <4> QED BY <4>2 DEF E
    <3>2. unsettled' \in SUBSET Nat
      BY <2>1, InvFacts
    <3> QED BY <1>1, <2>5, <3>1, <3>2 DEF TypeOK, agentVars, Running
  <2>8. DeliveredOnceInOrder'
    <3>1. /\ DOMAIN log = 1..Len(log) /\ Len(log) \in Nat
          /\ DOMAIN log' = 1..(Len(log) + 1) /\ log'[Len(log) + 1] = e
          /\ \A k \in DOMAIN log : log'[k] = log[k]
      <4> DEFINE E == [item: Nat, text: Texts]
      <4>1. log \in Seq(E) /\ e \in E
        BY <2>3, InvFacts
      <4> HIDE DEF E
      <4> QED BY <2>4, <4>1
    <3>2. \A k \in DOMAIN log : log[k].item < e.item
      BY <1>1, <2>3 DEF Fresh
    <3> SUFFICES ASSUME NEW k \in DOMAIN log', NEW l \in DOMAIN log', k < l
                 PROVE  log'[k].item < log'[l].item
      BY DEF DeliveredOnceInOrder
    <3>3. CASE l = Len(log) + 1
      BY <3>1, <3>2, <3>3
    <3>4. CASE l # Len(log) + 1
      BY <3>1, <3>4 DEF IInv, DeliveredOnceInOrder
    <3> QED BY <3>3, <3>4
  <2>9. Images'
    BY <1>1, <2>2, <2>4, <2>5, <2>6 DEF Images
  <2>10. CleanIsSaved' /\ WaitIsLast' /\ ClaimIsFresh' /\ Located'
    BY <1>1, <2>5, <2>6 DEF CleanIsSaved, SavedCopy, WaitIsLast, Saving, ClaimIsFresh, Located
  <2> QED BY <2>1, <2>7, <2>8, <2>9, <2>10 DEF IInv
<1> QED BY <1>2, <1>3 DEF Write

LEMMA WrittenStep ==
    ASSUME TypeOK, IInv, Written
    PROVE  TypeOK' /\ IInv'
<1>1. /\ pc = "written" /\ UNCHANGED <<op, obs, agentVars, histVars>>
      /\ q.active # 0 /\ q.phase = "sending"
  BY DEF Written, IInv, Located
<1>2. CASE save([SetState(q, q.active, "sent") EXCEPT !.phase = "awaiting"], "sent")
  <2> DEFINE y == [SetState(q, q.active, "sent") EXCEPT !.phase = "awaiting"]
  <2>1. y \in Queue /\ y.active # 0 /\ Image(y, log, unsettled, acks)
    BY <1>1, InvFacts, ImageSent
  <2>2. save(y, "sent")
    BY <1>2
  <2> HIDE DEF y
  <2> QED BY <1>1, <2>1, <2>2, InvFacts, SaveStep DEF agentVars, histVars, Saving, TypeOK
<1>3. CASE save(attention(q), "attn")
  BY <1>1, <1>3, InvFacts, ParkStep
<1> QED BY <1>2, <1>3 DEF Written

\* A confirmed save: what the user is told is true of the only copy there is.
LEMMA SaveOKStep ==
    ASSUME TypeOK, IInv, SaveOK
    PROVE  TypeOK' /\ IInv'
<1>1. /\ pc \in Saving /\ dirty' = FALSE /\ op' = NoOp /\ obs' \in {obs, NoObs}
      /\ UNCHANGED <<q, wait, writerVars, agentVars, crashes, log, unsettled>>
  BY DEF SaveOK
<1>2. durable = q /\ pending = <<>>
  BY DEF SaveOK, IInv, WaitIsLast, SavedCopy, Refused
<1>3. /\ pc' \in {"free", "observe", "judge", "pick", "recheck"}
      /\ pc' = "judge" => pc = "working"
      /\ pc' = "pick" => pc = "done"
      /\ pc' = "recheck" => pc = "claim"
  BY DEF SaveOK
<1>4. \/ acks' = acks
      \/ pc = "update" /\ acks' = acks \cup {op} /\ Honours(q, op)
  BY DEF SaveOK, IInv, Located
<1>5. acks' \in SUBSET Ops /\ pauseAcked' \in BOOLEAN
  <2>1. acks' \in SUBSET Ops
    BY <1>4, InvFacts
  <2>2. pauseAcked' \in BOOLEAN
    BY Zenon DEF SaveOK, TypeOK
  <2> QED BY <2>1, <2>2
<1>6. TypeOK'
  <2>1. pc' \in Saving \cup Running \cup {"down"}
    BY <1>3 DEF Running
  <2>2. obs' \in Obs /\ op' \in Ops
    BY <1>1, InvFacts
  <2> QED BY <1>1, <1>5, <2>1, <2>2 DEF TypeOK, writerVars, agentVars
<1>7. Images'
  <2>1. Image(q, log, unsettled, acks')
    BY <1>4, InvFacts DEF Image
  <2> QED BY <1>1, <1>2, <2>1 DEF Images, writerVars
<1>8. DeliveredOnceInOrder'
  BY <1>1 DEF IInv, DeliveredOnceInOrder
<1>9. CleanIsSaved' /\ WaitIsLast'
  BY <1>1, <1>2, <1>3 DEF CleanIsSaved, SavedCopy, WaitIsLast, Saving, writerVars
<1>10. ClaimIsFresh'
  BY <1>1, <1>3, <1>4 DEF IInv, ClaimIsFresh
<1>11. Located'
  BY <1>1, <1>3 DEF IInv, Located
<1> QED BY <1>1, <1>6, <1>7, <1>8, <1>9, <1>10, <1>11 DEF IInv, agentVars

\* An unconfirmed save: the accepted copies stay where they are.
LEMMA SaveFailsStep ==
    ASSUME TypeOK, IInv, SaveFails
    PROVE  TypeOK' /\ IInv'
<1>1. /\ pc \in Saving /\ pc' = "free" /\ wait' = 0 /\ op' = NoOp /\ obs' = NoObs /\ dirty
      /\ UNCHANGED <<dirty, writerVars, agentVars, crashes, histVars>>
  BY DEF SaveFails, IInv, WaitIsLast
<1>2. q' \in Queue /\ Image(q', log, unsettled, acks)
  <2>1. CASE pc \in {"claim", "sent"}
    <3>1. q.active # 0
      BY <2>1, InvFacts DEF IInv, ClaimIsFresh, Fresh, Located
    <3> QED BY <2>1, <3>1, InvFacts, AttentionFacts, ImageAttention DEF SaveFails
  <2>2. CASE pc \notin {"claim", "sent"}
    BY <2>2, InvFacts DEF SaveFails
  <2> QED BY <2>1, <2>2
<1>3. TypeOK'
  BY <1>1, <1>2, InvFacts DEF TypeOK, writerVars, agentVars, histVars, Running
<1>4. Images' /\ DeliveredOnceInOrder'
  BY <1>1, <1>2 DEF IInv, Images, DeliveredOnceInOrder, writerVars, histVars
<1>5. CleanIsSaved' /\ WaitIsLast' /\ ClaimIsFresh' /\ Located'
  BY <1>1 DEF CleanIsSaved, WaitIsLast, Saving, ClaimIsFresh, Located
<1> QED BY <1>1, <1>3, <1>4, <1>5 DEF IInv, agentVars, histVars

\* A commit moves the disk forward along copies that all account for the past.
LEMMA CommitStep ==
    ASSUME TypeOK, IInv, Commit
    PROVE  TypeOK' /\ IInv'
<1>1. UNCHANGED <<q, dirty, pc, op, obs, agentVars, crashes, histVars>>
  BY DEF Commit
<1>2. PICK n \in 1..Len(pending) :
        /\ durable' = pending[n]
        /\ pending' = SubSeq(pending, n + 1, Len(pending))
        /\ wait' = IF wait > n THEN wait - n ELSE IF wait > 0 THEN 0 ELSE wait
  BY DEF Commit
<1>3. /\ pending \in Seq(Queue) /\ wait \in Int /\ Len(pending) \in Nat
      /\ n \in DOMAIN pending /\ pending # <<>>
  BY <1>2 DEF TypeOK
<1>4. /\ durable' \in Queue /\ pending' \in Seq(Queue) /\ wait' \in Int
      /\ Len(pending') = Len(pending) - n
      /\ DOMAIN pending' = 1..(Len(pending) - n)
      /\ \A k \in DOMAIN pending' : k + n \in DOMAIN pending /\ pending'[k] = pending[k + n]
  BY <1>2, <1>3
<1>5. TypeOK'
  BY <1>1, <1>4 DEF TypeOK, agentVars, histVars
<1>6. Images'
  BY <1>1, <1>2, <1>3, <1>4 DEF IInv, Images, histVars
<1>7. DeliveredOnceInOrder' /\ ClaimIsFresh'
  BY <1>1 DEF IInv, DeliveredOnceInOrder, ClaimIsFresh, histVars
<1>8. CleanIsSaved'
  BY <1>1, <1>3 DEF IInv, CleanIsSaved, SavedCopy
<1>9. WaitIsLast'
  <2> SUFFICES ASSUME pc \in Saving
               PROVE  \/ wait' = Refused
                      \/ wait' = 0 /\ durable' = q /\ pending' = <<>>
                      \/ wait' > 0 /\ wait' = Len(pending') /\ pending'[wait'] = q
    BY <1>1 DEF WaitIsLast, SavedCopy, IInv
  <2>1. wait = Refused \/ (wait > 0 /\ wait = Len(pending) /\ pending[wait] = q)
    BY <1>3 DEF IInv, WaitIsLast, SavedCopy
  <2>2. CASE wait = Refused
    BY <1>2, <2>2 DEF Refused
  <2>3. CASE wait = Len(pending) /\ n < wait
    <3>1. wait' = wait - n /\ wait' > 0 /\ wait' = Len(pending')
      BY <1>2, <1>3, <1>4, <2>3
    <3>2. Len(pending) \in Nat /\ n \in Nat
      BY <1>2, <1>3
    <3>3. wait' \in DOMAIN pending' /\ wait' + n = wait
      BY <1>4, <2>3, <3>1, <3>2
    <3>4. pending[wait] = q
      BY <2>1, <2>3, <3>1 DEF Refused
    <3> QED BY <1>4, <3>1, <3>3, <3>4
  <2>4. CASE wait = Len(pending) /\ n = wait
    <3>1. Len(pending') = 0
      BY <1>4, <2>4
    <3>2. pending' = <<>>
      BY <1>4, <3>1
    <3> QED BY <1>2, <1>3, <2>1, <2>4, <3>2 DEF Refused
  <2> QED BY <1>2, <1>3, <2>1, <2>2, <2>3, <2>4
<1>10. Located'
  BY <1>1, <1>3 DEF IInv, Located
<1> QED BY <1>1, <1>5, <1>6, <1>7, <1>8, <1>9, <1>10 DEF IInv, agentVars, histVars

LEMMA StopStep ==
    ASSUME TypeOK, IInv, Stop, crashes' \in Nat
    PROVE  TypeOK' /\ IInv'
<1>1. /\ pc' = "down" /\ pending' = <<>> /\ wait' = 0 /\ dirty' = FALSE /\ op' = NoOp
      /\ obs' = NoObs /\ UNCHANGED <<q, durable, agentVars, histVars>>
  BY DEF Stop
<1>2. TypeOK'
  <2>1. pending' \in Seq(Queue)
    BY <1>1
  <2>2. pc' \in Saving \cup Running \cup {"down"} /\ wait' \in Int
    BY <1>1
  <2>3. dirty' \in BOOLEAN /\ op' \in Ops /\ obs' \in Obs
    BY <1>1, InvFacts
  <2> QED BY <1>1, <2>1, <2>2, <2>3 DEF TypeOK, agentVars, histVars
<1>3. Images' /\ DeliveredOnceInOrder'
  BY <1>1 DEF IInv, Images, DeliveredOnceInOrder, histVars
<1>4. CleanIsSaved' /\ WaitIsLast' /\ ClaimIsFresh' /\ Located'
  BY <1>1 DEF CleanIsSaved, WaitIsLast, Saving, ClaimIsFresh, Located
<1> QED BY <1>1, <1>2, <1>3, <1>4 DEF IInv, agentVars, histVars

\* A restart: the queue on disk accounts for the past like the lost one did.
LEMMA NewStep ==
    ASSUME TypeOK, IInv, New
    PROVE  TypeOK' /\ IInv'
<1>1. /\ pc = "down" /\ pending = <<>> /\ ~dirty
      /\ ready' = FALSE /\ epoch' = 1 /\ rev' = 0 /\ worked' = FALSE /\ late' = FALSE
      /\ UNCHANGED <<op, obs, histVars>>
  BY DEF New, IInv, Located
<1>2. CASE /\ durable.active # 0 \/ durable.phase \in {"awaiting", "working", "sending"}
           /\ save(attention(durable), "recover")
  <2>1. durable.active # 0
    BY <1>2, InvFacts DEF Image, WellFormed
  <2>2. attention(durable) \in Queue /\ Image(attention(durable), log, unsettled, acks)
    BY <2>1, InvFacts, AttentionFacts, ImageAttention
  <2> QED BY <1>1, <1>2, <2>2, InvFacts, SaveStep DEF histVars, Saving, TypeOK
<1>3. CASE /\ q' = durable /\ pc' = "free"
           /\ UNCHANGED <<dirty, wait, pending, durable, crashes>>
  <2>1. TypeOK'
    BY <1>1, <1>3 DEF TypeOK, histVars, Running
  <2>2. Images' /\ DeliveredOnceInOrder'
    BY <1>1, <1>3, InvFacts DEF IInv, Images, DeliveredOnceInOrder, histVars
  <2>3. CleanIsSaved' /\ WaitIsLast' /\ ClaimIsFresh' /\ Located'
    BY <1>1, <1>3 DEF CleanIsSaved, SavedCopy, WaitIsLast, Saving, ClaimIsFresh, Located
  <2> QED BY <1>1, <2>1, <2>2, <2>3 DEF IInv
<1> QED BY <1>2, <1>3 DEF New

\* The agent, its monitor and the clock leave the queue alone.
LEMMA EnvironmentStep ==
    ASSUME TypeOK, IInv,
           UNCHANGED <<q, dirty, pc, wait, op, obs, writerVars, crashes, log, acks, pauseAcked>>,
           unsettled' \subseteq unsettled,
           ready' \in BOOLEAN, epoch' \in Nat, rev' \in Nat, worked' \in BOOLEAN,
           late' \in BOOLEAN, worked' => unsettled' = {}
    PROVE  TypeOK' /\ IInv'
<1>1. TypeOK'
  BY DEF TypeOK, writerVars
<1>2. Images'
  <2>1. \A z : Image(z, log, unsettled, acks) => Image(z, log, unsettled', acks)
    BY ImageFewerOpen
  <2> QED BY <2>1 DEF IInv, Images, writerVars
<1>3. DeliveredOnceInOrder' /\ CleanIsSaved' /\ WaitIsLast' /\ Located'
  BY DEF IInv, DeliveredOnceInOrder, CleanIsSaved, WaitIsLast, SavedCopy, Located, writerVars
<1>4. ClaimIsFresh'
  BY DEF IInv, ClaimIsFresh, Fresh
<1> QED BY <1>1, <1>2, <1>3, <1>4 DEF IInv

\* One step of the system preserves the invariant.
LEMMA Inductive ==
    ASSUME TypeOK, IInv, [Next]_vars
    PROVE  TypeOK' /\ IInv'
<1>1. CASE Update
  BY <1>1, AddStep, EditStep, CancelStep, ResolveStep, PauseResumeStep DEF Update
<1>2. CASE Dispatch
  BY <1>2, StepBeginStep, ObserveFailsStep, ObserveStep, JudgeStep, PickStep, RecheckStep,
     SendStep, WriteStep, WrittenStep DEF Dispatch
<1>3. CASE SaveOK
  BY <1>3, SaveOKStep
<1>4. CASE SaveFails
  BY <1>4, SaveFailsStep
<1>5. CASE RecoveryFails \/ Crash
  BY <1>5, StopStep DEF RecoveryFails, Crash, TypeOK
<1>6. CASE Commit
  BY <1>6, CommitStep
<1>7. CASE New
  BY <1>7, NewStep
<1>8. CASE Environment
  <2>1. CASE AgentBecomesReady
    BY <2>1, InvFacts, EnvironmentStep DEF AgentBecomesReady, Agent, TypeOK
  <2>2. CASE AgentNotReady
    BY <2>2, InvFacts, EnvironmentStep DEF AgentNotReady, Agent, TypeOK
  <2>3. CASE AgentWorks
    <3>1. /\ ready' = FALSE /\ epoch' = epoch /\ rev' = rev + 1 /\ worked' = TRUE /\ late' = late
          /\ unsettled' = {}
          /\ UNCHANGED <<q, dirty, pc, wait, op, obs, writerVars, crashes, log, acks, pauseAcked>>
      BY <2>3 DEF AgentWorks, Agent
    <3>2. epoch \in Nat /\ rev + 1 \in Nat /\ late \in BOOLEAN
      BY DEF TypeOK
    <3> QED BY <3>1, <3>2, EnvironmentStep
  <2>4. CASE MonitorRebinds
    <3>1. /\ ready' = FALSE /\ epoch' = epoch + 1 /\ rev' = 0 /\ worked' = FALSE /\ late' = late
          /\ unsettled' = unsettled
          /\ UNCHANGED <<q, dirty, pc, wait, op, obs, writerVars, crashes, log, acks, pauseAcked>>
      BY <2>4 DEF MonitorRebinds, Agent
    <3>2. epoch + 1 \in Nat /\ late \in BOOLEAN
      BY DEF TypeOK
    <3> QED BY <3>1, <3>2, EnvironmentStep
  <2> QED BY <1>8, <2>1, <2>2, <2>3, <2>4 DEF Environment
<1>9. CASE StartTimeout
  BY <1>9, InvFacts, EnvironmentStep DEF StartTimeout, histVars, TypeOK
<1>10. CASE UNCHANGED vars
  BY <1>10, InvFacts, EnvironmentStep DEF vars, agentVars, histVars, TypeOK
<1> QED BY <1>1, <1>2, <1>3, <1>4, <1>5, <1>6, <1>7, <1>8, <1>9, <1>10 DEF Next, SaveReturns

LEMMA Initial == Init => TypeOK /\ IInv
<1> SUFFICES ASSUME Init PROVE TypeOK /\ IInv
  OBVIOUS
<1>1. TypeOK
  <2>1. pending \in Seq(Queue) /\ log \in Seq([item: Nat, text: Texts])
    BY DEF Init
  <2>2. q \in Queue /\ durable \in Queue
    BY EmptyQueueType DEF Init
  <2>3. op \in Ops /\ obs \in Obs /\ pc \in Running
    BY DEF Init, NoOp, Ops, NoObs, Obs, Running
  <2>4. /\ dirty \in BOOLEAN /\ ready \in BOOLEAN /\ worked \in BOOLEAN /\ late \in BOOLEAN
        /\ pauseAcked \in BOOLEAN
    BY DEF Init
  <2>5. /\ wait \in Int /\ epoch \in Nat /\ rev \in Nat /\ crashes \in Nat
        /\ unsettled \in SUBSET Nat /\ acks \in SUBSET Ops
    BY DEF Init
  <2> QED BY <2>1, <2>2, <2>3, <2>4, <2>5 DEF TypeOK
<1>2. Image(EmptyQueue, <<>>, {}, {})
  BY FollowupAssumption DEF EmptyQueue, Image, WellFormed, AccountsForLog, HoldsOpenItem
<1>3. Images /\ DeliveredOnceInOrder
  BY <1>2 DEF Init, Images, DeliveredOnceInOrder
<1>4. CleanIsSaved /\ WaitIsLast /\ ClaimIsFresh /\ Located
  BY DEF Init, CleanIsSaved, SavedCopy, WaitIsLast, Saving, ClaimIsFresh, Located
<1> QED BY <1>1, <1>3, <1>4 DEF IInv, Init

-----------------------------------------------------------------------------
(* A pause holds                                                           *)

\* From the claim of an instruction to its being typed.
Claiming == {"claim", "recheck", "send", "write"}

\* Once a pause is acknowledged, every copy from which a restart could take the queue
\* is paused, and no instruction is claimed.
PauseInv ==
    /\ pauseAcked => /\ q.paused /\ durable.paused /\ pc \notin Claiming
                     /\ \A k \in DOMAIN pending : pending[k].paused
    /\ pc = "update" /\ op.kind = "pause" => q.paused

\* What the changes of a queue do to its pause.
LEMMA PausedFacts ==
    ASSUME NEW z \in Queue
    PROVE  /\ \A x : [z EXCEPT !.items = x].paused = z.paused
           /\ \A x : [z EXCEPT !.phase = x].paused = z.paused
           /\ \A x, y : [z EXCEPT !.active = x, !.phase = y].paused = z.paused
           /\ \A x, y : [z EXCEPT !.active = x, !.phase = y, !.paused = TRUE].paused
           /\ [z EXCEPT !.paused = TRUE].paused
           /\ attention(z).paused
  BY DEF Queue, attention

\* Saving a queue that is paused, or while no pause is acknowledged.
LEMMA SavePaused ==
    ASSUME TypeOK, PauseInv, NEW z, NEW cont, save(z, cont),
           pauseAcked' => pauseAcked /\ z.paused /\ cont \notin Claiming,
           cont = "update" /\ op'.kind = "pause" => z.paused
    PROVE  PauseInv'
<1>1. /\ q' = z /\ pc' = cont /\ durable' = durable
      /\ pending' = pending \/ pending' = Append(pending, z)
  BY DEF save
<1>2. ASSUME pauseAcked', NEW k \in DOMAIN pending' PROVE pending'[k].paused
  <2>1. pending \in Seq(Queue) /\ \A j \in DOMAIN pending : pending[j].paused
    BY <1>2 DEF TypeOK, PauseInv
  <2>2. CASE pending' = Append(pending, z)
    <3>1. k \in 1 .. Len(pending) + 1 /\ pending'[k] = IF k = Len(pending) + 1 THEN z ELSE pending[k]
      BY <1>2, <2>1, <2>2
    <3> QED BY <1>2, <2>1, <3>1
  <2> QED BY <1>1, <1>2, <2>1, <2>2
<1> QED BY <1>1, <1>2 DEF PauseInv

\* A step that saves nothing.
LEMMA NoSavePaused ==
    ASSUME PauseInv, UNCHANGED <<q, durable, pending>>, pauseAcked' => pauseAcked,
           pc' \in Claiming => pc \in Claiming,
           (pc' = "update" /\ op'.kind = "pause") => (pc = "update" /\ op.kind = "pause")
    PROVE  PauseInv'
  BY DEF PauseInv

LEMMA PauseStep ==
    ASSUME TypeOK, IInv, PauseInv, [Next]_vars
    PROVE  PauseInv'
<1>q. q \in Queue /\ durable \in Queue /\ q.paused \in BOOLEAN
  BY DEF TypeOK, Queue
<1>1. CASE \E r \in Requests \cup {NoRequest}, t \in Texts : Add(r, t)
  <2>1. PICK r \in Requests \cup {NoRequest}, t \in Texts : Add(r, t)
    BY <1>1
  <2>2. pauseAcked' = pauseAcked /\ pc = "free"
    BY <2>1 DEF Add
  <2>3. CASE UNCHANGED <<q, durable, pending>> /\ pc' = "free"
    BY <2>2, <2>3, NoSavePaused DEF Claiming
  <2>4. ASSUME NEW x, NEW n, UpdateSaves([q EXCEPT !.items = x], [kind |-> "add", item |-> n]) PROVE PauseInv'
    BY <1>q, <2>2, <2>4, PausedFacts, SavePaused DEF UpdateSaves, PauseInv, Claiming
  <2>5. ASSUME NEW n, UpdateSaves(q, [kind |-> "add", item |-> n]) PROVE PauseInv'
    BY <1>q, <2>2, <2>5, SavePaused DEF UpdateSaves, PauseInv, Claiming
  <2> QED BY <2>1, <2>3, <2>4, <2>5 DEF Add, Goto
<1>2. ASSUME NEW i \in DOMAIN q.items, NEW t \in Texts, Edit(i, t) PROVE PauseInv'
  <2>1. PICK its : [q EXCEPT !.items[i].text = t] = [q EXCEPT !.items = its]
    OBVIOUS
  <2>2. [q EXCEPT !.items[i].text = t].paused = q.paused
    BY <1>q, <2>1, PausedFacts
  <2>3. save([q EXCEPT !.items[i].text = t], "update") /\ op' = NoOp /\ pauseAcked' = pauseAcked
    BY <1>2 DEF Edit, UpdateSaves, histVars
  <2> QED BY <2>2, <2>3, SavePaused DEF NoOp, PauseInv, Claiming
<1>3. ASSUME NEW i \in DOMAIN q.items, NEW s \in ItemState
      PROVE  SetState(q, i, s) \in Queue /\ SetState(q, i, s).paused = q.paused
  <2>1. PICK its : SetState(q, i, s) = [q EXCEPT !.items = its]
    BY DEF SetState
  <2>2. SetState(q, i, s) \in Queue
    BY <1>q, <1>3, SetStateFacts
  <2> QED BY <1>q, <2>1, <2>2, PausedFacts
<1>4. ASSUME NEW i \in DOMAIN q.items, Cancel(i) PROVE PauseInv'
  <2>1. SetState(q, i, "canceled") \in Queue /\ SetState(q, i, "canceled").paused = q.paused
    BY <1>3 DEF ItemState
  <2>2. pauseAcked' = pauseAcked
    BY <1>4 DEF Cancel
  <2>3. ASSUME UpdateSaves(SetState(q, i, "canceled"), [kind |-> "cancel", item |-> i]) PROVE PauseInv'
    BY <2>1, <2>2, <2>3, SavePaused DEF UpdateSaves, PauseInv, Claiming
  <2>4. ASSUME UpdateSaves([SetState(q, i, "canceled") EXCEPT !.active = 0, !.phase = "ready", !.paused = TRUE],
                           [kind |-> "cancel", item |-> i]) PROVE PauseInv'
    BY <2>1, <2>2, <2>4, SavePaused, PausedFacts DEF UpdateSaves, PauseInv, Claiming
  <2> QED BY <1>4, <2>3, <2>4 DEF Cancel
<1>5. ASSUME NEW i \in DOMAIN q.items, Resolve(i) PROVE PauseInv'
  <2>1. SetState(q, i, "sent") \in Queue
    BY <1>3 DEF ItemState
  <2>2. [SetState(q, i, "sent") EXCEPT !.active = 0, !.phase = "ready", !.paused = TRUE].paused
    BY <2>1, PausedFacts
  <2> QED BY <1>5, <2>2, SavePaused DEF Resolve, UpdateSaves, PauseInv, Claiming
<1>6. CASE Pause
  BY <1>q, <1>6, PausedFacts, SavePaused DEF Pause, UpdateSaves, histVars, PauseInv, Claiming
<1>7. CASE Resume
  BY <1>7, SavePaused DEF Resume, UpdateSaves, NoOp
<1>8. ASSUME save(attention(q), "attn"), pauseAcked' = pauseAcked PROVE PauseInv'
  <2>1. attention(q).paused
    BY <1>q, PausedFacts
  <2> QED BY <1>8, <2>1, SavePaused DEF Claiming
<1>9. CASE StepBegin
  <2>1. CASE dirty
    BY <1>9, <2>1, SavePaused DEF StepBegin, histVars, PauseInv, Claiming
  <2>2. CASE ~dirty
    BY <1>9, <2>2, NoSavePaused DEF StepBegin, histVars, Goto, Claiming
  <2> QED BY <2>1, <2>2
<1>10. CASE ObserveFails
  BY <1>8, <1>10, NoSavePaused DEF ObserveFails, Return, Goto, histVars, Claiming
<1>11. CASE Observe
  <2>1. pauseAcked' = pauseAcked
    BY <1>11 DEF Observe, histVars
  <2>2. ASSUME NEW loc \in {"pick", "judge"}, Goto(loc) PROVE PauseInv'
    BY <2>1, <2>2, NoSavePaused DEF Goto, Claiming
  <2>3. ASSUME save([q EXCEPT !.phase = "working"], "working") PROVE PauseInv'
    <3>1. [q EXCEPT !.phase = "working"].paused = q.paused
      BY <1>q, PausedFacts
    <3> QED BY <2>1, <2>3, <3>1, SavePaused DEF PauseInv, Claiming
  <2>4. ASSUME save(attention(q), "attn") PROVE PauseInv'
    BY <1>8, <2>1, <2>4
  <2> QED BY <1>11, <2>2, <2>3, <2>4 DEF Observe
<1>12. CASE Judge
  <2>1. pauseAcked' = pauseAcked
    BY <1>12 DEF Judge, histVars
  <2>2. ASSUME Return PROVE PauseInv'
    BY <2>1, <2>2, NoSavePaused DEF Return, Goto, Claiming
  <2>3. ASSUME save([q EXCEPT !.active = 0, !.phase = "ready"], "done") PROVE PauseInv'
    <3>1. [q EXCEPT !.active = 0, !.phase = "ready"].paused = q.paused
      BY <1>q, PausedFacts
    <3> QED BY <2>1, <2>3, <3>1, SavePaused DEF PauseInv, Claiming
  <2>4. ASSUME save(attention(q), "attn") PROVE PauseInv'
    BY <1>8, <2>1, <2>4
  <2> QED BY <1>12, <2>2, <2>3, <2>4 DEF Judge
<1>13. CASE Pick
  <2>1. pauseAcked' = pauseAcked
    BY <1>13, Zenon DEF Pick, histVars
  <2>2. ASSUME Return PROVE PauseInv'
    BY <2>1, <2>2, NoSavePaused DEF Return, Goto, Claiming
  <2>3. ASSUME NEW z, ~q.paused, save(z, "claim") PROVE PauseInv'
    BY <2>1, <2>3, SavePaused DEF PauseInv
  <2> QED BY <1>13, <2>2, <2>3, Zenon DEF Pick
<1>14. ASSUME NEW z, NEW cont \in {"unclaim", "attn"}, pc \in Claiming, save(z, cont), pauseAcked' = pauseAcked PROVE PauseInv'
  BY <1>14, SavePaused DEF PauseInv
<1>15. CASE Recheck \/ Send
  <2>1. pauseAcked' = pauseAcked /\ pc \in Claiming
    BY <1>15 DEF Recheck, Send, histVars, Claiming
  <2>2. ASSUME NEW loc \in {"send", "write"}, Goto(loc) PROVE PauseInv'
    BY <2>1, <2>2, NoSavePaused DEF Goto
  <2> QED BY <1>14, <1>15, <2>1, <2>2 DEF Recheck, Send
<1>16. CASE Write
  <2>1. pauseAcked' = pauseAcked /\ pc \in Claiming
    BY <1>16 DEF Write, Claiming
  <2>2. ASSUME Goto("written") PROVE PauseInv'
    BY <2>1, <2>2, NoSavePaused DEF Goto, Claiming
  <2> QED BY <1>14, <1>16, <2>1, <2>2 DEF Write
<1>17. CASE Written
  <2>1. pauseAcked' = pauseAcked /\ q.active \in DOMAIN q.items
    BY <1>17 DEF Written, histVars, IInv, Located, Images, Image, WellFormed
  <2>2. ASSUME save([SetState(q, q.active, "sent") EXCEPT !.phase = "awaiting"], "sent") PROVE PauseInv'
    <3>1. [SetState(q, q.active, "sent") EXCEPT !.phase = "awaiting"].paused = q.paused
      BY <1>3, <2>1, PausedFacts DEF ItemState
    <3> QED BY <2>1, <2>2, <3>1, SavePaused DEF PauseInv, Claiming
  <2>3. ASSUME save(attention(q), "attn") PROVE PauseInv'
    BY <1>8, <2>1, <2>3
  <2> QED BY <1>17, <2>2, <2>3 DEF Written
<1>18. CASE SaveOK
  <2>1. pc = "update" /\ op.kind = "pause" => durable = q /\ pending = <<>>
    BY <1>18 DEF SaveOK, IInv, WaitIsLast, SavedCopy, Saving, Refused
  <2>2. pc' # "update" /\ UNCHANGED <<q, durable, pending>> /\ (pc' \in Claiming => pc = "claim")
    BY <1>18 DEF SaveOK, writerVars, Claiming
  <2>3. CASE pc = "update" /\ op.kind = "pause"
    BY <2>1, <2>2, <2>3 DEF PauseInv, Claiming
  <2>4. CASE ~(pc = "update" /\ op.kind = "pause")
    <3>1. pauseAcked' => pauseAcked
      BY <1>18, <2>4 DEF SaveOK, TypeOK
    <3> QED BY <2>2, <3>1, NoSavePaused DEF Claiming
  <2> QED BY <2>3, <2>4
<1>19. CASE SaveFails
  <2>1. /\ q'.paused \/ q' = q
    BY <1>q, <1>19, PausedFacts DEF SaveFails
  <2> QED BY <1>19, <2>1 DEF SaveFails, PauseInv, writerVars, histVars, Claiming
<1>20. CASE RecoveryFails \/ Crash
  BY <1>20 DEF RecoveryFails, Crash, Stop, PauseInv, histVars, Claiming
<1>21. CASE Commit
  <2>1. PICK n \in 1 .. Len(pending) :
           durable' = pending[n] /\ pending' = SubSeq(pending, n + 1, Len(pending))
    BY <1>21 DEF Commit
  <2>2. UNCHANGED <<q, pc, op, pauseAcked>> /\ pending \in Seq(Queue)
    BY <1>21 DEF Commit, histVars, TypeOK
  <2>3. \A k \in DOMAIN pending' : k + n \in DOMAIN pending /\ pending'[k] = pending[k + n]
    BY <2>1, <2>2
  <2>4. n \in DOMAIN pending
    BY <2>1, <2>2
  <2> QED BY <2>1, <2>2, <2>3, <2>4 DEF PauseInv
<1>22. CASE New
  <2>1. pauseAcked' = pauseAcked /\ pc = "down" /\ attention(durable).paused
    BY <1>q, <1>22, PausedFacts DEF New, histVars
  <2>2. ASSUME save(attention(durable), "recover") PROVE PauseInv'
    BY <2>1, <2>2, SavePaused DEF Claiming
  <2> QED BY <1>22, <2>1, <2>2 DEF New, PauseInv, Claiming
<1>23. CASE Environment \/ StartTimeout \/ UNCHANGED vars
  <2>1. UNCHANGED <<q, durable, pending, pc, op, pauseAcked>>
    BY <1>23 DEF Environment, AgentBecomesReady, AgentNotReady, AgentWorks, MonitorRebinds, Agent,
                 StartTimeout, vars, writerVars, histVars
  <2> QED BY <2>1, NoSavePaused
<1> QED BY <1>1, <1>2, <1>4, <1>5, <1>6, <1>7, <1>9, <1>10, <1>11, <1>12, <1>13, <1>15, <1>16, <1>17,
           <1>18, <1>19, <1>20, <1>21, <1>22, <1>23 DEF Next, Update, Dispatch, SaveReturns

-----------------------------------------------------------------------------
(* Theorems                                                                *)

\* In every reachable state every copy of the queue -- in memory, in the FIFO
\* and on disk -- accounts for everything typed and everything acknowledged.
THEOREM Invariance == Spec => [](TypeOK /\ IInv)
  BY Initial, Inductive, PTL DEF Spec

\* Every variable keeps its type.
THEOREM TypeCorrect == Spec => []TypeOK
  BY Invariance, PTL

\* No instruction is typed twice, and instructions are typed in the order they
\* were added, whatever save fails and wherever the daemon crashes.
THEOREM OnceInOrder == Spec => []DeliveredOnceInOrder
<1>1. IInv => DeliveredOnceInOrder
  BY DEF IInv
<1> QED BY <1>1, Invariance, PTL

\* What was typed is what the row in SQLite records for that instruction.
THEOREM TypedIsRecorded == Spec => []TypedTextIsDurable
<1>1. IInv => TypedTextIsDurable
  BY DEF IInv, Images, Image, AccountsForLog, TypedTextIsDurable
<1> QED BY <1>1, Invariance, PTL

\* An acknowledged add, cancel or resolve survives every crash.
THEOREM AcknowledgedSurvives == Spec => []AcknowledgedIsDurable
<1>1. IInv => AcknowledgedIsDurable
  BY DEF IInv, Images, Image, Honours, AcknowledgedIsDurable
<1> QED BY <1>1, Invariance, PTL

\* A queue parked for attention always has an item a user can decide about.
THEOREM ParkedIsResolvable == Spec => []AttentionCanBeResolved
<1>1. IInv => AttentionCanBeResolved
  BY DEF IInv, Images, Image, WellFormed, AttentionCanBeResolved
<1> QED BY <1>1, Invariance, PTL

\* After a pause was acknowledged nothing is typed until a resume is asked for, for
\* any number of crashes, restarts and unconfirmed saves.
THEOREM PauseIsKept == Spec => PauseHolds
<1>1. Init => PauseInv
  BY DEF Init, PauseInv, Claiming
<1>2. TypeOK /\ IInv /\ PauseInv /\ [Next]_vars => PauseInv'
  BY PauseStep
<1>3. PauseInv /\ [Next]_vars => [log' # log => ~pauseAcked]_vars
  <2> SUFFICES ASSUME PauseInv, Next, log' # log PROVE ~pauseAcked
    BY DEF vars
  <2>1. log' = log \/ pc = "write"
    <3>1. ASSUME Update PROVE log' = log
      BY <3>1, Zenon DEF Update, Add, Edit, Cancel, Resolve, Pause, Resume, histVars
    <3>2. CASE Dispatch
      BY <3>2, Zenon DEF Dispatch, StepBegin, ObserveFails, Observe, Judge, Pick, Recheck, Send, Write,
                  Written, histVars
    <3>3. ASSUME SaveReturns \/ Commit \/ Crash \/ New PROVE log' = log
      BY <3>3 DEF SaveReturns, SaveOK, SaveFails, RecoveryFails, Stop, Commit, Crash, New, histVars
    <3>4. ASSUME Environment \/ StartTimeout PROVE log' = log
      BY <3>4 DEF Environment, AgentBecomesReady, AgentNotReady, AgentWorks, MonitorRebinds, Agent,
                  StartTimeout, histVars
    <3> QED BY <3>1, <3>2, <3>3, <3>4 DEF Next
  <2> QED BY <2>1 DEF PauseInv, Claiming
<1> QED BY <1>1, <1>2, <1>3, Invariance, PTL DEF Spec, PauseHolds

\* The queue implements InstructionDelivery: every step types the next
\* instruction with nothing unsettled before it, settles one, or stutters.
THEOREM Refinement == Spec => ImplementsDelivery
<1>1. Init => Delivery!Init
  <2> SUFFICES ASSUME Init PROVE DeliveredItems = <<>> /\ unsettled = {}
    BY DEF Delivery!Init
  <2> QED BY DEF Init, DeliveredItems
<1>2. TypeOK /\ IInv /\ [Next]_vars => [Delivery!Next]_<<DeliveredItems, unsettled>>
  <2> SUFFICES ASSUME TypeOK, IInv, [Next]_vars
               PROVE  [Delivery!Next]_<<DeliveredItems, unsettled>>
    OBVIOUS
  <2>1. \/ log' = log /\ unsettled' \subseteq unsettled
        \/ /\ pc = "write" /\ unsettled' = IF worked THEN unsettled ELSE unsettled \cup {q.active}
           /\ log' = Append(log, [item |-> q.active, text |-> q.items[q.active].text])
    <3>1. CASE Update
      BY <3>1 DEF Update, Add, Edit, Cancel, Resolve, Pause, Resume, histVars
    <3>2. CASE Dispatch
      BY <3>2 DEF Dispatch, StepBegin, ObserveFails, Observe, Judge, Pick, Recheck, Send, Write,
                  Written, histVars
    <3>3. CASE SaveReturns \/ Commit \/ Crash \/ New
      BY <3>3 DEF SaveReturns, SaveOK, SaveFails, RecoveryFails, Stop, Commit, Crash, New, histVars
    <3>4. CASE Environment \/ StartTimeout \/ UNCHANGED vars
      BY <3>4 DEF Environment, AgentBecomesReady, AgentNotReady, AgentWorks, MonitorRebinds,
                  Agent, StartTimeout, histVars, vars
    <3> QED BY <3>1, <3>2, <3>3, <3>4 DEF Next
  <2>2. CASE log' = log /\ unsettled' \subseteq unsettled
    <3>1. DeliveredItems' = DeliveredItems
      BY <2>2 DEF DeliveredItems
    <3> QED BY <2>2, <3>1 DEF Delivery!Next, Delivery!Settle
  <2>3. CASE /\ pc = "write" /\ unsettled' = IF worked THEN unsettled ELSE unsettled \cup {q.active}
             /\ log' = Append(log, [item |-> q.active, text |-> q.items[q.active].text])
    <3> DEFINE e == [item |-> q.active, text |-> q.items[q.active].text]
    <3>1. /\ Fresh(q, log, unsettled, acks) /\ q.active \in DOMAIN q.items
          /\ unsettled = {} /\ unsettled' \in {{}, {q.active}}
      BY <2>3 DEF IInv, ClaimIsFresh, Fresh
    <3>2. q.active \in 1..MaxItems
      BY <3>1, InvFacts, FollowupAssumption DEF Image, WellFormed
    <3>3. /\ Len(log) \in Nat /\ DOMAIN log = 1..Len(log) /\ Len(log') = Len(log) + 1
          /\ log'[Len(log) + 1] = e /\ \A k \in 1..Len(log) : log'[k] = log[k]
      <4> HIDE DEF e
      <4> DEFINE E == [item: Nat, text: Texts]
      <4>1. log \in Seq(E) /\ log' = Append(log, e)
        BY <2>3, InvFacts DEF e
      <4> HIDE DEF E
      <4> QED BY <4>1
    <3>4. DeliveredItems' = Append(DeliveredItems, q.active)
      BY <3>3 DEF DeliveredItems
    <3>5. \A k \in 1..Len(DeliveredItems) : DeliveredItems[k] < q.active
      BY <3>1, <3>3 DEF Fresh, DeliveredItems
    <3> QED BY <3>1, <3>2, <3>4, <3>5 DEF Delivery!Next, Delivery!Deliver
  <2> QED BY <2>1, <2>2, <2>3
<1> QED BY <1>1, <1>2, Invariance, PTL DEF Spec, ImplementsDelivery, Delivery!Spec

=============================================================================
