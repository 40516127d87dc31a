----------------------- MODULE BatchControllerProofs -----------------------
(***************************************************************************)
(* The batch controller and its store, for any finite sets of documents    *)
(* and jobs, any number of segments, and a crash between any two steps.    *)
(*                                                                         *)
(* In order: entries and queues, and what each operation on them does;     *)
(* when one queue may follow another on disk (Succeeds); the invariant;    *)
(* one lemma for each action; the three properties that follow; and last   *)
(* the table of the Batch page, with an invariant of its own (TableInv).   *)
(***************************************************************************)
EXTENDS BatchController, SequenceTheorems, FiniteSetTheorems, FunctionTheorems, TLAPS

(* Types.  An entry has between one and MaxSegments segments; the text of  *)
(* a segment is nothing or one translation, and a translation is named by  *)
(* the place it translates.                                                *)
Segs  == UNION {[1..n -> SegmentState] : n \in 1..MaxSegments}
Text  == {<<>>} \cup {<<p>> : p \in Entry \X (1..MaxSegments)}
Texts == UNION {[1..n -> Text] : n \in 1..MaxSegments}

(* An entry of the queue: as many texts as segments.                       *)
Item ==
    {x \in [id : Entry, state : EntryState, bare : BOOLEAN, seg : Segs, text : Texts] :
        DOMAIN x.text = DOMAIN x.seg}

(* A queue of entries, no two of the same document, of documents added so  *)
(* far.                                                                    *)
Shaped(q, ids) ==
    /\ q \in Seq(Item)
    /\ \A i, k \in DOMAIN q : q[i].id = q[k].id => i = k
    /\ \A i \in DOMAIN q : q[i].id \in ids

(* An entry is truthful: a completed segment holds the translation of      *)
(* that very segment, and a completed document has all its segments and    *)
(* its output file.                                                        *)
True(x, files) ==
    /\ \A s \in DOMAIN x.seg : x.seg[s] = "Completed" => x.text[s] = <<<<x.id, s>>>>
    /\ x.state = "Completed" => AllDone(x) /\ x.id \in files

(* So is a queue of truthful entries.                                      *)
Truthful(q, files) == \A i \in DOMAIN q : True(q[i], files)

(* Queue q has every completed segment of entry x, with its text.          *)
Holds(q, x) ==
    \E k \in DOMAIN q :
        /\ q[k].id = x.id
        /\ \A s \in DOMAIN x.seg :
              x.seg[s] = "Completed" => /\ q[k].seg[s] = "Completed"
                                        /\ q[k].text[s] = x.text[s]

(* Queue p has every completed segment of queue q, document e excepted.    *)
Keeps(q, p, e) == \A i \in DOMAIN q : q[i].id # e => Holds(p, q[i])

(* Segment s of document e is what translation is for: pending, in a       *)
(* document without a failed segment.                                      *)
Target(q, e, s) ==
    \E i \in DOMAIN q :
        /\ q[i].id = e /\ s \in DOMAIN q[i].seg
        /\ ~HasFailed(q[i]) /\ q[i].seg[s] = "Pending"

-----------------------------------------------------------------------------
(* The fields of an entry.                                                 *)
LEMMA ItemFields ==
    ASSUME NEW x \in Item
    PROVE  /\ x.id \in Entry /\ x.state \in EntryState /\ x.bare \in BOOLEAN
           /\ DOMAIN x.text = DOMAIN x.seg
           /\ \E n \in 1..MaxSegments : /\ x.seg \in [1..n -> SegmentState]
                                        /\ x.text \in [1..n -> Text]
<1>1. x \in [id : Entry, state : EntryState, bare : BOOLEAN, seg : Segs, text : Texts]
      /\ DOMAIN x.text = DOMAIN x.seg
  BY DEF Item
<1>2. x.seg \in Segs /\ x.text \in Texts
  BY <1>1
<1>3. PICK n \in 1..MaxSegments : x.seg \in [1..n -> SegmentState]
  BY <1>2 DEF Segs
<1>4. x.text \in [1..n -> Text]
  BY <1>1, <1>2, <1>3 DEF Texts
<1> QED
  BY <1>1, <1>3, <1>4

(* Every segment of an entry has a state and a text.                       *)
LEMMA ItemSegments ==
    ASSUME NEW x \in Item
    PROVE  /\ DOMAIN x.seg \subseteq 1..MaxSegments
           /\ \A s \in DOMAIN x.seg : x.seg[s] \in SegmentState /\ x.text[s] \in Text
<1>1. PICK n \in 1..MaxSegments : x.seg \in [1..n -> SegmentState] /\ x.text \in [1..n -> Text]
  BY ItemFields
<1> QED
  BY <1>1, BatchAssumption

(* An entry with another state differs in nothing else.                    *)
LEMMA ItemWithState ==
    ASSUME NEW x \in Item, NEW st \in EntryState
    PROVE  /\ [x EXCEPT !.state = st] \in Item
           /\ [x EXCEPT !.state = st].id = x.id
           /\ [x EXCEPT !.state = st].state = st
           /\ [x EXCEPT !.state = st].bare = x.bare
           /\ [x EXCEPT !.state = st].seg = x.seg
           /\ [x EXCEPT !.state = st].text = x.text
BY DEF Item

(* An entry that lost its source text differs in nothing else.             *)
LEMMA ItemBare ==
    ASSUME NEW x \in Item
    PROVE  /\ [x EXCEPT !.bare = TRUE] \in Item
           /\ [x EXCEPT !.bare = TRUE].id = x.id
           /\ [x EXCEPT !.bare = TRUE].state = x.state
           /\ [x EXCEPT !.bare = TRUE].seg = x.seg
           /\ [x EXCEPT !.bare = TRUE].text = x.text
BY DEF Item

(* An entry after one of its segments was given a state and a text.        *)
SegmentSet(x, s, st, t) ==
    [x EXCEPT !.seg = [@ EXCEPT ![s] = st], !.text = [@ EXCEPT ![s] = t]]

(* It is an entry, and differs in that segment alone.                      *)
LEMMA ItemWithSegment ==
    ASSUME NEW x \in Item, NEW s \in DOMAIN x.seg, NEW st \in SegmentState, NEW t \in Text
    PROVE  LET y == SegmentSet(x, s, st, t)
           IN  /\ y \in Item
               /\ y.id = x.id /\ y.state = x.state /\ y.bare = x.bare
               /\ y.seg = [x.seg EXCEPT ![s] = st]
               /\ y.text = [x.text EXCEPT ![s] = t]
<1> DEFINE y == SegmentSet(x, s, st, t)
<1>1. PICK n \in 1..MaxSegments : x.seg \in [1..n -> SegmentState] /\ x.text \in [1..n -> Text]
  BY ItemFields
<1>2. [x.seg EXCEPT ![s] = st] \in [1..n -> SegmentState]
      /\ [x.text EXCEPT ![s] = t] \in [1..n -> Text]
  BY <1>1
<1>3. [x.seg EXCEPT ![s] = st] \in Segs /\ [x.text EXCEPT ![s] = t] \in Texts
      /\ DOMAIN [x.seg EXCEPT ![s] = st] = DOMAIN [x.text EXCEPT ![s] = t]
  BY <1>1, <1>2 DEF Segs, Texts
<1>4. x \in [id : Entry, state : EntryState, bare : BOOLEAN, seg : Segs, text : Texts]
  BY DEF Item
<1>5. /\ y.id = x.id /\ y.state = x.state /\ y.bare = x.bare
      /\ y.seg = [x.seg EXCEPT ![s] = st]
      /\ y.text = [x.text EXCEPT ![s] = t]
      /\ y \in [id : Entry, state : EntryState, bare : BOOLEAN, seg : Segs, text : Texts]
  BY <1>3, <1>4 DEF SegmentSet
<1> QED
  BY <1>3, <1>5 DEF Item

(* An entry that is retried: failed segments are pending again, no other   *)
(* changes.                                                                *)
LEMMA ItemForRetry ==
    ASSUME NEW x \in Item
    PROVE  LET y == [x EXCEPT !.state = "Queued",
                              !.seg = [s \in DOMAIN @ |-> IF @[s] = "Failed" THEN "Pending" ELSE @[s]]]
           IN  /\ y \in Item
               /\ y.id = x.id /\ y.state = "Queued" /\ y.text = x.text
               /\ y.seg = [s \in DOMAIN x.seg |-> IF x.seg[s] = "Failed" THEN "Pending" ELSE x.seg[s]]
<1> DEFINE g == [s \in DOMAIN x.seg |-> IF x.seg[s] = "Failed" THEN "Pending" ELSE x.seg[s]]
           y == [x EXCEPT !.state = "Queued", !.seg = g]
<1>1. PICK n \in 1..MaxSegments : x.seg \in [1..n -> SegmentState]
  BY ItemFields
<1>2. g \in [1..n -> SegmentState]
  BY <1>1 DEF SegmentState
<1>3. g \in Segs /\ DOMAIN g = DOMAIN x.seg
  BY <1>2 DEF Segs
<1> HIDE DEF g
<1>4. x \in [id : Entry, state : EntryState, bare : BOOLEAN, seg : Segs, text : Texts]
      /\ DOMAIN x.text = DOMAIN x.seg
  BY DEF Item
<1>5. y \in Item /\ y.id = x.id /\ y.state = "Queued" /\ y.text = x.text /\ y.seg = g
  BY <1>3, <1>4 DEF Item, EntryState
<1> QED
  BY <1>5 DEF g

(* A document that was just added is an entry.                             *)
LEMMA NewItem ==
    ASSUME NEW e \in Entry, NEW n \in 1..MaxSegments
    PROVE  NewEntry(e, n) \in Item
<1>1. [s \in 1..n |-> "Pending"] \in Segs /\ [s \in 1..n |-> <<>>] \in Texts
  <2>1. [s \in 1..n |-> "Pending"] \in [1..n -> SegmentState]
    BY DEF SegmentState
  <2>2. [s \in 1..n |-> <<>>] \in [1..n -> Text]
    BY DEF Text
  <2> QED
    BY <2>1, <2>2 DEF Segs, Texts
<1> QED
  BY <1>1 DEF NewEntry, Item, EntryState

-----------------------------------------------------------------------------
(* The places of a queue, of which there are no more than documents.       *)
LEMMA ShapedItems ==
    ASSUME NEW q, NEW ids, Shaped(q, ids)
    PROVE  /\ Len(q) \in Nat /\ DOMAIN q = 1..Len(q)
           /\ \A i \in DOMAIN q : q[i] \in Item /\ q[i].id \in Entry /\ q[i].id \in ids
           /\ Len(q) <= Cardinality(Entry)
<1>1. q \in Seq(Item) /\ Len(q) \in Nat /\ DOMAIN q = 1..Len(q)
  BY DEF Shaped
<1>2. \A i \in DOMAIN q : q[i] \in Item /\ q[i].id \in Entry /\ q[i].id \in ids
  BY <1>1, ItemFields DEF Shaped
<1> DEFINE f == [i \in 1..Len(q) |-> q[i].id]
<1>3. f \in Injection(1..Len(q), Entry)
  <2>1. f \in [1..Len(q) -> Entry]
    BY <1>1, <1>2
  <2>2. \A i, k \in 1..Len(q) : f[i] = f[k] => i = k
    BY <1>1 DEF Shaped
  <2> HIDE DEF f
  <2> QED
    BY <2>1, <2>2 DEF Injection, IsInjective
<1>4. Cardinality(1..Len(q)) <= Cardinality(Entry)
  BY <1>3, FS_Injection, BatchAssumption
<1>5. Cardinality(1..Len(q)) = Len(q)
  <2>1. \A n \in Nat : Cardinality(1..n) = n
    BY FS_Interval
  <2> QED
    BY <1>1, <2>1
<1> QED
  BY <1>1, <1>2, <1>4, <1>5

(* The empty queue is well formed and truthful.                            *)
LEMMA EmptyShaped ==
    ASSUME NEW ids, NEW files
    PROVE  Shaped(<<>>, ids) /\ Truthful(<<>>, files)
BY DEF Shaped, Truthful

(* A queue stays well formed when documents are added.                     *)
LEMMA ShapedStays ==
    ASSUME NEW q, NEW ids, NEW more, Shaped(q, ids), ids \subseteq more
    PROVE  Shaped(q, more)
BY DEF Shaped

(* A queue stays truthful as long as the files of its documents stay.      *)
LEMMA TruthfulStays ==
    ASSUME NEW q, NEW files, NEW more, Truthful(q, files),
           \A i \in DOMAIN q : q[i].id \in files => q[i].id \in more
    PROVE  Truthful(q, more)
BY DEF Truthful, True

(* A document is found where it is.                                        *)
LEMMA OfItem ==
    ASSUME NEW q, NEW ids, Shaped(q, ids), NEW i \in DOMAIN q
    PROVE  Has(q, q[i].id) /\ Of(q, q[i].id) = q[i]
<1>1. i \in Position(q, q[i].id)
  BY DEF Position
<1>2. \A k \in Position(q, q[i].id) : k = i
  BY DEF Position, Shaped
<1>3. (CHOOSE k \in Position(q, q[i].id) : TRUE) = i
  BY <1>1, <1>2
<1> QED
  BY <1>1, <1>3 DEF Has, Of

(* A document that is found has a place.                                   *)
LEMMA HasItem ==
    ASSUME NEW q, NEW e, Has(q, e)
    PROVE  \E i \in DOMAIN q : q[i].id = e
BY DEF Has, Position

(* A queue of the same length whose entries keep their ids.                *)
LEMMA RevisedShape ==
    ASSUME NEW q, NEW p, NEW ids, Shaped(q, ids),
           p = [i \in DOMAIN q |-> p[i]],
           \A i \in DOMAIN q : p[i] \in Item /\ p[i].id = q[i].id
    PROVE  Shaped(p, ids) /\ DOMAIN p = DOMAIN q
<1>1. Len(q) \in Nat /\ DOMAIN q = 1..Len(q)
  BY ShapedItems
<1>2. DOMAIN p = DOMAIN q
  OBVIOUS
<1>3. p \in [1..Len(q) -> Item]
  BY <1>1
<1>4. p \in Seq(Item)
  BY <1>1, <1>3
<1> QED
  BY <1>2, <1>4 DEF Shaped

(* Giving a document a state changes that state and nothing else.          *)
LEMMA WithStateItems ==
    ASSUME NEW q, NEW ids, Shaped(q, ids), NEW e, NEW st \in EntryState
    PROVE  LET p == WithState(q, e, st)
           IN  /\ Shaped(p, ids) /\ DOMAIN p = DOMAIN q
               /\ \A i \in DOMAIN q :
                     /\ p[i].id = q[i].id /\ p[i].seg = q[i].seg /\ p[i].text = q[i].text
                     /\ p[i].state = IF q[i].id = e THEN st ELSE q[i].state
<1> DEFINE p == WithState(q, e, st)
<1>1. \A i \in DOMAIN q : q[i] \in Item
  BY ShapedItems
<1>2. p = [i \in DOMAIN q |-> p[i]] /\ DOMAIN p = DOMAIN q
  BY DEF WithState
<1>3. \A i \in DOMAIN q : p[i] = IF q[i].id = e THEN [q[i] EXCEPT !.state = st] ELSE q[i]
  BY DEF WithState
<1> HIDE DEF p
<1>4. \A i \in DOMAIN q :
         /\ p[i] \in Item
         /\ p[i].id = q[i].id /\ p[i].seg = q[i].seg /\ p[i].text = q[i].text
         /\ p[i].state = IF q[i].id = e THEN st ELSE q[i].state
  <2> SUFFICES ASSUME NEW i \in DOMAIN q
               PROVE  /\ p[i] \in Item
                      /\ p[i].id = q[i].id /\ p[i].seg = q[i].seg /\ p[i].text = q[i].text
                      /\ p[i].state = IF q[i].id = e THEN st ELSE q[i].state
    OBVIOUS
  <2>1. CASE q[i].id = e
    <3>1. q[i] \in Item /\ p[i] = [q[i] EXCEPT !.state = st]
      BY <1>1, <1>3, <2>1
    <3> QED
      BY <2>1, <3>1, ItemWithState
  <2>2. CASE q[i].id # e
    BY <1>1, <1>3, <2>2
  <2> QED
    BY <2>1, <2>2
<1>5. Shaped(p, ids)
  BY <1>2, <1>4, RevisedShape
<1> QED
  BY <1>2, <1>4, <1>5 DEF p

(* Document e, if it is queued, has a segment s.                           *)
InEntry(q, e, s) == \A i \in DOMAIN q : q[i].id = e => s \in DOMAIN q[i].seg

(* Giving a segment a state and a text changes that segment and nothing    *)
(* else.                                                                   *)
LEMMA WithSegmentItems ==
    ASSUME NEW q, NEW ids, Shaped(q, ids), NEW e, NEW s, NEW st \in SegmentState, NEW t \in Text,
           InEntry(q, e, s)
    PROVE  LET p == WithSegment(q, e, s, st, t)
           IN  /\ Shaped(p, ids) /\ DOMAIN p = DOMAIN q
               /\ \A i \in DOMAIN q :
                     /\ p[i].id = q[i].id /\ p[i].state = q[i].state
                     /\ q[i].id # e => p[i] = q[i]
                     /\ q[i].id = e => /\ p[i].seg = [q[i].seg EXCEPT ![s] = st]
                                       /\ p[i].text = [q[i].text EXCEPT ![s] = t]
<1> DEFINE p == WithSegment(q, e, s, st, t)
<1>1. \A i \in DOMAIN q : q[i] \in Item
  BY ShapedItems
<1>2. p = [i \in DOMAIN q |-> p[i]] /\ DOMAIN p = DOMAIN q
  BY DEF WithSegment
<1>3. \A i \in DOMAIN q :
         p[i] = IF q[i].id = e
                THEN [q[i] EXCEPT !.seg = [@ EXCEPT ![s] = st], !.text = [@ EXCEPT ![s] = t]]
                ELSE q[i]
  BY DEF WithSegment
<1> HIDE DEF p
<1>4. \A i \in DOMAIN q :
         /\ p[i] \in Item
         /\ p[i].id = q[i].id /\ p[i].state = q[i].state
         /\ q[i].id # e => p[i] = q[i]
         /\ q[i].id = e => /\ p[i].seg = [q[i].seg EXCEPT ![s] = st]
                           /\ p[i].text = [q[i].text EXCEPT ![s] = t]
  <2> SUFFICES ASSUME NEW i \in DOMAIN q
               PROVE  /\ p[i] \in Item
                      /\ p[i].id = q[i].id /\ p[i].state = q[i].state
                      /\ q[i].id # e => p[i] = q[i]
                      /\ q[i].id = e => /\ p[i].seg = [q[i].seg EXCEPT ![s] = st]
                                        /\ p[i].text = [q[i].text EXCEPT ![s] = t]
    OBVIOUS
  <2>1. CASE q[i].id = e
    <3>1. q[i] \in Item /\ s \in DOMAIN q[i].seg
      BY <1>1, <2>1 DEF InEntry
    <3>2. p[i] = SegmentSet(q[i], s, st, t)
      BY <1>3, <2>1 DEF SegmentSet
    <3>3. /\ p[i] \in Item
          /\ p[i].id = q[i].id /\ p[i].state = q[i].state
          /\ p[i].seg = [q[i].seg EXCEPT ![s] = st]
          /\ p[i].text = [q[i].text EXCEPT ![s] = t]
      BY <3>1, <3>2, ItemWithSegment
    <3> QED
      BY <2>1, <3>3
  <2>2. CASE q[i].id # e
    BY <1>1, <1>3, <2>2
  <2> QED
    BY <2>1, <2>2
<1>5. Shaped(p, ids)
  BY <1>2, <1>4, RevisedShape
<1> QED
  BY <1>2, <1>4, <1>5 DEF p

(* A retry makes failed segments of one document pending and changes no    *)
(* text.                                                                   *)
LEMMA ResetItems ==
    ASSUME NEW q, NEW ids, Shaped(q, ids), NEW e
    PROVE  LET p == ResetForRetry(q, e)
           IN  /\ Shaped(p, ids) /\ DOMAIN p = DOMAIN q
               /\ \A i \in DOMAIN q :
                     /\ p[i].id = q[i].id /\ p[i].text = q[i].text
                     /\ DOMAIN p[i].seg = DOMAIN q[i].seg
                     /\ p[i].state = q[i].state \/ p[i].state = "Queued"
                     /\ \A s \in DOMAIN q[i].seg :
                           p[i].seg[s] = q[i].seg[s] \/ (q[i].seg[s] = "Failed" /\ p[i].seg[s] = "Pending")
                     /\ q[i].id # e => p[i] = q[i]
<1> DEFINE p == ResetForRetry(q, e)
<1>1. \A i \in DOMAIN q : q[i] \in Item
  BY ShapedItems
<1>2. p = [i \in DOMAIN q |-> p[i]] /\ DOMAIN p = DOMAIN q
  BY DEF ResetForRetry
<1>3. \A i \in DOMAIN q :
         p[i] = IF q[i].id = e
                THEN [q[i] EXCEPT !.state = "Queued",
                        !.seg = [s \in DOMAIN @ |-> IF @[s] = "Failed" THEN "Pending" ELSE @[s]]]
                ELSE q[i]
  BY DEF ResetForRetry
<1> HIDE DEF p
<1>4. \A i \in DOMAIN q :
         /\ p[i] \in Item
         /\ p[i].id = q[i].id /\ p[i].text = q[i].text
         /\ DOMAIN p[i].seg = DOMAIN q[i].seg
         /\ p[i].state = q[i].state \/ p[i].state = "Queued"
         /\ \A s \in DOMAIN q[i].seg :
               p[i].seg[s] = q[i].seg[s] \/ (q[i].seg[s] = "Failed" /\ p[i].seg[s] = "Pending")
         /\ q[i].id # e => p[i] = q[i]
  <2> SUFFICES ASSUME NEW i \in DOMAIN q
               PROVE  /\ p[i] \in Item
                      /\ p[i].id = q[i].id /\ p[i].text = q[i].text
                      /\ DOMAIN p[i].seg = DOMAIN q[i].seg
                      /\ p[i].state = q[i].state \/ p[i].state = "Queued"
                      /\ \A s \in DOMAIN q[i].seg :
                            p[i].seg[s] = q[i].seg[s] \/ (q[i].seg[s] = "Failed" /\ p[i].seg[s] = "Pending")
                      /\ q[i].id # e => p[i] = q[i]
    OBVIOUS
  <2>1. CASE q[i].id = e
    <3>1. /\ p[i] \in Item
          /\ p[i].id = q[i].id /\ p[i].state = "Queued" /\ p[i].text = q[i].text
          /\ p[i].seg = [s \in DOMAIN q[i].seg |-> IF q[i].seg[s] = "Failed" THEN "Pending" ELSE q[i].seg[s]]
      <4>1. q[i] \in Item
            /\ p[i] = [q[i] EXCEPT !.state = "Queued",
                        !.seg = [s \in DOMAIN @ |-> IF @[s] = "Failed" THEN "Pending" ELSE @[s]]]
        BY <1>1, <1>3, <2>1
      <4> QED
        BY <4>1, ItemForRetry
    <3> QED
      BY <2>1, <3>1
  <2>2. CASE q[i].id # e
    BY <1>1, <1>3, <2>2
  <2> QED
    BY <2>1, <2>2
<1>5. Shaped(p, ids)
  BY <1>2, <1>4, RevisedShape
<1> QED
  BY <1>2, <1>4, <1>5 DEF p

(* The repair of the recovered queue changes states of documents only.     *)
LEMMA RecoveredItems ==
    ASSUME NEW q, NEW ids, Shaped(q, ids)
    PROVE  LET p == Recovered(q)
           IN  /\ Shaped(p, ids) /\ DOMAIN p = DOMAIN q
               /\ \A i \in DOMAIN q :
                     /\ p[i].id = q[i].id /\ p[i].seg = q[i].seg /\ p[i].text = q[i].text
                     /\ p[i].state = q[i].state \/ p[i].state = "Queued"
<1> DEFINE p == Recovered(q)
<1>1. \A i \in DOMAIN q : q[i] \in Item
  BY ShapedItems
<1>2. p = [i \in DOMAIN q |-> p[i]] /\ DOMAIN p = DOMAIN q
  BY DEF Recovered
<1>3. \A i \in DOMAIN q :
         p[i] = IF q[i].state = "Processing" THEN [q[i] EXCEPT !.state = "Queued"] ELSE q[i]
  BY DEF Recovered
<1> HIDE DEF p
<1>4. "Queued" \in EntryState
  BY DEF EntryState
<1>5. \A i \in DOMAIN q :
         /\ p[i] \in Item
         /\ p[i].id = q[i].id /\ p[i].seg = q[i].seg /\ p[i].text = q[i].text
         /\ p[i].state = q[i].state \/ p[i].state = "Queued"
  <2> SUFFICES ASSUME NEW i \in DOMAIN q
               PROVE  /\ p[i] \in Item
                      /\ p[i].id = q[i].id /\ p[i].seg = q[i].seg /\ p[i].text = q[i].text
                      /\ p[i].state = q[i].state \/ p[i].state = "Queued"
    OBVIOUS
  <2>1. CASE q[i].state = "Processing"
    <3>1. q[i] \in Item /\ p[i] = [q[i] EXCEPT !.state = "Queued"]
      BY <1>1, <1>3, <2>1
    <3> QED
      BY <1>4, <3>1, ItemWithState
  <2>2. CASE q[i].state # "Processing"
    BY <1>1, <1>3, <2>2
  <2> QED
    BY <2>1, <2>2
<1>6. Shaped(p, ids)
  BY <1>2, <1>5, RevisedShape
<1> QED
  BY <1>2, <1>5, <1>6 DEF p

(* Forgetting the source texts changes nothing else.                       *)
LEMMA BareItems ==
    ASSUME NEW q, NEW ids, Shaped(q, ids)
    PROVE  LET p == [i \in DOMAIN q |-> [q[i] EXCEPT !.bare = TRUE]]
           IN  /\ Shaped(p, ids) /\ DOMAIN p = DOMAIN q
               /\ \A i \in DOMAIN q :
                     /\ p[i].id = q[i].id /\ p[i].seg = q[i].seg /\ p[i].text = q[i].text
                     /\ p[i].state = q[i].state
<1> DEFINE p == [i \in DOMAIN q |-> [q[i] EXCEPT !.bare = TRUE]]
<1>1. \A i \in DOMAIN q : q[i] \in Item
  BY ShapedItems
<1>2. p = [i \in DOMAIN q |-> p[i]] /\ DOMAIN p = DOMAIN q
  OBVIOUS
<1>3. \A i \in DOMAIN q : p[i] = [q[i] EXCEPT !.bare = TRUE]
  OBVIOUS
<1> HIDE DEF p
<1>4. \A i \in DOMAIN q :
         /\ p[i] \in Item
         /\ p[i].id = q[i].id /\ p[i].seg = q[i].seg /\ p[i].text = q[i].text
         /\ p[i].state = q[i].state
  BY <1>1, <1>3, ItemBare
<1>5. Shaped(p, ids)
  BY <1>2, <1>4, RevisedShape
<1> QED
  BY <1>2, <1>4, <1>5 DEF p

(* A new document joins at the end.                                        *)
LEMMA AppendItems ==
    ASSUME NEW q, NEW ids, Shaped(q, ids), NEW x \in Item, x.id \notin ids
    PROVE  LET p == Append(q, x)
           IN  /\ Shaped(p, ids \cup {x.id})
               /\ DOMAIN p = 1 .. Len(q) + 1
               /\ \A i \in DOMAIN q : p[i] = q[i]
               /\ p[Len(q) + 1] = x
<1> DEFINE p == Append(q, x)
<1>1. q \in Seq(Item) /\ Len(q) \in Nat /\ DOMAIN q = 1..Len(q)
  BY DEF Shaped
<1>2. p \in Seq(Item) /\ DOMAIN p = 1 .. Len(q) + 1
      /\ (\A i \in DOMAIN q : p[i] = q[i]) /\ p[Len(q) + 1] = x
  BY <1>1
<1> HIDE DEF p
<1>3. \A i \in DOMAIN q : q[i].id \in ids /\ q[i].id # x.id
  BY DEF Shaped
<1>4. \A i \in DOMAIN p : i \in DOMAIN q \/ i = Len(q) + 1
  BY <1>1, <1>2
<1>5. \A i, k \in DOMAIN p : p[i].id = p[k].id => i = k
  BY <1>2, <1>3, <1>4 DEF Shaped
<1>6. \A i \in DOMAIN p : p[i].id \in ids \cup {x.id}
  BY <1>2, <1>3, <1>4
<1>7. Shaped(p, ids \cup {x.id})
  BY <1>2, <1>5, <1>6 DEF Shaped
<1> QED
  BY <1>2, <1>7 DEF p

(* A removal takes out one document and leaves the others in the queue.    *)
LEMMA WithoutItems ==
    ASSUME NEW q, NEW ids, Shaped(q, ids), NEW e, Has(q, e)
    PROVE  LET p == Without(q, e)
           IN  /\ Shaped(p, ids)
               /\ \A i \in DOMAIN p : p[i].id # e /\ \E k \in DOMAIN q : p[i] = q[k]
               /\ \A k \in DOMAIN q : q[k].id # e => \E i \in DOMAIN p : p[i] = q[k]
<1> DEFINE g == CHOOSE i \in Position(q, e) : TRUE
           p == [i \in 1 .. Len(q) - 1 |-> IF i < g THEN q[i] ELSE q[i + 1]]
           At(i) == IF i < g THEN i ELSE i + 1
<1>1. q \in Seq(Item) /\ Len(q) \in Nat /\ DOMAIN q = 1..Len(q)
  BY DEF Shaped
<1>2. g \in DOMAIN q /\ q[g].id = e /\ \A k \in DOMAIN q : q[k].id = e => k = g
  BY DEF Has, Position, Shaped
<1>3. Without(q, e) = p
  BY DEF Without
<1>4. g \in 1..Len(q) /\ Len(q) - 1 \in Nat
  BY <1>1, <1>2
<1> HIDE DEF g
<1>5. \A i \in 1 .. Len(q) - 1 : At(i) \in DOMAIN q /\ At(i) # g /\ p[i] = q[At(i)]
  BY <1>1, <1>4
<1>6. p \in Seq(Item) /\ DOMAIN p = 1 .. Len(q) - 1
  <2>1. p \in [1 .. Len(q) - 1 -> Item]
    BY <1>1, <1>4, <1>5
  <2>2. DOMAIN p = 1 .. Len(q) - 1
    OBVIOUS
  <2> HIDE DEF p
  <2> QED
    BY <1>4, <2>1, <2>2
<1>7. \A i, k \in 1 .. Len(q) - 1 : At(i) = At(k) => i = k
  BY <1>4
<1>8. \A k \in DOMAIN q : k # g => \E i \in 1 .. Len(q) - 1 : At(i) = k
  <2> SUFFICES ASSUME NEW k \in DOMAIN q, k # g
               PROVE  \E i \in 1 .. Len(q) - 1 : At(i) = k
    OBVIOUS
  <2>1. CASE k < g
    <3>1. k \in 1 .. Len(q) - 1 /\ At(k) = k
      BY <1>1, <1>4, <2>1
    <3> QED
      BY <3>1
  <2>2. CASE k > g
    <3>1. k - 1 \in 1 .. Len(q) - 1 /\ At(k - 1) = k
      BY <1>1, <1>4, <2>2
    <3> QED
      BY <3>1
  <2> QED
    BY <1>1, <1>4, <2>1, <2>2
<1> HIDE DEF p, At
<1>9. ASSUME NEW i \in DOMAIN p, NEW k \in DOMAIN p, p[i].id = p[k].id
      PROVE  i = k
  <2>1. /\ i \in 1 .. Len(q) - 1 /\ At(i) \in DOMAIN q /\ p[i] = q[At(i)]
        /\ k \in 1 .. Len(q) - 1 /\ At(k) \in DOMAIN q /\ p[k] = q[At(k)]
    BY <1>5, <1>6
  <2>2. At(i) = At(k)
    BY <1>9, <2>1 DEF Shaped
  <2> QED
    BY <1>7, <2>1, <2>2
<1>10. \A i \in DOMAIN p : p[i].id \in ids /\ p[i].id # e
  BY <1>2, <1>5, <1>6 DEF Shaped
<1>11. Shaped(p, ids)
  BY <1>6, <1>9, <1>10 DEF Shaped
<1>12. \A i \in DOMAIN p : \E k \in DOMAIN q : p[i] = q[k]
  BY <1>5, <1>6
<1>13. \A k \in DOMAIN q : q[k].id # e => \E i \in DOMAIN p : p[i] = q[k]
  BY <1>2, <1>5, <1>6, <1>8
<1> QED
  BY <1>3, <1>10, <1>11, <1>12, <1>13

-----------------------------------------------------------------------------
(* Queue p may follow queue q when document d is dropped: it is well       *)
(* formed and truthful, keeps the completed segments of every other        *)
(* document and has none of d.  Every queue the controller writes must be  *)
(* so.                                                                     *)
Succeeds(q, p, d, ids, files) ==
    /\ Shaped(p, ids) /\ Truthful(p, files) /\ Keeps(q, p, d)
    /\ \A i \in DOMAIN p : p[i].id # d

(* And what was a target of the translation in queue q is one in p.        *)
KeepsTargets(q, p) == \A e, s : Target(q, e, s) => Target(p, e, s)

(* The documents of queue p that are not new are those of queue q.         *)
Within(p, q, ids) ==
    \A i \in DOMAIN p : p[i].id \in ids => \E k \in DOMAIN q : q[k].id = p[i].id

(* The empty queue and the same one bring no document back.                *)
LEMMA WithinItself == \A q, ids : Within(<<>>, q, ids) /\ Within(q, q, ids)
BY DEF Within

(* No entry is of the absent document, so dropping it drops nothing.       *)
LEMMA DropsNothing ==
    ASSUME NEW p, NEW ids, Shaped(p, ids)
    PROVE  \A i \in DOMAIN p : p[i].id # NoEntry
BY ShapedItems, BatchAssumption

(* Entries revised in place keep their completed segments if each does.    *)
LEMMA RevisionKeeps ==
    ASSUME NEW q, NEW p, NEW d, DOMAIN p = DOMAIN q,
           \A i \in DOMAIN q :
              /\ p[i].id = q[i].id
              /\ \A s \in DOMAIN q[i].seg :
                    q[i].seg[s] = "Completed" => /\ p[i].seg[s] = "Completed"
                                                 /\ p[i].text[s] = q[i].text[s]
    PROVE  Keeps(q, p, d)
BY DEF Keeps, Holds

(* Entries that at most make failed segments pending keep every target.    *)
LEMMA RevisionKeepsTargets ==
    ASSUME NEW q, NEW p, DOMAIN p = DOMAIN q,
           \A i \in DOMAIN q :
              /\ p[i].id = q[i].id /\ DOMAIN p[i].seg = DOMAIN q[i].seg
              /\ \A s \in DOMAIN q[i].seg :
                    p[i].seg[s] = q[i].seg[s] \/ (q[i].seg[s] = "Failed" /\ p[i].seg[s] = "Pending")
    PROVE  KeepsTargets(q, p)
<1> SUFFICES ASSUME NEW e, NEW s, Target(q, e, s) PROVE Target(p, e, s)
  BY DEF KeepsTargets
<1>1. PICK i \in DOMAIN q : /\ q[i].id = e /\ s \in DOMAIN q[i].seg
                            /\ ~HasFailed(q[i]) /\ q[i].seg[s] = "Pending"
  BY DEF Target
<1>2. \A t \in DOMAIN q[i].seg : q[i].seg[t] # "Failed"
  BY <1>1 DEF HasFailed
<1>3. ~HasFailed(p[i])
  BY <1>2 DEF HasFailed
<1>4. p[i].id = e /\ s \in DOMAIN p[i].seg /\ p[i].seg[s] = "Pending"
  BY <1>1
<1> QED
  BY <1>3, <1>4 DEF Target

(* A document may be given any state but Completed, and Completed too      *)
(* once all its segments are and its file is written.                      *)
LEMMA StateSucceeds ==
    ASSUME NEW q, NEW ids, NEW files, Shaped(q, ids), Truthful(q, files),
           NEW e, NEW st \in EntryState,
           st = "Completed" => e \in files /\ \A i \in DOMAIN q : q[i].id = e => AllDone(q[i])
    PROVE  LET p == WithState(q, e, st)
           IN  Succeeds(q, p, NoEntry, ids, files) /\ KeepsTargets(q, p) /\ Within(p, q, ids)
<1> DEFINE p == WithState(q, e, st)
<1>1. /\ Shaped(p, ids) /\ DOMAIN p = DOMAIN q
      /\ \A i \in DOMAIN q :
            /\ p[i].id = q[i].id /\ p[i].seg = q[i].seg /\ p[i].text = q[i].text
            /\ p[i].state = IF q[i].id = e THEN st ELSE q[i].state
  BY WithStateItems
<1> HIDE DEF p
<1>2. Keeps(q, p, NoEntry) /\ KeepsTargets(q, p)
  BY <1>1, RevisionKeeps, RevisionKeepsTargets
<1>3. Truthful(p, files)
  <2> SUFFICES ASSUME NEW i \in DOMAIN q PROVE True(p[i], files)
    BY <1>1 DEF Truthful
  <2>1. /\ p[i].id = q[i].id /\ p[i].seg = q[i].seg /\ p[i].text = q[i].text
        /\ p[i].state = IF q[i].id = e THEN st ELSE q[i].state
    BY <1>1
  <2>2. True(q[i], files)
    BY DEF Truthful
  <2> QED
    BY <2>1, <2>2 DEF True, AllDone
<1>4. Within(p, q, ids)
  BY <1>1 DEF Within
<1> QED
  BY <1>1, <1>2, <1>3, <1>4, DropsNothing DEF Succeeds, p

(* A segment that was a target may be given any outcome, as long as a      *)
(* completed one gets its own translation.                                 *)
LEMMA SegmentSucceeds ==
    ASSUME NEW q, NEW ids, NEW files, Shaped(q, ids), Truthful(q, files),
           NEW e, NEW s, Target(q, e, s), NEW st \in SegmentState, NEW t \in Text,
           st = "Completed" => t = <<<<e, s>>>>
    PROVE  LET p == WithSegment(q, e, s, st, t)
           IN  /\ Succeeds(q, p, NoEntry, ids, files)
               /\ DOMAIN p = DOMAIN q
               /\ \A i \in DOMAIN q : p[i].id = q[i].id
<1> DEFINE p == WithSegment(q, e, s, st, t)
<1>1. PICK k \in DOMAIN q : /\ q[k].id = e /\ s \in DOMAIN q[k].seg /\ q[k].seg[s] = "Pending"
  BY DEF Target
<1>2. \A i \in DOMAIN q : q[i].id = e => i = k
  BY <1>1 DEF Shaped
<1>3. InEntry(q, e, s)
  BY <1>1, <1>2 DEF InEntry
<1>4. /\ Shaped(p, ids) /\ DOMAIN p = DOMAIN q
      /\ \A i \in DOMAIN q :
            /\ p[i].id = q[i].id /\ p[i].state = q[i].state
            /\ q[i].id # e => p[i] = q[i]
            /\ q[i].id = e => /\ p[i].seg = [q[i].seg EXCEPT ![s] = st]
                              /\ p[i].text = [q[i].text EXCEPT ![s] = t]
  BY <1>3, WithSegmentItems
<1> HIDE DEF p
<1>5. \A i \in DOMAIN q : q[i] \in Item /\ DOMAIN q[i].text = DOMAIN q[i].seg
  BY ShapedItems, ItemFields
<1>6. /\ \A u \in DOMAIN q[k].seg : u # s => /\ p[k].seg[u] = q[k].seg[u]
                                             /\ p[k].text[u] = q[k].text[u]
      /\ p[k].seg[s] = st /\ p[k].text[s] = t
      /\ DOMAIN p[k].seg = DOMAIN q[k].seg
  BY <1>1, <1>4, <1>5
<1>7. Keeps(q, p, NoEntry)
  <2>1. ASSUME NEW i \in DOMAIN q, NEW u \in DOMAIN q[i].seg, q[i].seg[u] = "Completed"
        PROVE  p[i].seg[u] = "Completed" /\ p[i].text[u] = q[i].text[u]
    <3>1. CASE i = k
      <4>1. u # s
        BY <1>1, <2>1, <3>1
      <4> QED
        BY <1>6, <2>1, <3>1, <4>1
    <3>2. CASE i # k
      BY <1>2, <1>4, <2>1, <3>2
    <3> QED
      BY <3>1, <3>2
  <2> QED
    BY <1>4, <2>1, RevisionKeeps
<1>8. Truthful(p, files)
  <2> SUFFICES ASSUME NEW i \in DOMAIN q PROVE True(p[i], files)
    BY <1>4 DEF Truthful
  <2>1. True(q[i], files)
    BY DEF Truthful
  <2>2. CASE i # k
    BY <1>2, <1>4, <2>1, <2>2
  <2>3. CASE i = k
    <3>1. q[k].state # "Completed"
      BY <1>1, <2>1, <2>3 DEF True, AllDone
    <3>2. p[k].state # "Completed" /\ p[k].id = q[k].id
      BY <1>4, <3>1
    <3>3. \A u \in DOMAIN p[k].seg : p[k].seg[u] = "Completed" => p[k].text[u] = <<<<p[k].id, u>>>>
      <4> SUFFICES ASSUME NEW u \in DOMAIN q[k].seg, p[k].seg[u] = "Completed"
                   PROVE  p[k].text[u] = <<<<q[k].id, u>>>>
        BY <1>6, <3>2
      <4>1. CASE u = s
        BY <1>1, <1>6, <4>1
      <4>2. CASE u # s
        BY <1>6, <2>1, <2>3, <4>2 DEF True
      <4> QED
        BY <4>1, <4>2
    <3> QED
      BY <2>3, <3>2, <3>3 DEF True
  <2> QED
    BY <2>2, <2>3
<1> QED
  BY <1>4, <1>7, <1>8, DropsNothing DEF Succeeds, p

(* A document may be retried.                                              *)
LEMMA ResetSucceeds ==
    ASSUME NEW q, NEW ids, NEW files, Shaped(q, ids), Truthful(q, files), NEW e
    PROVE  LET p == ResetForRetry(q, e)
           IN  Succeeds(q, p, NoEntry, ids, files) /\ KeepsTargets(q, p) /\ Within(p, q, ids)
<1> DEFINE p == ResetForRetry(q, e)
<1>1. /\ Shaped(p, ids) /\ DOMAIN p = DOMAIN q
      /\ \A i \in DOMAIN q :
            /\ p[i].id = q[i].id /\ p[i].text = q[i].text
            /\ DOMAIN p[i].seg = DOMAIN q[i].seg
            /\ p[i].state = q[i].state \/ p[i].state = "Queued"
            /\ \A s \in DOMAIN q[i].seg :
                  p[i].seg[s] = q[i].seg[s] \/ (q[i].seg[s] = "Failed" /\ p[i].seg[s] = "Pending")
  BY ResetItems
<1> HIDE DEF p
<1>2. Keeps(q, p, NoEntry) /\ KeepsTargets(q, p)
  BY <1>1, RevisionKeeps, RevisionKeepsTargets
<1>3. Truthful(p, files)
  <2> SUFFICES ASSUME NEW i \in DOMAIN q PROVE True(p[i], files)
    BY <1>1 DEF Truthful
  <2>1. True(q[i], files)
    BY DEF Truthful
  <2>2. \A s \in DOMAIN q[i].seg : p[i].seg[s] = "Completed" <=> q[i].seg[s] = "Completed"
    BY <1>1
  <2>3. p[i].state = "Completed" => q[i].state = "Completed"
    BY <1>1
  <2>4. p[i].id = q[i].id /\ p[i].text = q[i].text /\ DOMAIN p[i].seg = DOMAIN q[i].seg
    BY <1>1
  <2> QED
    BY <2>1, <2>2, <2>3, <2>4 DEF True, AllDone
<1>4. Within(p, q, ids)
  BY <1>1 DEF Within
<1> QED
  BY <1>1, <1>2, <1>3, <1>4, DropsNothing DEF Succeeds, p

(* The recovered queue may be repaired.                                    *)
LEMMA RecoverySucceeds ==
    ASSUME NEW q, NEW ids, NEW files, Shaped(q, ids), Truthful(q, files)
    PROVE  Succeeds(q, Recovered(q), NoEntry, ids, files) /\ Within(Recovered(q), q, ids)
<1> DEFINE p == Recovered(q)
<1>1. /\ Shaped(p, ids) /\ DOMAIN p = DOMAIN q
      /\ \A i \in DOMAIN q :
            /\ p[i].id = q[i].id /\ p[i].seg = q[i].seg /\ p[i].text = q[i].text
            /\ p[i].state = q[i].state \/ p[i].state = "Queued"
  BY RecoveredItems
<1> HIDE DEF p
<1>2. Keeps(q, p, NoEntry)
  BY <1>1, RevisionKeeps
<1>3. Truthful(p, files)
  <2> SUFFICES ASSUME NEW i \in DOMAIN q PROVE True(p[i], files)
    BY <1>1 DEF Truthful
  <2>1. True(q[i], files)
    BY DEF Truthful
  <2>2. /\ p[i].id = q[i].id /\ p[i].seg = q[i].seg /\ p[i].text = q[i].text
        /\ p[i].state = q[i].state \/ p[i].state = "Queued"
    BY <1>1
  <2> QED
    BY <2>1, <2>2 DEF True, AllDone
<1>4. Within(p, q, ids)
  BY <1>1 DEF Within
<1> QED
  BY <1>1, <1>2, <1>3, <1>4, DropsNothing DEF Succeeds, p

(* A truthful queue stays so without its source texts.                     *)
LEMMA BareTruthful ==
    ASSUME NEW q, NEW ids, NEW files, Shaped(q, ids), Truthful(q, files)
    PROVE  LET p == [i \in DOMAIN q |-> [q[i] EXCEPT !.bare = TRUE]]
           IN  Shaped(p, ids) /\ Truthful(p, files) /\ Within(p, q, ids)
<1> DEFINE p == [i \in DOMAIN q |-> [q[i] EXCEPT !.bare = TRUE]]
<1>1. /\ Shaped(p, ids) /\ DOMAIN p = DOMAIN q
      /\ \A i \in DOMAIN q :
            /\ p[i].id = q[i].id /\ p[i].seg = q[i].seg /\ p[i].text = q[i].text
            /\ p[i].state = q[i].state
  BY BareItems
<1> HIDE DEF p
<1>2. \A i \in DOMAIN p : True(p[i], files)
  BY <1>1 DEF Truthful, True, AllDone
<1>3. Within(p, q, ids)
  BY <1>1 DEF Within
<1> QED
  BY <1>1, <1>2, <1>3 DEF Truthful, p

(* A document may be added.                                                *)
LEMMA AppendSucceeds ==
    ASSUME NEW q, NEW ids, NEW files, Shaped(q, ids), Truthful(q, files),
           NEW e \in Entry, e \notin ids, NEW n \in 1..MaxSegments
    PROVE  LET p == Append(q, NewEntry(e, n))
           IN  /\ Succeeds(q, p, NoEntry, ids \cup {e}, files)
               /\ KeepsTargets(q, p) /\ Within(p, q, ids)
<1> DEFINE x == NewEntry(e, n)
           p == Append(q, x)
<1>1. x \in Item
  BY NewItem
<1>2. x.id = e /\ x.state = "Queued" /\ \A s \in DOMAIN x.seg : x.seg[s] = "Pending"
  BY DEF NewEntry
<1> HIDE DEF x
<1>3. /\ Shaped(p, ids \cup {e})
      /\ DOMAIN p = 1 .. Len(q) + 1
      /\ \A i \in DOMAIN q : p[i] = q[i]
      /\ p[Len(q) + 1] = x
  BY <1>1, <1>2, AppendItems
<1>4. Len(q) \in Nat /\ DOMAIN q = 1..Len(q)
  BY ShapedItems
<1> HIDE DEF p
<1>5. \A i \in DOMAIN q : i \in DOMAIN p
  BY <1>3, <1>4
<1>6. Keeps(q, p, NoEntry)
  BY <1>3, <1>5 DEF Keeps, Holds
<1>7. KeepsTargets(q, p)
  BY <1>3, <1>5 DEF KeepsTargets, Target
<1>8. Truthful(p, files)
  <2> SUFFICES ASSUME NEW i \in DOMAIN p PROVE True(p[i], files)
    BY DEF Truthful
  <2>1. i \in DOMAIN q \/ i = Len(q) + 1
    BY <1>3, <1>4
  <2>2. True(x, files)
    BY <1>2 DEF True
  <2> QED
    BY <1>3, <2>1, <2>2 DEF Truthful
<1>9. Within(p, q, ids)
  <2> SUFFICES ASSUME NEW i \in DOMAIN p, p[i].id \in ids PROVE i \in DOMAIN q /\ p[i] = q[i]
    BY DEF Within
  <2>1. i # Len(q) + 1
    BY <1>2, <1>3
  <2> QED
    BY <1>3, <1>4, <2>1
<1> QED
  BY <1>3, <1>6, <1>7, <1>8, <1>9, DropsNothing DEF Succeeds, p, x

(* A document may be removed, without harm to the targets of the others.   *)
LEMMA WithoutSucceeds ==
    ASSUME NEW q, NEW ids, NEW files, Shaped(q, ids), Truthful(q, files), NEW e, Has(q, e)
    PROVE  LET p == Without(q, e)
           IN  /\ Succeeds(q, p, e, ids, files) /\ Within(p, q, ids)
               /\ \A f, s : f # e /\ Target(q, f, s) => Target(p, f, s)
<1> DEFINE p == Without(q, e)
<1>1. /\ Shaped(p, ids)
      /\ \A i \in DOMAIN p : p[i].id # e /\ \E k \in DOMAIN q : p[i] = q[k]
      /\ \A k \in DOMAIN q : q[k].id # e => \E i \in DOMAIN p : p[i] = q[k]
  BY WithoutItems
<1> HIDE DEF p
<1>2. Truthful(p, files)
  BY <1>1 DEF Truthful
<1>3. Keeps(q, p, e)
  <2> SUFFICES ASSUME NEW k \in DOMAIN q, q[k].id # e PROVE Holds(p, q[k])
    BY DEF Keeps
  <2>1. PICK i \in DOMAIN p : p[i] = q[k]
    BY <1>1
  <2> QED
    BY <2>1 DEF Holds
<1>4. \A f, s : f # e /\ Target(q, f, s) => Target(p, f, s)
  <2> SUFFICES ASSUME NEW f, NEW s, f # e, Target(q, f, s) PROVE Target(p, f, s)
    OBVIOUS
  <2>1. PICK k \in DOMAIN q : /\ q[k].id = f /\ s \in DOMAIN q[k].seg
                              /\ ~HasFailed(q[k]) /\ q[k].seg[s] = "Pending"
    BY DEF Target
  <2>2. PICK i \in DOMAIN p : p[i] = q[k]
    BY <1>1, <2>1
  <2> QED
    BY <2>1, <2>2 DEF Target
<1>5. Within(p, q, ids)
  BY <1>1 DEF Within
<1> QED
  BY <1>1, <1>2, <1>3, <1>4, <1>5 DEF Succeeds, p

(* So may one that is not there any more.                                  *)
LEMMA RemovedSucceeds ==
    ASSUME NEW q, NEW ids, NEW files, Shaped(q, ids), Truthful(q, files), NEW e
    PROVE  LET p == Removed(q, e)
           IN  /\ Succeeds(q, p, e, ids, files) /\ Within(p, q, ids)
               /\ \A f, s : f # e /\ Target(q, f, s) => Target(p, f, s)
<1>1. CASE Has(q, e)
  BY <1>1, WithoutSucceeds DEF Removed
<1>2. CASE ~Has(q, e)
  <2>1. Removed(q, e) = q /\ \A i \in DOMAIN q : q[i].id # e
    BY <1>2 DEF Removed, Has, Position
  <2> QED
    BY <2>1 DEF Succeeds, Keeps, Holds, Within
<1> QED
  BY <1>1, <1>2

-----------------------------------------------------------------------------
(* A set of numbers that is not empty has a least one: the segment that    *)
(* CHOOSE takes exists.                                                    *)
LEMMA LeastNatural ==
    ASSUME NEW S \in SUBSET Nat, S # {}
    PROVE  \E n \in S : \A m \in S : n <= m
<1> DEFINE R == StrictSubsetOrdering(Nat)
           F == FiniteSubsetsOf(Nat)
           T == {1..n : n \in S}
<1>1. IsWellFoundedOn(R, F)
  BY FS_StrictSubsetOrderingWellFounded
<1>2. \A n \in S : 1..n \in SUBSET Nat /\ IsFiniteSet(1..n)
  BY FS_Interval
<1>3. T \subseteq F /\ T # {}
  BY <1>2 DEF FiniteSubsetsOf
<1> HIDE DEF R, F, T
<1>4. PICK x \in T : \A y \in T : ~(<<y, x>> \in R)
  BY <1>1, <1>3, WFMin
<1>5. PICK n \in S : x = 1..n
  BY <1>4 DEF T
<1>6. ASSUME NEW m \in S, ~(n <= m) PROVE FALSE
  <2>1. m \in Nat /\ n \in Nat /\ m < n
    BY <1>6
  <2>2. 1..m \in SUBSET Nat /\ 1..n \in SUBSET Nat /\ 1..m \subseteq 1..n
    BY <2>1
  <2>3. n \in 1..n /\ n \notin 1..m
    BY <2>1
  <2>4. <<1..m, 1..n>> \in R
    BY <2>2, <2>3 DEF R, StrictSubsetOrdering
  <2>5. 1..m \in T
    BY DEF T
  <2> QED
    BY <1>4, <1>5, <2>4, <2>5
<1> QED
  BY <1>6

(* The segment submitted for a document is one that waits.                 *)
LEMMA FirstPendingIsPending ==
    ASSUME NEW x \in Item, PendingOf(x) # {}
    PROVE  FirstPending(x) \in PendingOf(x)
<1>1. PendingOf(x) \in SUBSET Nat
  BY ItemSegments, BatchAssumption DEF PendingOf
<1>2. \E s \in PendingOf(x) : \A t \in PendingOf(x) : s <= t
  BY <1>1, LeastNatural
<1> QED
  BY <1>2 DEF FirstPending

(* A target is in the queue, where Of finds it.                            *)
LEMMA TargetEntry ==
    ASSUME NEW q, NEW ids, Shaped(q, ids), NEW e, NEW s, Target(q, e, s)
    PROVE  /\ e \in Entry /\ s \in 1..MaxSegments
           /\ Has(q, e) /\ s \in DOMAIN Of(q, e).seg
           /\ ~HasFailed(Of(q, e)) /\ Of(q, e).seg[s] = "Pending"
<1>1. PICK i \in DOMAIN q : /\ q[i].id = e /\ s \in DOMAIN q[i].seg
                            /\ ~HasFailed(q[i]) /\ q[i].seg[s] = "Pending"
  BY DEF Target
<1>2. q[i] \in Item /\ q[i].id \in Entry
  BY ShapedItems
<1>3. Has(q, e) /\ Of(q, e) = q[i]
  BY <1>1, OfItem
<1> QED
  BY <1>1, <1>2, <1>3, ItemSegments

-----------------------------------------------------------------------------
(* A write to the temporary file waits for its rename.                     *)
Writing == write.mode # "none"

(* The invariant.  First the types of everything but the queue.            *)
Scalars ==
    /\ file \in {"none", "whole", "torn"} /\ tmp \in {"none", "whole", "torn"}
    /\ written \subseteq Entry /\ lost \subseteq Entry /\ unopened \in 0..MaxUnopened
    /\ write \in [mode : {"none", "stop", "keep", "startup"},
                  show : {"no", "saved", "file"},
                  drop : Entry \cup {NoEntry}, opened : BOOLEAN]
    /\ pc \in {"recover", "load", "idle", "scan", "walk", "commit", "submit",
               "finish", "save"}
    /\ at \in 1..Cardinality(Entry) + 1
    /\ result \in {"Completed", "Failed", "Stopped", "Written", "NotWritten"}
    /\ {running, paused, removedActiveEntry, timer} \subseteq BOOLEAN
    /\ currentEntryId \in Entry \cup {NoEntry}
    /\ currentSegmentIndex \in 0..MaxSegments
    /\ currentJobId \in Job \cup {NoJob}
    /\ live \subseteq [job : Job, entry : Entry, seg : 1..MaxSegments,
                       cancelled : BOOLEAN,
                       phase : {"queued", "started", "told"}]
    /\ model \in {"none", "loaded"}

(* The file on disk and the one being renamed over it are both well        *)
(* formed and truthful, and the second may follow the first unless it was  *)
(* made from a file that did not open.  It must be truthful before the     *)
(* rename, because after a crash recovery may promote it.                  *)
FileInv ==
    /\ Shaped(queue, added) /\ Shaped(next, added)
    /\ Truthful(queue, written) /\ Truthful(next, written)
    /\ file = "none" => queue = <<>>
    /\ Writing => /\ write.opened => Keeps(queue, next, write.drop)
                  /\ \A i \in DOMAIN next : next[i].id # write.drop

(* What was lost to a write over a file that did not open does not come    *)
(* back, and such a write keeps nothing of the queue.                      *)
LossInv ==
    /\ lost \subseteq added
    /\ \A i \in DOMAIN queue : queue[i].id \notin lost
    /\ \A i \in DOMAIN next : next[i].id \notin lost
    /\ Writing /\ ~write.opened =>
          \A i \in DOMAIN next, k \in DOMAIN queue : next[i].id # queue[k].id

(* What each step of the controller has ahead of it: nothing runs before   *)
(* the queue is loaded, no write is pending when an outcome is recorded,   *)
(* and a job whose outcome is being recorded is gone from the service.     *)
PhaseInv ==
    /\ write.mode = "startup" => pc = "load"
    /\ pc \in {"recover", "load"} => Blank /\ live = {} /\ write.mode \in {"none", "startup"}
    /\ pc \in {"commit", "finish", "save"} => ~Writing
    /\ pc \in {"submit", "walk", "commit"} => currentJobId = NoJob
    /\ pc \in {"finish", "save"} =>
          /\ currentJobId # NoJob
          /\ \A r \in live : r.job # currentJobId

(* Queue q has entry x as it is, unless x was lost.                        *)
Stands(q, x) == x.id \in lost \/ \E i \in DOMAIN q : q[i] = x

(* What the loop of advanceBatch() has ahead of it is still so in the      *)
(* queue file, and in the one being written; and a document is committed   *)
(* only with its file written.                                             *)
WalkInv ==
    pc \in {"walk", "commit"} =>
       /\ Shaped(entries, added)
       /\ \A k \in DOMAIN entries : k >= at =>
             /\ Stands(queue, entries[k])
             /\ Writing /\ write.opened => Stands(next, entries[k])
       /\ pc = "commit" => /\ at \in DOMAIN entries
                           /\ AllDone(entries[at]) /\ entries[at].id \in written

(* A translation is wanted or under way, and its document was not          *)
(* removed.                                                                *)
Busy == pc = "submit" \/ (currentJobId # NoJob /\ ~removedActiveEntry)

(* The current place is a target in queue q, unless its entry was lost.    *)
Aimed(q) == Target(q, currentEntryId, currentSegmentIndex) \/ currentEntryId \in lost

(* The text collected is the translation of the current segment.           *)
Collected == currentOutputText = <<<<currentEntryId, currentSegmentIndex>>>>

(* The current place is a target in the queue, on disk and being written,  *)
(* for as long as its translation is on the way; and what is recorded as   *)
(* its outcome was collected from it.                                      *)
CurrentInv ==
    /\ removedActiveEntry => currentJobId # NoJob
    /\ Busy => /\ currentEntryId \in Entry /\ currentSegmentIndex \in 1..MaxSegments
               /\ Aimed(queue)
               /\ Writing /\ write.opened => Aimed(next)
    /\ pc = "finish" /\ result = "Completed" /\ ~removedActiveEntry => Collected
    /\ pc = "save" =>
          /\ ~removedActiveEntry /\ Collected /\ Has(queue, currentEntryId)
          /\ AllDone(Of(Translated, currentEntryId))
          /\ result = "Written" => currentEntryId \in written

(* Job r of the service is the one the controller waits for, and what the  *)
(* controller has collected is what r has told.                            *)
Owned(r) ==
    /\ r.job = currentJobId /\ ~removedActiveEntry
    /\ r.entry = currentEntryId /\ r.seg = currentSegmentIndex
    /\ r.phase = "started" => currentOutputText = <<>>
    /\ r.phase = "told" => Collected

(* Some id is free for the next job.                                       *)
Spare(rs) == \E j \in Job : \A r \in rs : r.job # j

(* Ids of jobs are not reused while they live, a job that was not          *)
(* cancelled is the current one, and there is an id to submit the next     *)
(* under.                                                                  *)
LiveInv ==
    /\ IsFiniteSet(live)
    /\ \A r, t \in live : r.job = t.job => r = t
    /\ \A r \in live : ~r.cancelled => Owned(r)
    /\ (\A r \in live : r.job # currentJobId) => Spare(live)

(* All of it.                                                              *)
IInv == Scalars /\ FileInv /\ LossInv /\ PhaseInv /\ WalkInv /\ CurrentInv /\ LiveInv

(* It contains the type invariant.                                         *)
LEMMA IInvTypes == IInv => TypeOK
<1> SUFFICES ASSUME IInv PROVE TypeOK
  OBVIOUS
<1>1. \A q \in {queue, next} : \A i \in DOMAIN q :
         /\ q[i].id \in Entry /\ q[i].state \in EntryState
         /\ DOMAIN q[i].text = DOMAIN q[i].seg
         /\ \A s \in DOMAIN q[i].seg : q[i].seg[s] \in SegmentState
  <2> SUFFICES ASSUME NEW q \in {queue, next}, NEW i \in DOMAIN q
               PROVE  /\ q[i].id \in Entry /\ q[i].state \in EntryState
                      /\ DOMAIN q[i].text = DOMAIN q[i].seg
                      /\ \A s \in DOMAIN q[i].seg : q[i].seg[s] \in SegmentState
    OBVIOUS
  <2>1. Shaped(q, added)
    BY DEF IInv, FileInv
  <2>2. q[i] \in Item
    BY <2>1, ShapedItems
  <2> QED
    BY <2>2, ItemFields, ItemSegments
<1>2. \A i, k \in DOMAIN queue : queue[i].id = queue[k].id => i = k
  BY DEF IInv, FileInv, Shaped
<1> QED
  BY <1>1, <1>2 DEF IInv, Scalars, TypeOK

(* It holds at the start.                                                  *)
LEMMA InitIInv == Init => IInv
<1> SUFFICES ASSUME Init PROVE IInv
  OBVIOUS
<1>1. Scalars
  <2>1. Cardinality(Entry) \in Nat
    BY FS_CardinalityType, BatchAssumption
  <2>2. 1 \in 1..Cardinality(Entry) + 1 /\ 0 \in 0..MaxSegments /\ 0 \in 0..MaxUnopened
    BY <2>1, BatchAssumption
  <2> QED
    BY <2>2 DEF Init, Blank, Scalars, NoWrite
<1>2. FileInv /\ LossInv
  BY EmptyShaped DEF Init, FileInv, LossInv, NoWrite, Writing
<1>3. PhaseInv /\ WalkInv /\ CurrentInv
  BY DEF Init, Blank, PhaseInv, WalkInv, CurrentInv, Busy, Writing, NoWrite
<1>4. LiveInv
  <2>1. live = {}
    BY DEF Init
  <2> QED
    BY <2>1, FS_EmptySet, BatchAssumption DEF LiveInv, Spare
<1> QED
  BY <1>1, <1>2, <1>3, <1>4 DEF IInv

-----------------------------------------------------------------------------
(* A scan may start at the first place.                                    *)
LEMMA FirstPlace == 1 \in 1..Cardinality(Entry) + 1 /\ 0 \in 0..MaxSegments
BY FS_CardinalityType, BatchAssumption

(* The records that say what is being written.                             *)
WriteRecord ==
    [mode : {"none", "stop", "keep", "startup"}, show : {"no", "saved", "file"},
     drop : Entry \cup {NoEntry}, opened : BOOLEAN]

(* A write puts a whole temporary file in place and touches nothing else   *)
(* on disk.                                                                *)
LEMMA PutTypes ==
    ASSUME NEW p, NEW opened \in BOOLEAN, NEW mode \in {"stop", "keep", "startup"},
           NEW show \in {"no", "saved", "file"}, NEW d \in Entry \cup {NoEntry},
           PutDropping(p, opened, mode, show, d)
    PROVE  tmp' = "whole" /\ write' \in WriteRecord /\ UNCHANGED <<file, written, lost>>
BY DEF PutDropping, WriteRecord

(* The loads that could not open the file stay within their bound.         *)
LEMMA LoadsTypes ==
    ASSUME Scalars
    PROVE  /\ \A f, opened : Loads(f, opened) => unopened' \in 0..MaxUnopened
           /\ \A f, q : Snapshot(f, q) => unopened' \in 0..MaxUnopened
<1>1. ASSUME NEW f, NEW opened, Loads(f, opened) PROVE unopened' \in 0..MaxUnopened
  BY <1>1, BatchAssumption DEF Loads, Scalars
<1>2. ASSUME NEW f, NEW q, Snapshot(f, q) PROVE unopened' \in 0..MaxUnopened
  BY <1>1, <1>2 DEF Snapshot, Scalars
<1> QED
  BY <1>1, <1>2

(* What depends on the files is kept by a step that leaves them alone.     *)
LEMMA FilesFrame ==
    ASSUME FileInv, LossInv, UNCHANGED <<queue, file, next, written, added, lost, write>>
    PROVE  FileInv' /\ LossInv'
BY DEF FileInv, LossInv, Writing

(* What depends on the jobs is kept by a step that leaves them alone.      *)
LEMMA LiveFrame ==
    ASSUME LiveInv, UNCHANGED <<live, current, removedActiveEntry>>
    PROVE  LiveInv'
BY DEF LiveInv, Owned, Collected, Spare, current

(* What a load returns, the queue or nothing, is well formed and truthful. *)
LEMMA ReadShaped ==
    ASSUME FileInv, NEW opened \in BOOLEAN
    PROVE  Shaped(Read(opened), added) /\ Truthful(Read(opened), written)
BY EmptyShaped DEF FileInv, Read

(* A write of a queue that may follow the one that was read.               *)
LEMMA PutFiles ==
    ASSUME FileInv, LossInv, NEW opened \in BOOLEAN, NEW p, NEW d,
           Succeeds(Read(opened), p, d, added', written), Within(p, Read(opened), added),
           next' = p, write'.drop = d, write'.opened = opened, added \subseteq added',
           UNCHANGED <<queue, file, written, lost>>
    PROVE  FileInv' /\ LossInv'
<1>1. Shaped(queue, added')
  BY ShapedStays DEF FileInv
<1>2. FileInv'
  BY <1>1 DEF FileInv, Succeeds, Read
<1>3. ASSUME NEW i \in DOMAIN p PROVE p[i].id \notin lost
  <2>1. CASE p[i].id \in added
    <3>1. opened /\ \E k \in DOMAIN queue : queue[k].id = p[i].id
      BY <2>1 DEF Within, Read
    <3> QED
      BY <3>1 DEF LossInv
  <2>2. CASE p[i].id \notin added
    BY <2>2 DEF LossInv
  <2> QED
    BY <2>1, <2>2
<1>4. ASSUME ~opened, NEW i \in DOMAIN p, NEW k \in DOMAIN queue PROVE p[i].id # queue[k].id
  <2>1. p[i].id \notin added
    BY <1>4 DEF Within, Read
  <2>2. queue[k].id \in added
    BY DEF FileInv, Shaped
  <2> QED
    BY <2>1, <2>2
<1>5. LossInv'
  BY <1>3, <1>4 DEF LossInv
<1> QED
  BY <1>2, <1>5

(* The rename: the written queue becomes the queue.                        *)
LEMMA RenameStep ==
    ASSUME IInv, Rename
    PROVE  IInv'
<1>1. /\ Writing /\ queue' = next /\ file' = "whole" /\ next' = <<>> /\ tmp' = "none"
      /\ write' = NoWrite /\ ~Writing' /\ ShowsAfter(write.show)
      /\ written' = written \ {write.drop}
      /\ lost' = IF write.opened THEN lost ELSE lost \cup {queue[i].id : i \in DOMAIN queue}
      /\ UNCHANGED <<added, pc, at, result, entries, flags, current, live, model>>
  BY DEF Rename, Writing, NoWrite
<1>2. \A i \in DOMAIN queue : queue[i].id \in Entry /\ queue[i].id \in added
  BY ShapedItems DEF IInv, FileInv
<1>3. lost \subseteq lost' /\ lost' \subseteq Entry /\ lost' \subseteq added
  BY <1>1, <1>2 DEF IInv, Scalars, LossInv
<1>4. Scalars'
  <2>1. unopened' \in 0..MaxUnopened
    BY <1>1, LoadsTypes DEF ShowsAfter, IInv, Scalars
  <2>2. /\ UNCHANGED <<running, paused, removedActiveEntry, timer>>
        /\ UNCHANGED <<currentEntryId, currentSegmentIndex, currentJobId>>
    BY <1>1 DEF flags, current
  <2>3. write' \in WriteRecord
    BY <1>1 DEF NoWrite, WriteRecord
  <2>4. written' \subseteq Entry
    BY <1>1 DEF IInv, Scalars
  <2> QED
    BY <1>1, <1>3, <2>1, <2>2, <2>3, <2>4 DEF IInv, Scalars, WriteRecord
<1>5. FileInv'
  <2>1. Truthful(next, written \ {write.drop})
    <3>1. Truthful(next, written) /\ \A i \in DOMAIN next : next[i].id # write.drop
      BY <1>1 DEF IInv, FileInv
    <3> QED
      BY <3>1, TruthfulStays
  <2> QED
    BY <1>1, <2>1, EmptyShaped DEF IInv, FileInv
<1>6. LossInv'
  <2>1. ASSUME NEW i \in DOMAIN next PROVE next[i].id \notin lost'
    <3>1. next[i].id \notin lost
      BY DEF IInv, LossInv
    <3>2. ~write.opened => next[i].id \notin {queue[k].id : k \in DOMAIN queue}
      BY <1>1 DEF IInv, LossInv
    <3> QED
      BY <1>1, <3>1, <3>2
  <2>2. queue' = next /\ next' = <<>> /\ ~Writing' /\ added' = added
    BY <1>1
  <2> QED
    BY <1>3, <2>1, <2>2 DEF LossInv
<1>7. PhaseInv'
  BY <1>1 DEF IInv, PhaseInv, Blank, NoWrite, flags, current
<1>8. WalkInv'
  <2> SUFFICES ASSUME pc \in {"walk", "commit"} PROVE WalkInv'
    BY <1>1 DEF WalkInv
  <2>1. pc = "walk" /\ pc' = "walk"
    BY <1>1 DEF IInv, PhaseInv
  <2>2. ASSUME NEW k \in DOMAIN entries, k >= at
        PROVE  entries[k].id \in lost' \/ \E i \in DOMAIN next : next[i] = entries[k]
    <3>1. /\ entries[k].id \in lost \/ \E i \in DOMAIN queue : queue[i] = entries[k]
          /\ write.opened => entries[k].id \in lost \/ \E i \in DOMAIN next : next[i] = entries[k]
      BY <1>1, <2>1, <2>2 DEF IInv, WalkInv, Stands
    <3> QED
      BY <1>1, <1>3, <3>1
  <2>3. Shaped(entries, added)
    BY <2>1 DEF IInv, WalkInv
  <2> QED
    BY <1>1, <2>1, <2>2, <2>3 DEF WalkInv, Stands
<1>9. CurrentInv'
  <2>1. /\ UNCHANGED <<removedActiveEntry, currentEntryId, currentSegmentIndex, currentJobId,
                       currentOutputText>>
        /\ pc \notin {"finish", "save"} /\ pc' = pc
    BY <1>1 DEF flags, current, IInv, PhaseInv
  <2>2. ASSUME Busy
        PROVE  Target(next, currentEntryId, currentSegmentIndex) \/ currentEntryId \in lost'
    <3>1. CASE write.opened
      BY <1>1, <2>2, <3>1 DEF IInv, CurrentInv, Aimed
    <3>2. CASE ~write.opened
      BY <1>1, <2>2, <3>2 DEF IInv, CurrentInv, Aimed, Target
    <3> QED
      BY <3>1, <3>2
  <2> QED
    BY <1>1, <2>1, <2>2 DEF IInv, CurrentInv, Busy, Aimed
<1>10. LiveInv'
  BY <1>1, LiveFrame DEF IInv, flags
<1> QED
  BY <1>4, <1>5, <1>6, <1>7, <1>8, <1>9, <1>10 DEF IInv

(* The jobs of some set, among them the current one or a spare id.         *)
LEMMA CancelledLive ==
    ASSUME Scalars, LiveInv, NEW j
    PROVE  LET c == Cancelled(j)
           IN  /\ IsFiniteSet(c)
               /\ c \subseteq [job : Job, entry : Entry, seg : 1..MaxSegments,
                               cancelled : BOOLEAN, phase : {"queued", "started", "told"}]
               /\ \A r \in c : \E t \in live : t.job = r.job
               /\ \A r, t \in c : r.job = t.job => r = t
               /\ \A r \in c : ~r.cancelled => r \in live /\ r.job # j
<1> DEFINE Record == [job : Job, entry : Entry, seg : 1..MaxSegments,
                      cancelled : BOOLEAN, phase : {"queued", "started", "told"}]
           g(r) == IF r.job = j THEN [r EXCEPT !.cancelled = TRUE] ELSE r
           c == {g(r) : r \in live}
           f == [r \in live |-> g(r)]
<1>1. c = Cancelled(j)
  BY DEF Cancelled
<1>2. live \subseteq Record
  BY DEF Scalars
<1>3. \A r \in live : /\ g(r) \in Record /\ g(r).job = r.job
                      /\ ~g(r).cancelled => g(r) = r /\ r.job # j
  BY <1>2
<1>4. IsFiniteSet(c)
  <2>1. f \in Surjection(live, c)
    BY DEF Surjection
  <2> QED
    BY <2>1, FS_Surjection DEF LiveInv
<1>5. \A r \in c : \E t \in live : r = g(t)
  OBVIOUS
<1> HIDE DEF g, c
<1>6. \A r, t \in c : r.job = t.job => r = t
  BY <1>3, <1>5 DEF LiveInv
<1> QED
  BY <1>1, <1>3, <1>4, <1>5, <1>6

(* Fewer live jobs than ids leave an id that none of them has.             *)
LEMMA SpareId ==
    ASSUME Scalars, LiveInv, Cardinality(live) < Cardinality(Job)
    PROVE  Spare(live)
<1> SUFFICES ASSUME \A j \in Job : \E r \in live : r.job = j PROVE FALSE
  BY DEF Spare
<1> DEFINE jobs == {r.job : r \in live}
           f == [r \in live |-> r.job]
<1>1. IsFiniteSet(live)
  BY DEF LiveInv
<1>2. f \in Surjection(live, jobs)
  BY DEF Surjection
<1>3. IsFiniteSet(jobs) /\ Cardinality(jobs) <= Cardinality(live)
  BY <1>1, <1>2, FS_Surjection
<1>4. Job \subseteq jobs
  OBVIOUS
<1> HIDE DEF jobs
<1>5. Cardinality(Job) <= Cardinality(jobs)
  BY <1>3, <1>4, FS_Subset
<1>6. Cardinality(Job) \in Nat /\ Cardinality(jobs) \in Nat /\ Cardinality(live) \in Nat
  BY <1>1, <1>3, FS_CardinalityType, BatchAssumption
<1> QED
  BY <1>3, <1>5, <1>6

(* A run that stops abandons its job, cancelled, and its place.            *)
LEMMA StopKeeps ==
    ASSUME IInv, BoundaryStop
    PROVE  LiveInv' /\ CurrentInv'
<1> DEFINE c == Cancelled(currentJobId)
<1>1. /\ IsFiniteSet(c)
      /\ \A r \in c : \E t \in live : t.job = r.job
      /\ \A r, t \in c : r.job = t.job => r = t
      /\ \A r \in c : ~r.cancelled => r \in live /\ r.job # currentJobId
  BY CancelledLive DEF IInv
<1> HIDE DEF c
<1>2. live' = c /\ currentJobId' = NoJob
  BY DEF BoundaryStop, c
<1>3. \A r \in c : r.cancelled
  BY <1>1 DEF IInv, LiveInv, Owned
<1>4. Spare(c)
  <2>1. Spare(live)
    BY SpareId DEF IInv, BoundaryStop
  <2> QED
    BY <1>1, <2>1 DEF Spare
<1>5. LiveInv'
  BY <1>1, <1>2, <1>3, <1>4 DEF LiveInv
<1>6. CurrentInv'
  BY DEF BoundaryStop, CurrentInv, Busy
<1> QED
  BY <1>5, <1>6

(* And leaves types as they were.                                          *)
LEMMA StopScalars ==
    ASSUME IInv, BoundaryStop, UNCHANGED <<file, written, lost>>,
           tmp' \in {"none", "whole", "torn"}, write' \in WriteRecord
    PROVE  Scalars'
<1>1. Cancelled(currentJobId) \subseteq [job : Job, entry : Entry, seg : 1..MaxSegments,
                      cancelled : BOOLEAN, phase : {"queued", "started", "told"}]
  BY CancelledLive DEF IInv
<1> QED
  BY <1>1, FirstPlace DEF IInv, Scalars, BoundaryStop, WriteRecord

(* The temporary file is gone, and no write is under way.                  *)
LEMMA NoWriteFiles ==
    ASSUME FileInv, LossInv, UNCHANGED <<queue, file, written, added, lost>>,
           next' = <<>>, write' = NoWrite
    PROVE  FileInv' /\ LossInv'
BY EmptyShaped DEF FileInv, LossInv, Writing, NoWrite

(* A write that fails stops the run.                                       *)
LEMMA WriteFailsInRunStep ==
    ASSUME IInv, WriteFailsInRun
    PROVE  IInv'
<1> USE DEF WriteFailsInRun
<1>1. Scalars'
  BY StopScalars DEF NoWrite, WriteRecord
<1>2. FileInv' /\ LossInv'
  BY NoWriteFiles DEF IInv
<1>3. PhaseInv' /\ WalkInv'
  BY DEF PhaseInv, WalkInv, BoundaryStop, NoWrite
<1>4. CurrentInv' /\ LiveInv'
  BY StopKeeps
<1> QED
  BY <1>1, <1>2, <1>3, <1>4 DEF IInv

(* So does a document that cannot be read back.                            *)
LEMMA LoadFailsInRunStep ==
    ASSUME IInv, LoadFailsInRun
    PROVE  IInv'
<1> USE DEF LoadFailsInRun, disk
<1>1. Scalars'
  BY StopScalars DEF IInv, Scalars, WriteRecord
<1>2. FileInv' /\ LossInv'
  BY FilesFrame DEF IInv
<1>3. PhaseInv' /\ WalkInv'
  BY DEF PhaseInv, WalkInv, BoundaryStop
<1>4. CurrentInv' /\ LiveInv'
  BY StopKeeps
<1> QED
  BY <1>1, <1>2, <1>3, <1>4 DEF IInv

(* A write that fails for adding or retrying a document leaves the run     *)
(* alone.                                                                  *)
LEMMA WriteFailsAsideStep ==
    ASSUME IInv, WriteFailsAside
    PROVE  IInv'
<1> USE DEF WriteFailsAside, flags, current
<1>1. Scalars'
  BY DEF IInv, Scalars, NoWrite
<1>2. FileInv' /\ LossInv'
  BY NoWriteFiles DEF IInv
<1>3. PhaseInv'
  BY DEF IInv, PhaseInv, Blank, Writing, NoWrite
<1>4. WalkInv'
  BY DEF IInv, PhaseInv, WalkInv, Stands, Writing, NoWrite
<1>5. CurrentInv'
  BY DEF IInv, PhaseInv, CurrentInv, Busy, Aimed, Writing, NoWrite, Collected
<1>6. LiveInv'
  BY LiveFrame DEF IInv
<1> QED
  BY <1>1, <1>2, <1>3, <1>4, <1>5, <1>6 DEF IInv

(* A repair that cannot be written moves the queue aside: nothing is       *)
(* queued.                                                                 *)
LEMMA WriteFailsAtStartupStep ==
    ASSUME IInv, WriteFailsAtStartup
    PROVE  IInv'
<1> USE DEF WriteFailsAtStartup, flags, current
<1>1. Scalars'
  BY DEF IInv, Scalars, NoWrite
<1>2. FileInv' /\ LossInv'
  BY EmptyShaped DEF IInv, FileInv, LossInv, Writing, NoWrite
<1>3. PhaseInv' /\ WalkInv'
  BY DEF IInv, PhaseInv, WalkInv, Writing, NoWrite
<1>4. CurrentInv'
  BY DEF IInv, PhaseInv, CurrentInv, Busy, Blank, Writing, NoWrite
<1>5. LiveInv'
  BY LiveFrame DEF IInv
<1> QED
  BY <1>1, <1>2, <1>3, <1>4, <1>5 DEF IInv

(* A crash leaves the files, and nothing in memory.                        *)
LEMMA CrashStep ==
    ASSUME IInv, Crash
    PROVE  IInv'
<1> USE DEF Crash
<1>1. Scalars'
  BY FirstPlace DEF IInv, Scalars, NoWrite, Leftover
<1>2. FileInv' /\ LossInv'
  BY DEF IInv, FileInv, LossInv, Writing, NoWrite
<1>3. PhaseInv' /\ WalkInv' /\ CurrentInv'
  BY DEF PhaseInv, WalkInv, CurrentInv, Busy, Blank, Writing, NoWrite
<1>4. LiveInv'
  BY FS_EmptySet, BatchAssumption DEF LiveInv, Spare
<1> QED
  BY <1>1, <1>2, <1>3, <1>4 DEF IInv

(* Recovery puts a whole file in place: the old one, or the one that was   *)
(* waiting for its rename.                                                 *)
LEMMA RecoverStep ==
    ASSUME IInv, Recover
    PROVE  IInv'
<1> USE DEF Recover, flags, current
<1> DEFINE p == Recovered(queue)
<1>1. /\ Blank /\ live = {} /\ ~Writing /\ pc' = "load"
      /\ UNCHANGED <<running, paused, removedActiveEntry, timer, currentEntryId,
                     currentSegmentIndex, currentJobId, currentOutputText, live>>
      /\ UNCHANGED <<added, at, result, model>>
  BY DEF IInv, PhaseInv, Writing
<1>2. \/ /\ queue' = <<>> /\ file' = "none" /\ UNCHANGED <<next, tmp, written, lost, write>>
      \/ Put(p, TRUE, "startup", "no")
      \/ UNCHANGED <<queue, file, next, tmp, written, lost, write>>
  OBVIOUS
<1>3. unopened' \in 0..MaxUnopened
  BY LoadsTypes DEF IInv, Scalars
<1> HIDE DEF p, Recover
<1>4. Scalars'
  <2>1. CASE Put(p, TRUE, "startup", "no")
    <3>1. tmp' = "whole" /\ write' \in WriteRecord /\ UNCHANGED <<file, written, lost>>
      BY <2>1, PutTypes DEF Put
    <3> QED
      BY <1>1, <1>3, <3>1 DEF IInv, Scalars, WriteRecord
  <2>2. CASE file' \in {"none", file} /\ UNCHANGED <<tmp, written, lost, write>>
    <3>1. Scalars
      BY DEF IInv
    <3> QED
      BY <1>1, <1>3, <2>2, <3>1 DEF Scalars
  <2> QED
    BY <1>2, <2>1, <2>2
<1>5. FileInv' /\ LossInv'
  <2>1. CASE queue' = <<>> /\ file' = "none" /\ UNCHANGED <<next, tmp, written, lost, write>>
    BY <1>1, <2>1, EmptyShaped DEF IInv, FileInv, LossInv, Writing
  <2>2. CASE Put(p, TRUE, "startup", "no")
    <3>1. Succeeds(queue, p, NoEntry, added', written) /\ Within(p, queue, added)
      BY <1>1, RecoverySucceeds DEF IInv, FileInv, p
    <3>2. Read(TRUE) = queue
      BY DEF Read
    <3> QED
      BY <1>1, <2>2, <3>1, <3>2, PutFiles DEF IInv, Put, PutDropping
  <2>3. CASE UNCHANGED <<queue, file, next, tmp, written, lost, write>>
    BY <1>1, <2>3, FilesFrame DEF IInv
  <2> QED
    BY <1>2, <2>1, <2>2, <2>3
<1>6. PhaseInv' /\ WalkInv'
  BY <1>1, <1>2 DEF PhaseInv, WalkInv, Blank, Writing, Put, PutDropping
<1>7. CurrentInv' /\ LiveInv'
  BY <1>1, LiveFrame DEF IInv, CurrentInv, Busy, Blank
<1> QED
  BY <1>4, <1>5, <1>6, <1>7 DEF IInv

(* Loading promotes the temporary file if there is no other.               *)
LEMMA LoadStep ==
    ASSUME IInv, Load
    PROVE  IInv'
<1> USE DEF Load, flags, current
<1>1. /\ Blank /\ live = {} /\ ~Writing
      /\ UNCHANGED <<running, paused, removedActiveEntry, timer, currentEntryId,
                     currentSegmentIndex, currentJobId, currentOutputText, live>>
  BY DEF IInv, PhaseInv, Writing
<1>2. unopened' \in 0..MaxUnopened
  BY LoadsTypes DEF IInv
<1>3. Scalars'
  BY <1>2 DEF IInv, Scalars, Promotes
<1>4. FileInv' /\ LossInv'
  <2>1. CASE UNCHANGED <<queue, file>>
    BY <1>1, <2>1, EmptyShaped DEF IInv, FileInv, LossInv, Writing
  <2>2. CASE file' = "whole" /\ queue' \in {<<>>, next, [i \in DOMAIN next |-> [next[i] EXCEPT !.bare = TRUE]]}
    <3>1. Shaped(queue', added) /\ Truthful(queue', written)
      BY <2>2, EmptyShaped, BareTruthful DEF IInv, FileInv
    <3>2. Within(queue', next, added)
      BY <2>2, BareTruthful, WithinItself DEF IInv, FileInv
    <3>3. \A i \in DOMAIN queue' : queue'[i].id \notin lost
      BY <3>1, <3>2 DEF IInv, LossInv, Shaped, Within
    <3> QED
      BY <1>1, <2>2, <3>1, <3>3, EmptyShaped DEF IInv, FileInv, LossInv, Writing
  <2>3. CASE file' = "torn" /\ UNCHANGED queue
    BY <1>1, <2>3, EmptyShaped DEF IInv, FileInv, LossInv, Writing
  <2> QED
    BY <2>1, <2>2, <2>3 DEF Promotes
<1>5. PhaseInv' /\ WalkInv'
  BY <1>1 DEF PhaseInv, WalkInv, Writing
<1>6. CurrentInv' /\ LiveInv'
  BY <1>1, LiveFrame DEF IInv, CurrentInv, Busy, Blank
<1> QED
  BY <1>3, <1>4, <1>5, <1>6 DEF IInv

-----------------------------------------------------------------------------
(* A write for adding or retrying a document leaves the current place a    *)
(* target.                                                                 *)
LEMMA KeepStep ==
    ASSUME IInv, Ready, NEW opened \in BOOLEAN, NEW p,
           Succeeds(Read(opened), p, NoEntry, added', written), Within(p, Read(opened), added),
           KeepsTargets(Read(opened), p), added \subseteq added',
           Loads(file, opened), Put(p, opened, "keep", "file"),
           UNCHANGED <<pc, at, result, flags, current, live, model>>
    PROVE  IInv'
<1>1. Scalars'
  <2>1. tmp' = "whole" /\ write' \in WriteRecord /\ UNCHANGED <<file, written, lost>>
    BY PutTypes DEF Put
  <2>2. unopened' \in 0..MaxUnopened
    BY LoadsTypes DEF IInv
  <2> QED
    BY <2>1, <2>2 DEF IInv, Scalars, WriteRecord, flags, current
<1>2. FileInv' /\ LossInv'
  BY PutFiles DEF IInv, Put, PutDropping
<1>3. PhaseInv' /\ WalkInv'
  BY DEF IInv, PhaseInv, WalkInv, Ready, Put, PutDropping
<1>4. CurrentInv'
  <2>1. /\ pc' = "idle" /\ next' = p /\ write'.opened = opened /\ UNCHANGED <<queue, lost>>
        /\ UNCHANGED <<removedActiveEntry, currentEntryId, currentSegmentIndex, currentJobId>>
    BY DEF Ready, Put, PutDropping, flags, current
  <2>2. ASSUME opened, Aimed(queue)
        PROVE  Target(p, currentEntryId, currentSegmentIndex) \/ currentEntryId \in lost
    BY <2>2 DEF Aimed, KeepsTargets, Read
  <2>3. pc = "idle"
    BY DEF Ready
  <2> QED
    BY <2>1, <2>2, <2>3 DEF IInv, CurrentInv, Busy, Aimed
<1>5. LiveInv'
  BY LiveFrame DEF IInv, flags
<1> QED
  BY <1>1, <1>2, <1>3, <1>4, <1>5 DEF IInv

(* Adding a document.                                                      *)
LEMMA AddFileStep ==
    ASSUME IInv, NEW e \in Entry, NEW n \in 1..MaxSegments, AddFile(e, n)
    PROVE  IInv'
<1>1. PICK opened \in BOOLEAN :
         Loads(file, opened) /\ Put(Append(Read(opened), NewEntry(e, n)), opened, "keep", "file")
  BY DEF AddFile
<1>2. /\ Ready /\ e \notin added /\ added' = added \cup {e}
      /\ UNCHANGED <<pc, at, result, flags, current, live, model>>
  BY DEF AddFile
<1> DEFINE p == Append(Read(opened), NewEntry(e, n))
<1>3. /\ Succeeds(Read(opened), p, NoEntry, added', written)
      /\ KeepsTargets(Read(opened), p) /\ Within(p, Read(opened), added)
  <2>1. Shaped(Read(opened), added) /\ Truthful(Read(opened), written)
    BY ReadShaped DEF IInv
  <2> QED
    BY <1>2, <2>1, AppendSucceeds
<1> HIDE DEF p
<1> QED
  BY <1>1, <1>2, <1>3, KeepStep DEF p

(* Retrying a document, which is never the one in translation.             *)
LEMMA RetryEntryStep ==
    ASSUME IInv, NEW e \in Entry, RetryEntry(e)
    PROVE  IInv'
<1> DEFINE p == ResetForRetry(queue, e)
<1>1. /\ Ready /\ Loads(file, TRUE) /\ Put(p, TRUE, "keep", "file")
      /\ UNCHANGED <<added, pc, at, result, flags, current, live, model>>
  BY DEF RetryEntry
<1>2. /\ Succeeds(queue, p, NoEntry, added', written)
      /\ KeepsTargets(queue, p) /\ Within(p, queue, added)
  <2>1. Shaped(queue, added) /\ Truthful(queue, written)
    BY DEF IInv, FileInv
  <2> QED
    BY <1>1, <2>1, ResetSucceeds
<1>3. Read(TRUE) = queue
  BY DEF Read
<1> HIDE DEF p
<1> QED
  BY <1>1, <1>2, <1>3, KeepStep

(* Without a current job every live one has been told to stop.             *)
LEMMA IdleMeansCancelled ==
    ASSUME Scalars, LiveInv, currentJobId = NoJob
    PROVE  \A r \in live : r.cancelled /\ r.job # NoJob
<1>1. \A r \in live : r.job \in Job
  BY DEF Scalars
<1> QED
  BY <1>1, BatchAssumption DEF LiveInv, Owned

(* Removing a document: if it is in translation its job is cancelled and   *)
(* its outcome will be ignored.                                            *)
LEMMA RemoveEntryStep ==
    ASSUME IInv, NEW e \in Entry, RemoveEntry(e)
    PROVE  IInv'
<1> DEFINE waits == currentEntryId = e /\ currentJobId # NoJob
           c == Cancelled(currentJobId)
<1>0. PICK opened \in BOOLEAN :
         /\ Loads(file, opened)
         /\ PutDropping(Removed(Read(opened), e), opened, "stop", "file", e)
  BY DEF RemoveEntry
<1> DEFINE p == Removed(Read(opened), e)
<1>1. /\ Ready /\ PutDropping(p, opened, "stop", "file", e)
      /\ UNCHANGED <<added, running, paused, timer, currentJobId, model, result>>
      /\ pc' \in {"scan", "idle"} /\ at' = 1
      /\ currentEntryId' = IF currentEntryId = e THEN NoEntry ELSE currentEntryId
  BY <1>0 DEF RemoveEntry
<1>2. waits => /\ live' = c /\ removedActiveEntry' = TRUE
               /\ currentSegmentIndex' = 0 /\ currentOutputText' = <<>>
  BY DEF RemoveEntry
<1>3. ~waits => UNCHANGED <<live, removedActiveEntry, currentSegmentIndex, currentOutputText>>
  BY DEF RemoveEntry
<1>4. /\ Succeeds(Read(opened), p, e, added', written) /\ Within(p, Read(opened), added)
      /\ \A f, s : f # e /\ Target(Read(opened), f, s) => Target(p, f, s)
  <2>1. Shaped(Read(opened), added) /\ Truthful(Read(opened), written)
    BY ReadShaped DEF IInv
  <2> QED
    BY <1>1, <2>1, RemovedSucceeds
<1> HIDE DEF p, c
<1>5. Scalars'
  <2>1. c \subseteq [job : Job, entry : Entry, seg : 1..MaxSegments,
                     cancelled : BOOLEAN, phase : {"queued", "started", "told"}]
    BY CancelledLive DEF IInv, c
  <2>2. /\ live' \subseteq [job : Job, entry : Entry, seg : 1..MaxSegments,
                            cancelled : BOOLEAN, phase : {"queued", "started", "told"}]
        /\ {running', paused', removedActiveEntry', timer'} \subseteq BOOLEAN
        /\ currentSegmentIndex' \in 0..MaxSegments
    BY <1>1, <1>2, <1>3, <2>1, FirstPlace DEF IInv, Scalars
  <2>3. tmp' = "whole" /\ write' \in WriteRecord /\ UNCHANGED <<file, written, lost>>
    BY <1>1, PutTypes
  <2>4. unopened' \in 0..MaxUnopened
    BY <1>0, LoadsTypes DEF IInv
  <2> QED
    BY <1>1, <2>2, <2>3, <2>4, FirstPlace DEF IInv, Scalars, WriteRecord
<1>6. FileInv' /\ LossInv'
  BY <1>1, <1>4, PutFiles DEF IInv, PutDropping
<1>7. PhaseInv' /\ WalkInv'
  BY <1>1 DEF PhaseInv, WalkInv, PutDropping
<1>8. CurrentInv'
  <2>1. removedActiveEntry' => currentJobId' # NoJob
    BY <1>1, <1>2, <1>3 DEF IInv, CurrentInv
  <2>2. queue' = queue /\ next' = p /\ lost' = lost /\ write'.opened = opened
    BY <1>1 DEF PutDropping
  <2>3. ASSUME Busy'
        PROVE  /\ currentEntryId' \in Entry /\ currentSegmentIndex' \in 1..MaxSegments
               /\ Aimed(queue)' /\ (opened => Aimed(next)')
    <3>1. currentJobId # NoJob /\ ~removedActiveEntry'
      BY <1>1, <2>3 DEF Busy
    <3>2. ~waits /\ currentEntryId # e /\ ~removedActiveEntry
      BY <1>2, <1>3, <3>1
    <3>3. UNCHANGED <<currentEntryId, currentSegmentIndex>>
      BY <1>1, <1>3, <3>2
    <3>4. /\ currentEntryId \in Entry /\ currentSegmentIndex \in 1..MaxSegments
          /\ Aimed(queue)
      BY <3>1, <3>2 DEF IInv, CurrentInv, Busy
    <3>5. opened => Target(p, currentEntryId, currentSegmentIndex) \/ currentEntryId \in lost
      BY <1>4, <3>2, <3>4 DEF Aimed, Read
    <3> QED
      BY <2>2, <3>3, <3>4, <3>5 DEF Aimed
  <2>4. pc' \in {"scan", "idle"}
    BY <1>1
  <2> QED
    BY <2>1, <2>2, <2>3, <2>4 DEF CurrentInv
<1>9. LiveInv'
  <2>1. CASE waits
    <3>1. /\ IsFiniteSet(c)
          /\ \A r \in c : \E t \in live : t.job = r.job
          /\ \A r, t \in c : r.job = t.job => r = t
          /\ \A r \in c : ~r.cancelled => r \in live /\ r.job # currentJobId
      BY CancelledLive DEF IInv, c
    <3>2. \A r \in c : r.cancelled
      BY <3>1 DEF IInv, LiveInv, Owned
    <3>3. (\A r \in c : r.job # currentJobId) => Spare(c)
      <4>1. \A r \in live : \E t \in c : t.job = r.job
        <5> SUFFICES ASSUME NEW r \in live PROVE \E t \in c : t.job = r.job
          OBVIOUS
        <5>1. r \in [job : Job, entry : Entry, seg : 1..MaxSegments,
                     cancelled : BOOLEAN, phase : {"queued", "started", "told"}]
          BY DEF IInv, Scalars
        <5> DEFINE u == IF r.job = currentJobId THEN [r EXCEPT !.cancelled = TRUE] ELSE r
        <5>2. u \in c
          BY DEF c, Cancelled
        <5>3. u.job = r.job
          BY <5>1
        <5> QED
          BY <5>2, <5>3
      <4>2. (\A r \in c : r.job # currentJobId) => Spare(live)
        BY <4>1 DEF IInv, LiveInv
      <4> QED
        BY <3>1, <4>2 DEF Spare
    <3> QED
      BY <1>1, <1>2, <2>1, <3>1, <3>2, <3>3 DEF LiveInv
  <2>2. CASE ~waits /\ currentEntryId = e
    <3>1. \A r \in live : r.cancelled
      BY <2>2, IdleMeansCancelled DEF IInv
    <3> QED
      BY <1>1, <1>3, <2>2, <3>1 DEF IInv, LiveInv
  <2>3. CASE currentEntryId # e
    <3>1. UNCHANGED <<live, current, removedActiveEntry>>
      BY <1>1, <1>3, <2>3 DEF current
    <3> QED
      BY <3>1, LiveFrame DEF IInv
  <2> QED
    BY <2>1, <2>2, <2>3
<1> QED
  BY <1>5, <1>6, <1>7, <1>8, <1>9 DEF IInv

-----------------------------------------------------------------------------
(* A step that leaves the queue, the current job and the service alone,    *)
(* and after which the handler is idle or about to scan the queue.         *)
LEMMA QuietStep ==
    ASSUME IInv, UNCHANGED <<disk, write, current, removedActiveEntry, live>>,
           unopened' \in 0..MaxUnopened,
           pc \notin {"recover", "load"}, pc' \in {"idle", "scan"},
           {running', paused', timer'} \subseteq BOOLEAN,
           at' \in 1..Cardinality(Entry) + 1, result' \in {"Stopped", result},
           model' \in {"none", "loaded"}
    PROVE  IInv'
<1>1. Scalars'
  BY DEF IInv, Scalars, disk, current
<1>2. FileInv' /\ LossInv'
  BY FilesFrame DEF IInv, disk
<1>3. PhaseInv' /\ WalkInv'
  BY DEF IInv, PhaseInv, WalkInv
<1>4. CurrentInv'
  BY DEF IInv, CurrentInv, Busy, Aimed, Writing, disk, current
<1>5. LiveInv'
  BY LiveFrame DEF IInv
<1> QED
  BY <1>1, <1>2, <1>3, <1>4, <1>5 DEF IInv

(* The buttons, the model and the requeue timer are such steps, and the    *)
(* calls that write no queue.                                              *)
LEMMA UserStep ==
    ASSUME IInv,
           \/ SaveEntries \/ Refuse
           \/ Start \/ Pause \/ Resume \/ LoadModel \/ UnloadModel \/ OnRequeueTimer
    PROVE  IInv'
<1>1. /\ UNCHANGED <<disk, write, current, removedActiveEntry, live, result>>
      /\ pc = "idle" /\ pc' \in {"idle", "scan"} /\ at' \in {1, at}
      /\ running' \in {running, TRUE, FALSE} /\ paused' \in {paused, TRUE, FALSE}
      /\ timer' \in {timer, FALSE} /\ model' \in {model, "none", "loaded"}
      /\ Snapshot(file, queue) \/ UNCHANGED unopened
  BY DEF Ready, SaveEntries, Refuse, Start, Pause, Resume, LoadModel, UnloadModel,
         OnRequeueTimer, control, flags
<1>2. at' \in 1..Cardinality(Entry) + 1
  BY <1>1, FirstPlace DEF IInv, Scalars
<1>3. {running', paused', timer'} \subseteq BOOLEAN /\ model' \in {"none", "loaded"}
  BY <1>1 DEF IInv, Scalars
<1>4. unopened' \in 0..MaxUnopened
  BY <1>1, LoadsTypes DEF IInv, Scalars
<1> QED
  BY <1>1, <1>2, <1>3, <1>4, QuietStep DEF IInv, Scalars

(* So is an advance that finds nothing to do.                              *)
LEMMA AdvanceReturnsStep ==
    ASSUME IInv, AdvanceReturns \/ AdvanceEnds
    PROVE  IInv'
<1>1. /\ UNCHANGED <<disk, write, current, removedActiveEntry, live, result, paused, timer, model>>
      /\ pc \in {"scan", "walk"} /\ pc' = "idle" /\ at' = 1 /\ running' \in {running, FALSE}
      /\ Snapshot(file, queue) \/ UNCHANGED unopened
  BY DEF AdvanceReturns, AdvanceEnds, Scanning, Walking
<1>2. unopened' \in 0..MaxUnopened
  BY <1>1, LoadsTypes DEF IInv, Scalars
<1> QED
  BY <1>1, <1>2, FirstPlace, QuietStep DEF IInv, Scalars

(* And the end of a job that comes while no run is under way.              *)
LEMMA FinishIgnoredStep ==
    ASSUME IInv, FinishIgnored
    PROVE  IInv'
<1>1. /\ UNCHANGED <<disk, unopened, write, current, removedActiveEntry, live>>
      /\ UNCHANGED <<running, paused, timer, at, model>>
      /\ pc = "finish" /\ pc' = "idle" /\ result' = "Stopped"
  BY DEF FinishIgnored, Finishing, flags
<1> QED
  BY <1>1, QuietStep DEF IInv, Scalars

(* The loop starts with the queue as it is, or with none.                  *)
LEMMA AdvanceLoadsStep ==
    ASSUME IInv, AdvanceLoads
    PROVE  IInv'
<1>1. PICK opened \in BOOLEAN : Loads(file, opened) /\ entries' = Read(opened)
  BY DEF AdvanceLoads
<1>2. /\ pc = "scan" /\ ~Writing /\ ~Writing' /\ currentJobId = NoJob /\ pc' = "walk" /\ at' = 1
      /\ UNCHANGED <<disk, write, result, flags, current, live, model>>
  BY DEF AdvanceLoads, Scanning, CanAdvance, Writing
<1>3. /\ UNCHANGED <<queue, file, next, tmp, written, added, lost>>
      /\ UNCHANGED <<running, paused, removedActiveEntry, timer>>
      /\ UNCHANGED <<currentEntryId, currentSegmentIndex, currentJobId, currentOutputText>>
  BY <1>2 DEF disk, flags, current
<1>4. Scalars'
  <2>1. unopened' \in 0..MaxUnopened
    BY <1>1, LoadsTypes DEF IInv
  <2> QED
    BY <1>2, <1>3, <2>1, FirstPlace DEF IInv, Scalars
<1>5. FileInv' /\ LossInv'
  BY <1>2, <1>3, FilesFrame DEF IInv
<1>6. PhaseInv'
  BY <1>2, <1>3 DEF IInv, PhaseInv
<1>7. WalkInv'
  <2>1. Shaped(entries', added)
    BY <1>1, ReadShaped DEF IInv
  <2>2. \A k \in DOMAIN entries' : \E i \in DOMAIN queue : queue[i] = entries'[k]
    BY <1>1 DEF Read
  <2> QED
    BY <1>2, <1>3, <2>1, <2>2 DEF WalkInv, Stands
<1>8. CurrentInv'
  BY <1>2, <1>3 DEF IInv, CurrentInv, Busy
<1>9. LiveInv'
  BY <1>2, <1>3, LiveFrame DEF IInv
<1> QED
  BY <1>4, <1>5, <1>6, <1>7, <1>8, <1>9 DEF IInv

(* The queue file keeps its content, and the next one succeeds it.         *)
LEMMA PutScalars ==
    ASSUME Scalars, NEW p, NEW opened \in BOOLEAN, NEW show \in {"no", "saved", "file"},
           Put(p, opened, "stop", show), unopened' \in 0..MaxUnopened,
           pc' \in {"idle", "scan", "walk", "submit"}, at' \in 1..Cardinality(Entry) + 1,
           result' \in {"Stopped", result}, {running', paused'} \subseteq BOOLEAN,
           currentEntryId' \in Entry \cup {NoEntry},
           currentSegmentIndex' \in 0..MaxSegments,
           currentJobId' \in {currentJobId, NoJob},
           UNCHANGED <<removedActiveEntry, timer, live, model>>
    PROVE  Scalars'
<1>1. tmp' = "whole" /\ write' \in WriteRecord /\ UNCHANGED <<file, written, lost>>
  BY PutTypes DEF Put
<1> QED
  BY <1>1 DEF Scalars, WriteRecord

(* A document ahead of the loop is an entry of the queue that it loaded,   *)
(* of which there are no more than documents.                              *)
LEMMA WalkPlace ==
    ASSUME IInv, pc \in {"walk", "commit"}, NEW i \in DOMAIN entries, i >= at
    PROVE  /\ {i, i + 1} \subseteq 1..Cardinality(Entry) + 1
           /\ entries[i] \in Item /\ entries[i].id \in Entry
           /\ Stands(queue, entries[i])
<1>1. /\ Len(entries) \in Nat /\ DOMAIN entries = 1..Len(entries)
      /\ Len(entries) <= Cardinality(Entry)
      /\ \A k \in DOMAIN entries : entries[k] \in Item /\ entries[k].id \in Entry
  BY ShapedItems DEF IInv, WalkInv
<1>2. Cardinality(Entry) \in Nat
  BY FS_CardinalityType, BatchAssumption
<1>3. Stands(queue, entries[i])
  BY DEF IInv, WalkInv
<1> QED
  BY <1>1, <1>2, <1>3

(* So is the document whose turn it is.                                    *)
LEMMA TurnPlace ==
    ASSUME IInv, pc \in {"walk", "commit"}, NEW i \in Turn
    PROVE  i \in DOMAIN entries /\ i >= at
<1>1. Len(entries) \in Nat /\ DOMAIN entries = 1..Len(entries)
  BY ShapedItems DEF IInv, WalkInv
<1>2. i \in at..Len(entries) /\ at \in Nat \ {0}
  BY FS_CardinalityType, BatchAssumption DEF Turn, IInv, Scalars
<1> QED
  BY <1>1, <1>2

(* The loop writes the state of one document.                              *)
LEMMA StateStep ==
    ASSUME IInv, pc \in {"walk", "commit"}, NEW i \in DOMAIN entries, i >= at,
           NEW st \in EntryState, NEW show \in {"no", "saved", "file"},
           st = "Completed" => AllDone(entries[i]) /\ entries[i].id \in written,
           SetsState(entries[i].id, st, show),
           pc' = "idle" \/ (pc' = "walk" /\ at' = i + 1 /\ UNCHANGED entries),
           at' \in 1..Cardinality(Entry) + 1,
           result' = result, {running', paused'} \subseteq BOOLEAN,
           UNCHANGED <<added, current, removedActiveEntry, timer, live, model>>
    PROVE  IInv'
<1> DEFINE e == entries[i].id
<1>1. PICK opened \in BOOLEAN :
         Loads(file, opened) /\ Put(WithState(Read(opened), e, st), opened, "stop", show)
  BY DEF SetsState
<1> DEFINE q == Read(opened)
           p == WithState(q, e, st)
<1>2. /\ Put(p, opened, "stop", show)
      /\ UNCHANGED <<queue, lost>> /\ next' = p /\ write'.opened = opened /\ write'.mode = "stop"
  BY <1>1 DEF Put, PutDropping
<1>3. Stands(queue, entries[i])
  BY WalkPlace
<1>4. Succeeds(q, p, NoEntry, added', written) /\ Within(p, q, added)
  <2>1. Shaped(q, added) /\ Truthful(q, written)
    BY ReadShaped DEF IInv
  <2>2. ASSUME st = "Completed" PROVE e \in written /\ \A j \in DOMAIN q : q[j].id = e => AllDone(q[j])
    <3>1. ASSUME NEW j \in DOMAIN q, q[j].id = e PROVE AllDone(q[j])
      <4>1. q = queue
        BY <3>1 DEF Read
      <4>2. e \notin lost
        BY <3>1, <4>1 DEF IInv, LossInv
      <4>3. PICK m \in DOMAIN queue : queue[m] = entries[i]
        BY <1>3, <4>2 DEF Stands
      <4>4. m = j
        BY <2>1, <3>1, <4>1, <4>3 DEF Shaped
      <4> QED
        BY <2>2, <4>1, <4>3, <4>4
    <3> QED
      BY <2>2, <3>1
  <2> HIDE DEF q, e
  <2> QED
    BY <2>1, <2>2, StateSucceeds
<1>5. \A j \in DOMAIN q : q[j].id # e => j \in DOMAIN p /\ p[j] = q[j]
  BY DEF WithState
<1> HIDE DEF p
<1>6. currentJobId = NoJob /\ UNCHANGED <<currentEntryId, currentSegmentIndex, currentJobId,
                                          currentOutputText>>
  BY DEF IInv, PhaseInv, current
<1>7. Scalars'
  <2>1. unopened' \in 0..MaxUnopened
    BY <1>1, LoadsTypes DEF IInv
  <2>2. pc' \in {"idle", "walk"} /\ Scalars
    BY DEF IInv
  <2>3. currentEntryId' \in Entry \cup {NoEntry} /\ currentSegmentIndex' \in 0..MaxSegments
    BY <1>6 DEF IInv, Scalars
  <2> QED
    BY <1>2, <1>6, <2>1, <2>2, <2>3, PutScalars
<1>8. FileInv' /\ LossInv'
  <2>1. FileInv /\ LossInv
    BY DEF IInv
  <2> HIDE DEF q
  <2> QED
    BY <1>2, <1>4, <2>1, PutFiles DEF Put, PutDropping, q
<1>9. PhaseInv'
  BY <1>2, <1>6 DEF PhaseInv
<1>10. WalkInv'
  <2> SUFFICES ASSUME pc' = "walk", at' = i + 1, UNCHANGED entries PROVE WalkInv'
    BY DEF WalkInv
  <2>1. Shaped(entries, added)
    BY DEF IInv, WalkInv
  <2>2. i \in Nat /\ at \in Nat
    BY ShapedItems, <2>1, FS_CardinalityType, BatchAssumption DEF IInv, Scalars
  <2>3. ASSUME NEW k \in DOMAIN entries, k >= i + 1
        PROVE  Stands(queue, entries[k]) /\ (opened => Stands(p, entries[k]))
    <3>1. k # i /\ k >= at
      BY <2>1, <2>2, <2>3, ShapedItems
    <3>2. Stands(queue, entries[k])
      BY <3>1 DEF IInv, WalkInv
    <3>3. entries[k].id # e
      BY <2>1, <3>1 DEF Shaped
    <3>4. opened => Stands(p, entries[k])
      BY <1>5, <3>2, <3>3 DEF Stands, Read
    <3> QED
      BY <3>2, <3>4
  <2> QED
    BY <1>2, <2>1, <2>3 DEF WalkInv, Stands
<1>11. CurrentInv'
  BY <1>6 DEF IInv, CurrentInv, Busy
<1>12. LiveInv'
  BY LiveFrame DEF IInv
<1> QED
  BY <1>7, <1>8, <1>9, <1>10, <1>11, <1>12 DEF IInv

(* Committing a document whose segments are all translated: its file is    *)
(* written first.                                                          *)
LEMMA AdvanceCommitsStep ==
    ASSUME IInv, AdvanceCommits
    PROVE  IInv'
<1>1. /\ pc = "commit" /\ pc' = "walk" /\ at' = at + 1
      /\ SetsState(entries[at].id, "Completed", "no")
      /\ UNCHANGED <<added, result, entries, flags, current, live, model>>
  BY DEF AdvanceCommits
<1>2. at \in DOMAIN entries /\ AllDone(entries[at]) /\ entries[at].id \in written /\ at >= at
  BY <1>1, FS_CardinalityType, BatchAssumption DEF IInv, WalkInv, Scalars
<1>3. at + 1 \in 1..Cardinality(Entry) + 1
  BY <1>1, <1>2, WalkPlace
<1>4. UNCHANGED <<running, paused, removedActiveEntry, timer>>
  BY <1>1 DEF flags
<1>5. {running', paused'} \subseteq BOOLEAN
  BY <1>4 DEF IInv, Scalars
<1>6. "Completed" \in EntryState
  BY DEF EntryState
<1> QED
  BY <1>1, <1>2, <1>3, <1>4, <1>5, <1>6, StateStep

(* The entry whose turn it is owns a failed segment or has no source text, *)
(* or its output cannot be written: it is marked failed.                   *)
LEMMA AdvanceFailsStep ==
    ASSUME IInv, NEW i \in Turn, Walking, NEW show \in {"no", "saved", "file"},
           SetsState(entries[i].id, "Failed", show),
           \/ pc' = "idle" /\ at' = 1
           \/ pc' = pc /\ at' = i + 1 /\ UNCHANGED entries,
           running' \in {running, FALSE},
           UNCHANGED <<added, result, current, paused, removedActiveEntry, timer, live, model>>
    PROVE  IInv'
<1>1. pc = "walk" /\ i \in DOMAIN entries /\ i >= at
  BY TurnPlace DEF Walking
<1>2. at' \in 1..Cardinality(Entry) + 1
  BY <1>1, FirstPlace, WalkPlace
<1>3. {running', paused'} \subseteq BOOLEAN
  BY DEF IInv, Scalars
<1>4. "Failed" \in EntryState /\ "Failed" # "Completed"
  BY DEF EntryState
<1> QED
  BY <1>1, <1>2, <1>3, <1>4, StateStep

(* The output of a finished entry is written; its state follows.           *)
LEMMA AdvanceWritesStep ==
    ASSUME IInv, NEW i \in Turn, Walking, AllDone(entries[i]),
           written' = written \cup {entries[i].id}, pc' = "commit", at' = i,
           UNCHANGED <<queue, file, next, tmp, lost, unopened, write, entries, running, current>>,
           UNCHANGED <<added, result, paused, removedActiveEntry, timer, live, model>>
    PROVE  IInv'
<1>1. pc = "walk" /\ ~Writing /\ ~Writing' /\ currentJobId = NoJob
  BY DEF Walking, Writing, IInv, PhaseInv
<1>2. i \in DOMAIN entries /\ i >= at
  BY <1>1, TurnPlace
<1>3. i \in 1..Cardinality(Entry) + 1 /\ entries[i].id \in Entry
  BY <1>1, <1>2, WalkPlace
<1>4. Scalars'
  BY <1>3 DEF IInv, Scalars, current
<1>5. Truthful(queue, written') /\ Truthful(next, written')
  BY TruthfulStays DEF IInv, FileInv
<1>6. FileInv' /\ LossInv'
  BY <1>1, <1>5 DEF IInv, FileInv, LossInv, Writing
<1>7. PhaseInv'
  BY <1>1 DEF IInv, PhaseInv, current
<1>8. WalkInv'
  <2>1. Shaped(entries, added)
    BY <1>1 DEF IInv, WalkInv
  <2>2. at \in Nat /\ i \in Nat /\ DOMAIN entries \subseteq Nat
    BY <1>2, <2>1, ShapedItems, FS_CardinalityType, BatchAssumption DEF IInv, Scalars
  <2>3. ASSUME NEW k \in DOMAIN entries, k >= i PROVE Stands(queue, entries[k])
    <3>1. k >= at
      BY <1>2, <2>2, <2>3
    <3> QED
      BY <1>1, <3>1 DEF IInv, WalkInv
  <2> QED
    BY <1>1, <1>2, <2>1, <2>3 DEF WalkInv, Stands
<1>9. CurrentInv'
  BY <1>1 DEF IInv, CurrentInv, Busy, current
<1>10. LiveInv'
  BY LiveFrame DEF IInv
<1> QED
  BY <1>4, <1>6, <1>7, <1>8, <1>9, <1>10 DEF IInv

(* submitNextSegment(): the entry is written as processing, and its first  *)
(* pending segment becomes the current one.                                *)
LEMMA AdvanceSubmitsStep ==
    ASSUME IInv, NEW i \in Turn, Walking,
           ~HasFailed(entries[i]), PendingOf(entries[i]) # {},
           SetsState(entries[i].id, "Processing", "file"),
           currentEntryId' = entries[i].id, currentSegmentIndex' = FirstPending(entries[i]),
           currentOutputText' = <<>>, pc' = "submit", at' = 1,
           UNCHANGED <<running, currentJobId>>,
           UNCHANGED <<added, result, paused, removedActiveEntry, timer, live, model>>
    PROVE  IInv'
<1> DEFINE x == entries[i]
           s == FirstPending(x)
<1>1. PICK opened \in BOOLEAN :
         /\ Loads(file, opened)
         /\ Put(WithState(Read(opened), x.id, "Processing"), opened, "stop", "file")
  BY DEF SetsState
<1> DEFINE q == Read(opened)
           p == WithState(q, x.id, "Processing")
<1>2. pc = "walk" /\ currentJobId = NoJob
  BY DEF Walking, IInv, PhaseInv
<1>3. i \in DOMAIN entries /\ i >= at
  BY <1>2, TurnPlace
<1>4. x \in Item /\ x.id \in Entry /\ Stands(queue, x)
  BY <1>2, <1>3, WalkPlace
<1>5. s \in PendingOf(x)
  BY <1>4, FirstPendingIsPending
<1>6. /\ Put(p, opened, "stop", "file") /\ currentSegmentIndex' = s /\ currentEntryId' = x.id
      /\ ~HasFailed(x)
  BY <1>1
<1>7. Succeeds(q, p, NoEntry, added', written) /\ KeepsTargets(q, p) /\ Within(p, q, added)
  <2>1. "Processing" \in EntryState /\ "Processing" # "Completed"
    BY DEF EntryState
  <2>2. Shaped(q, added) /\ Truthful(q, written)
    BY ReadShaped DEF IInv
  <2> HIDE DEF q, x
  <2> QED
    BY <2>1, <2>2, StateSucceeds
<1> HIDE DEF p, s, x
<1>8. s \in DOMAIN x.seg /\ x.seg[s] = "Pending" /\ s \in 1..MaxSegments
  BY <1>4, <1>5, ItemSegments DEF PendingOf
<1>9. Target(queue, x.id, s) \/ x.id \in lost
  BY <1>4, <1>6, <1>8 DEF Target, Stands
<1>10. opened => Target(p, x.id, s) \/ x.id \in lost
  BY <1>7, <1>9 DEF KeepsTargets, Read
<1>11. Scalars'
  <2>1. s \in 0..MaxSegments
    BY <1>8, BatchAssumption
  <2>2. unopened' \in 0..MaxUnopened
    BY <1>1, LoadsTypes DEF IInv
  <2>3. Scalars /\ {running', paused'} \subseteq BOOLEAN
    BY DEF IInv, Scalars
  <2> QED
    BY <1>4, <1>6, <2>1, <2>2, <2>3, FirstPlace, PutScalars
<1>12. FileInv' /\ LossInv'
  <2>1. FileInv /\ LossInv
    BY DEF IInv
  <2> HIDE DEF q
  <2> QED
    BY <1>6, <1>7, <2>1, PutFiles DEF Put, PutDropping, q
<1>13. PhaseInv' /\ WalkInv'
  BY <1>2, <1>6 DEF PhaseInv, WalkInv, Put, PutDropping
<1>14. CurrentInv'
  <2>1. UNCHANGED <<queue, lost>> /\ next' = p /\ write'.opened = opened
    BY <1>6 DEF Put, PutDropping
  <2>2. Aimed(queue)' /\ (opened => Aimed(next)')
    BY <1>6, <1>9, <1>10, <2>1 DEF Aimed
  <2>3. ~removedActiveEntry
    BY <1>2 DEF IInv, CurrentInv
  <2> QED
    BY <1>4, <1>6, <1>8, <2>1, <2>2, <2>3 DEF CurrentInv
<1>15. LiveInv'
  <2>1. \A r \in live : r.cancelled
    BY <1>2, IdleMeansCancelled DEF IInv
  <2> QED
    BY <1>2, <2>1 DEF IInv, LiveInv
<1> QED
  BY <1>11, <1>12, <1>13, <1>14, <1>15 DEF IInv

(* Whatever the loop finds at the document whose turn it is.               *)
LEMMA AdvanceStep ==
    ASSUME IInv, NEW i \in DOMAIN entries, Advance(i)
    PROVE  IInv'
<1>1. /\ Walking /\ i \in Turn
      /\ UNCHANGED <<added, result, paused, removedActiveEntry, timer, live, model>>
  BY DEF Advance
<1> DEFINE x == entries[i]
<1>2. CASE /\ SetsState(x.id, "Failed", "no")
           /\ at' = i + 1 /\ UNCHANGED <<pc, entries, running, current>>
  BY <1>1, <1>2, AdvanceFailsStep
<1>3. CASE /\ SetsState(x.id, "Failed", "no")
           /\ running' = FALSE /\ pc' = "idle" /\ at' = 1 /\ UNCHANGED current
  BY <1>1, <1>3, AdvanceFailsStep
<1>4. CASE /\ ~HasFailed(x) /\ PendingOf(x) # {}
           /\ SetsState(x.id, "Processing", "file")
           /\ currentEntryId' = x.id /\ currentSegmentIndex' = FirstPending(x)
           /\ currentOutputText' = <<>>
           /\ pc' = "submit" /\ at' = 1 /\ UNCHANGED <<running, currentJobId>>
  BY <1>1, <1>4, AdvanceSubmitsStep
<1>5. CASE /\ AllDone(x)
           /\ written' = written \cup {x.id} /\ pc' = "commit" /\ at' = i
           /\ UNCHANGED <<queue, file, next, tmp, lost, unopened, write, entries, running, current>>
  BY <1>1, <1>5, AdvanceWritesStep
<1>6. CASE /\ SetsState(x.id, "Failed", "file")
           /\ running' = FALSE /\ pc' = "idle" /\ at' = 1 /\ UNCHANGED current
  BY <1>1, <1>6, AdvanceFailsStep
<1> QED
  BY <1>2, <1>3, <1>4, <1>5, <1>6 DEF Advance

-----------------------------------------------------------------------------
(* The id that translateBatch() gives is the id of no job still out.       *)
LEMMA FreshJobIsFresh ==
    ASSUME Scalars, LiveInv, currentJobId = NoJob
    PROVE  FreshJob \in Job /\ \A r \in live : r.job # FreshJob
<1>1. \A r \in live : r.job # currentJobId
  BY IdleMeansCancelled
<1>2. PICK j \in Job : \A r \in live : r.job # j
  BY <1>1 DEF LiveInv, Spare
<1>3. j \notin {r.job : r \in live}
  BY <1>2
<1> QED
  BY <1>3 DEF FreshJob

(* Submitting the place that was chosen, under an id to spare.             *)
LEMMA SubmitStep ==
    ASSUME IInv, Submit
    PROVE  IInv'
<1>0. PICK u : u = [job |-> FreshJob, entry |-> currentEntryId, seg |-> currentSegmentIndex,
                    cancelled |-> FALSE, phase |-> "queued"]
  OBVIOUS
<1>1. /\ pc = "submit" /\ pc' = "idle" /\ ~Writing /\ currentJobId' = FreshJob
      /\ live' = live \/ live' = live \cup {u}
      /\ UNCHANGED <<disk, unopened, write, at, result, flags, model, currentEntryId,
                     currentSegmentIndex, currentOutputText>>
  BY <1>0 DEF Submit, Writing
<1>2. currentJobId = NoJob /\ ~removedActiveEntry /\ ~removedActiveEntry'
  BY <1>1 DEF IInv, PhaseInv, CurrentInv, flags
<1>3. FreshJob \in Job /\ FreshJob # NoJob /\ \A r \in live : r.job # FreshJob
  BY <1>2, FreshJobIsFresh, BatchAssumption DEF IInv
<1>4. /\ currentEntryId \in Entry /\ currentSegmentIndex \in 1..MaxSegments
      /\ Aimed(queue)
  BY <1>1 DEF IInv, CurrentInv, Busy
<1>5. currentEntryId \in Entry /\ currentSegmentIndex \in 1..MaxSegments
  BY <1>4
<1>6. u \in [job : Job, entry : Entry, seg : 1..MaxSegments,
             cancelled : BOOLEAN, phase : {"queued", "started", "told"}]
      /\ u.job = FreshJob /\ u.entry = currentEntryId /\ u.seg = currentSegmentIndex
      /\ u.phase = "queued"
  BY <1>0, <1>3, <1>5
<1>7. Scalars'
  <2>1. UNCHANGED <<file, tmp, written, lost, running, paused, removedActiveEntry, timer>>
    BY <1>1 DEF disk, flags
  <2> QED
    BY <1>1, <1>3, <1>6, <2>1 DEF IInv, Scalars
<1>8. FileInv' /\ LossInv'
  BY <1>1, FilesFrame DEF IInv, disk
<1>9. PhaseInv' /\ WalkInv'
  BY <1>1 DEF IInv, PhaseInv, WalkInv, Writing
<1>10. CurrentInv'
  BY <1>1, <1>2, <1>4 DEF CurrentInv, Aimed, Writing, disk
<1>11. LiveInv'
  <2>1. \A r \in live : r.cancelled
    BY <1>2, IdleMeansCancelled DEF IInv
  <2>2. IsFiniteSet(live')
    BY <1>1, FS_AddElement DEF IInv, LiveInv
  <2>3. \A r, t \in live' : r.job = t.job => r = t
    BY <1>1, <1>3, <1>6 DEF IInv, LiveInv
  <2>4. \A r \in live' : r.cancelled \/ r = u
    BY <1>1, <2>1
  <2>5. Owned(u)'
    BY <1>1, <1>2, <1>6 DEF Owned
  <2>6. (\A r \in live' : r.job # currentJobId') => Spare(live')
    <3>1. CASE live' = live
      BY <1>3, <3>1 DEF Spare
    <3>2. CASE live' = live \cup {u}
      BY <1>1, <1>6, <3>2
    <3> QED
      BY <1>1, <3>1, <3>2
  <2>7. \A r \in live' : ~r.cancelled => Owned(r)'
    BY <2>4, <2>5
  <2> QED
    BY <2>2, <2>3, <2>6, <2>7 DEF LiveInv
<1> QED
  BY <1>7, <1>8, <1>9, <1>10, <1>11 DEF IInv

(* A started or told job is the same job in a later phase.                 *)
LEMMA SignalStep ==
    ASSUME IInv, Ready, NEW r \in live, r.job = currentJobId,
           NEW phase \in {"started", "told"},
           live' = (live \ {r}) \cup {[r EXCEPT !.phase = phase]},
           ~r.cancelled => IF phase = "started"
                           THEN currentOutputText' = <<>>
                           ELSE currentOutputText' = <<<<r.entry, r.seg>>>>,
           UNCHANGED <<disk, unopened, control, flags, model, currentEntryId,
                       currentSegmentIndex, currentJobId>>
    PROVE  IInv'
<1> DEFINE u == [r EXCEPT !.phase = phase]
<1>1. /\ pc = "idle" /\ ~Writing
      /\ UNCHANGED <<queue, next, file, tmp, written, added, lost, write, pc, at, result,
                     running, paused, removedActiveEntry, timer>>
  BY DEF Ready, Writing, disk, control, flags
<1>2. r \in [job : Job, entry : Entry, seg : 1..MaxSegments,
             cancelled : BOOLEAN, phase : {"queued", "started", "told"}]
  BY DEF IInv, Scalars
<1>3. /\ u \in [job : Job, entry : Entry, seg : 1..MaxSegments,
                cancelled : BOOLEAN, phase : {"queued", "started", "told"}]
      /\ u.job = r.job /\ u.entry = r.entry /\ u.seg = r.seg
      /\ u.cancelled = r.cancelled /\ u.phase = phase
  BY <1>2
<1>4. live' = (live \ {r}) \cup {u}
  OBVIOUS
<1> HIDE DEF u
<1>5. Scalars'
  BY <1>1, <1>3, <1>4 DEF IInv, Scalars
<1>6. FileInv' /\ LossInv'
  BY <1>1, FilesFrame DEF IInv
<1>7. PhaseInv' /\ WalkInv'
  BY <1>1 DEF PhaseInv, WalkInv, Writing
<1>8. CurrentInv'
  BY <1>1 DEF IInv, CurrentInv, Busy, Aimed, Writing
<1>9. LiveInv'
  <2>1. IsFiniteSet(live')
    <3>1. IsFiniteSet(live \ {r})
      BY FS_RemoveElement DEF IInv, LiveInv
    <3>2. IsFiniteSet((live \ {r}) \cup {u})
      BY <3>1, FS_AddElement
    <3> QED
      BY <1>4, <3>2, Zenon
  <2>2. \A s, t \in live' : s.job = t.job => s = t
    BY <1>3, <1>4 DEF IInv, LiveInv
  <2>3. \A t \in live : t # r => t.job # currentJobId
    BY DEF IInv, LiveInv
  <2>4. \A t \in live' : t = u \/ t.cancelled
    BY <1>4, <2>3 DEF IInv, LiveInv, Owned
  <2>5. ~u.cancelled => Owned(u)'
    <3> SUFFICES ASSUME ~u.cancelled PROVE Owned(u)'
      OBVIOUS
    <3>1. Owned(r)
      BY <1>3 DEF IInv, LiveInv
    <3> QED
      BY <1>1, <1>3, <3>1 DEF Owned, Collected
  <2>6. u \in live' /\ u.job = currentJobId'
    BY <1>3, <1>4
  <2>7. \A t \in live' : ~t.cancelled => Owned(t)'
    BY <2>4, <2>5
  <2> QED
    BY <2>1, <2>2, <2>6, <2>7 DEF LiveInv
<1> QED
  BY <1>5, <1>6, <1>7, <1>8, <1>9 DEF IInv

(* The service starts a job; nothing has been collected from it.           *)
LEMMA OnTranslationStartedStep ==
    ASSUME IInv, NEW r \in live, OnTranslationStarted(r)
    PROVE  IInv'
BY SignalStep DEF OnTranslationStarted

(* A piece of text of the current job is collected.                        *)
LEMMA OnTranslationDeltaStep ==
    ASSUME IInv, NEW r \in live, OnTranslationDelta(r)
    PROVE  IInv'
<1>1. r.phase = "started"
  BY DEF OnTranslationDelta
<1>2. ~r.cancelled => currentOutputText = <<>>
  BY <1>1 DEF IInv, LiveInv, Owned
<1>3. Append(<<>>, <<r.entry, r.seg>>) = <<<<r.entry, r.seg>>>>
  OBVIOUS
<1>4. ~r.cancelled => currentOutputText' = <<<<r.entry, r.seg>>>>
  BY <1>2, <1>3 DEF OnTranslationDelta
<1> QED
  BY <1>4, SignalStep DEF OnTranslationDelta

(* Every end is reported once; the end of the current job is handled.      *)
LEMMA OnTranslationFinishedStep ==
    ASSUME IInv, NEW r \in live, NEW end \in Ends(r), OnTranslationFinished(r, end)
    PROVE  IInv'
<1>1. /\ pc = "idle" /\ ~Writing /\ live' = live \ {r}
      /\ UNCHANGED <<disk, unopened, write, at, flags, current, model>>
  BY DEF OnTranslationFinished, Ready, Writing
<1>2. r.job = currentJobId => pc' = "finish" /\ result' = end
  BY DEF OnTranslationFinished
<1>3. r.job # currentJobId => UNCHANGED <<pc, result>>
  BY DEF OnTranslationFinished
<1>4. end \in {"Completed", "Failed", "Stopped"}
      /\ (end = "Completed" => r.phase = "told" /\ ~r.cancelled)
  BY DEF Ends
<1>5. r.job \in Job /\ r.job # NoJob
  BY BatchAssumption DEF IInv, Scalars
<1>6. UNCHANGED <<queue, next, file, tmp, written, added, lost, running, paused, removedActiveEntry,
                  timer, currentEntryId, currentSegmentIndex, currentJobId, currentOutputText>>
  BY <1>1 DEF disk, flags, current
<1>7. Scalars'
  BY <1>1, <1>2, <1>3, <1>4, <1>6 DEF IInv, Scalars
<1>8. FileInv' /\ LossInv'
  BY <1>1, FilesFrame DEF IInv, disk
<1>9. PhaseInv' /\ WalkInv'
  <2>1. r.job = currentJobId => \A t \in live' : t.job # currentJobId
    BY <1>1 DEF IInv, LiveInv
  <2> QED
    BY <1>1, <1>2, <1>3, <1>5, <1>6, <2>1 DEF PhaseInv, WalkInv, Writing
<1>10. CurrentInv'
  <2>1. r.job = currentJobId /\ end = "Completed" => Collected
    BY <1>4 DEF IInv, LiveInv, Owned
  <2> QED
    BY <1>1, <1>2, <1>3, <1>6, <2>1 DEF IInv, CurrentInv, Busy, Aimed, Writing, Collected
<1>11. LiveInv'
  <2>1. IsFiniteSet(live') /\ live' \subseteq live
    BY <1>1, FS_RemoveElement DEF IInv, LiveInv
  <2>2. (\A t \in live' : t.job # currentJobId) => Spare(live')
    <3>1. CASE r.job = currentJobId
      <4>1. \A t \in live' : t.job # r.job
        BY <1>1 DEF IInv, LiveInv
      <4> QED
        BY <1>5, <4>1 DEF Spare
    <3>2. CASE r.job # currentJobId
      BY <1>1, <3>2 DEF IInv, LiveInv, Spare
    <3> QED
      BY <3>1, <3>2
  <2> QED
    BY <1>6, <2>1, <2>2 DEF IInv, LiveInv, Owned, Collected
<1> QED
  BY <1>7, <1>8, <1>9, <1>10, <1>11 DEF IInv

-----------------------------------------------------------------------------
(* While an end is handled no live job is the current one, and all of them *)
(* have been told to stop.                                                 *)
LEMMA FinishingLive ==
    ASSUME IInv, pc \in {"finish", "save"}
    PROVE  /\ ~Writing /\ currentJobId # NoJob
           /\ IsFiniteSet(live) /\ \A r, t \in live : r.job = t.job => r = t
           /\ \A r \in live : r.cancelled
           /\ Spare(live)
BY DEF IInv, PhaseInv, LiveInv, Owned

(* So the invariant of the jobs holds whatever becomes of the current one. *)
LEMMA FinishedLive ==
    ASSUME IInv, pc \in {"finish", "save"}, UNCHANGED live
    PROVE  LiveInv'
<1>1. /\ IsFiniteSet(live) /\ \A r, t \in live : r.job = t.job => r = t
      /\ \A r \in live : r.cancelled
      /\ Spare(live)
  BY FinishingLive
<1> QED
  BY <1>1 DEF LiveInv

(* The end of a job that leaves the files alone and drops its id.          *)
LEMMA FinishDropsStep ==
    ASSUME IInv, pc = "finish", NEW opened \in BOOLEAN, Loads(file, opened),
           pc' \in {"idle", "scan"}, currentJobId' = NoJob, result' \in {result, "Stopped"},
           ~removedActiveEntry',
           {running', paused', timer', removedActiveEntry'} \subseteq BOOLEAN,
           UNCHANGED <<disk, write, at, currentEntryId, currentSegmentIndex, live, model>>
    PROVE  IInv'
<1>1. UNCHANGED <<file, tmp, written, lost>>
  BY DEF disk
<1>2. Scalars'
  <2>1. Scalars
    BY DEF IInv
  <2>2. unopened' \in 0..MaxUnopened
    BY <2>1, LoadsTypes
  <2> QED
    BY <1>1, <2>1, <2>2 DEF Scalars
<1>3. FileInv' /\ LossInv'
  BY FilesFrame DEF IInv, disk
<1>4. PhaseInv' /\ WalkInv'
  BY DEF IInv, PhaseInv, WalkInv
<1>5. CurrentInv'
  BY DEF CurrentInv, Busy
<1>6. LiveInv'
  BY FinishedLive
<1> QED
  BY <1>2, <1>3, <1>4, <1>5, <1>6 DEF IInv

(* Such is the end of a job whose document was removed, ...                *)
LEMMA FinishRemovedStep ==
    ASSUME IInv, FinishRemoved
    PROVE  IInv'
<1>1. PICK opened \in BOOLEAN : Loads(file, opened)
  BY DEF FinishRemoved
<1>2. /\ pc = "finish" /\ pc' = "scan" /\ removedActiveEntry' = FALSE
      /\ currentJobId' = NoJob /\ result' = "Stopped"
      /\ UNCHANGED <<disk, write, at, running, paused, timer, currentEntryId,
                     currentSegmentIndex, live, model>>
  BY DEF FinishRemoved, Finishing
<1>3. {running', paused', timer', removedActiveEntry'} \subseteq BOOLEAN
  BY <1>2 DEF IInv, Scalars
<1> QED
  BY <1>1, <1>2, <1>3, FinishDropsStep

(* ... that of a job that was stopped, whose segment stays pending, ...    *)
LEMMA FinishStoppedStep ==
    ASSUME IInv, FinishStopped
    PROVE  IInv'
<1>1. PICK opened \in BOOLEAN : Loads(file, opened)
  BY DEF FinishStopped
<1>2. /\ pc = "finish" /\ pc' = "idle" /\ ~removedActiveEntry
      /\ currentJobId' = NoJob
      /\ UNCHANGED <<disk, write, at, result, running, paused, removedActiveEntry,
                     currentEntryId, currentSegmentIndex, live, model>>
  BY DEF FinishStopped, Handled, Finishing
<1>3. {running', paused', timer', removedActiveEntry'} \subseteq BOOLEAN
  BY <1>2 DEF FinishStopped, IInv, Scalars
<1> QED
  BY <1>1, <1>2, <1>3, FinishDropsStep

(* ... and that of a job whose document is not in what was loaded.         *)
LEMMA FinishNotFoundStep ==
    ASSUME IInv, FinishNotFound
    PROVE  IInv'
<1>1. PICK opened \in BOOLEAN : Loads(file, opened)
  BY DEF FinishNotFound
<1>2. /\ pc = "finish" /\ pc' \in {"idle", "scan"} /\ ~removedActiveEntry
      /\ currentJobId' = NoJob /\ result' = "Stopped"
      /\ UNCHANGED <<disk, write, at, timer, removedActiveEntry,
                     currentEntryId, currentSegmentIndex, live, model>>
  BY DEF FinishNotFound, Handled, Finishing
<1>3. {running', paused', timer', removedActiveEntry'} \subseteq BOOLEAN
  BY <1>2 DEF FinishNotFound, IInv, Scalars
<1> QED
  BY <1>1, <1>2, <1>3, FinishDropsStep

(* An entry that is still in the queue was not lost: its segment is what    *)
(* was translated.                                                         *)
LEMMA FoundTarget ==
    ASSUME IInv, Busy, Has(queue, currentEntryId)
    PROVE  Target(queue, currentEntryId, currentSegmentIndex) /\ currentEntryId \in Entry
<1>1. \E i \in DOMAIN queue : queue[i].id = currentEntryId
  BY DEF Has, Position
<1>2. currentEntryId \notin lost
  BY <1>1 DEF IInv, LossInv
<1> QED
  BY <1>2 DEF IInv, CurrentInv, Aimed

(* The current segment, translated, leaves a truthful successor.           *)
LEMMA TranslatedSucceeds ==
    ASSUME IInv, pc \in {"finish", "save"}, ~removedActiveEntry, Collected,
           Has(queue, currentEntryId)
    PROVE  /\ Succeeds(queue, Translated, NoEntry, added, written)
           /\ DOMAIN Translated = DOMAIN queue
           /\ \A i \in DOMAIN queue : Translated[i].id = queue[i].id
<1>1. Target(queue, currentEntryId, currentSegmentIndex)
  BY FinishingLive, FoundTarget DEF Busy
<1>2. currentEntryId \in Entry /\ currentSegmentIndex \in 1..MaxSegments
  BY <1>1, TargetEntry DEF IInv, FileInv
<1>3. currentOutputText \in Text /\ currentOutputText = <<<<currentEntryId, currentSegmentIndex>>>>
  BY <1>2 DEF Collected, Text
<1>4. "Completed" \in SegmentState
  BY DEF SegmentState
<1> QED
  BY <1>1, <1>3, <1>4, SegmentSucceeds DEF IInv, FileInv, Translated

(* A successor of a successor is a successor.                              *)
LEMMA SucceedsTwice ==
    ASSUME NEW q, NEW p, NEW r, NEW ids, NEW files,
           Shaped(q, ids), Succeeds(q, p, NoEntry, ids, files), Succeeds(p, r, NoEntry, ids, files),
           DOMAIN p = DOMAIN q, DOMAIN r = DOMAIN p,
           \A i \in DOMAIN q : p[i].id = q[i].id,
           \A i \in DOMAIN p : r[i].seg = p[i].seg /\ r[i].text = p[i].text /\ r[i].id = p[i].id
    PROVE  Succeeds(q, r, NoEntry, ids, files)
<1>1. Keeps(q, r, NoEntry)
  <2> SUFFICES ASSUME NEW i \in DOMAIN q, q[i].id # NoEntry PROVE Holds(r, q[i])
    BY DEF Keeps
  <2>1. PICK k \in DOMAIN p : /\ p[k].id = q[i].id
                              /\ \A s \in DOMAIN q[i].seg :
                                    q[i].seg[s] = "Completed" => /\ p[k].seg[s] = "Completed"
                                                                 /\ p[k].text[s] = q[i].text[s]
    BY DEF Succeeds, Keeps, Holds
  <2> QED
    BY <2>1 DEF Holds
<1> QED
  BY <1>1 DEF Succeeds

(* The queue in memory is saved with the same entries, revised: the job    *)
(* that was finished is dropped, and perhaps its place.                    *)
LEMMA SaveStep ==
    ASSUME IInv, pc \in {"finish", "save"}, ~removedActiveEntry, NEW p,
           Succeeds(queue, p, NoEntry, added, written),
           DOMAIN p = DOMAIN queue, \A i \in DOMAIN queue : p[i].id = queue[i].id,
           Put(p, TRUE, "stop", "saved"), unopened' = unopened,
           pc' \in {"idle", "scan"}, at' \in {1, at}, result' = "Stopped",
           currentJobId' = NoJob,
           currentEntryId' \in {currentEntryId, NoEntry},
           currentSegmentIndex' \in {currentSegmentIndex, 0},
           {running', paused'} \subseteq BOOLEAN,
           UNCHANGED <<added, removedActiveEntry, timer, live, model>>
    PROVE  IInv'
<1>1. Scalars'
  <2>1. Scalars
    BY DEF IInv
  <2>2. at' \in 1..Cardinality(Entry) + 1 /\ currentSegmentIndex' \in 0..MaxSegments
    BY <2>1, FirstPlace DEF Scalars
  <2>3. currentEntryId' \in Entry \cup {NoEntry} /\ unopened' \in 0..MaxUnopened
    BY <2>1 DEF Scalars
  <2> QED
    BY <2>1, <2>2, <2>3, PutScalars
<1>2. FileInv' /\ LossInv'
  <2>1. Within(p, queue, added)
    BY DEF Within
  <2>2. Read(TRUE) = queue
    BY DEF Read
  <2>3. FileInv /\ LossInv
    BY DEF IInv
  <2> QED
    BY <2>1, <2>2, <2>3, PutFiles DEF Put, PutDropping
<1>3. PhaseInv' /\ WalkInv'
  BY DEF PhaseInv, WalkInv, Put, PutDropping
<1>4. CurrentInv'
  BY DEF CurrentInv, Busy
<1>5. LiveInv'
  BY FinishedLive
<1> QED
  BY <1>1, <1>2, <1>3, <1>4, <1>5 DEF IInv

(* The end of a segment that is not the last of its document.              *)
LEMMA FinishSegmentStep ==
    ASSUME IInv, FinishSegment
    PROVE  IInv'
<1> DEFINE p == Translated
<1>1. /\ pc = "finish" /\ ~removedActiveEntry /\ result = "Completed"
      /\ Has(queue, currentEntryId) /\ unopened' = unopened
      /\ Put(p, TRUE, "stop", "saved") /\ currentJobId' = NoJob
      /\ pc' \in {"idle", "scan"} /\ at' = 1 /\ result' = "Stopped"
      /\ UNCHANGED <<added, flags, currentEntryId, currentSegmentIndex, live, model>>
  BY DEF FinishSegment, Found, Loads, Handled, Finishing
<1>2. /\ Succeeds(queue, p, NoEntry, added, written)
      /\ DOMAIN p = DOMAIN queue /\ \A i \in DOMAIN queue : p[i].id = queue[i].id
  BY <1>1, TranslatedSucceeds DEF IInv, CurrentInv
<1> HIDE DEF p
<1>3. UNCHANGED <<running, paused, removedActiveEntry, timer>>
  BY <1>1 DEF flags
<1>4. {running', paused'} \subseteq BOOLEAN
  BY <1>3 DEF IInv, Scalars
<1> QED
  BY <1>1, <1>2, <1>3, <1>4, SaveStep

(* The end of the last segment: the output is written, or cannot be.       *)
LEMMA FinishOutputStep ==
    ASSUME IInv, FinishOutput
    PROVE  IInv'
<1>1. /\ pc = "finish" /\ ~removedActiveEntry /\ result = "Completed"
      /\ Has(queue, currentEntryId) /\ unopened' = unopened
      /\ AllDone(Of(Translated, currentEntryId)) /\ pc' = "save"
      /\ \/ result' = "Written" /\ written' = written \cup {currentEntryId}
         \/ result' = "NotWritten" /\ written' = written
      /\ UNCHANGED <<added, queue, file, next, tmp, lost, write, at, flags, current, live,
                     model>>
  BY DEF FinishOutput, Found, Loads, Handled, Finishing
<1>2. UNCHANGED <<running, paused, removedActiveEntry, timer, currentEntryId,
                  currentSegmentIndex, currentJobId, currentOutputText>>
  BY <1>1 DEF flags, current
<1>3. ~Writing /\ currentJobId # NoJob
  BY <1>1, FinishingLive
<1>4. Collected
  BY <1>1, <1>3 DEF IInv, CurrentInv
<1>5. currentEntryId \in Entry
  BY <1>1, <1>3, FoundTarget DEF Busy
<1>6. Scalars'
  BY <1>1, <1>2, <1>5 DEF IInv, Scalars
<1>7. Truthful(queue, written') /\ Truthful(next, written')
  BY <1>1, TruthfulStays DEF IInv, FileInv
<1>8. FileInv' /\ LossInv'
  BY <1>1, <1>3, <1>7 DEF IInv, FileInv, LossInv, Writing
<1>9. PhaseInv' /\ WalkInv'
  BY <1>1, <1>2, <1>3 DEF IInv, PhaseInv, WalkInv, Writing
<1>10. CurrentInv'
  <2>1. UNCHANGED Translated
    BY <1>1, <1>2 DEF Translated
  <2>2. AllDone(Of(Translated, currentEntryId))'
    BY <1>1, <1>2, <2>1 DEF AllDone, Of, Position
  <2>3. Collected'
    BY <1>2, <1>4 DEF Collected
  <2>4. result' = "Written" => currentEntryId' \in written'
    BY <1>1, <1>2
  <2>5. Has(queue, currentEntryId)'
    BY <1>1, <1>2 DEF Has, Position
  <2>6. Busy /\ (Aimed(queue) => Aimed(queue)')
    BY <1>1, <1>2, <1>3 DEF Busy, Aimed, Target
  <2> QED
    BY <1>1, <1>2, <1>3, <1>4, <2>2, <2>3, <2>4, <2>5, <2>6 DEF IInv, CurrentInv, Writing
<1>11. LiveInv'
  BY <1>1, FinishedLive
<1> QED
  BY <1>6, <1>8, <1>9, <1>10, <1>11 DEF IInv

(* Then the outcome is recorded: completed only with its file.             *)
LEMMA FinishEntryStep ==
    ASSUME IInv, FinishEntry
    PROVE  IInv'
<1> DEFINE st == IF result = "Written" THEN "Completed" ELSE "Failed"
           p == Translated
           w == WithState(p, currentEntryId, st)
<1>1. /\ pc = "save" /\ Put(w, TRUE, "stop", "saved") /\ unopened' = unopened
      /\ currentEntryId' = NoEntry /\ currentSegmentIndex' = 0 /\ currentJobId' = NoJob
      /\ pc' \in {"idle", "scan"} /\ at' = 1 /\ result' = "Stopped"
      /\ running' \in {running, FALSE} /\ paused' \in {paused, FALSE}
      /\ UNCHANGED <<added, removedActiveEntry, timer, live, model>>
  BY DEF FinishEntry
<1>2. /\ ~removedActiveEntry /\ Collected /\ AllDone(Of(p, currentEntryId))
      /\ Has(queue, currentEntryId)
      /\ result = "Written" => currentEntryId \in written
  BY <1>1 DEF IInv, CurrentInv
<1>3. /\ Succeeds(queue, p, NoEntry, added, written)
      /\ DOMAIN p = DOMAIN queue
      /\ \A i \in DOMAIN queue : p[i].id = queue[i].id
  BY <1>1, <1>2, TranslatedSucceeds
<1> HIDE DEF p
<1>4. st \in EntryState /\ (st = "Completed" => result = "Written")
  BY DEF EntryState
<1>5. \A i \in DOMAIN p : p[i].id = currentEntryId => AllDone(p[i])
  BY <1>2, <1>3, OfItem DEF Succeeds
<1> HIDE DEF st
<1>6. Succeeds(p, w, NoEntry, added, written)
  BY <1>2, <1>3, <1>4, <1>5, StateSucceeds DEF Succeeds
<1>7. /\ DOMAIN w = DOMAIN p
      /\ \A i \in DOMAIN p : w[i].id = p[i].id /\ w[i].seg = p[i].seg /\ w[i].text = p[i].text
  BY <1>3, <1>4, WithStateItems DEF Succeeds
<1> HIDE DEF w
<1>8. Succeeds(queue, w, NoEntry, added, written)
  BY <1>3, <1>6, <1>7, SucceedsTwice DEF IInv, FileInv
<1>9. DOMAIN w = DOMAIN queue /\ \A i \in DOMAIN queue : w[i].id = queue[i].id
  BY <1>3, <1>7
<1>10. {running', paused'} \subseteq BOOLEAN
  BY <1>1 DEF IInv, Scalars
<1> QED
  BY <1>1, <1>2, <1>8, <1>9, <1>10, SaveStep

(* The end of a job that failed.                                           *)
LEMMA FinishFailedStep ==
    ASSUME IInv, FinishFailed
    PROVE  IInv'
<1> DEFINE e == currentEntryId
           s == currentSegmentIndex
           x == Of(queue, e)
           p == WithSegment(queue, x.id, s, "Failed", x.text[s])
           w == WithState(p, x.id, "Failed")
<1>1. /\ pc = "finish" /\ ~removedActiveEntry /\ Put(w, TRUE, "stop", "saved")
      /\ Has(queue, e) /\ unopened' = unopened
      /\ running' = FALSE /\ paused' = FALSE /\ currentJobId' = NoJob
      /\ pc' = "idle" /\ result' = "Stopped"
      /\ UNCHANGED <<added, at, removedActiveEntry, timer, currentEntryId,
                     currentSegmentIndex, live, model>>
  BY DEF FinishFailed, Found, Loads, Handled, Finishing
<1>2. Target(queue, e, s)
  BY <1>1, FinishingLive, FoundTarget DEF Busy
<1>3. PICK i \in DOMAIN queue : queue[i].id = e /\ s \in DOMAIN queue[i].seg
  BY <1>2 DEF Target
<1>4. x = queue[i] /\ x.id = e /\ x.text[s] \in Text
  <2>1. Of(queue, queue[i].id) = queue[i]
    BY OfItem DEF IInv, FileInv
  <2>2. queue[i] \in Item
    BY ShapedItems DEF IInv, FileInv
  <2> QED
    BY <1>3, <2>1, <2>2, ItemSegments
<1>5. "Failed" \in SegmentState /\ "Failed" \in EntryState /\ "Failed" # "Completed"
  BY DEF SegmentState, EntryState
<1> HIDE DEF x
<1>6. /\ Succeeds(queue, p, NoEntry, added, written)
      /\ DOMAIN p = DOMAIN queue
      /\ \A k \in DOMAIN queue : p[k].id = queue[k].id
  BY <1>2, <1>4, <1>5, SegmentSucceeds DEF IInv, FileInv
<1> HIDE DEF p
<1>7. Succeeds(p, w, NoEntry, added, written)
  BY <1>5, <1>6, StateSucceeds DEF Succeeds
<1>8. /\ DOMAIN w = DOMAIN p
      /\ \A k \in DOMAIN p : w[k].id = p[k].id /\ w[k].seg = p[k].seg /\ w[k].text = p[k].text
  BY <1>5, <1>6, WithStateItems DEF Succeeds
<1> HIDE DEF w
<1>9. Succeeds(queue, w, NoEntry, added, written)
  BY <1>6, <1>7, <1>8, SucceedsTwice DEF IInv, FileInv
<1>10. DOMAIN w = DOMAIN queue /\ \A k \in DOMAIN queue : w[k].id = queue[k].id
  BY <1>6, <1>8
<1>11. {running', paused'} \subseteq BOOLEAN
  BY <1>1
<1> QED
  BY <1>1, <1>9, <1>10, <1>11, SaveStep

-----------------------------------------------------------------------------
(* Every step keeps the invariant.                                         *)
LEMMA NextIInv == IInv /\ [Next]_vars => IInv'
<1> SUFFICES ASSUME IInv, [Next]_vars PROVE IInv'
  OBVIOUS
<1>1. CASE User
  <2>1. CASE \E e \in Entry : RetryEntry(e) \/ RemoveEntry(e) \/ \E n \in 1..MaxSegments : AddFile(e, n)
    BY <2>1, RetryEntryStep, RemoveEntryStep, AddFileStep
  <2>2. CASE SaveEntries \/ Refuse \/ Start \/ Pause \/ Resume \/ LoadModel \/ UnloadModel
    BY <2>2, UserStep
  <2> QED
    BY <1>1, <2>1, <2>2 DEF User
<1>2. CASE Store
  BY <1>2, RenameStep, WriteFailsInRunStep, WriteFailsAsideStep, WriteFailsAtStartupStep,
     LoadFailsInRunStep DEF Store
<1>3. CASE Handler
  BY <1>3, RecoverStep, LoadStep, AdvanceReturnsStep, AdvanceLoadsStep, AdvanceCommitsStep,
     SubmitStep, AdvanceStep, FinishRemovedStep, FinishIgnoredStep, FinishSegmentStep,
     FinishOutputStep, FinishEntryStep, FinishFailedStep, FinishNotFoundStep,
     FinishStoppedStep DEF Handler
<1>4. CASE Signal
  BY <1>4, OnTranslationStartedStep, OnTranslationDeltaStep, OnTranslationFinishedStep DEF Signal
<1>5. CASE OnRequeueTimer
  BY <1>5, UserStep
<1>6. CASE Crash
  BY <1>6, CrashStep
<1>7. CASE UNCHANGED vars
  <2>1. /\ UNCHANGED <<queue, file, next, tmp, written, added, lost, unopened, write>>
        /\ UNCHANGED <<current, removedActiveEntry, live>>
        /\ UNCHANGED <<running, paused, timer, pc, at, result, entries, model>>
    BY <1>7 DEF vars, disk, flags, control
  <2>2. FileInv' /\ LossInv'
    BY <2>1, FilesFrame DEF IInv
  <2>3. LiveInv'
    BY <2>1, LiveFrame DEF IInv
  <2>4. Scalars' /\ PhaseInv'
    BY <2>1 DEF IInv, Scalars, PhaseInv, Blank, Writing, current
  <2>5. WalkInv'
    BY <2>1 DEF IInv, WalkInv, Stands, AllDone, Writing
  <2>6. CurrentInv'
    BY <2>1 DEF IInv, CurrentInv, Busy, Aimed, Target, Collected, Writing, Translated, AllDone,
                Has, Of, Position, current
  <2> QED
    BY <2>2, <2>3, <2>4, <2>5, <2>6 DEF IInv
<1> QED
  BY <1>1, <1>2, <1>3, <1>4, <1>5, <1>6, <1>7 DEF Next

(* The invariant holds for any finite sets of documents and jobs and any   *)
(* number of segments.                                                     *)
THEOREM InductiveInvariant == Spec => []IInv
<1> QED
  BY InitIInv, NextIInv, PTL DEF Spec

(* Every job still with the service, except the current one, has been told *)
(* to stop, and the current one works on a pending segment of an entry     *)
(* without a failed one (cancel() and removedActiveEntry_ in               *)
(* batch_controller.cpp, the select of submitNextSegment()), or on an      *)
(* entry that was lost to a write over a file that did not open.           *)
THEOREM SpecJobsMatchQueue == Spec => []JobsMatchQueue
<1>1. IInv => JobsMatchQueue
  <2> SUFFICES ASSUME IInv PROVE JobsMatchQueue
    OBVIOUS
  <2>1. ASSUME NEW r \in live, ~r.cancelled
        PROVE  /\ r.job = currentJobId
               /\ Has(queue, r.entry) \/ r.entry \in lost
               /\ Has(queue, r.entry) => /\ ~HasFailed(Of(queue, r.entry))
                                        /\ Of(queue, r.entry).seg[r.seg] = "Pending"
    <3>1. Owned(r)
      BY <2>1 DEF IInv, LiveInv
    <3>2. Busy
      BY <3>1, BatchAssumption DEF Owned, IInv, Scalars, Busy
    <3>3. CASE Target(queue, r.entry, r.seg)
      BY <3>1, <3>3, TargetEntry DEF Owned, IInv, FileInv
    <3>4. CASE ~Target(queue, r.entry, r.seg)
      <4>1. r.entry \in lost
        BY <3>1, <3>2, <3>4 DEF Owned, IInv, CurrentInv, Aimed
      <4>2. ~Has(queue, r.entry)
        BY <3>1, <3>2, <3>4, FoundTarget DEF Owned
      <4> QED
        BY <3>1, <4>1, <4>2 DEF Owned
    <3> QED
      BY <3>3, <3>4
  <2> QED
    BY <2>1, IInvTypes DEF JobsMatchQueue
<1> QED
  BY <1>1, InductiveInvariant, PTL

(* What the queue file says of an entry is true whenever a crash may come: *)
(* a segment marked completed holds the whole text of its job, an entry    *)
(* marked completed has all its segments and its output file.              *)
THEOREM SpecDurableTruth == Spec => []DurableTruth
<1>1. IInv => DurableTruth
  BY DEF IInv, FileInv, Truthful, True, DurableTruth
<1> QED
  BY <1>1, InductiveInvariant, PTL

(* What a step does to the queue file: it renames the next one over it,    *)
(* moves it aside, promotes a temporary file when there was none, or       *)
(* leaves it as it is.                                                     *)
LEMMA QueueChanges ==
    ASSUME IInv, [Next]_vars
    PROVE  \/ queue' = queue
           \/ file = "none" \/ file' = "none"
           \/ Writing /\ queue' = next
<1>1. CASE User
  BY <1>1 DEF User, RetryEntry, RemoveEntry, AddFile, Put, PutDropping,
              SaveEntries, Refuse, Start, Pause, Resume, LoadModel, UnloadModel, disk
<1>2. CASE Store
  BY <1>2 DEF Store, Rename, WriteFailsInRun, WriteFailsAside, WriteFailsAtStartup,
              LoadFailsInRun, disk, Writing
<1>3. CASE Recover \/ Load
  BY <1>3 DEF Recover, Load, Promotes, Put, PutDropping
<1>4. CASE Handler /\ ~(Recover \/ Load)
  BY <1>4 DEF Handler, AdvanceReturns, AdvanceLoads, AdvanceEnds, AdvanceCommits, Submit,
              Advance, SetsState, FinishRemoved, FinishIgnored, FinishSegment, FinishOutput,
              FinishEntry, FinishFailed, FinishNotFound, FinishStopped, Put, PutDropping, disk
<1>5. CASE Signal \/ OnRequeueTimer \/ Crash
  BY <1>5 DEF Signal, OnTranslationStarted, OnTranslationDelta, OnTranslationFinished,
              OnRequeueTimer, Crash, disk
<1>6. CASE UNCHANGED vars
  BY <1>6 DEF vars, disk
<1> QED
  BY <1>1, <1>2, <1>3, <1>4, <1>5, <1>6 DEF Next

(* No step, a crash and a restart included, drops an entry that the user   *)
(* did not remove or forgets a segment that was translated                 *)
(* (BatchStore::atomic_write() and load()), except the rename of a queue   *)
(* that was made from a file that did not open (load_unlocked()), which    *)
(* leaves everything out, and the step that moves the file aside.          *)
THEOREM SpecCommittedStays == Spec => CommittedStays
<1> DEFINE Stays ==
        \A i \in DOMAIN queue :
          write.opened /\ write.drop # queue[i].id /\ file' # "none" => StaysIn(queue[i])
<1>1. IInv /\ [Next]_vars => Stays
  <2> SUFFICES ASSUME IInv, [Next]_vars PROVE Stays
    OBVIOUS
  <2>1. CASE queue' = queue
    BY <2>1 DEF StaysIn
  <2>2. CASE file = "none"
    BY <2>2 DEF IInv, FileInv
  <2>3. CASE file' = "none"
    BY <2>3
  <2>4. CASE Writing /\ queue' = next
    BY <2>4 DEF IInv, FileInv, Keeps, Holds, StaysIn
  <2> QED
    BY <2>1, <2>2, <2>3, <2>4, QueueChanges
<1>2. IInv /\ [Next]_vars => [Stays]_vars
  BY <1>1
<1> HIDE DEF Stays
<1>3. Spec => [][Stays]_vars
  BY <1>2, InductiveInvariant, PTL DEF Spec
<1> QED
  BY <1>3 DEF CommittedStays, Stays

-----------------------------------------------------------------------------
(* Induction, for a set: what holds of zero and of every successor.        *)
LEMMA SetInduction ==
    ASSUME NEW S \in SUBSET Nat, 0 \in S, \A n \in S : n + 1 \in S
    PROVE  \A n \in Nat : n \in S
<1> SUFFICES ASSUME Nat \ S # {} PROVE FALSE
  OBVIOUS
<1>1. PICK n \in Nat \ S : \A m \in Nat \ S : n <= m
  BY LeastNatural
<1>2. n # 0 /\ n - 1 \in Nat
  BY <1>1
<1>3. n - 1 \in S
  BY <1>1, <1>2
<1>4. (n - 1) + 1 \in S
  BY <1>3
<1> QED
  BY <1>1, <1>2, <1>4

-----------------------------------------------------------------------------
(* The table of the Batch page.  The two loops of applySnapshot() are      *)
(* recursive functions: f is the one that Kept computes ...                *)
KeptBy(f, rows, ids) ==
    /\ Kept(rows, ids) = f[Len(rows)]
    /\ f[0] = <<>>
    /\ \A n \in 1..Len(rows) :
          f[n] = IF rows[n][1] \in ids THEN Append(f[n - 1], rows[n]) ELSE f[n - 1]

(* ... and there is such a function.                                       *)
LEMMA KeptTable ==
    ASSUME NEW rows, NEW ids, Len(rows) \in Nat
    PROVE  \E f : KeptBy(f, rows, ids)
<1> DEFINE Step(f, n) == IF n = 0 THEN <<>>
                         ELSE IF rows[n][1] \in ids THEN Append(f[n - 1], rows[n]) ELSE f[n - 1]
           Part(m) == \E f : f = [n \in 0..m |-> Step(f, n)]
           S == {m \in Nat : Part(m)}
<1>1. 0 \in S
  <2> DEFINE f == [n \in 0..0 |-> <<>>]
  <2>1. \A n \in 0..0 : Step(f, n) = <<>>
    OBVIOUS
  <2>2. f = [n \in 0..0 |-> Step(f, n)]
    BY <2>1
  <2>3. Part(0)
    BY <2>2
  <2> QED
    BY <2>3
<1>2. ASSUME NEW m \in S PROVE m + 1 \in S
  <2>1. m \in Nat
    OBVIOUS
  <2>2. PICK f : f = [n \in 0..m |-> Step(f, n)]
    OBVIOUS
  <2> DEFINE g == [n \in 0 .. m + 1 |-> IF n = m + 1 THEN Step(f, n) ELSE f[n]]
  <2> HIDE DEF Step
  <2>3. \A n \in 0..m : f[n] = Step(f, n) /\ g[n] = f[n]
    <3>1. \A n \in 0..m : f[n] = Step(f, n)
      <4> HIDE DEF g
      <4> QED
        BY <2>2
    <3>2. \A n \in 0..m : n \in 0 .. m + 1 /\ n # m + 1
      BY <2>1
    <3>3. \A n \in 0..m : g[n] = f[n]
      BY <3>2
    <3> QED
      BY <3>1, <3>3
  <2>4. \A n \in 0 .. m + 1 : Step(g, n) = Step(f, n)
    BY <2>1, <2>3 DEF Step
  <2>5. ASSUME NEW n \in 0 .. m + 1 PROVE g[n] = Step(g, n)
    <3>1. CASE n = m + 1
      BY <2>4, <3>1
    <3>2. CASE n # m + 1
      <4>1. n \in 0..m
        BY <2>1, <3>2
      <4> QED
        BY <2>3, <2>4, <4>1
    <3> QED
      BY <3>1, <3>2
  <2>6. g = [n \in 0 .. m + 1 |-> Step(g, n)]
    BY <2>5
  <2>7. Part(m + 1)
    BY <2>6
  <2> QED
    BY <2>1, <2>7
<1>3. Len(rows) \in S
  <2> HIDE DEF S
  <2>1. S \subseteq Nat
    BY DEF S
  <2> QED
    BY <1>1, <1>2, <2>1, SetInduction
<1>4. \E h : h = [n \in 0..Len(rows) |-> Step(h, n)]
  BY <1>3
<1> DEFINE f == CHOOSE f : f = [n \in 0..Len(rows) |-> Step(f, n)]
<1>5. f = [n \in 0..Len(rows) |-> Step(f, n)]
  BY <1>4
<1>6. Kept(rows, ids) = f[Len(rows)]
  BY DEF Kept
<1> HIDE DEF f
<1>7. \A n \in 0..Len(rows) : f[n] = Step(f, n)
  <2> HIDE DEF Step
  <2> QED
    BY <1>5
<1>8. f[0] = <<>> /\ \A n \in 1..Len(rows) : f[n] = Step(f, n)
  BY <1>7
<1> QED
  BY <1>6, <1>8 DEF KeptBy

(* Likewise f is the one that Applied computes ...                         *)
AppliedBy(f, kept, snapshot) ==
    /\ Applied(kept, snapshot) = f[Len(snapshot)].rows
    /\ f[0] = [rows |-> kept, anchor |-> 0]
    /\ \A n \in 1..Len(snapshot) : f[n] = Updated(f[n - 1], snapshot[n])

(* ... and there is such a function.                                       *)
LEMMA AppliedTable ==
    ASSUME NEW kept, NEW snapshot, Len(snapshot) \in Nat
    PROVE  \E f : AppliedBy(f, kept, snapshot)
<1> DEFINE start == [rows |-> kept, anchor |-> 0]
           Step(f, n) == IF n = 0 THEN start ELSE Updated(f[n - 1], snapshot[n])
           Part(m) == \E f : f = [n \in 0..m |-> Step(f, n)]
           S == {m \in Nat : Part(m)}
<1>1. 0 \in S
  <2> DEFINE f == [n \in 0..0 |-> start]
  <2>1. \A n \in 0..0 : Step(f, n) = start
    OBVIOUS
  <2>2. f = [n \in 0..0 |-> Step(f, n)]
    BY <2>1
  <2>3. Part(0)
    BY <2>2
  <2> QED
    BY <2>3
<1>2. ASSUME NEW m \in S PROVE m + 1 \in S
  <2>1. m \in Nat
    OBVIOUS
  <2>2. PICK f : f = [n \in 0..m |-> Step(f, n)]
    OBVIOUS
  <2> DEFINE g == [n \in 0 .. m + 1 |-> IF n = m + 1 THEN Step(f, n) ELSE f[n]]
  <2> HIDE DEF Step
  <2>3. \A n \in 0..m : f[n] = Step(f, n) /\ g[n] = f[n]
    <3>1. \A n \in 0..m : f[n] = Step(f, n)
      <4> HIDE DEF g
      <4> QED
        BY <2>2
    <3>2. \A n \in 0..m : n \in 0 .. m + 1 /\ n # m + 1
      BY <2>1
    <3>3. \A n \in 0..m : g[n] = f[n]
      BY <3>2
    <3> QED
      BY <3>1, <3>3
  <2>4. \A n \in 0 .. m + 1 : Step(g, n) = Step(f, n)
    BY <2>1, <2>3 DEF Step
  <2>5. ASSUME NEW n \in 0 .. m + 1 PROVE g[n] = Step(g, n)
    <3>1. CASE n = m + 1
      BY <2>4, <3>1
    <3>2. CASE n # m + 1
      <4>1. n \in 0..m
        BY <2>1, <3>2
      <4> QED
        BY <2>3, <2>4, <4>1
    <3> QED
      BY <3>1, <3>2
  <2>6. g = [n \in 0 .. m + 1 |-> Step(g, n)]
    BY <2>5
  <2>7. Part(m + 1)
    BY <2>6
  <2> QED
    BY <2>1, <2>7
<1>3. Len(snapshot) \in S
  <2> HIDE DEF S
  <2>1. S \subseteq Nat
    BY DEF S
  <2> QED
    BY <1>1, <1>2, <2>1, SetInduction
<1>4. \E h : h = [n \in 0..Len(snapshot) |-> Step(h, n)]
  BY <1>3
<1> DEFINE f == CHOOSE f : f = [n \in 0..Len(snapshot) |-> Step(f, n)]
<1>5. f = [n \in 0..Len(snapshot) |-> Step(f, n)]
  BY <1>4
<1>6. Applied(kept, snapshot) = f[Len(snapshot)].rows
  BY DEF Applied
<1> HIDE DEF f
<1>7. \A n \in 0..Len(snapshot) : f[n] = Step(f, n)
  <2> HIDE DEF Step
  <2> QED
    BY <1>5
<1>8. f[0] = start /\ \A n \in 1..Len(snapshot) : f[n] = Step(f, n)
  BY <1>7
<1>9. \A n \in 1..Len(snapshot) : f[n] = Updated(f[n - 1], snapshot[n])
  BY <1>8
<1>10. AppliedBy(f, kept, snapshot)
  BY <1>6, <1>8, <1>9 DEF AppliedBy, start
<1> QED
  BY <1>10

(* A row of the table: the document, its state, and how many of its        *)
(* segments are translated.                                                *)
Row == Entry \X EntryState \X Nat

(* The rows that show a document of queue q stand in the order of q.       *)
InOrder(rows, q) ==
    \A i, k \in DOMAIN rows, a, b \in DOMAIN q :
        i < k /\ rows[i][1] = q[a].id /\ rows[k][1] = q[b].id => a < b

(* Removing rows keeps the order of the others.                            *)
LEMMA KeptInOrder ==
    ASSUME NEW rows \in Seq(Row), NEW ids, NEW q, InOrder(rows, q)
    PROVE  /\ Kept(rows, ids) \in Seq(Row)
           /\ \A i \in DOMAIN Kept(rows, ids) : Kept(rows, ids)[i][1] \in ids
           /\ InOrder(Kept(rows, ids), q)
<1>1. Len(rows) \in Nat /\ DOMAIN rows = 1..Len(rows)
  OBVIOUS
<1>2. PICK f : KeptBy(f, rows, ids)
  BY <1>1, KeptTable
<1> DEFINE Good(n) == /\ f[n] \in Seq(Row)
                      /\ \A i \in DOMAIN f[n] : /\ f[n][i][1] \in ids
                                                 /\ \E h \in 1..n : f[n][i] = rows[h]
                      /\ InOrder(f[n], q)
           S == {n \in Nat : n <= Len(rows) => Good(n)}
<1>3. 0 \in S
  <2>1. f[0] \in Seq(Row) /\ DOMAIN f[0] = {}
    BY <1>2 DEF KeptBy
  <2>2. InOrder(f[0], q)
    BY <2>1 DEF InOrder
  <2> QED
    BY <2>1, <2>2
<1>4. ASSUME NEW n \in S PROVE n + 1 \in S
  <2>1. n \in Nat
    OBVIOUS
  <2> SUFFICES ASSUME n + 1 <= Len(rows) PROVE Good(n + 1)
    BY <2>1
  <2>2. Good(n) /\ n + 1 \in 1..Len(rows) /\ (n + 1) - 1 = n
    BY <1>1, <2>1
  <2>3. f[n + 1] = IF rows[n + 1][1] \in ids THEN Append(f[n], rows[n + 1]) ELSE f[n]
    BY <1>2, <2>2 DEF KeptBy
  <2>4. CASE rows[n + 1][1] \notin ids
    <3>1. f[n + 1] = f[n]
      BY <2>3, <2>4
    <3>2. \A i \in DOMAIN f[n] : \E h \in 1 .. n + 1 : f[n][i] = rows[h]
      BY <2>1, <2>2
    <3> QED
      BY <2>2, <3>1, <3>2
  <2>5. CASE rows[n + 1][1] \in ids
    <3> DEFINE s == f[n]
               x == rows[n + 1]
               g == f[n + 1]
    <3>1. s \in Seq(Row) /\ x \in Row /\ g = Append(s, x)
      BY <1>1, <2>2, <2>3, <2>5
    <3>2. \A i \in DOMAIN s : s[i][1] \in ids /\ \E h \in 1..n : s[i] = rows[h]
      BY <2>2
    <3>3. InOrder(s, q)
      BY <2>2
    <3>4. x[1] \in ids /\ x = rows[n + 1]
      BY <2>5
    <3> HIDE DEF s, x, g
    <3>5. /\ g \in Seq(Row) /\ Len(g) = Len(s) + 1 /\ Len(s) \in Nat
          /\ DOMAIN g = 1 .. Len(s) + 1 /\ DOMAIN s = 1..Len(s)
          /\ g[Len(s) + 1] = x /\ \A i \in 1..Len(s) : g[i] = s[i]
      BY <3>1
    <3>6. ASSUME NEW i \in DOMAIN g PROVE g[i][1] \in ids /\ \E h \in 1 .. n + 1 : g[i] = rows[h]
      <4>1. CASE i = Len(s) + 1
        BY <2>1, <3>4, <3>5, <4>1
      <4>2. CASE i # Len(s) + 1
        <5>1. i \in DOMAIN s /\ g[i] = s[i]
          BY <3>5, <4>2
        <5> QED
          BY <2>1, <3>2, <5>1
      <4> QED
        BY <4>1, <4>2
    <3>7. ASSUME NEW i \in DOMAIN g, NEW k \in DOMAIN g, NEW a \in DOMAIN q, NEW b \in DOMAIN q,
                 i < k, g[i][1] = q[a].id, g[k][1] = q[b].id
          PROVE  a < b
      <4>1. i \in DOMAIN s /\ g[i] = s[i]
        BY <3>5, <3>7
      <4>2. CASE k = Len(s) + 1
        <5>1. PICK h \in 1..n : s[i] = rows[h]
          BY <3>2, <4>1
        <5>2. h \in DOMAIN rows /\ n + 1 \in DOMAIN rows /\ h < n + 1
          BY <1>1, <2>1, <2>2
        <5>3. rows[h][1] = q[a].id /\ rows[n + 1][1] = q[b].id
          BY <3>4, <3>5, <3>7, <4>1, <4>2, <5>1
        <5> QED
          BY <5>2, <5>3 DEF InOrder
      <4>3. CASE k # Len(s) + 1
        <5>1. k \in DOMAIN s /\ g[k] = s[k]
          BY <3>5, <4>3
        <5> QED
          BY <3>3, <3>7, <4>1, <5>1 DEF InOrder
      <4> QED
        BY <4>2, <4>3
    <3>8. InOrder(g, q)
      BY <3>7 DEF InOrder
    <3> QED
      BY <3>5, <3>6, <3>8 DEF g
  <2> QED
    BY <2>4, <2>5
<1>5. Good(Len(rows))
  <2>1. S \subseteq Nat
    OBVIOUS
  <2>2. Len(rows) \in S
    <3> HIDE DEF S
    <3> QED
      BY <1>1, <1>3, <1>4, <2>1, SetInduction
  <2> QED
    BY <1>1, <2>2
<1> QED
  BY <1>2, <1>5 DEF KeptBy

(* The first n rows of the table show the first n of the snapshot, the     *)
(* others show later documents of it, in its order.                        *)
Settled(t, s, n) ==
    /\ t.rows \in Seq(Row) /\ t.anchor = n /\ n <= Len(t.rows)
    /\ \A i \in 1..n : t.rows[i] = s[i]
    /\ \A i \in DOMAIN t.rows : \E a \in DOMAIN s : t.rows[i][1] = s[a][1]
    /\ \A i, k \in DOMAIN t.rows, a, b \in DOMAIN s :
          i < k /\ t.rows[i][1] = s[a][1] /\ t.rows[k][1] = s[b][1] => a < b

(* A snapshot shows no document twice.                                     *)
SnapshotRows(s) == s \in Seq(Row) /\ \A i, k \in DOMAIN s : s[i][1] = s[k][1] => i = k

(* The rows of p are the first n of a table, one more, and the others.     *)
PlacedBehind(p, rows, n, row) ==
    /\ p \in Seq(Row) /\ Len(p) = Len(rows) + 1
    /\ \A i \in 1 .. Len(rows) + 1 :
          p[i] = IF i <= n THEN rows[i] ELSE IF i = n + 1 THEN row ELSE rows[i - 1]

(* A row that is placed moves the rows behind it by one.                   *)
LEMMA PlacedRows ==
    ASSUME NEW rows \in Seq(Row), NEW n \in 0..Len(rows), NEW row \in Row
    PROVE  PlacedBehind(Placed(rows, n, row), rows, n, row)
<1> DEFINE u == SubSeq(rows, 1, n)
           v == SubSeq(rows, n + 1, Len(rows))
           w == <<row>>
<1>1. Len(rows) \in Nat /\ n \in Nat
  OBVIOUS
<1>2. u \in Seq(Row) /\ Len(u) = n /\ \A i \in 1..n : u[i] = rows[i]
  BY <1>1
<1>3. v \in Seq(Row) /\ Len(v) = Len(rows) - n /\ \A i \in 1 .. Len(rows) - n : v[i] = rows[n + i]
  BY <1>1
<1>4. w \in Seq(Row) /\ Len(w) = 1 /\ w[1] = row
  OBVIOUS
<1>5. Placed(rows, n, row) = u \o w \o v
  BY DEF Placed
<1> HIDE DEF u, v, w
<1> DEFINE x == u \o w
<1>6. /\ x \in Seq(Row) /\ Len(x) = Len(u) + Len(w)
      /\ \A i \in 1 .. Len(u) + Len(w) : x[i] = IF i <= Len(u) THEN u[i] ELSE w[i - Len(u)]
  BY <1>2, <1>4, ConcatProperties
<1> HIDE DEF x
<1>7. Len(x) = n + 1 /\ (\A i \in 1..n : x[i] = rows[i]) /\ x[n + 1] = row
  BY <1>1, <1>2, <1>4, <1>6
<1>8. /\ x \o v \in Seq(Row) /\ Len(x \o v) = Len(x) + Len(v)
      /\ \A i \in 1 .. Len(x) + Len(v) : (x \o v)[i] = IF i <= Len(x) THEN x[i] ELSE v[i - Len(x)]
  <2>1. x \in Seq(Row) /\ v \in Seq(Row)
    BY <1>3, <1>6
  <2> QED
    BY <2>1, ConcatProperties
<1> DEFINE y == x \o v
<1>9. /\ y \in Seq(Row) /\ Len(y) = Len(rows) + 1
      /\ \A i \in 1 .. Len(rows) + 1 : y[i] = IF i <= n + 1 THEN x[i] ELSE v[i - (n + 1)]
  BY <1>1, <1>3, <1>7, <1>8
<1> HIDE DEF y
<1>10. \A i \in 1 .. Len(rows) + 1 :
          y[i] = IF i <= n THEN rows[i] ELSE IF i = n + 1 THEN row ELSE rows[i - 1]
  <2> TAKE i \in 1 .. Len(rows) + 1
  <2>1. CASE i <= n
    BY <1>1, <1>7, <1>9, <2>1
  <2>2. CASE i = n + 1
    BY <1>1, <1>7, <1>9, <2>2
  <2>3. CASE i > n + 1
    <3>1. i - (n + 1) \in 1 .. Len(rows) - n /\ n + (i - (n + 1)) = i - 1
      BY <1>1, <2>3
    <3>2. v[i - (n + 1)] = rows[i - 1]
      BY <1>3, <3>1
    <3>3. y[i] = v[i - (n + 1)]
      BY <1>1, <1>9, <2>3
    <3> QED
      BY <1>1, <2>3, <3>2, <3>3
  <2> QED
    BY <1>1, <2>1, <2>2, <2>3
<1>11. Placed(rows, n, row) = y
  BY <1>5 DEF x, y
<1> QED
  BY <1>9, <1>10, <1>11 DEF PlacedBehind

(* One turn of the loop that updates and inserts.                          *)
LEMMA UpdatedRows ==
    ASSUME NEW t, NEW s, SnapshotRows(s), NEW n \in 1..Len(s), Settled(t, s, n - 1)
    PROVE  Settled(Updated(t, s[n]), s, n)
<1> DEFINE rows == t.rows
           row == s[n]
           found == {i \in DOMAIN rows : rows[i][1] = row[1]}
<1>1. /\ rows \in Seq(Row) /\ t.anchor = n - 1 /\ n - 1 <= Len(rows)
      /\ \A i \in 1 .. n - 1 : rows[i] = s[i]
      /\ \A i \in DOMAIN rows : \E a \in DOMAIN s : rows[i][1] = s[a][1]
      /\ \A i, k \in DOMAIN rows, a, b \in DOMAIN s :
            i < k /\ rows[i][1] = s[a][1] /\ rows[k][1] = s[b][1] => a < b
  BY DEF Settled
<1>2. /\ row \in Row /\ n \in DOMAIN s /\ DOMAIN s = 1..Len(s) /\ Len(s) \in Nat
      /\ DOMAIN rows = 1..Len(rows) /\ Len(rows) \in Nat
      /\ \A i, k \in DOMAIN s : s[i][1] = s[k][1] => i = k
  BY <1>1 DEF SnapshotRows
<1>3. Updated(t, row) = IF found = {}
                        THEN [rows |-> Placed(rows, n - 1, row), anchor |-> n]
                        ELSE [rows   |-> [i \in DOMAIN rows |-> IF i \in found THEN row ELSE rows[i]],
                              anchor |-> CHOOSE i \in found : TRUE]
  BY <1>1, <1>2 DEF Updated
<1>4. CASE found = {}
  <2> DEFINE p == Placed(rows, n - 1, row)
  <2>1. Updated(t, row) = [rows |-> p, anchor |-> n]
    BY <1>3, <1>4
  <2>2. \A i \in DOMAIN rows : rows[i][1] # s[n][1]
    BY <1>4
  <2> HIDE DEF rows, found
  <2>3. /\ p \in Seq(Row) /\ Len(p) = Len(rows) + 1
        /\ \A i \in 1 .. Len(rows) + 1 :
              p[i] = IF i <= n - 1 THEN rows[i] ELSE IF i = (n - 1) + 1 THEN row ELSE rows[i - 1]
    <3>1. n - 1 \in 0..Len(rows)
      BY <1>1, <1>2
    <3>2. rows \in Seq(Row) /\ row \in Row
      BY <1>1, <1>2
    <3> HIDE DEF row
    <3>3. PlacedBehind(p, rows, n - 1, row)
      BY <3>1, <3>2, PlacedRows
    <3> HIDE DEF p
    <3> QED
      BY <3>3 DEF PlacedBehind
  <2> HIDE DEF p
  <2>4. /\ DOMAIN p = 1 .. Len(rows) + 1 /\ p[n] = s[n]
        /\ \A i \in 1 .. n - 1 : p[i] = s[i]
        /\ \A i \in DOMAIN p : i > n => i - 1 \in DOMAIN rows /\ i - 1 >= n /\ p[i] = rows[i - 1]
    BY <1>1, <1>2, <2>3
  <2>5. \A i \in 1..n : p[i] = s[i]
    BY <1>2, <2>4
  <2>6. ASSUME NEW i \in DOMAIN p PROVE \E a \in DOMAIN s : p[i][1] = s[a][1]
    <3>1. CASE i <= n
      BY <1>2, <2>4, <2>5, <3>1
    <3>2. CASE i > n
      BY <1>1, <2>4, <3>2
    <3> QED
      BY <1>2, <2>4, <3>1, <3>2
  <2>7. ASSUME NEW k \in DOMAIN p, NEW b \in DOMAIN s, k > n, p[k][1] = s[b][1] PROVE n < b
    <3>1. k - 1 \in DOMAIN rows /\ k - 1 >= n /\ rows[k - 1][1] = s[b][1]
      BY <2>4, <2>7
    <3>2. b # n
      BY <2>2, <3>1
    <3>3. CASE b <= n - 1
      <4>1. b \in DOMAIN rows /\ rows[b] = s[b] /\ b < k - 1
        BY <1>1, <1>2, <3>1, <3>3
      <4>2. b < b
        BY <1>1, <3>1, <4>1
      <4> QED
        BY <1>2, <4>2
    <3> QED
      BY <1>2, <3>2, <3>3
  <2>8. ASSUME NEW i \in DOMAIN p, NEW k \in DOMAIN p, NEW a \in DOMAIN s, NEW b \in DOMAIN s,
               i < k, p[i][1] = s[a][1], p[k][1] = s[b][1]
        PROVE  a < b
    <3>1. CASE i <= n
      <4>1. i = a
        BY <1>2, <2>4, <2>5, <2>8, <3>1
      <4>2. CASE k <= n
        BY <1>2, <2>4, <2>5, <2>8, <4>1, <4>2
      <4>3. CASE k > n
        BY <1>2, <2>4, <2>7, <2>8, <3>1, <4>1, <4>3
      <4> QED
        BY <1>2, <2>4, <4>2, <4>3
    <3>2. CASE i > n
      <4>1. /\ i - 1 \in DOMAIN rows /\ p[i] = rows[i - 1]
            /\ k - 1 \in DOMAIN rows /\ p[k] = rows[k - 1] /\ i - 1 < k - 1
        BY <1>2, <2>4, <2>8, <3>2
      <4> QED
        BY <1>1, <2>8, <4>1
    <3> QED
      BY <1>2, <2>4, <3>1, <3>2
  <2>9. n <= Len(p)
    BY <1>1, <1>2, <2>3
  <2> HIDE DEF row
  <2>10. Settled([rows |-> p, anchor |-> n], s, n)
    BY <2>3, <2>5, <2>6, <2>8, <2>9 DEF Settled
  <2> QED
    BY <2>1, <2>10 DEF row
<1>5. CASE found # {}
  <2> DEFINE p == [i \in DOMAIN rows |-> IF i \in found THEN row ELSE rows[i]]
  <2>1. ASSUME NEW i \in found PROVE i = n
    <3>1. i \in DOMAIN rows /\ rows[i][1] = s[n][1]
      OBVIOUS
    <3> HIDE DEF found, rows, row
    <3>2. CASE i <= n - 1
      BY <1>1, <1>2, <3>1, <3>2
    <3>3. CASE i > n
      <4>1. n \in DOMAIN rows
        BY <1>2, <3>1, <3>3
      <4>2. PICK b \in DOMAIN s : rows[n][1] = s[b][1]
        BY <1>1, <4>1
      <4>3. b < n
        BY <1>1, <1>2, <3>1, <3>3, <4>1, <4>2
      <4>4. b \in DOMAIN rows /\ rows[b] = s[b]
        <5>1. b \in 1..Len(s) /\ n \in 1..Len(rows)
          BY <1>2, <4>1
        <5>2. b \in 1 .. n - 1 /\ b \in 1..Len(rows)
          BY <1>2, <4>3, <5>1
        <5> QED
          BY <1>1, <1>2, <5>2
      <4>5. b < b
        BY <1>1, <4>1, <4>2, <4>3, <4>4
      <4> QED
        BY <1>2, <4>5
    <3> QED
      BY <1>2, <3>1, <3>2, <3>3
  <2>2. found = {n} /\ n \in DOMAIN rows /\ rows[n][1] = s[n][1]
    BY <1>5, <2>1
  <2> HIDE DEF rows, found
  <2>3. (CHOOSE i \in {n} : TRUE) = n
    OBVIOUS
  <2>4. Updated(t, row) = [rows |-> p, anchor |-> n]
    BY <1>3, <1>5, <2>2, <2>3
  <2>5. /\ DOMAIN p = DOMAIN rows /\ p[n] = s[n]
        /\ \A i \in DOMAIN rows : p[i] = IF i = n THEN s[n] ELSE rows[i]
    BY <2>2
  <2>6. p \in Seq(Row) /\ Len(p) = Len(rows)
    <3>1. \A i \in 1..Len(rows) : rows[i] \in Row
      BY <1>1
    <3>2. p \in [1..Len(rows) -> Row]
      BY <1>2, <3>1
    <3> HIDE DEF p
    <3> QED
      BY <1>2, <3>2
  <2> HIDE DEF p, row
  <2>7. \A i \in DOMAIN p : p[i][1] = rows[i][1]
    BY <2>2, <2>5
  <2>8. \A i \in 1..n : p[i] = s[i]
    BY <1>1, <1>2, <2>2, <2>5
  <2>9. n <= Len(p)
    BY <1>2, <2>2, <2>6
  <2>10. /\ \A i \in DOMAIN p : \E a \in DOMAIN s : p[i][1] = s[a][1]
         /\ \A i, k \in DOMAIN p, a, b \in DOMAIN s :
               i < k /\ p[i][1] = s[a][1] /\ p[k][1] = s[b][1] => a < b
    BY <1>1, <2>5, <2>7
  <2>11. Settled([rows |-> p, anchor |-> n], s, n)
    BY <2>6, <2>8, <2>9, <2>10 DEF Settled
  <2> QED
    BY <2>4, <2>11 DEF row
<1> QED
  BY <1>4, <1>5

(* The snapshot of a queue, and the order it is in.                        *)
LEMMA RowsOfQueue ==
    ASSUME NEW q, NEW ids, Shaped(q, ids)
    PROVE  /\ SnapshotRows(Rows(q)) /\ DOMAIN Rows(q) = DOMAIN q
           /\ \A i \in DOMAIN q : Rows(q)[i][1] = q[i].id
           /\ InOrder(Rows(q), q)
<1> DEFINE s == Rows(q)
           done(i) == {n \in DOMAIN q[i].seg : q[i].seg[n] = "Completed"}
<1>1. /\ q \in Seq(Item) /\ Len(q) \in Nat /\ DOMAIN q = 1..Len(q)
      /\ \A i, k \in DOMAIN q : q[i].id = q[k].id => i = k
  BY DEF Shaped
<1>2. s = [i \in DOMAIN q |-> <<q[i].id, q[i].state, Cardinality(done(i))>>]
  BY DEF Rows
<1>3. ASSUME NEW i \in DOMAIN q
      PROVE  <<q[i].id, q[i].state, Cardinality(done(i))>> \in Row
  <2>1. q[i] \in Item
    BY <1>1
  <2>2. q[i].id \in Entry /\ q[i].state \in EntryState
    BY <2>1, ItemFields
  <2>3. DOMAIN q[i].seg \subseteq 1..MaxSegments
    BY <2>1, ItemSegments
  <2>4. done(i) \subseteq 1..MaxSegments
    BY <2>3
  <2>5. IsFiniteSet(1..MaxSegments)
    BY BatchAssumption, FS_Interval
  <2> HIDE DEF done
  <2>6. Cardinality(done(i)) \in Nat
    <3>1. IsFiniteSet(done(i))
      BY <2>4, <2>5, FS_Subset
    <3> QED
      BY <3>1, FS_CardinalityType
  <2> QED
    BY <2>2, <2>6 DEF Row
<1> HIDE DEF s
<1>4. s \in [1..Len(q) -> Row] /\ \A i \in DOMAIN q : s[i][1] = q[i].id
  <2> HIDE DEF done
  <2> QED
    BY <1>1, <1>2, <1>3
<1>5. s \in Seq(Row) /\ DOMAIN s = DOMAIN q
  BY <1>1, <1>4
<1>6. SnapshotRows(s)
  BY <1>1, <1>4, <1>5 DEF SnapshotRows
<1>7. InOrder(s, q)
  BY <1>1, <1>4, <1>5 DEF InOrder
<1> QED
  BY <1>4, <1>5, <1>6, <1>7 DEF s

(* Applying a snapshot to a table in its order leaves the snapshot.        *)
LEMMA AppliedIsSnapshot ==
    ASSUME NEW rows \in Seq(Row), NEW q, NEW ids, Shaped(q, ids), InOrder(rows, q)
    PROVE  Applied(Kept(rows, {Rows(q)[i][1] : i \in DOMAIN Rows(q)}), Rows(q)) = Rows(q)
<1> DEFINE s == Rows(q)
           names == {s[i][1] : i \in DOMAIN s}
           kept == Kept(rows, names)
<1>1. SnapshotRows(s) /\ DOMAIN s = DOMAIN q /\ \A i \in DOMAIN q : s[i][1] = q[i].id
  BY RowsOfQueue
<1>2. Len(s) \in Nat /\ DOMAIN s = 1..Len(s)
  BY <1>1 DEF SnapshotRows
<1> HIDE DEF s
<1>3. /\ kept \in Seq(Row) /\ InOrder(kept, q)
      /\ \A i \in DOMAIN kept : kept[i][1] \in names
  BY KeptInOrder
<1> HIDE DEF kept
<1>4. Settled([rows |-> kept, anchor |-> 0], s, 0)
  <2>1. \A i \in DOMAIN kept : \E a \in DOMAIN s : kept[i][1] = s[a][1]
    BY <1>3
  <2>2. \A i, k \in DOMAIN kept, a, b \in DOMAIN s :
           i < k /\ kept[i][1] = s[a][1] /\ kept[k][1] = s[b][1] => a < b
    BY <1>1, <1>3 DEF InOrder
  <2>3. 0 <= Len(kept)
    BY <1>3
  <2> QED
    BY <1>3, <2>1, <2>2, <2>3 DEF Settled
<1>5. PICK f : AppliedBy(f, kept, s)
  BY <1>2, AppliedTable
<1> DEFINE S == {n \in Nat : n <= Len(s) => Settled(f[n], s, n)}
<1>6. 0 \in S
  BY <1>4, <1>5 DEF AppliedBy
<1>7. ASSUME NEW n \in S PROVE n + 1 \in S
  <2>1. n \in Nat
    OBVIOUS
  <2> SUFFICES ASSUME n + 1 <= Len(s) PROVE Settled(f[n + 1], s, n + 1)
    BY <2>1
  <2>2. Settled(f[n], s, n) /\ n + 1 \in 1..Len(s) /\ (n + 1) - 1 = n
    BY <1>2, <2>1
  <2>3. f[n + 1] = Updated(f[n], s[n + 1])
    BY <1>5, <2>2 DEF AppliedBy
  <2>4. Settled(Updated(f[n], s[n + 1]), s, n + 1)
    BY <1>1, <2>2, UpdatedRows
  <2> QED
    BY <2>3, <2>4
<1>8. Settled(f[Len(s)], s, Len(s))
  <2>1. S \subseteq Nat
    OBVIOUS
  <2>2. Len(s) \in S
    <3> HIDE DEF S
    <3> QED
      BY <1>2, <1>6, <1>7, <2>1, SetInduction
  <2> QED
    BY <1>2, <2>2
<1> DEFINE t == f[Len(s)].rows
<1>9. /\ t \in Seq(Row) /\ Len(s) <= Len(t) /\ \A i \in 1..Len(s) : t[i] = s[i]
      /\ \A i \in DOMAIN t : \E a \in DOMAIN s : t[i][1] = s[a][1]
      /\ \A i, k \in DOMAIN t, a, b \in DOMAIN s :
            i < k /\ t[i][1] = s[a][1] /\ t[k][1] = s[b][1] => a < b
  BY <1>8 DEF Settled
<1>10. Applied(kept, s) = t
  BY <1>5 DEF AppliedBy
<1> HIDE DEF t
<1>11. Len(t) = Len(s)
  <2> SUFFICES ASSUME Len(t) # Len(s) PROVE FALSE
    OBVIOUS
  <2>1. Len(t) \in Nat /\ DOMAIN t = 1..Len(t) /\ Len(s) < Len(t)
    BY <1>2, <1>9
  <2> DEFINE m == Len(s)
             l == Len(t)
             k == m + 1
  <2>2. k \in DOMAIN t /\ k = m + 1
    <3>1. m \in Nat /\ l \in Nat /\ m < l /\ DOMAIN t = 1..l
      BY <1>2, <2>1
    <3> HIDE DEF m, l
    <3> QED
      BY <3>1
  <2>3. PICK b \in DOMAIN s : t[k][1] = s[b][1]
    BY <1>9, <2>2
  <2>4. b \in DOMAIN t /\ b < k /\ t[b] = s[b]
    <3>1. b \in 1..m /\ t[b] = s[b] /\ m \in Nat /\ l \in Nat /\ m < l /\ DOMAIN t = 1..l
      BY <1>2, <1>9, <2>1
    <3> HIDE DEF m, l
    <3> QED
      BY <3>1
  <2>5. b < b
    BY <1>9, <2>2, <2>3, <2>4
  <2> QED
    BY <1>2, <2>5
<1>12. t = s
  <2>1. s \in Seq(Row)
    BY <1>1 DEF SnapshotRows
  <2> QED
    BY <1>2, <1>9, <1>11, <2>1
<1> QED
  BY <1>10, <1>12 DEF kept, names, s

-----------------------------------------------------------------------------
(* The table, and what was heard last.                                     *)
Table == [rows : Seq(Row), heard : {"queue", "unopened", "error"}]

(* The queue will be shown: a write that is shown is on its way, the queue *)
(* is not loaded yet, or the scan goes on and shows it in the end.         *)
ShowsLater ==
    \/ Writing /\ write.show # "no"
    \/ pc \in {"recover", "load"}
    \/ pc \in {"scan", "walk", "commit"} /\ CanAdvance

(* What is known of the table: its rows are in the order of the queue and  *)
(* of the queue being written; while nothing else was heard than a queue   *)
(* file that opened, they show the queue or will; and there is none when   *)
(* the file did not open.                                                  *)
TableInv ==
    /\ shown \in Table
    /\ \A i \in DOMAIN shown.rows : shown.rows[i][1] \in added
    /\ InOrder(shown.rows, queue)
    /\ Writing => InOrder(shown.rows, next)
    /\ pc \in {"recover", "load"} => shown.rows = <<>> /\ write.show = "no"
    /\ pc \in {"walk", "commit"} => CanAdvance
    /\ shown.heard = "queue" => shown.rows = Rows(queue) \/ ShowsLater
    /\ shown.heard = "unopened" => shown.rows = <<>>
    /\ Writing /\ write.show = "no" /\ shown.heard = "queue" =>
          pc = "load" \/ (pc = "walk" /\ CanAdvance)

(* The order depends on the ids alone.                                     *)
LEMMA SameOrder ==
    ASSUME NEW rows, NEW q, NEW p, InOrder(rows, q),
           DOMAIN p = DOMAIN q, \A i \in DOMAIN q : p[i].id = q[i].id
    PROVE  InOrder(rows, p)
BY DEF InOrder

(* A document that is added comes last, and the table has no row of it.    *)
LEMMA AppendOrder ==
    ASSUME NEW rows, NEW q, NEW ids, Shaped(q, ids), NEW x \in Item, InOrder(rows, q),
           x.id \notin ids, \A i \in DOMAIN rows : rows[i][1] \in ids
    PROVE  InOrder(rows, Append(q, x))
<1> DEFINE p == Append(q, x)
<1>1. /\ DOMAIN p = 1 .. Len(q) + 1 /\ (\A i \in DOMAIN q : p[i] = q[i])
      /\ p[Len(q) + 1] = x
  BY AppendItems
<1>2. DOMAIN q = 1..Len(q) /\ Len(q) \in Nat
  BY ShapedItems
<1> HIDE DEF p
<1>3. \A a \in DOMAIN p, i \in DOMAIN rows : rows[i][1] = p[a].id => a \in DOMAIN q /\ p[a] = q[a]
  BY <1>1, <1>2
<1>4. InOrder(rows, p)
  BY <1>3 DEF InOrder
<1> QED
  BY <1>4 DEF p

(* A removal leaves the others in their order.                             *)
LEMMA WithoutOrder ==
    ASSUME NEW rows, NEW q, NEW ids, Shaped(q, ids), NEW e, Has(q, e), InOrder(rows, q)
    PROVE  InOrder(rows, Without(q, e))
<1> DEFINE g == CHOOSE i \in Position(q, e) : TRUE
           p == [i \in 1 .. Len(q) - 1 |-> IF i < g THEN q[i] ELSE q[i + 1]]
           At(i) == IF i < g THEN i ELSE i + 1
<1>1. Len(q) \in Nat /\ DOMAIN q = 1..Len(q)
  BY DEF Shaped
<1>2. g \in 1..Len(q)
  BY <1>1 DEF Has, Position
<1>3. Without(q, e) = p
  BY DEF Without
<1> HIDE DEF g
<1>4. DOMAIN p = 1 .. Len(q) - 1
  OBVIOUS
<1>5. \A i \in DOMAIN p : At(i) \in DOMAIN q /\ p[i] = q[At(i)]
  BY <1>1, <1>2
<1>6. \A i, k \in 1 .. Len(q) - 1 : At(i) < At(k) => i < k
  BY <1>2
<1> HIDE DEF p, At
<1>7. InOrder(rows, p)
  BY <1>4, <1>5, <1>6 DEF InOrder
<1> QED
  BY <1>3, <1>7

(* No row, or no document, is out of order.                                *)
LEMMA EmptyOrder ==
    /\ \A q : InOrder(<<>>, q)
    /\ \A rows : InOrder(rows, <<>>)
    /\ Rows(<<>>) = <<>>
BY DEF InOrder, Rows

(* What a handler leaves that has told the page of queue q: an error, the  *)
(* rows of q, or none when the file did not open.                          *)
Told(t, q, ids) ==
    /\ t \in Table
    /\ \A i \in DOMAIN t.rows : t.rows[i][1] \in ids
    /\ InOrder(t.rows, q)
    /\ t.heard = "queue" => t.rows = Rows(q)
    /\ t.heard = "unopened" => t.rows = <<>>

(* A snapshot that is shown becomes the table.                             *)
LEMMA ShowsRows ==
    ASSUME NEW q, NEW ids, shown \in Table, Shaped(q, ids), InOrder(shown.rows, q),
           NEW opened \in BOOLEAN, Shows(q, opened)
    PROVE  /\ shown' = [rows |-> Rows(q), heard |-> IF opened THEN "queue" ELSE "unopened"]
           /\ Rows(q) \in Seq(Row) /\ InOrder(Rows(q), q)
           /\ \A i \in DOMAIN Rows(q) : Rows(q)[i][1] \in ids
<1> DEFINE kept == Kept(shown.rows, {Rows(q)[i][1] : i \in DOMAIN Rows(q)})
           heard == IF opened THEN "queue" ELSE "unopened"
<1>1. shown.rows \in Seq(Row) /\ shown' = [rows |-> Applied(kept, Rows(q)), heard |-> heard]
  BY DEF Shows, Table
<1> HIDE DEF heard
<1>2. shown' = [rows |-> Rows(q), heard |-> heard]
  BY <1>1, AppliedIsSnapshot
<1>3. /\ Rows(q) \in Seq(Row) /\ InOrder(Rows(q), q)
      /\ \A i \in DOMAIN Rows(q) : Rows(q)[i][1] \in ids
  BY RowsOfQueue DEF SnapshotRows, Shaped
<1> QED
  BY <1>2, <1>3 DEF heard

(* What a load returned is shown.                                          *)
LEMMA ToldRead ==
    ASSUME NEW q, NEW ids, shown \in Table, Shaped(q, ids), InOrder(shown.rows, q),
           NEW opened \in BOOLEAN, Shows(IF opened THEN q ELSE <<>>, opened)
    PROVE  Told(shown', q, ids)
<1>1. CASE opened
  <2>1. Shows(q, opened)
    BY <1>1
  <2>2. shown' = [rows |-> Rows(q), heard |-> "queue"]
        /\ Rows(q) \in Seq(Row) /\ InOrder(Rows(q), q)
        /\ \A i \in DOMAIN Rows(q) : Rows(q)[i][1] \in ids
    BY <1>1, <2>1, ShowsRows
  <2> QED
    BY <2>2 DEF Told, Table
<1>2. CASE ~opened
  <2>1. Shows(<<>>, opened) /\ Shaped(<<>>, ids) /\ InOrder(shown.rows, <<>>)
    BY <1>2, EmptyShaped, EmptyOrder
  <2>2. shown' = [rows |-> Rows(<<>>), heard |-> "unopened"]
    BY <1>2, <2>1, ShowsRows
  <2>3. shown' = [rows |-> <<>>, heard |-> "unopened"]
    BY <2>2, EmptyOrder
  <2> QED
    BY <2>3, EmptyOrder DEF Told, Table
<1> QED
  BY <1>1, <1>2

(* An error outdates the table and leaves its rows.                        *)
LEMMA SameTable ==
    ASSUME shown \in Table, shown' = shown \/ Outdated
    PROVE  /\ shown' \in Table /\ shown'.rows = shown.rows
           /\ shown'.heard \in {shown.heard, "error"}
           /\ Outdated => shown'.heard = "error"
BY DEF Outdated, Table

(* A snapshot that was asked for tells the page.                           *)
LEMMA ToldSnapshot ==
    ASSUME NEW q, NEW ids, shown \in Table, Shaped(q, ids), InOrder(shown.rows, q),
           \A i \in DOMAIN shown.rows : shown.rows[i][1] \in ids,
           NEW f, Snapshot(f, q)
    PROVE  Told(shown', q, ids)
<1>1. CASE Outdated
  BY <1>1, SameTable DEF Told
<1>2. CASE \E opened \in BOOLEAN : Shows(IF opened THEN q ELSE <<>>, opened)
  BY <1>2, ToldRead
<1> QED
  BY <1>1, <1>2 DEF Snapshot

(* The start of a write, the table left as it is.                          *)
LEMMA TablePut ==
    ASSUME TableInv, NEW p, InOrder(shown.rows, p), NEW opened, NEW mode, NEW show, NEW e,
           PutDropping(p, opened, mode, show, e), mode # "none",
           shown' = shown \/ Outdated, added \subseteq added',
           pc' \notin {"recover", "commit"}, pc' = "load" => shown.rows = <<>> /\ show = "no",
           pc' = "walk" => CanAdvance',
           show = "no" => Outdated \/ pc' = "load" \/ (pc' = "walk" /\ CanAdvance')
    PROVE  TableInv'
<1>1. /\ next' = p /\ write'.mode = mode /\ write'.show = show /\ queue' = queue
  BY DEF PutDropping
<1>2. /\ shown' \in Table /\ shown'.rows = shown.rows
      /\ shown'.heard \in {shown.heard, "error"}
      /\ Outdated => shown'.heard = "error"
  BY SameTable DEF TableInv
<1>3. /\ InOrder(shown'.rows, queue') /\ InOrder(shown'.rows, next')
      /\ \A i \in DOMAIN shown'.rows : shown'.rows[i][1] \in added'
      /\ pc' = "load" => shown'.rows = <<>> /\ write'.show = "no"
      /\ shown'.heard = "unopened" => shown'.rows = <<>>
  BY <1>1, <1>2 DEF TableInv
<1>4. Writing'
  BY <1>1 DEF Writing
<1>5. write'.show = "no" /\ shown'.heard = "queue" => pc' = "load" \/ (pc' = "walk" /\ CanAdvance')
  BY <1>1, <1>2
<1>6. shown'.heard = "queue" => ShowsLater'
  BY <1>4, <1>5 DEF ShowsLater
<1> QED
  BY <1>2, <1>3, <1>4, <1>5, <1>6 DEF TableInv

(* A write of a queue with the same documents as the one that was read.    *)
LEMMA TableRevised ==
    ASSUME TableInv, NEW opened \in BOOLEAN, NEW p, DOMAIN p = DOMAIN Read(opened),
           \A i \in DOMAIN p : p[i].id = Read(opened)[i].id,
           NEW mode \in {"stop", "keep", "startup"}, NEW show, Put(p, opened, mode, show),
           shown' = shown \/ Outdated, UNCHANGED added,
           pc' \notin {"recover", "commit"}, pc' = "load" => shown.rows = <<>> /\ show = "no",
           pc' = "walk" => CanAdvance',
           show = "no" => Outdated \/ pc' = "load" \/ (pc' = "walk" /\ CanAdvance')
    PROVE  TableInv'
<1>1. InOrder(shown.rows, Read(opened))
  BY EmptyOrder DEF TableInv, Read
<1>2. InOrder(shown.rows, p)
  BY <1>1, SameOrder
<1> QED
  BY <1>2, TablePut DEF Put

(* A handler that tells the page and writes nothing.                       *)
LEMMA TableTold ==
    ASSUME Told(shown', queue', added'), ~Writing',
           pc' \notin {"recover", "load", "walk", "commit"}
    PROVE  TableInv'
BY DEF Told, TableInv, Rows

(* Such is one that shows what it loaded, or reports an error.             *)
LEMMA TableShows ==
    ASSUME IInv, TableInv, UNCHANGED <<queue, added>>, ~Writing',
           pc' \notin {"recover", "load", "walk", "commit"},
           \/ \E opened \in BOOLEAN : Shows(Read(opened), opened)
           \/ Snapshot(file, queue)
           \/ Outdated
    PROVE  TableInv'
<1>1. /\ shown \in Table /\ Shaped(queue, added) /\ InOrder(shown.rows, queue)
      /\ \A i \in DOMAIN shown.rows : shown.rows[i][1] \in added
  BY DEF IInv, FileInv, TableInv
<1>2. Told(shown', queue, added)
  <2>1. CASE \E opened \in BOOLEAN : Shows(Read(opened), opened)
    BY <1>1, <2>1, ToldRead DEF Read
  <2>2. CASE Snapshot(file, queue)
    BY <1>1, <2>2, ToldSnapshot
  <2>3. CASE Outdated
    BY <1>1, <2>3, SameTable DEF Told
  <2> QED
    BY <2>1, <2>2, <2>3
<1> QED
  BY <1>2, TableTold

(* A step that changes neither queue nor table.                            *)
LEMMA TableQuiet ==
    ASSUME TableInv, UNCHANGED <<queue, added, shown>>, ~Writing',
           pc' \notin {"recover", "load"}, pc' \in {"walk", "commit"} => CanAdvance',
           \/ shown.rows = Rows(queue)
           \/ shown.heard # "queue"
           \/ pc' \in {"scan", "walk", "commit"} /\ CanAdvance'
    PROVE  TableInv'
<1>1. shown.rows = Rows(queue) => (shown.rows = Rows(queue))'
  BY DEF Rows
<1> QED
  BY <1>1 DEF TableInv, ShowsLater

(* A step that starts with an empty table.                                 *)
LEMMA TableEmpty ==
    ASSUME shown' = NoTable, ~Writing', write'.show = "no",
           pc' \in {"recover", "load"} \/ queue' = <<>>, pc' \notin {"walk", "commit"}
    PROVE  TableInv'
<1>1. /\ shown' \in Table /\ shown'.rows = <<>> /\ shown'.heard = "queue"
      /\ \A i \in DOMAIN shown'.rows : shown'.rows[i][1] \in added'
  BY DEF NoTable, Table
<1>2. InOrder(shown'.rows, queue')
  BY <1>1, EmptyOrder
<1>3. queue' = <<>> => (shown.rows = Rows(queue))'
  BY <1>1, EmptyOrder DEF Rows
<1> QED
  BY <1>1, <1>2, <1>3 DEF TableInv, ShowsLater

(* Between two events, and in a handler that scans no longer, the table    *)
(* shows the queue, or something else was heard than a file that opened.   *)
LEMMA TableShown ==
    ASSUME TableInv, ~Writing, pc \notin {"recover", "load"},
           pc \in {"scan", "walk", "commit"} => ~CanAdvance
    PROVE  shown.rows = Rows(queue) \/ shown.heard # "queue"
BY DEF TableInv, ShowsLater

(* The documents of a queue in which one was given a state.                *)
LEMMA RevisedState ==
    ASSUME IInv, NEW opened \in BOOLEAN, NEW e, NEW st \in EntryState
    PROVE  LET q == Read(opened)
               p == WithState(q, e, st)
           IN  DOMAIN p = DOMAIN q /\ \A i \in DOMAIN p : p[i].id = q[i].id
BY ReadShaped, WithStateItems DEF IInv

(* The documents of the queue after a job failed.                          *)
LEMMA FailedIds ==
    ASSUME IInv, FinishFailed
    PROVE  LET x == Of(queue, currentEntryId)
               s == currentSegmentIndex
               p == WithState(WithSegment(queue, x.id, s, "Failed", x.text[s]), x.id, "Failed")
           IN  DOMAIN p = DOMAIN queue /\ \A i \in DOMAIN queue : p[i].id = queue[i].id
<1> DEFINE e == currentEntryId
           s == currentSegmentIndex
           x == Of(queue, e)
           p == WithSegment(queue, x.id, s, "Failed", x.text[s])
           w == WithState(p, x.id, "Failed")
<1>1. pc = "finish" /\ ~removedActiveEntry /\ Has(queue, e)
  BY DEF FinishFailed, Found, Handled, Finishing
<1>2. Target(queue, e, s)
  BY <1>1, FinishingLive, FoundTarget DEF Busy
<1>3. PICK i \in DOMAIN queue : queue[i].id = e /\ s \in DOMAIN queue[i].seg
  BY <1>2 DEF Target
<1>4. x = queue[i] /\ x.id = e /\ x.text[s] \in Text
  <2>1. Of(queue, queue[i].id) = queue[i]
    BY OfItem DEF IInv, FileInv
  <2>2. queue[i] \in Item
    BY ShapedItems DEF IInv, FileInv
  <2> QED
    BY <1>3, <2>1, <2>2, ItemSegments
<1>5. "Failed" \in SegmentState /\ "Failed" \in EntryState /\ "Failed" # "Completed"
  BY DEF SegmentState, EntryState
<1> HIDE DEF x
<1>6. /\ Shaped(p, added) /\ DOMAIN p = DOMAIN queue
      /\ \A k \in DOMAIN queue : p[k].id = queue[k].id
  BY <1>2, <1>4, <1>5, SegmentSucceeds DEF IInv, FileInv, Succeeds
<1> HIDE DEF p
<1>7. /\ DOMAIN w = DOMAIN p
      /\ \A k \in DOMAIN p : w[k].id = p[k].id
  BY <1>5, <1>6, WithStateItems
<1>8. DOMAIN w = DOMAIN queue /\ \A k \in DOMAIN queue : w[k].id = queue[k].id
  BY <1>6, <1>7
<1> QED
  BY <1>8 DEF w, p, x

-----------------------------------------------------------------------------
(* The table at each step.  The calls of the user.                         *)
LEMMA TableUser ==
    ASSUME IInv, TableInv, User
    PROVE  TableInv'
<1>1. ASSUME NEW e \in Entry, RetryEntry(e) PROVE TableInv'
  <2> DEFINE p == ResetForRetry(queue, e)
  <2>1. Put(p, TRUE, "keep", "file") /\ UNCHANGED <<added, shown, pc>> /\ pc = "idle"
    BY <1>1 DEF RetryEntry, Ready
  <2>2. DOMAIN p = DOMAIN queue /\ \A i \in DOMAIN queue : p[i].id = queue[i].id
    BY ResetItems DEF IInv, FileInv
  <2> HIDE DEF p
  <2>3. Read(TRUE) = queue
    BY DEF Read
  <2> QED
    BY <2>1, <2>2, <2>3, TableRevised
<1>2. ASSUME NEW e \in Entry, RemoveEntry(e) PROVE TableInv'
  <2>1. PICK opened \in BOOLEAN :
           PutDropping(Removed(Read(opened), e), opened, "stop", "file", e)
    BY <1>2 DEF RemoveEntry
  <2> DEFINE p == Removed(Read(opened), e)
  <2>2. UNCHANGED <<added, shown>> /\ pc' \in {"idle", "scan"}
    BY <1>2 DEF RemoveEntry
  <2>3. InOrder(shown.rows, Read(opened)) /\ Shaped(Read(opened), added)
    BY EmptyOrder, ReadShaped DEF TableInv, IInv, Read
  <2>4. InOrder(shown.rows, p)
    BY <2>3, WithoutOrder DEF Removed
  <2> HIDE DEF p
  <2>5. PutDropping(p, opened, "stop", "file", e)
    BY <2>1 DEF p
  <2> QED
    BY <2>2, <2>4, <2>5, TablePut
<1>3. ASSUME NEW e \in Entry, NEW n \in 1..MaxSegments, AddFile(e, n) PROVE TableInv'
  <2> DEFINE x == NewEntry(e, n)
  <2>1. PICK opened \in BOOLEAN : Put(Append(Read(opened), x), opened, "keep", "file")
    BY <1>3 DEF AddFile
  <2> DEFINE p == Append(Read(opened), x)
  <2>2. /\ UNCHANGED <<shown, pc>> /\ pc = "idle"
        /\ e \notin added /\ added \subseteq added'
    BY <1>3 DEF AddFile, Ready
  <2>3. x \in Item /\ x.id = e
    BY NewItem DEF NewEntry
  <2> HIDE DEF x
  <2>4. InOrder(shown.rows, Read(opened)) /\ Shaped(Read(opened), added)
    BY EmptyOrder, ReadShaped DEF TableInv, IInv, Read
  <2>5. InOrder(shown.rows, p)
    BY <2>2, <2>3, <2>4, AppendOrder DEF TableInv
  <2> HIDE DEF p
  <2>6. Put(p, opened, "keep", "file")
    BY <2>1 DEF p
  <2> QED
    BY <2>2, <2>5, <2>6, TablePut DEF Put
<1>4. ASSUME Start \/ Pause \/ Resume \/ LoadModel \/ UnloadModel PROVE TableInv'
  <2>1. /\ UNCHANGED <<queue, added, shown, write>> /\ Ready /\ pc' \in {"idle", "scan"}
    BY <1>4 DEF Start, Pause, Resume, LoadModel, UnloadModel, disk, control, Ready
  <2>2. shown.rows = Rows(queue) \/ shown.heard # "queue"
    BY <2>1, TableShown DEF Ready, Writing
  <2>3. ~Writing'
    BY <2>1 DEF Ready, Writing
  <2> QED
    BY <2>1, <2>2, <2>3, TableQuiet
<1>5. ASSUME SaveEntries \/ Refuse PROVE TableInv'
  <2>1. /\ UNCHANGED <<queue, added>> /\ ~Writing' /\ pc' = "idle"
        /\ Snapshot(file, queue) \/ Outdated
    BY <1>5 DEF SaveEntries, Refuse, Ready, disk, control, Writing
  <2> QED
    BY <2>1, TableShows
<1> QED
  BY <1>1, <1>2, <1>3, <1>4, <1>5 DEF User

(* The two ends of a write.                                                *)
LEMMA TableStore ==
    ASSUME IInv, TableInv, Store
    PROVE  TableInv'
<1>1. ASSUME Rename PROVE TableInv'
  <2>1. /\ Writing /\ ~Writing' /\ write'.show = "no" /\ queue' = next
        /\ UNCHANGED <<added, pc, current, flags, model>>
        /\ ShowsAfter(write.show)
    BY <1>1 DEF Rename, Writing, NoWrite
  <2>2. Shaped(next, added) /\ InOrder(shown.rows, next)
    BY <2>1 DEF IInv, FileInv, TableInv
  <2>3. pc # "commit" /\ (pc \in {"recover", "load"} => write.mode = "startup")
    BY <2>1 DEF IInv, PhaseInv, Writing
  <2>4. CanAdvance' = CanAdvance
    BY <2>1 DEF CanAdvance, current, flags
  <2>5. CASE write.show # "no"
    <3>1. /\ shown \in Table /\ \A i \in DOMAIN shown.rows : shown.rows[i][1] \in added
      BY DEF TableInv
    <3>2. Told(shown', next, added)
      <4>1. CASE Shows(next, TRUE)
        <5>1. Shows(IF TRUE THEN next ELSE <<>>, TRUE)
          BY <4>1
        <5> QED
          BY <2>2, <3>1, <5>1, ToldRead
      <4>2. CASE Snapshot("whole", next)
        BY <2>2, <3>1, <4>2, ToldSnapshot
      <4> QED
        BY <2>1, <2>5, <4>1, <4>2 DEF ShowsAfter
    <3>3. pc \notin {"recover", "load"}
      BY <2>5 DEF TableInv
    <3>4. pc \in {"walk", "commit"} => CanAdvance
      BY DEF TableInv
    <3> QED
      BY <2>1, <2>4, <3>2, <3>3, <3>4 DEF TableInv, Told, Rows
  <2>6. CASE write.show = "no"
    <3>1. UNCHANGED shown
      BY <2>1, <2>6 DEF ShowsAfter
    <3>2. shown.heard = "queue" => pc = "load" \/ (pc = "walk" /\ CanAdvance)
      BY <2>1, <2>6 DEF TableInv
    <3> QED
      BY <2>1, <2>2, <2>3, <2>4, <2>6, <3>1, <3>2 DEF TableInv, ShowsLater
  <2> QED
    BY <2>5, <2>6
<1>2. ASSUME WriteFailsInRun \/ LoadFailsInRun PROVE TableInv'
  <2>1. /\ UNCHANGED <<queue, added>> /\ ~Writing' /\ BoundaryStop
    BY <1>2 DEF WriteFailsInRun, LoadFailsInRun, disk, Writing, NoWrite
  <2>2. pc' = "idle" /\ Outdated
    BY <2>1 DEF BoundaryStop
  <2> QED
    BY <2>1, <2>2, TableShows
<1>3. ASSUME WriteFailsAside PROVE TableInv'
  <2>1. /\ UNCHANGED <<queue, added, pc, flags, current, model>> /\ Writing /\ ~Writing'
        /\ Outdated /\ write.mode = "keep" /\ write'.show = "no"
    BY <1>3 DEF WriteFailsAside, Writing, NoWrite
  <2>2. pc \notin {"recover", "load", "commit"}
    BY <2>1 DEF IInv, PhaseInv, Writing
  <2>3. CanAdvance' = CanAdvance
    BY <2>1 DEF CanAdvance, current, flags
  <2>4. shown' \in Table /\ shown'.rows = shown.rows /\ shown'.heard = "error"
    BY <2>1, SameTable DEF TableInv
  <2> QED
    BY <2>1, <2>2, <2>3, <2>4 DEF TableInv
<1>4. ASSUME WriteFailsAtStartup PROVE TableInv'
  <2>1. shown' = NoTable /\ ~Writing' /\ write'.show = "no" /\ queue' = <<>> /\ pc' = "idle"
    BY <1>4 DEF WriteFailsAtStartup, Writing, NoWrite
  <2> QED
    BY <2>1, TableEmpty
<1> QED
  BY <1>1, <1>2, <1>3, <1>4 DEF Store

(* Recovery and load.                                                      *)
LEMMA TableStartup ==
    ASSUME IInv, TableInv, Recover \/ Load
    PROVE  TableInv'
<1>1. ASSUME Recover PROVE TableInv'
  <2>1. ~Writing /\ shown.rows = <<>> /\ write.show = "no" /\ pc' = "load"
        /\ UNCHANGED <<added, shown>>
    BY <1>1 DEF Recover, Writing, TableInv
  <2>2. CASE UNCHANGED write /\ queue' \in {queue, <<>>}
    <3>1. ~Writing'
      BY <2>1, <2>2 DEF Writing
    <3>2. InOrder(shown'.rows, queue')
      BY <2>1, EmptyOrder
    <3> QED
      BY <2>1, <2>2, <3>1, <3>2 DEF TableInv, ShowsLater
  <2>3. CASE Put(Recovered(queue), TRUE, "startup", "no")
    <3> DEFINE p == Recovered(queue)
    <3>1. DOMAIN p = DOMAIN queue /\ \A i \in DOMAIN queue : p[i].id = queue[i].id
      BY RecoveredItems DEF IInv, FileInv
    <3>2. Put(p, TRUE, "startup", "no")
      BY <2>3
    <3> HIDE DEF p
    <3>3. Read(TRUE) = queue
      BY DEF Read
    <3> QED
      BY <2>1, <3>1, <3>2, <3>3, TableRevised
  <2> QED
    BY <1>1, <2>2, <2>3 DEF Recover
<1>2. ASSUME Load PROVE TableInv'
  <2>1. ~Writing' /\ shown.rows = <<>> /\ pc' = "idle" /\ UNCHANGED added
        /\ Snapshot(file', queue')
    BY <1>2 DEF Load, Writing, TableInv
  <2>2. /\ shown \in Table /\ InOrder(shown.rows, queue')
        /\ \A i \in DOMAIN shown.rows : shown.rows[i][1] \in added'
    BY <2>1, EmptyOrder DEF TableInv
  <2>3. Shaped(queue', added')
    <3>1. IInv'
      BY <1>2, LoadStep
    <3> QED
      BY <3>1 DEF IInv, FileInv
  <2>4. Told(shown', queue', added')
    BY <2>1, <2>2, <2>3, ToldSnapshot
  <2> QED
    BY <2>1, <2>4, TableTold
<1> QED
  BY <1>1, <1>2

(* The loop of advanceBatch().                                             *)
LEMMA TableScan ==
    ASSUME IInv, TableInv,
           \/ AdvanceReturns \/ AdvanceLoads \/ AdvanceEnds \/ AdvanceCommits \/ Submit
           \/ \E i \in DOMAIN entries : Advance(i)
    PROVE  TableInv'
<1>1. ASSUME AdvanceReturns PROVE TableInv'
  <2>1. /\ pc = "scan" /\ ~Writing /\ ~Writing' /\ ~CanAdvance /\ pc' = "idle"
        /\ UNCHANGED <<queue, added, shown>>
    BY <1>1 DEF AdvanceReturns, Scanning, Writing, disk
  <2>2. shown.rows = Rows(queue) \/ shown.heard # "queue"
    BY <2>1, TableShown
  <2> QED
    BY <2>1, <2>2, TableQuiet
<1>2. ASSUME AdvanceLoads PROVE TableInv'
  <2>1. /\ CanAdvance /\ pc' = "walk" /\ ~Writing'
        /\ UNCHANGED <<queue, added, shown, flags, current, model>>
    BY <1>2 DEF AdvanceLoads, Scanning, Writing, disk
  <2>2. CanAdvance'
    BY <2>1 DEF CanAdvance, flags, current
  <2> QED
    BY <2>1, <2>2, TableQuiet
<1>3. ASSUME AdvanceEnds PROVE TableInv'
  <2>1. ~Writing' /\ pc' = "idle" /\ UNCHANGED <<queue, added>> /\ Snapshot(file, queue)
    BY <1>3 DEF AdvanceEnds, Walking, Writing, disk
  <2> QED
    BY <2>1, TableShows
<1>4. ASSUME Submit PROVE TableInv'
  <2>1. /\ pc = "submit" /\ ~Writing /\ ~Writing' /\ pc' = "idle" /\ UNCHANGED <<queue, added, shown>>
    BY <1>4 DEF Submit, Writing, disk
  <2>2. shown.rows = Rows(queue) \/ shown.heard # "queue"
    BY <2>1, TableShown
  <2> QED
    BY <2>1, <2>2, TableQuiet
<1>5. ASSUME NEW e, NEW st \in EntryState, NEW show, SetsState(e, st, show), UNCHANGED added,
             shown' = shown \/ Outdated, pc' \in {"idle", "walk", "submit"},
             pc' = "walk" => CanAdvance',
             show = "no" => Outdated \/ (pc' = "walk" /\ CanAdvance')
      PROVE  TableInv'
  <2>1. PICK opened \in BOOLEAN : Put(WithState(Read(opened), e, st), opened, "stop", show)
    BY <1>5 DEF SetsState
  <2> DEFINE p == WithState(Read(opened), e, st)
  <2>2. DOMAIN p = DOMAIN Read(opened) /\ \A k \in DOMAIN p : p[k].id = Read(opened)[k].id
    BY <1>5, RevisedState
  <2>3. Put(p, opened, "stop", show)
    BY <2>1
  <2> HIDE DEF p
  <2> QED
    BY <1>5, <2>2, <2>3, TableRevised
<1>6. "Failed" \in EntryState /\ "Processing" \in EntryState /\ "Completed" \in EntryState
  BY DEF EntryState
<1>7. ASSUME AdvanceCommits PROVE TableInv'
  <2>1. /\ SetsState(entries[at].id, "Completed", "no") /\ pc = "commit" /\ pc' = "walk"
        /\ UNCHANGED <<added, shown, flags, current, model>>
    BY <1>7 DEF AdvanceCommits
  <2>2. CanAdvance'
    BY <2>1 DEF TableInv, CanAdvance, flags, current
  <2> QED
    BY <1>5, <1>6, <2>1, <2>2
<1>8. ASSUME NEW i \in DOMAIN entries, Advance(i) PROVE TableInv'
  <2> DEFINE x == entries[i]
  <2>1. /\ pc = "walk" /\ ~Writing /\ CanAdvance
        /\ UNCHANGED <<added, paused, model>>
    BY <1>8 DEF Advance, Walking, Writing, TableInv
  <2>2. CASE SetsState(x.id, "Failed", "no") /\ UNCHANGED <<pc, running, shown, current>>
    <3>1. CanAdvance'
      BY <2>1, <2>2 DEF CanAdvance, current
    <3> QED
      BY <1>5, <1>6, <2>1, <2>2, <3>1
  <2>3. CASE SetsState(x.id, "Failed", "no") /\ Outdated /\ pc' = "idle"
    BY <1>5, <1>6, <2>1, <2>3
  <2>4. CASE SetsState(x.id, "Processing", "file") /\ pc' = "submit" /\ UNCHANGED shown
    BY <1>5, <1>6, <2>1, <2>4
  <2>5. CASE pc' = "commit" /\ UNCHANGED <<queue, write, running, shown, current>>
    <3>1. CanAdvance' /\ ~Writing'
      BY <2>1, <2>5 DEF CanAdvance, Writing, current
    <3> QED
      BY <2>1, <2>5, <3>1, TableQuiet
  <2>6. CASE SetsState(x.id, "Failed", "file") /\ pc' = "idle" /\ UNCHANGED shown
    BY <1>5, <1>6, <2>1, <2>6
  <2> QED
    BY <1>8, <2>2, <2>3, <2>4, <2>5, <2>6 DEF Advance
<1> QED
  BY <1>1, <1>2, <1>3, <1>4, <1>7, <1>8

(* The end of a job.                                                       *)
LEMMA TableFinish ==
    ASSUME IInv, TableInv,
           \/ FinishRemoved \/ FinishIgnored \/ FinishSegment \/ FinishOutput \/ FinishEntry
           \/ FinishFailed \/ FinishNotFound \/ FinishStopped
    PROVE  TableInv'
<1>1. ASSUME FinishRemoved \/ FinishNotFound \/ FinishStopped PROVE TableInv'
  <2>1. /\ ~Writing' /\ pc' \in {"idle", "scan"} /\ UNCHANGED <<queue, added>>
        /\ \E opened \in BOOLEAN : Shows(Read(opened), opened)
    BY <1>1 DEF FinishRemoved, FinishNotFound, FinishStopped, Handled, Finishing, Writing, disk
  <2> QED
    BY <2>1, TableShows
<1>2. ASSUME FinishIgnored \/ FinishOutput PROVE TableInv'
  <2>1. /\ pc = "finish" /\ ~Writing /\ ~Writing' /\ pc' \in {"idle", "save"}
        /\ UNCHANGED <<queue, added, shown>>
    BY <1>2 DEF FinishIgnored, FinishOutput, Found, Handled, Finishing, Writing, disk
  <2>2. shown.rows = Rows(queue) \/ shown.heard # "queue"
    BY <2>1, TableShown
  <2> QED
    BY <2>1, <2>2, TableQuiet
<1>3. ASSUME NEW p, Put(p, TRUE, "stop", "saved"), UNCHANGED <<added, shown>>,
             pc' \in {"idle", "scan"},
             DOMAIN p = DOMAIN queue, \A i \in DOMAIN queue : p[i].id = queue[i].id
      PROVE  TableInv'
  <2>1. Read(TRUE) = queue
    BY DEF Read
  <2> QED
    BY <1>3, <2>1, TableRevised
<1>4. ASSUME FinishSegment PROVE TableInv'
  <2> DEFINE p == Translated
  <2>1. /\ Put(p, TRUE, "stop", "saved") /\ UNCHANGED <<added, shown>> /\ pc' \in {"idle", "scan"}
        /\ pc = "finish" /\ ~removedActiveEntry /\ result = "Completed"
        /\ Has(queue, currentEntryId)
    BY <1>4 DEF FinishSegment, Found, Handled, Finishing
  <2>2. DOMAIN p = DOMAIN queue /\ \A i \in DOMAIN queue : p[i].id = queue[i].id
    BY <2>1, TranslatedSucceeds DEF IInv, CurrentInv
  <2> HIDE DEF p
  <2> QED
    BY <1>3, <2>1, <2>2
<1>5. ASSUME FinishEntry PROVE TableInv'
  <2> DEFINE st == IF result = "Written" THEN "Completed" ELSE "Failed"
             q == Translated
             p == WithState(q, currentEntryId, st)
  <2>1. /\ Put(p, TRUE, "stop", "saved") /\ UNCHANGED <<added, shown>> /\ pc' \in {"idle", "scan"}
        /\ pc = "save"
    BY <1>5 DEF FinishEntry
  <2>2. /\ DOMAIN q = DOMAIN queue /\ \A i \in DOMAIN queue : q[i].id = queue[i].id
        /\ Shaped(q, added)
    BY <2>1, TranslatedSucceeds DEF IInv, CurrentInv, Succeeds
  <2> HIDE DEF q
  <2>3. st \in EntryState
    BY DEF EntryState
  <2> HIDE DEF st
  <2>4. DOMAIN p = DOMAIN q /\ \A i \in DOMAIN q : p[i].id = q[i].id
    BY <2>2, <2>3, WithStateItems
  <2> HIDE DEF p
  <2>5. DOMAIN p = DOMAIN queue /\ \A i \in DOMAIN queue : p[i].id = queue[i].id
    BY <2>2, <2>4
  <2> QED
    BY <1>3, <2>1, <2>5
<1>6. ASSUME FinishFailed PROVE TableInv'
  <2> DEFINE x == Of(queue, currentEntryId)
             q == WithSegment(queue, x.id, currentSegmentIndex, "Failed", x.text[currentSegmentIndex])
             p == WithState(q, x.id, "Failed")
  <2>1. /\ Put(p, TRUE, "stop", "saved") /\ UNCHANGED <<added, shown>> /\ pc' = "idle"
    BY <1>6 DEF FinishFailed
  <2>2. DOMAIN p = DOMAIN queue /\ \A i \in DOMAIN queue : p[i].id = queue[i].id
    BY <1>6, FailedIds
  <2> HIDE DEF p
  <2> QED
    BY <1>3, <2>1, <2>2
<1> QED
  BY <1>1, <1>2, <1>4, <1>5, <1>6

(* The signals of the service, and the timer.                              *)
LEMMA TableEvent ==
    ASSUME IInv, TableInv, Signal \/ OnRequeueTimer
    PROVE  TableInv'
<1>1. /\ UNCHANGED <<queue, added, shown, write>> /\ Ready /\ pc' \in {"idle", "finish", "scan"}
  BY DEF Signal, OnTranslationStarted, OnTranslationDelta, OnTranslationFinished, OnRequeueTimer,
         disk, control, Ready
<1>2. shown.rows = Rows(queue) \/ shown.heard # "queue"
  BY <1>1, TableShown DEF Ready, Writing
<1>3. ~Writing'
  BY <1>1 DEF Ready, Writing
<1> QED
  BY <1>1, <1>2, <1>3, TableQuiet

(* Every step.                                                             *)
LEMMA NextTableInv == IInv /\ TableInv /\ [Next]_vars => TableInv'
<1> SUFFICES ASSUME IInv, TableInv, [Next]_vars PROVE TableInv'
  OBVIOUS
<1>1. CASE User
  BY <1>1, TableUser
<1>2. CASE Store
  BY <1>2, TableStore
<1>3. CASE Handler
  BY <1>3, TableStartup, TableScan, TableFinish DEF Handler
<1>4. CASE Signal \/ OnRequeueTimer
  BY <1>4, TableEvent
<1>5. CASE Crash
  <2>1. shown' = NoTable /\ ~Writing' /\ write'.show = "no" /\ pc' = "recover"
    BY <1>5 DEF Crash, Writing, NoWrite
  <2> QED
    BY <2>1, TableEmpty
<1>6. CASE UNCHANGED vars
  BY <1>6 DEF vars, disk, current, flags, control, TableInv, ShowsLater, Writing, CanAdvance,
              InOrder, Rows
<1> QED
  BY <1>1, <1>2, <1>3, <1>4, <1>5, <1>6 DEF Next

(* Whenever the controller waits for the next event, the table of the      *)
(* Batch page shows the queue file, or an error was reported since, or     *)
(* the last load could not open the file and the table is empty            *)
(* (emitQueueSnapshot() of batch_controller.cpp, load() of                 *)
(* batch_store.cpp, applySnapshot() of batch_queue_model.cpp).             *)
THEOREM SpecRowsCurrent == Spec => []RowsCurrent
<1>1. Init => TableInv
  <2> SUFFICES ASSUME Init PROVE TableInv
    OBVIOUS
  <2>1. /\ shown \in Table /\ shown.rows = <<>> /\ shown.heard = "queue"
        /\ ~Writing /\ write.show = "no" /\ pc = "recover"
    BY DEF Init, NoTable, Writing, NoWrite, Table
  <2>2. \A i \in DOMAIN shown.rows : shown.rows[i][1] \in added
    BY <2>1
  <2>3. InOrder(shown.rows, queue)
    BY <2>1, EmptyOrder
  <2> QED
    BY <2>1, <2>2, <2>3 DEF TableInv, ShowsLater
<1>2. TableInv => RowsCurrent
  <2> SUFFICES ASSUME TableInv, Ready PROVE RowsCurrent
    BY DEF RowsCurrent
  <2>1. shown.rows = Rows(queue) \/ shown.heard # "queue"
    BY TableShown DEF Ready, Writing
  <2>2. shown.heard = "unopened" => shown.rows = <<>>
    BY DEF TableInv
  <2> QED
    BY <2>1, <2>2 DEF RowsCurrent
<1> QED
  BY <1>1, <1>2, NextTableInv, InductiveInvariant, PTL DEF Spec

=============================================================================
