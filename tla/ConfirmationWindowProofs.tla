---------------------- MODULE ConfirmationWindowProofs ----------------------
(***************************************************************************)
(* Proofs about the ConfirmationWindow for every depth, key range, set of  *)
(* rows and sequence of calls.                                             *)
(***************************************************************************)
EXTENDS ConfirmationWindow, TLAPS

(* A halted window holds nothing: the strengthening that makes the others  *)
(* inductive, since flush may only run on a healthy window.                *)
HaltedIsEmpty == ~healthy => DOMAIN pending = {}

(* The inductive invariant.                                                *)
IInv ==
  /\ TypeOK
  /\ WindowAboveWatermark
  /\ NothingMatureHeld
  /\ HaltedIsEmpty

-----------------------------------------------------------------------------
(* Operators.                                                              *)

(* Removing one row of a sequence of rows leaves a sequence of rows.       *)
LEMMA RemoveOneType ==
  ASSUME NEW s \in Seq(Row), NEW r \in Row, Contains(s, r)
  PROVE  RemoveOne(s, r) \in Seq(Row)
<1> DEFINE i == CHOOSE j \in DOMAIN s : s[j] = r /\ \A m \in DOMAIN s : s[m] = r => j <= m
           f == [j \in 1..(Len(s) - 1) |-> IF j = i THEN s[Len(s)] ELSE s[j]]
<1>1. Len(s) \in Nat /\ Len(s) >= 1 /\ \A j \in 1..Len(s) : s[j] \in Row
  BY DEF Contains
<1>2. \A j \in 1..(Len(s) - 1) : f[j] \in Row
  <2> HIDE DEF i
  <2> QED BY <1>1
<1>3. f \in [1..(Len(s) - 1) -> Row]
  BY <1>2
<1>4. Len(s) - 1 \in Nat
  BY <1>1
<1>5. f \in Seq(Row)
  <2> HIDE DEF f
  <2> QED BY <1>3, <1>4
<1> QED BY <1>5 DEF RemoveOne

(* The groups the buffer operations build are groups.                      *)
LEMMA GroupTypes ==
  /\ \A g \in Group : Converted(g) \in Group
  /\ \A g \in Group, r \in Row : WithRow(g, r) \in Group
<1>1. \A g \in Group : Converted(g) \in Group
  BY DEF Converted, Group
<1>2. ASSUME NEW g \in Group, NEW r \in Row
      PROVE  WithRow(g, r) \in Group
  <2>1. Append(g.rows, r) \in Seq(Row)
    BY DEF Group
  <2>2. Contains(g.expected, r) => RemoveOne(g.expected, r) \in Seq(Row)
    BY RemoveOneType DEF Group
  <2>3. g.expected \in Seq(Row)
    BY DEF Group
  <2> QED BY <2>1, <2>2, <2>3 DEF WithRow, Group
<1> QED BY <1>1, <1>2

(* A buffer is a function from keys to groups.                             *)
IsBuffer(p) == DOMAIN p \subseteq Keys /\ p \in [DOMAIN p -> Group]

(* rewind keeps the buffer a buffer and adds no key to it.                 *)
LEMMA RewindType ==
  ASSUME NEW p, IsBuffer(p), NEW key \in Keys
  PROVE  IsBuffer(rewind(p, key)) /\ DOMAIN rewind(p, key) \subseteq DOMAIN p
BY GroupTypes DEF IsBuffer, rewind

(* Put adds one key and keeps the buffer a buffer.                         *)
LEMMA PutType ==
  ASSUME NEW p, IsBuffer(p), NEW key \in Keys, NEW g \in Group
  PROVE  IsBuffer(Put(p, key, g)) /\ DOMAIN Put(p, key, g) = DOMAIN p \cup {key}
BY DEF IsBuffer, Put

(* The group a live row lands in is a group.                               *)
LEMMA TouchedType ==
  ASSUME NEW p, IsBuffer(p), NEW key \in Keys
  PROVE  Touched(p, key) \in Group
<1>1. [rows |-> <<>>, expected |-> <<>>, seeded |-> FALSE] \in Group
  BY DEF Group
<1> QED BY <1>1, GroupTypes DEF Touched, IsBuffer

(* The group a backfill row lands in is a group.                           *)
LEMMA SeededType ==
  ASSUME NEW p, IsBuffer(p), NEW key \in Keys, NEW row \in Row
  PROVE  Seeded(p, key, row) \in Group
<1>1. CASE key \in DOMAIN p
  <2>1. p[key] \in Group
    BY <1>1 DEF IsBuffer
  <2>2. Append(p[key].rows, row) \in Seq(Row)
    BY <2>1 DEF Group
  <2>3. [p[key] EXCEPT !.rows = Append(@, row)] \in Group
    BY <2>1, <2>2 DEF Group
  <2> QED BY <1>1, <2>3 DEF Seeded
<1>2. CASE key \notin DOMAIN p
  BY <1>2 DEF Seeded, Group
<1> QED BY <1>1, <1>2

(* The keys of the empty buffer.                                           *)
LEMMA NoGroupsEmpty == DOMAIN NoGroups = {} /\ IsBuffer(NoGroups)
BY DEF NoGroups, IsBuffer

-----------------------------------------------------------------------------
(* The inductive invariant.                                                *)

LEMMA InitIInv == Init => IInv
<1> SUFFICES ASSUME Init PROVE IInv
  OBVIOUS
<1> USE DEF Init, StoreInit
<1>1. None \in Positions /\ MaxKey \in Nat
  BY WriterAssumption DEF Positions
<1>2. TypeOK
  BY <1>1, NoGroupsEmpty DEF TypeOK, StoreTypeOK, IsBuffer
<1>3. WindowAboveWatermark
  BY NoGroupsEmpty DEF WindowAboveWatermark, None
<1>4. NothingMatureHeld /\ HaltedIsEmpty
  BY NoGroupsEmpty DEF NothingMatureHeld, HaltedIsEmpty, Matured
<1> QED BY <1>2, <1>3, <1>4 DEF IInv

(* A halt empties the window and keeps the invariant.                      *)
LEMMA HaltIInv == IInv /\ maturing = {} /\ halt /\ UNCHANGED storeVars => IInv'
<1> SUFFICES ASSUME IInv, maturing = {}, halt, UNCHANGED storeVars PROVE IInv'
  OBVIOUS
<1> USE DEF halt, storeVars, IInv
<1>1. TypeOK'
  BY NoGroupsEmpty DEF TypeOK, StoreTypeOK, IsBuffer
<1>2. WindowAboveWatermark' /\ HaltedIsEmpty'
  BY NoGroupsEmpty DEF WindowAboveWatermark, HaltedIsEmpty
<1>3. NothingMatureHeld'
  BY NoGroupsEmpty DEF NothingMatureHeld, Matured
<1> QED BY <1>1, <1>2, <1>3

(* Buffering above the watermark keeps the invariant.                      *)
LEMMA BufferIInv ==
  ASSUME IInv, healthy, UNCHANGED storeVars,
         NEW p, IsBuffer(p), \A b \in DOMAIN p : flushed < b,
         NEW h \in Positions, Buffer(p, h)
  PROVE  IInv'
<1> USE DEF Buffer, storeVars, IInv
<1>1. Matured(p, h) \subseteq DOMAIN p
  BY DEF Matured
<1>2. TypeOK'
  BY <1>1 DEF TypeOK, StoreTypeOK, IsBuffer
<1>3. WindowAboveWatermark' /\ HaltedIsEmpty'
  BY DEF WindowAboveWatermark, HaltedIsEmpty
<1>4. NothingMatureHeld'
  BY DEF NothingMatureHeld, Matured
<1> QED BY <1>2, <1>3, <1>4

LEMMA RecordIInv ==
  ASSUME IInv, NEW key \in Keys, NEW row \in Row, record(key, row)
  PROVE  IInv'
<1> USE DEF record
<1>1. CASE ~healthy /\ UNCHANGED windowVars
  BY <1>1 DEF IInv, TypeOK, StoreTypeOK, WindowAboveWatermark, NothingMatureHeld,
              HaltedIsEmpty, Matured, windowVars, storeVars
<1>2. CASE halt
  BY <1>2, HaltIInv
<1>3. CASE healthy /\ ~finalized(key) /\ encodes(row) /\ ~halt
  <2> DEFINE p == Rewound(key)
             g == WithRow(Touched(p, key), row)
             h == advance(IF key < head THEN key ELSE head, key)
  <2>1. IsBuffer(pending)
    BY DEF IInv, TypeOK, IsBuffer
  <2>2. IsBuffer(p) /\ DOMAIN p \subseteq DOMAIN pending
    BY <2>1, RewindType DEF Rewound
  <2>3. g \in Group
    BY <2>2, TouchedType, GroupTypes
  <2>4. IsBuffer(Put(p, key, g)) /\ DOMAIN Put(p, key, g) = DOMAIN p \cup {key}
    BY <2>2, <2>3, PutType
  <2>5. \A b \in DOMAIN Put(p, key, g) : flushed < b
    BY <1>3, <2>2, <2>4
       DEF IInv, TypeOK, WindowAboveWatermark, finalized, Keys, Positions, None
  <2>6. h \in Positions
    BY DEF IInv, TypeOK, advance, Positions, Keys, None
  <2>7. Buffer(Put(p, key, g), h) /\ UNCHANGED storeVars
    BY <1>3
  <2> HIDE DEF p, g, h
  <2> QED BY <1>3, <2>4, <2>5, <2>6, <2>7, BufferIInv
<1> QED BY <1>1, <1>2, <1>3

LEMMA SeedIInv ==
  ASSUME IInv, NEW key \in Keys, NEW row \in Row, seed_tail(key, row)
  PROVE  IInv'
<1> USE DEF seed_tail, record_seeded
<1>1. CASE ~healthy /\ UNCHANGED windowVars
  BY <1>1 DEF IInv, TypeOK, StoreTypeOK, WindowAboveWatermark, NothingMatureHeld,
              HaltedIsEmpty, Matured, windowVars, storeVars
<1>2. CASE halt
  BY <1>2, HaltIInv
<1>3. CASE healthy /\ key >= head /\ encodes(row) /\ ~halt
  <2> DEFINE g == Seeded(pending, key, row)
             h == advance(head, key)
  <2>1. IsBuffer(pending)
    BY DEF IInv, TypeOK, IsBuffer
  <2>2. g \in Group
    BY <2>1, SeededType
  <2>3. IsBuffer(Put(pending, key, g)) /\ DOMAIN Put(pending, key, g) = DOMAIN pending \cup {key}
    BY <2>1, <2>2, PutType
  <2>4. \A b \in DOMAIN Put(pending, key, g) : flushed < b
    BY <1>3, <2>3 DEF IInv, TypeOK, WindowAboveWatermark, Keys, Positions, None
  <2>5. h \in Positions
    BY DEF IInv, TypeOK, advance, Positions, Keys, None
  <2>6. Buffer(Put(pending, key, g), h) /\ UNCHANGED storeVars
    BY <1>3
  <2> HIDE DEF g, h
  <2> QED BY <1>3, <2>3, <2>4, <2>5, <2>6, BufferIInv
<1> QED BY <1>1, <1>2, <1>3

(* A retraction rewinds the buffer and lowers the head, so that no group   *)
(* that was short of its confirmations matures by it.                      *)
LEMMA RetractIInv ==
  ASSUME IInv, NEW key \in Keys, retract(key)
  PROVE  IInv'
<1> USE DEF retract
<1>1. CASE ~healthy /\ UNCHANGED windowVars
  BY <1>1 DEF IInv, TypeOK, StoreTypeOK, WindowAboveWatermark, NothingMatureHeld,
              HaltedIsEmpty, Matured, windowVars, storeVars
<1>2. CASE halt
  BY <1>2, HaltIInv
<1>3. CASE healthy /\ ~finalized(key) /\ ~halt
  <2>1. IsBuffer(pending)
    BY DEF IInv, TypeOK, IsBuffer
  <2>2. IsBuffer(pending') /\ DOMAIN pending' \subseteq DOMAIN pending
    BY <1>3, <2>1, RewindType
  <2>3. head' \in Positions /\ head' <= head /\ UNCHANGED <<healthy, flushed, maturing, storeVars>>
    <3>1. head \in Int /\ key \in Int /\ head \in Positions /\ MaxKey \in Nat
      BY WriterAssumption DEF IInv, TypeOK, Positions, Keys, None
    <3>2. saturating_sub(key, 1) \in Keys
      BY <3>1 DEF saturating_sub, Keys
    <3>3. head' = IF head < saturating_sub(key, 1) THEN head ELSE saturating_sub(key, 1)
      BY <1>3
    <3>4. UNCHANGED <<healthy, flushed, maturing, storeVars>>
      BY <1>3
    <3>5. head' \in Positions
      BY <3>1, <3>2, <3>3 DEF Positions
    <3>6. head' <= head
      BY <3>1, <3>2, <3>3 DEF Keys
    <3> QED BY <3>4, <3>5, <3>6
  <2>4. Matured(pending', head') = {}
    <3>1. \A b \in Keys : saturating_add(b, Depth) \in Int
      BY WriterAssumption, DepthAssumption DEF saturating_add, Keys
    <3>2. \A b \in DOMAIN pending : ~(head >= saturating_add(b, Depth))
      BY DEF IInv, NothingMatureHeld, Matured
    <3>3. head \in Int /\ head' \in Int /\ DOMAIN pending \subseteq Keys
      BY <2>3 DEF IInv, TypeOK, Positions, Keys, None
    <3> QED BY <2>2, <2>3, <3>1, <3>2, <3>3 DEF Matured
  <2>5. TypeOK'
    BY <2>2, <2>3 DEF IInv, TypeOK, StoreTypeOK, IsBuffer, storeVars
  <2>6. WindowAboveWatermark' /\ HaltedIsEmpty'
    BY <1>3, <2>2, <2>3 DEF IInv, WindowAboveWatermark, HaltedIsEmpty, storeVars
  <2>7. NothingMatureHeld'
    BY <2>3, <2>4 DEF NothingMatureHeld, Matured
  <2> QED BY <2>5, <2>6, <2>7 DEF IInv
<1> QED BY <1>1, <1>2, <1>3

(* A new subscription starts above everything stored.                      *)
LEMMA OpenIInv ==
  ASSUME IInv, NEW cut \in Positions, open(cut)
  PROVE  IInv'
<1> USE DEF open, new, storeVars
<1>1. advance(progress, cut) \in Positions /\ progress <= advance(progress, cut)
  BY DEF IInv, TypeOK, StoreTypeOK, advance, Positions, Keys, None
<1>2. TypeOK'
  BY <1>1, NoGroupsEmpty DEF IInv, TypeOK, StoreTypeOK, IsBuffer, Positions
<1>3. WindowAboveWatermark' /\ HaltedIsEmpty' /\ NothingMatureHeld'
  BY <1>1, NoGroupsEmpty DEF WindowAboveWatermark, HaltedIsEmpty, NothingMatureHeld, Matured
<1> QED BY <1>2, <1>3 DEF IInv

(* A Store write keeps the Store well typed.                               *)
LEMMA WriteType ==
  ASSUME StoreTypeOK, NEW key \in Keys, NEW rows \in Seq(Row), write(key, rows)
  PROVE  StoreTypeOK' /\ progress' = advance(progress, key)
<1>1. table' \in [Keys -> Seq(Row)]
  BY DEF StoreTypeOK, write, insert_rows, advance_watermark
<1>2. progress' \in Positions
  BY DEF StoreTypeOK, write, insert_rows, advance_watermark, advance, Positions
<1> QED BY <1>1, <1>2 DEF StoreTypeOK, write, insert_rows, advance_watermark

LEMMA SettledIInv ==
  ASSUME IInv, NEW key \in Keys, NEW row \in Row, settled_write(key, row)
  PROVE  IInv'
<1> USE DEF settled_write
<1>1. StoreTypeOK' /\ progress' = advance(progress, key)
  <2>1. <<row>> \in Seq(Row)
    OBVIOUS
  <2> QED BY <2>1, WriteType DEF IInv, TypeOK
<1>2. TypeOK' /\ HaltedIsEmpty' /\ NothingMatureHeld'
  BY <1>1 DEF IInv, TypeOK, HaltedIsEmpty, NothingMatureHeld, Matured, windowVars
<1>3. WindowAboveWatermark'
  BY <1>1 DEF IInv, WindowAboveWatermark, windowVars, advance
<1> QED BY <1>2, <1>3 DEF IInv

(* The lowest matured group is above the watermark and below all others.   *)
LEMMA MaturedFacts ==
  ASSUME IInv, NEW b \in maturing, \A c \in maturing : b <= c
  PROVE  /\ healthy /\ b \in DOMAIN pending /\ b \in Keys
         /\ pending[b].rows \in Seq(Row)
         /\ progress < b /\ flushed < b
         /\ head >= saturating_add(b, Depth)
         /\ \A c \in DOMAIN pending : c # b => b < c
<1>1. healthy /\ b \in DOMAIN pending /\ b \in Keys /\ pending[b] \in Group
  BY DEF IInv, TypeOK, HaltedIsEmpty
<1>2. pending[b].rows \in Seq(Row)
  BY <1>1 DEF Group
<1>3. progress < b /\ flushed < b
  BY <1>1 DEF IInv, TypeOK, StoreTypeOK, WindowAboveWatermark, Positions, Keys, None
<1>4. head >= saturating_add(b, Depth)
  BY DEF IInv, NothingMatureHeld, Matured
<1>5. ASSUME NEW c \in DOMAIN pending, c # b PROVE b < c
  <2>1. c \in Keys /\ head \in Int /\ b \in Int /\ c \in Int
    BY <1>1 DEF IInv, TypeOK, Positions, Keys, None
  <2>2. CASE c \in maturing
    BY <1>5, <2>1, <2>2
  <2>3. CASE c \notin maturing
    <3>1. ~(head >= saturating_add(c, Depth))
      BY <2>3 DEF IInv, NothingMatureHeld, Matured
    <3> QED BY <1>4, <2>1, <3>1, WriterAssumption, DepthAssumption DEF saturating_add
  <2> QED BY <2>2, <2>3
<1> QED BY <1>1, <1>2, <1>3, <1>4, <1>5

LEMMA FlushIInv == ASSUME IInv, flush PROVE IInv'
<1> PICK b \in maturing :
      /\ \A c \in maturing : b <= c
      /\ \/ /\ write(b, pending[b].rows)
            /\ pending' = Without(pending, {b})
            /\ flushed' = advance(flushed, b)
            /\ maturing' = maturing \ {b}
            /\ UNCHANGED <<healthy, head>>
         \/ /\ failed_write(b, pending[b].rows)
            /\ healthy' = FALSE
            /\ pending' = NoGroups
            /\ maturing' = {}
            /\ UNCHANGED <<head, flushed>>
  BY DEF flush
<1>1. /\ healthy /\ b \in DOMAIN pending /\ b \in Keys
      /\ pending[b].rows \in Seq(Row)
      /\ progress < b /\ flushed < b
      /\ \A c \in DOMAIN pending : c # b => b < c
  BY MaturedFacts
<1>2. CASE write(b, pending[b].rows) /\ pending' = Without(pending, {b})
           /\ flushed' = advance(flushed, b) /\ maturing' = maturing \ {b}
           /\ UNCHANGED <<healthy, head>>
  <2>1. StoreTypeOK' /\ progress' = advance(progress, b)
    BY <1>1, <1>2, WriteType DEF IInv, TypeOK
  <2>2. DOMAIN pending' = DOMAIN pending \ {b}
        /\ pending' \in [DOMAIN pending' -> Group]
    BY <1>2 DEF Without, IInv, TypeOK
  <2>3. flushed' = b /\ progress' = b
    BY <1>1, <1>2, <2>1 DEF IInv, TypeOK, StoreTypeOK, advance, Positions, Keys, None
  <2>4. TypeOK'
    BY <1>1, <1>2, <2>1, <2>2, <2>3 DEF IInv, TypeOK, Positions
  <2>5. WindowAboveWatermark' /\ HaltedIsEmpty'
    BY <1>1, <1>2, <2>2, <2>3 DEF WindowAboveWatermark, HaltedIsEmpty, Keys
  <2>6. NothingMatureHeld'
    BY <1>2, <2>2 DEF IInv, NothingMatureHeld, Matured
  <2> QED BY <2>4, <2>5, <2>6 DEF IInv
<1>3. CASE failed_write(b, pending[b].rows) /\ healthy' = FALSE
           /\ pending' = NoGroups /\ maturing' = {} /\ UNCHANGED <<head, flushed>>
  <2>1. StoreTypeOK'
    BY <1>1, <1>3, WriteType DEF failed_write, storeVars, IInv, TypeOK, StoreTypeOK
  <2>2. TypeOK'
    BY <1>3, <2>1, NoGroupsEmpty DEF IInv, TypeOK, IsBuffer
  <2>3. WindowAboveWatermark' /\ HaltedIsEmpty' /\ NothingMatureHeld'
    BY <1>3, NoGroupsEmpty DEF WindowAboveWatermark, HaltedIsEmpty, NothingMatureHeld, Matured
  <2> QED BY <2>2, <2>3 DEF IInv
<1> QED BY <1>2, <1>3

(* Every step keeps the invariant.                                         *)
LEMMA NextIInv == IInv /\ [Next]_vars => IInv'
<1> SUFFICES ASSUME IInv, [Next]_vars PROVE IInv'
  OBVIOUS
<1>1. CASE \E cut \in Positions : open(cut)
  BY <1>1, OpenIInv
<1>2. ASSUME NEW key \in Keys, NEW row \in Row,
             settled_write(key, row) \/ seed_tail(key, row) \/ record(key, row)
      PROVE  IInv'
  BY <1>2, SettledIInv, SeedIInv, RecordIInv
<1>3. CASE \E key \in Keys : retract(key)
  BY <1>3, RetractIInv
<1>4. CASE flush
  BY <1>4, FlushIInv
<1>5. CASE UNCHANGED vars
  BY <1>5 DEF vars, windowVars, storeVars, IInv, TypeOK, StoreTypeOK,
              WindowAboveWatermark, NothingMatureHeld, HaltedIsEmpty, Matured
<1> QED BY <1>1, <1>2, <1>3, <1>4, <1>5 DEF Next

-----------------------------------------------------------------------------
(* The theorems.                                                           *)

LEMMA IInvAlways == Spec => []IInv
BY InitIInv, NextIInv, PTL DEF Spec

(* Every variable keeps its type, for every sequence of calls.             *)
THEOREM TypeCorrect == Spec => []TypeOK
<1>1. IInv => TypeOK
  BY DEF IInv
<1> QED BY <1>1, IInvAlways, PTL

(* No buffered group is ever at or below the stored position: the stored   *)
(* prefix stays gap-free whatever the live feed does.                      *)
THEOREM WatermarkSafe == Spec => []WindowAboveWatermark
<1>1. IInv => WindowAboveWatermark
  BY DEF IInv
<1> QED BY <1>1, IInvAlways, PTL

(* A group that has its confirmations is never left in the buffer.         *)
THEOREM MaturedAreFlushed == Spec => []NothingMatureHeld
<1>1. IInv => NothingMatureHeld
  BY DEF IInv
<1> QED BY <1>1, IInvAlways, PTL

(* How a step changes the Store: not at all, or by one write at a key      *)
(* above the stored position.                                              *)
LEMMA StoreSteps ==
  ASSUME IInv, [Next]_vars
  PROVE  \/ UNCHANGED storeVars
         \/ \E b \in Keys, rows \in Seq(Row) :
              /\ progress < b
              /\ write(b, rows)
              /\ \/ b <= flushed /\ UNCHANGED windowVars
                 \/ healthy /\ flushed < b /\ head >= saturating_add(b, Depth)
<1>1. ASSUME NEW key \in Keys, NEW row \in Row, settled_write(key, row)
      PROVE  \E b \in Keys, rows \in Seq(Row) :
               progress < b /\ write(b, rows) /\ b <= flushed /\ UNCHANGED windowVars
  <2>1. <<row>> \in Seq(Row)
    OBVIOUS
  <2> QED BY <1>1, <2>1 DEF settled_write
<1>2. ASSUME flush, ~UNCHANGED storeVars
      PROVE  \E b \in Keys, rows \in Seq(Row) :
               /\ progress < b /\ write(b, rows)
               /\ healthy /\ flushed < b /\ head >= saturating_add(b, Depth)
  <2>1. PICK b \in maturing :
          (\A c \in maturing : b <= c) /\ write(b, pending[b].rows)
    BY <1>2 DEF flush, failed_write
  <2> QED BY <2>1, MaturedFacts
<1>3. ASSUME NEW key \in Keys, NEW row \in Row, seed_tail(key, row) \/ record(key, row)
      PROVE  UNCHANGED storeVars
  BY <1>3 DEF seed_tail, record_seeded, record
<1>4. ASSUME NEW key \in Keys, retract(key) PROVE UNCHANGED storeVars
  BY <1>4 DEF retract
<1>5. ASSUME NEW cut \in Positions, open(cut) PROVE UNCHANGED storeVars
  BY <1>5 DEF open
<1>6. CASE UNCHANGED vars
  BY <1>6 DEF vars, storeVars
<1> QED BY <1>1, <1>2, <1>3, <1>4, <1>5, <1>6 DEF Next

(* A write touches the table at its own key only.                          *)
LEMMA WriteAt ==
  ASSUME IInv, NEW b \in Keys, NEW rows, write(b, rows), progress < b
  PROVE  /\ progress' = b
         /\ \A c \in Keys : table'[c] # table[c] => c = b
BY DEF write, insert_rows, advance_watermark, advance, IInv, TypeOK, StoreTypeOK,
       Positions, Keys, None

(* The stored position never moves back and no key at or below it is ever  *)
(* written again, over all subscriptions.                                  *)
THEOREM StoreOnlyGrows == Spec => StoreGrowsUpward
<1>1. ASSUME IInv, [Next]_vars
      PROVE  /\ progress <= progress'
             /\ \A b \in Keys : table'[b] # table[b] => progress < b /\ b <= progress'
  <2>1. progress \in Int
    BY <1>1 DEF IInv, TypeOK, StoreTypeOK, Positions, Keys, None
  <2>2. CASE UNCHANGED storeVars
    BY <2>1, <2>2 DEF storeVars
  <2>3. CASE \E b \in Keys, rows \in Seq(Row) : progress < b /\ write(b, rows)
    <3>1. PICK b \in Keys, rows \in Seq(Row) : progress < b /\ write(b, rows)
      BY <2>3
    <3> QED BY <1>1, <2>1, <3>1, WriteAt DEF Keys
  <2> QED BY <1>1, <2>2, <2>3, StoreSteps
<1> QED BY <1>1, IInvAlways, PTL DEF Spec, StoreGrowsUpward

(* A halted window writes nothing above its watermark.                     *)
THEOREM HaltIsFinal == Spec => HaltFreezesStore
<1>1. ASSUME IInv, [Next]_vars, ~healthy
      PROVE  \A b \in Keys : b > flushed => table'[b] = table[b]
  <2>1. CASE UNCHANGED storeVars
    BY <2>1 DEF storeVars
  <2>2. CASE \E b \in Keys, rows \in Seq(Row) : progress < b /\ write(b, rows) /\ b <= flushed
    <3>1. PICK b \in Keys, rows \in Seq(Row) : progress < b /\ write(b, rows) /\ b <= flushed
      BY <2>2
    <3> QED BY <1>1, <3>1, WriteAt DEF IInv, TypeOK, Keys, Positions, None
  <2> QED BY <1>1, <2>1, <2>2, StoreSteps
<1>2. IInv /\ [Next]_vars =>
        (~healthy /\ ~healthy' => \A b \in Keys : b > flushed => table'[b] = table[b])
  BY <1>1
<1> QED BY <1>2, IInvAlways, PTL DEF Spec, HaltFreezesStore

(* What the window writes has its confirmations.                           *)
THEOREM StoredIsBuried == Spec => BuriedBeforeStored
<1>1. ASSUME IInv, [Next]_vars, NEW c \in Keys, c > flushed, table'[c] # table[c]
      PROVE  head >= saturating_add(c, Depth)
  <2>1. PICK b \in Keys, rows \in Seq(Row) :
          /\ progress < b /\ write(b, rows)
          /\ b <= flushed \/ head >= saturating_add(b, Depth)
    BY <1>1, StoreSteps DEF storeVars
  <2>2. c = b
    BY <1>1, <2>1, WriteAt
  <2> QED BY <1>1, <2>1, <2>2 DEF IInv, TypeOK, Keys, Positions, None
<1>2. IInv /\ [Next]_vars =>
        \A b \in Keys : b > flushed /\ table'[b] # table[b] =>
          head >= saturating_add(b, Depth)
  BY <1>1
<1> QED BY <1>2, IInvAlways, PTL DEF Spec, BuriedBeforeStored
=============================================================================
