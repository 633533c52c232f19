------------------------- MODULE FileTransferProofs -------------------------
(***************************************************************************)
(* Proofs about FileTransfer, for any attempts, files, plans and limits,   *)
(* any chunk size and window, and any number of edits and faults.          *)
(***************************************************************************)
EXTENDS FileTransfer, TLAPS, WellFoundedInduction

-----------------------------------------------------------------------------
(* Facts about numbers and sequences                                       *)

LEMMA MinIs ==
    ASSUME NEW S, S \subseteq Nat, S # {}
    PROVE  Min(S) \in S /\ \A y \in S : Min(S) <= y
<1>. DEFINE R == OpToRel(<, Nat)
<1>1. \A x, y \in Nat : x < y => <<x, y>> \in R
  BY DEF OpToRel
<1>2. \E x \in S : \A y \in S : ~(<<y, x>> \in R)
  <2>. HIDE DEF R
  <2>1. IsWellFoundedOn(R, Nat)
    BY NatLessThanWellFounded DEF R
  <2>. QED
    BY <2>1, WFMin
<1>. HIDE DEF R
<1>3. \E x \in S : \A y \in S : x <= y
  <2>1. PICK x \in S : \A y \in S : ~(<<y, x>> \in R)
    BY <1>2
  <2>2. ASSUME NEW y \in S PROVE x <= y
    <3>1. x \in Nat /\ y \in Nat
      OBVIOUS
    <3>2. ~(y < x)
      BY <1>1, <2>1, <3>1
    <3>. QED
      BY <3>1, <3>2
  <2>. QED
    BY <2>2
<1>. QED
  BY <1>3 DEF Min

Content == Seq(Nat)

LEMMA LeastIs ==
    ASSUME NEW a \in Int, NEW b \in Int
    PROVE  Least(a, b) \in {a, b} /\ Least(a, b) <= a /\ Least(a, b) <= b
BY DEF Least

LEMMA EmptyAfter ==
    ASSUME NEW s \in Content
    PROVE  s \o <<>> = s
BY DEF Content

\* A positioned write at or before the end keeps or grows the content.
LEMMA OverwriteIs ==
    ASSUME NEW content \in Content, NEW offset \in Nat, offset <= Len(content), NEW data \in Content
    PROVE  LET new == Overwrite(content, offset, data) IN
           /\ new \in Content /\ Len(new) >= Len(content) /\ Len(new) >= offset + Len(data)
           /\ Len(new) <= Len(content) \/ Len(new) <= offset + Len(data)
           /\ offset = Len(content) => new = content \o data
<1>. DEFINE a == SubSeq(content, 1, offset)
            n == Len(content)
            b == SubSeq(content, offset + Len(data) + 1, n)
<1>1. a \in Content /\ Len(a) = offset
  BY DEF Content
<1>2. b \in Content /\ Len(b) = IF offset + Len(data) + 1 <= n THEN n - (offset + Len(data)) ELSE 0
  BY DEF Content
<1>3. Len(data) \in Nat /\ n \in Nat
  BY DEF Content
<1>4. Overwrite(content, offset, data) = a \o data \o b
  BY DEF Overwrite
<1>5. a \o data \o b \in Content /\ Len(a \o data \o b) = offset + Len(data) + Len(b)
  <2>1. a \o data \in Content /\ Len(a \o data) = offset + Len(data)
    BY <1>1 DEF Content
  <2>2. PICK c \in Content : c = a \o data
    BY <2>1
  <2>. HIDE DEF a, b
  <2>3. b \in Content
    BY <1>2
  <2>4. c \o b \in Content /\ Len(c \o b) = Len(c) + Len(b)
    BY <2>3 DEF Content
  <2>. QED
    BY <2>1, <2>2, <2>4
<1>6. ASSUME offset = n PROVE a \o data \o b = content \o data
  <2>1. a = content
    BY <1>6 DEF Content
  <2>2. b = <<>>
    BY <1>2, <1>3, <1>6 DEF Content
  <2>3. a \o data \in Content
    BY <1>1 DEF Content
  <2>. QED
    BY <2>1, <2>2, <2>3, EmptyAfter
<1>. HIDE DEF a, b
<1>7. PICK new : new = a \o data \o b
  OBVIOUS
<1>8. /\ new \in Content /\ Len(new) >= Len(content) /\ Len(new) >= offset + Len(data)
      /\ Len(new) <= Len(content) \/ Len(new) <= offset + Len(data)
  <2>. HIDE DEF n
  <2>1. Len(content) = n
    BY DEF n
  <2>2. PICK d \in Nat : d = Len(data)
    BY <1>3
  <2>3. PICK e : e = Len(b)
    OBVIOUS
  <2>4. e = IF offset + d + 1 <= n THEN n - (offset + d) ELSE 0
    BY <1>2, <2>2, <2>3
  <2>5. Len(new) = offset + d + e /\ new \in Content
    BY <1>5, <1>7, <2>2, <2>3
  <2>6. e \in Int /\ offset + d + e >= n /\ e >= 0 /\ (e > 0 => offset + d + e <= n)
    BY <1>3, <2>4
  <2>7. PICK l : l = Len(new)
    OBVIOUS
  <2>8. l >= n /\ l >= offset + d /\ (l <= n \/ l <= offset + d)
    BY <1>3, <2>5, <2>6, <2>7
  <2>. QED
    BY <2>1, <2>2, <2>5, <2>7, <2>8
<1>9. Overwrite(content, offset, data) = new /\ (offset = Len(content) => new = content \o data)
  BY <1>4, <1>6, <1>7
<1>. QED
  BY <1>8, <1>9, Zenon

-----------------------------------------------------------------------------
(* The shape of the state                                                  *)

\* A record or function with this domain, whatever it holds.
Has(r, fields) == r = [f \in fields |-> r[f]]

Resumes == UNION {[D -> Nat] : D \in SUBSET Nat}
Answer ==
    [type : {"accept"}, resume : Resumes] \cup [type : {"reject"}]
      \cup [type : {"ack"}, file : Nat, through : Nat] \cup [type : {"done"}, ok : BOOLEAN]
Chunk == [type : {"chunk"}, file : Nat, offset : Nat, data : Content]
End(c) == c.offset + Len(c.data)

IsEntry(e) == e.path \in Path /\ e.name \in Name /\ e.size \in 0 .. MaxLen /\ e.hash \in Content

IsSink(k) == Has(k, {"name", "len", "hashed"}) /\ k.name \in Name /\ k.hashed \in Content /\ k.len = Len(k.hashed)

IsSlot(s) ==
    /\ Has(s, {"size", "acked", "complete", "sink", "expected"})
    /\ IsSink(s.sink) /\ s.size \in Nat /\ s.acked = s.sink.len /\ s.complete \in BOOLEAN
    /\ s.complete => s.acked >= s.size

IsReceiver(r) ==
    /\ Has(r, {"pc", "slots", "out", "done", "aborted"})
    /\ r.done \in BOOLEAN /\ r.aborted \in BOOLEAN /\ r.out \in Seq(Answer)
    /\ Has(r.slots, DOMAIN r.slots) /\ DOMAIN r.slots \subseteq Nat
    /\ \A i \in DOMAIN r.slots : IsSlot(r.slots[i])

IsSender(s) ==
    /\ Has(s, {"pc", "files", "sent", "acked"})
    /\ DOMAIN s.files \subseteq Nat /\ \A i \in DOMAIN s.files : IsEntry(s.files[i])
    /\ Has(s.sent, DOMAIN s.files) /\ Has(s.acked, DOMAIN s.files)
    /\ \A i \in DOMAIN s.files : /\ s.sent[i] \in Nat /\ s.acked[i] \in Nat
                                 /\ s.acked[i] <= s.sent[i] /\ s.sent[i] <= s.files[i].size

-----------------------------------------------------------------------------
(* The receiver's operations                                               *)

\* What finalize_completed_files may change: slots become complete whose
\* digest is right, and the transfer is told to be over.
Finalized(R, r) ==
    /\ IsReceiver(R) /\ R.pc = r.pc /\ DOMAIN R.slots = DOMAIN r.slots
    /\ r.aborted => R.aborted
    /\ \A i \in DOMAIN r.slots :
        /\ R.slots[i].size = r.slots[i].size /\ R.slots[i].acked = r.slots[i].acked
        /\ R.slots[i].sink = r.slots[i].sink /\ R.slots[i].expected = r.slots[i].expected
        /\ R.slots[i].complete => r.slots[i].complete \/ HashOk(r.slots[i])
    /\ \/ R.out = r.out /\ R.done = r.done
       \/ R.out = Append(r.out, Done(FALSE)) /\ R.aborted
       \/ R.out = Append(r.out, Done(TRUE)) /\ \A i \in DOMAIN r.slots : R.slots[i].complete

LEMMA DoneIs == Done(TRUE) \in Answer /\ Done(FALSE) \in Answer /\ Done(TRUE) # Done(FALSE)
BY DEF Done, Answer

LEMMA AppendDone ==
    ASSUME NEW q \in Seq(Answer)
    PROVE  Append(q, Done(TRUE)) \in Seq(Answer) /\ Append(q, Done(FALSE)) \in Seq(Answer)
<1>1. PICK a \in Answer : a = Done(TRUE)
  BY DoneIs
<1>2. PICK b \in Answer : b = Done(FALSE)
  BY DoneIs
<1>3. Append(q, a) \in Seq(Answer) /\ Append(q, b) \in Seq(Answer)
  OBVIOUS
<1>. QED
  BY <1>1, <1>2, <1>3, Zenon

LEMMA CompletedSlot ==
    ASSUME NEW s, IsSlot(s), NEW b \in BOOLEAN, b => s.acked >= s.size
    PROVE  LET S == [s EXCEPT !.complete = @ \/ b] IN
           /\ IsSlot(S) /\ S.size = s.size /\ S.acked = s.acked /\ S.sink = s.sink
           /\ S.expected = s.expected /\ S.complete = (s.complete \/ b)
BY DEF IsSlot, Has

LEMMA AbortedIs ==
    ASSUME NEW r, IsReceiver(r), NEW m \in Seq(Answer)
    PROVE  LET R == [Aborted(r) EXCEPT !.out = m] IN
           IsReceiver(R) /\ R.pc = r.pc /\ R.slots = r.slots /\ R.out = m /\ R.aborted
BY DEF IsReceiver, Has, Aborted

LEMMA FinalizeIs ==
    ASSUME NEW r, IsReceiver(r)
    PROVE  Finalized(FinalizeCompleted(r), r)
<1>. DEFINE due == {i \in DOMAIN r.slots : ~r.slots[i].complete /\ r.slots[i].acked >= r.slots[i].size}
            bad == {i \in due : ~HashOk(r.slots[i])}
            good == IF bad = {} THEN due ELSE {i \in due : i < Min(bad)}
            slots == [i \in DOMAIN r.slots |-> [r.slots[i] EXCEPT !.complete = @ \/ i \in good]]
            next == [r EXCEPT !.slots = slots]
            R == FinalizeCompleted(r)
<1>1. good \subseteq due /\ \A i \in good : HashOk(r.slots[i])
  <2>1. CASE bad = {}
    BY <2>1
  <2>2. CASE bad # {}
    <3>1. bad \subseteq Nat
      BY DEF IsReceiver
    <3>2. ASSUME NEW i \in good PROVE i \notin bad
      <4>1. i \in Nat /\ i < Min(bad)
        BY <2>2 DEF IsReceiver
      <4>2. Min(bad) \in bad /\ \A j \in bad : Min(bad) <= j
        <5>. HIDE DEF bad
        <5>. QED
          BY <2>2, <3>1, MinIs
      <4>. QED
        <5>. HIDE DEF bad, good
        <5>1. PICK m \in Nat : m = Min(bad)
          BY <3>1, <4>2
        <5>. QED
          BY <4>1, <4>2, <5>1
    <3>. QED
      BY <2>2, <3>2
  <2>. QED
    BY <2>1, <2>2
<1>. HIDE DEF good
<1>2. ASSUME NEW i \in DOMAIN r.slots
      PROVE  /\ IsSlot(slots[i]) /\ slots[i].size = r.slots[i].size /\ slots[i].acked = r.slots[i].acked
             /\ slots[i].sink = r.slots[i].sink /\ slots[i].expected = r.slots[i].expected
             /\ slots[i].complete => r.slots[i].complete \/ HashOk(r.slots[i])
  <2>1. IsSlot(r.slots[i])
    BY DEF IsReceiver
  <2>2. (i \in good) \in BOOLEAN /\ (i \in good => r.slots[i].acked >= r.slots[i].size)
    BY <1>1
  <2>. QED
    BY <1>1, <2>1, <2>2, CompletedSlot, ZenonT(60)
<1>3. DOMAIN slots = DOMAIN r.slots /\ Has(slots, DOMAIN r.slots)
  BY DEF Has
<1>. HIDE DEF slots
<1>4. IsReceiver(next) /\ next.slots = slots /\ next.out = r.out /\ next.done = r.done /\ next.aborted = r.aborted /\ next.pc = r.pc
  BY <1>2, <1>3 DEF IsReceiver, Has
<1>. HIDE DEF next
<1>5. CASE bad # {}
  <2>. DEFINE m == Append(next.out, Done(FALSE))
  <2>1. m \in Seq(Answer)
    <3>1. next.out \in Seq(Answer)
      BY <1>4 DEF IsReceiver
    <3>. QED
      BY <3>1, AppendDone
  <2>2. R = [Aborted(next) EXCEPT !.out = m]
    <3>1. Aborted(next).out = next.out
      BY <1>4 DEF Aborted, IsReceiver, Has
    <3>2. R = [Aborted(next) EXCEPT !.out = Append(@, Done(FALSE))]
      BY <1>5 DEF FinalizeCompleted, next, slots, good
    <3>. QED
      BY <3>1, <3>2
  <2>. HIDE DEF m, R
  <2>3. IsReceiver(R) /\ R.pc = r.pc /\ R.slots = slots /\ R.out = m /\ R.aborted
    BY <1>4, <2>1, <2>2, AbortedIs
  <2>. QED
    BY <1>2, <1>3, <1>4, <2>3 DEF Finalized, R, m
<1>6. CASE bad = {} /\ ~r.done /\ \A i \in DOMAIN slots : slots[i].complete
  <2>. DEFINE m == Append(next.out, Done(TRUE))
  <2>1. m \in Seq(Answer)
    <3>1. next.out \in Seq(Answer)
      BY <1>4 DEF IsReceiver
    <3>. QED
      BY <3>1, AppendDone
  <2>2. R = [next EXCEPT !.done = TRUE, !.out = Append(@, Done(TRUE))]
    BY <1>6 DEF FinalizeCompleted, next, slots, good
  <2>3. R = [next EXCEPT !.done = TRUE, !.out = m]
    BY <2>2
  <2>. HIDE DEF m, R
  <2>4. IsReceiver(R) /\ R.pc = r.pc /\ R.slots = slots /\ R.out = m /\ R.aborted = r.aborted
    BY <1>4, <2>1, <2>3 DEF IsReceiver, Has
  <2>. QED
    BY <1>2, <1>3, <1>4, <1>6, <2>4 DEF Finalized, R, m
<1>7. CASE bad = {} /\ ~(~r.done /\ \A i \in DOMAIN slots : slots[i].complete)
  <2>1. R = next
    BY <1>7 DEF FinalizeCompleted, next, slots, good
  <2>. HIDE DEF R
  <2>. QED
    BY <1>2, <1>3, <1>4, <2>1 DEF Finalized, R
<1>. QED
  BY <1>5, <1>6, <1>7

LEMMA ChunkIs ==
    ASSUME NEW c \in Chunk
    PROVE  c.file \in Nat /\ c.offset \in Nat /\ c.data \in Content /\ Len(c.data) \in Nat /\ c.type = "chunk"
BY DEF Chunk, Content

LEMMA AckIs ==
    ASSUME NEW i \in Nat, NEW n \in Nat
    PROVE  Ack(i, n) \in Answer /\ <<Ack(i, n)>> \in Seq(Answer) /\ Ack(i, n) # Done(TRUE)
BY DEF Ack, Answer, Done

LEMMA StoredIs ==
    ASSUME NEW s, IsSlot(s), NEW c \in Chunk, ~s.complete, c.offset = s.acked, NEW S, S = Stored(s, c)
    PROVE  /\ IsSlot(S) /\ S.size = s.size /\ S.expected = s.expected /\ ~S.complete
           /\ S.acked = c.offset + Len(c.data) /\ S.sink.name = s.sink.name
           /\ S.sink.hashed = s.sink.hashed \o c.data
<1>. DEFINE k == SinkWrite(s.sink, c.data)
<1>1. c.data \in Content /\ s.sink.hashed \in Content /\ Len(s.sink.hashed) = s.acked /\ s.sink.len = s.acked
  BY ChunkIs DEF IsSlot, IsSink
<1>2. s.sink.hashed \o c.data \in Content /\ Len(s.sink.hashed \o c.data) = s.acked + Len(c.data)
  <2>1. PICK a \in Content : a = s.sink.hashed
    BY <1>1
  <2>2. PICK b \in Content : b = c.data
    BY <1>1
  <2>3. a \o b \in Content /\ Len(a \o b) = Len(a) + Len(b)
    BY DEF Content
  <2>. QED
    BY <1>1, <2>1, <2>2, <2>3
<1>3. /\ Has(k, {"name", "len", "hashed"}) /\ k.name = s.sink.name /\ k.hashed = s.sink.hashed \o c.data
      /\ k.len = s.acked + Len(c.data)
  BY <1>1 DEF SinkWrite, IsSlot, IsSink, Has
<1>4. IsSink(k)
  BY <1>2, <1>3 DEF IsSlot, IsSink
<1>. HIDE DEF k
<1>5. S = [s EXCEPT !.acked = c.offset + Len(c.data), !.sink = k]
  BY DEF Stored, k
<1>6. /\ Has(S, {"size", "acked", "complete", "sink", "expected"}) /\ S.sink = k
      /\ S.acked = c.offset + Len(c.data) /\ S.size = s.size /\ S.expected = s.expected /\ S.complete = s.complete
  BY <1>5 DEF IsSlot, Has
<1>7. IsSlot(S)
  BY <1>3, <1>4, <1>6 DEF IsSlot
<1>. QED
  BY <1>3, <1>6, <1>7

\* The receiver after chunk c continued the prefix of its slot.
Taken(r, c) ==
    [r EXCEPT !.slots = [@ EXCEPT ![c.file] = Stored(r.slots[c.file], c)],
              !.out = <<Ack(c.file, c.offset + Len(c.data))>>]

LEMMA TakenIs ==
    ASSUME NEW r, IsReceiver(r), NEW c \in Chunk, c.file \in DOMAIN r.slots,
           ~r.slots[c.file].complete, c.offset = r.slots[c.file].acked, NEW R, R = Taken(r, c)
    PROVE  /\ IsReceiver(R) /\ DOMAIN R.slots = DOMAIN r.slots /\ R.pc = r.pc
           /\ R.done = r.done /\ R.aborted = r.aborted
           /\ R.out = <<Ack(c.file, c.offset + Len(c.data))>>
           /\ R.slots[c.file] = Stored(r.slots[c.file], c)
           /\ \A i \in DOMAIN r.slots \ {c.file} : R.slots[i] = r.slots[i]
<1>. DEFINE S == Stored(r.slots[c.file], c)
            f == [r.slots EXCEPT ![c.file] = S]
            out == <<Ack(c.file, c.offset + Len(c.data))>>
<1>1. IsSlot(S)
  BY StoredIs DEF IsReceiver
<1>2. out \in Seq(Answer)
  <2>1. c.file \in Nat /\ c.offset + Len(c.data) \in Nat
    BY ChunkIs
  <2>. QED
    BY <2>1, AckIs
<1>3. R = [r EXCEPT !.slots = f, !.out = out]
  BY DEF Taken
<1>. HIDE DEF S, out
<1>4. DOMAIN f = DOMAIN r.slots /\ Has(f, DOMAIN r.slots) /\ f[c.file] = S /\ \A i \in DOMAIN r.slots \ {c.file} : f[i] = r.slots[i]
  BY DEF IsReceiver, Has
<1>5. \A i \in DOMAIN r.slots : IsSlot(f[i])
  BY <1>1, <1>4 DEF IsReceiver
<1>. HIDE DEF f
<1>6. /\ Has(R, {"pc", "slots", "out", "done", "aborted"}) /\ R.slots = f /\ R.out = out
      /\ R.done = r.done /\ R.aborted = r.aborted /\ R.pc = r.pc
  BY <1>3 DEF IsReceiver, Has
<1>7. IsReceiver(R)
  BY <1>2, <1>4, <1>5, <1>6 DEF IsReceiver
<1>. QED
  BY <1>4, <1>6, <1>7 DEF S, out

Extends(new, old, data) == new = old \o data

LEMMA TakenSlot ==
    ASSUME NEW r, IsReceiver(r), NEW c \in Chunk, c.file \in DOMAIN r.slots,
           ~r.slots[c.file].complete, c.offset = r.slots[c.file].acked, NEW R, R = Taken(r, c)
    PROVE  /\ R.slots[c.file].size = r.slots[c.file].size /\ R.slots[c.file].expected = r.slots[c.file].expected
           /\ R.slots[c.file].acked = End(c) /\ R.slots[c.file].sink.name = r.slots[c.file].sink.name
           /\ ~R.slots[c.file].complete /\ Extends(R.slots[c.file].sink.hashed, r.slots[c.file].sink.hashed, c.data)
<1>1. R.slots[c.file] = Stored(r.slots[c.file], c)
  BY TakenIs
<1>2. PICK z : z = r.slots[c.file]
  OBVIOUS
<1>3. PICK Z : Z = Stored(z, c)
  OBVIOUS
<1>4. IsSlot(z) /\ ~z.complete /\ c.offset = z.acked
  BY <1>2 DEF IsReceiver
<1>5. /\ Z.size = z.size /\ Z.expected = z.expected /\ ~Z.complete
      /\ Z.acked = c.offset + Len(c.data) /\ Z.sink.name = z.sink.name
      /\ Z.sink.hashed = z.sink.hashed \o c.data
  BY <1>3, <1>4, StoredIs
<1>6. R.slots[c.file] = Z
  BY <1>1, <1>2, <1>3
<1>. QED
  BY <1>2, <1>5, <1>6 DEF End, Extends

\* A chunk is re-acknowledged, aborts the transfer, or is stored where the
\* prefix of its slot ends.
LEMMA OnChunkIs ==
    ASSUME NEW r, IsReceiver(r), ~r.aborted, NEW c \in Chunk, c.file \in DOMAIN r.slots,
           NEW o, o = OnChunk(r, c)
    PROVE  \/ /\ ~o.store /\ IsReceiver(o.r) /\ o.r.slots = r.slots /\ o.r.pc = r.pc
              /\ \/ o.r.out = <<Ack(c.file, r.slots[c.file].acked)>> /\ o.r.done = r.done /\ ~o.r.aborted
                 \/ o.r.out = <<Done(FALSE)>> /\ o.r.aborted
              /\ \/ r.slots[c.file].complete \/ c.offset # r.slots[c.file].acked
                 \/ c.offset + Len(c.data) > r.slots[c.file].size
           \/ /\ o.store /\ ~r.slots[c.file].complete /\ c.offset = r.slots[c.file].acked
              /\ ~(c.offset + Len(c.data) > r.slots[c.file].size)
              /\ Finalized(o.r, Taken(r, c))
<1>. DEFINE s == r.slots[c.file]
            end == c.offset + Len(c.data)
            reack == [r EXCEPT !.out = <<Ack(c.file, s.acked)>>]
<1>1. IsSlot(s) /\ s.acked \in Nat
  BY DEF IsReceiver, IsSlot, IsSink, Content
<1>2. IsReceiver(reack) /\ reack.slots = r.slots /\ reack.pc = r.pc /\ reack.done = r.done /\ reack.aborted = r.aborted
        /\ reack.out = <<Ack(c.file, s.acked)>>
  <2>. DEFINE m == <<Ack(c.file, s.acked)>>
  <2>1. m \in Seq(Answer)
    BY <1>1, ChunkIs, AckIs
  <2>2. reack = [r EXCEPT !.out = m]
    OBVIOUS
  <2>. HIDE DEF m, reack
  <2>3. IsReceiver(reack) /\ reack.slots = r.slots /\ reack.pc = r.pc /\ reack.done = r.done /\ reack.aborted = r.aborted /\ reack.out = m
    BY <2>1, <2>2 DEF IsReceiver, Has
  <2>. QED
    BY <2>3 DEF m
<1>3. CASE s.complete
  <2>. HIDE DEF reack
  <2>1. o.store = FALSE /\ o.r = reack
    BY <1>3 DEF OnChunk, reack
  <2>. QED
    BY <1>2, <1>3, <2>1
<1>4. CASE ~s.complete /\ end > s.size
  <2>1. o.store = FALSE /\ o.r = [Aborted(r) EXCEPT !.out = <<Done(FALSE)>>]
    BY <1>4 DEF OnChunk
  <2>2. <<Done(FALSE)>> \in Seq(Answer)
    <3>1. PICK d \in Answer : d = Done(FALSE)
      BY DoneIs
    <3>2. <<d>> \in Seq(Answer)
      OBVIOUS
    <3>. QED
      BY <3>1, <3>2, Zenon
  <2>3. PICK m \in Seq(Answer) : m = <<Done(FALSE)>>
    BY <2>2
  <2>4. o.r = [Aborted(r) EXCEPT !.out = m]
    BY <2>1, <2>3
  <2>5. IsReceiver(o.r) /\ o.r.pc = r.pc /\ o.r.slots = r.slots /\ o.r.out = m /\ o.r.aborted
    BY <2>4, AbortedIs
  <2>. QED
    BY <1>4, <2>1, <2>3, <2>5
<1>5. CASE ~s.complete /\ ~(end > s.size) /\ c.offset # s.acked
  <2>. HIDE DEF reack
  <2>1. o.store = FALSE /\ o.r = reack
    BY <1>5 DEF OnChunk, reack
  <2>. QED
    BY <1>2, <1>5, <2>1
<1>6. CASE ~s.complete /\ ~(end > s.size) /\ c.offset = s.acked
  <2>1. o.store = TRUE /\ o.r = FinalizeCompleted(Taken(r, c))
    BY <1>6 DEF OnChunk, Taken
  <2>2. PICK R : R = Taken(r, c)
    OBVIOUS
  <2>3. IsReceiver(R)
    BY <1>6, <2>2, TakenIs
  <2>4. Finalized(o.r, R)
    BY <2>1, <2>2, <2>3, FinalizeIs
  <2>. QED
    BY <1>6, <2>1, <2>2, <2>4
<1>. QED
  BY <1>3, <1>4, <1>5, <1>6

\* A slot opened for an entry continues what the quarantine holds.
LEMMA SlotIs ==
    ASSUME NEW e, IsEntry(e), disk[e.name] \in Content, NEW s, s = Slot(e)
    PROVE  /\ IsSlot(s) /\ s.size = e.size /\ s.expected = e.hash /\ ~s.complete
           /\ s.sink.name = e.name /\ s.sink.hashed = disk[e.name] /\ s.acked = Len(disk[e.name])
<1>. DEFINE k == OpenSink(e.name)
<1>1. Has(k, {"name", "len", "hashed"}) /\ k.name = e.name /\ k.hashed = disk[e.name] /\ k.len = Len(disk[e.name])
  BY DEF OpenSink, Has
<1>2. IsSink(k)
  BY <1>1 DEF IsSink, IsEntry
<1>. HIDE DEF k
<1>3. s = [size |-> e.size, acked |-> k.len, complete |-> FALSE, sink |-> k, expected |-> e.hash]
  BY DEF Slot, k
<1>4. Has(s, {"size", "acked", "complete", "sink", "expected"}) /\ s.sink = k /\ s.size = e.size /\ s.acked = k.len
        /\ s.complete = FALSE /\ s.expected = e.hash
  BY <1>3 DEF Has
<1>5. e.size \in Nat
  BY LimitsAreNatural DEF IsEntry
<1>6. IsSlot(s)
  BY <1>2, <1>4, <1>5 DEF IsSlot
<1>. QED
  BY <1>1, <1>4, <1>6

\* Accepting an offer rejects it whole, or opens a slot per entry and then
\* finalizes those already held.
LEMMA AcceptIs ==
    ASSUME NEW files, DOMAIN files \subseteq Nat, \A i \in DOMAIN files : IsEntry(files[i]) /\ disk[files[i].name] \in Content,
           NEW R, R = AcceptOffer(files)
    PROVE  \/ IsReceiver(R) /\ R.pc = "open" /\ R.aborted /\ R.slots = <<>> /\ R.out = <<[type |-> "reject"]>>
           \/ \E r : /\ Finalized(R, r) /\ IsReceiver(r) /\ r.pc = "open" /\ ~r.aborted /\ ~r.done
                     /\ DOMAIN r.slots = DOMAIN files /\ \A i \in DOMAIN files : r.slots[i] = Slot(files[i])
                     /\ \A i \in DOMAIN files : r.slots[i].acked <= r.slots[i].size
                     /\ r.out = <<[type |-> "accept", resume |-> ResumePoints(r.slots)]>>
<1>. DEFINE slots == [i \in DOMAIN files |-> Slot(files[i])]
            m == [type |-> "accept", resume |-> ResumePoints(slots)]
            r == [NoReceiver EXCEPT !.pc = "open", !.slots = slots, !.out = <<m>>]
<1>1. CASE R = Rejected
  <2>. DEFINE w == [type |-> "reject"]
  <2>1. w \in Answer
    BY DEF Answer
  <2>2. <<w>> \in Seq(Answer)
    BY <2>1
  <2>. HIDE DEF w
  <2>3. Rejected = [NoReceiver EXCEPT !.pc = "open", !.aborted = TRUE, !.done = TRUE, !.out = <<w>>]
    BY DEF Rejected, w
  <2>4. Has(R, {"pc", "slots", "out", "done", "aborted"}) /\ R.pc = "open" /\ R.aborted = TRUE /\ R.done = TRUE
          /\ R.slots = <<>> /\ R.out = <<w>>
    BY <1>1, <2>3 DEF NoReceiver, Has
  <2>5. Has(<<>>, DOMAIN <<>>) /\ DOMAIN <<>> = {}
    BY DEF Has
  <2>6. IsReceiver(R)
    BY <2>2, <2>4, <2>5 DEF IsReceiver
  <2>. QED
    BY <2>4, <2>6 DEF w
<1>2. CASE R # Rejected
  <2>1. R = FinalizeCompleted(r) /\ ~\E i \in DOMAIN slots : slots[i].acked > slots[i].size
    BY <1>2 DEF AcceptOffer
  <2>2. DOMAIN slots = DOMAIN files /\ Has(slots, DOMAIN slots) /\ \A i \in DOMAIN files : slots[i] = Slot(files[i])
    BY DEF Has
  <2>3. \A i \in DOMAIN files : IsSlot(slots[i]) /\ slots[i].acked \in Nat /\ slots[i].size \in Nat
    BY <2>2, SlotIs DEF IsSlot, IsSink, Content
  <2>. HIDE DEF slots
  <2>4. ResumePoints(slots) \in Resumes
    <3>. DEFINE D == {j \in DOMAIN slots : slots[j].acked > 0}
    <3>1. ResumePoints(slots) = [i \in D |-> slots[i].acked]
      BY DEF ResumePoints
    <3>2. D \in SUBSET Nat /\ \A i \in D : slots[i].acked \in Nat
      BY <2>2, <2>3
    <3>. HIDE DEF D
    <3>3. ResumePoints(slots) \in [D -> Nat]
      BY <3>1, <3>2
    <3>. QED
      BY <3>2, <3>3 DEF Resumes
  <2>5. <<m>> \in Seq(Answer)
    <3>1. m \in Answer
      BY <2>4 DEF Answer
    <3>. HIDE DEF m
    <3>. QED
      BY <3>1
  <2>. HIDE DEF m
  <2>6. Has(r, {"pc", "slots", "out", "done", "aborted"}) /\ r.pc = "open" /\ r.slots = slots /\ r.out = <<m>>
          /\ r.done = FALSE /\ r.aborted = FALSE
    BY DEF NoReceiver, Has
  <2>. HIDE DEF r
  <2>7. IsReceiver(r)
    BY <2>2, <2>3, <2>5, <2>6 DEF IsReceiver
  <2>8. Finalized(R, r)
    BY <2>1, <2>7, FinalizeIs
  <2>9. \A i \in DOMAIN files : r.slots[i].acked <= r.slots[i].size
    BY <2>1, <2>2, <2>3, <2>6
  <2>. QED
    BY <2>2, <2>6, <2>7, <2>8, <2>9 DEF m
<1>. QED
  BY <1>1, <1>2

-----------------------------------------------------------------------------
(* The sender's operations                                                 *)

SourcesOk == Has(src, Path) /\ \A p \in Path : src[p] \in Content /\ Len(src[p]) <= MaxLen

LEMMA SenderIs ==
    ASSUME SourcesOk, NEW plan \in Plans, NEW s, s = Sender(plan)
    PROVE  /\ IsSender(s) /\ s.pc = "offered" /\ DOMAIN s.files = DOMAIN plan
           /\ \A i \in DOMAIN s.files : s.sent[i] = 0 /\ s.acked[i] = 0
<1>. DEFINE files == PrepareSources(plan)
            zero == [i \in DOMAIN plan |-> 0]
<1>1. plan \in Seq(Path) /\ DOMAIN plan \subseteq Nat
  BY PlansAreOfPaths
<1>2. DOMAIN files = DOMAIN plan
  BY DEF PrepareSources
<1>3. ASSUME NEW i \in DOMAIN plan PROVE IsEntry(files[i])
  <2>1. plan[i] \in Path
    BY <1>1
  <2>2. src[plan[i]] \in Content /\ Len(src[plan[i]]) \in 0 .. MaxLen
    BY <2>1, LimitsAreNatural DEF SourcesOk, Content
  <2>3. FileName[plan[i]] \in Name
    BY <2>1, PlansAreOfPaths
  <2>. QED
    BY <2>1, <2>2, <2>3 DEF PrepareSources, IsEntry
<1>4. \A i \in DOMAIN plan : files[i].size \in Nat
  BY <1>3, LimitsAreNatural DEF IsEntry
<1>. HIDE DEF files
<1>5. s = [pc |-> "offered", files |-> files, sent |-> zero, acked |-> zero]
  BY DEF Sender, files
<1>6. DOMAIN zero = DOMAIN plan /\ Has(zero, DOMAIN plan) /\ \A i \in DOMAIN plan : zero[i] = 0
  BY DEF Has
<1>. HIDE DEF zero
<1>7. Has(s, {"pc", "files", "sent", "acked"}) /\ s.pc = "offered" /\ s.files = files /\ s.sent = zero /\ s.acked = zero
  BY <1>5 DEF Has
<1>8. IsSender(s)
  BY <1>1, <1>2, <1>3, <1>4, <1>6, <1>7 DEF IsSender
<1>. QED
  BY <1>2, <1>6, <1>7, <1>8

LEMMA OnAcceptIs ==
    ASSUME NEW s, IsSender(s), NEW resume \in Resumes, ResumeIsValid(s, resume), NEW S, S = OnAccept(s, resume)
    PROVE  /\ IsSender(S) /\ S.pc = "sending" /\ S.files = s.files
           /\ \A i \in DOMAIN s.files :
                 /\ i \in DOMAIN resume => S.sent[i] = resume[i] /\ S.acked[i] = resume[i]
                 /\ i \notin DOMAIN resume => S.sent[i] = s.sent[i] /\ S.acked[i] = s.acked[i]
<1>. DEFINE start(old) == [i \in DOMAIN old |-> IF i \in DOMAIN resume THEN resume[i] ELSE old[i]]
            f == start(s.sent)
            g == start(s.acked)
<1>1. DOMAIN s.sent = DOMAIN s.files /\ DOMAIN s.acked = DOMAIN s.files
  BY DEF IsSender, Has
<1>2. /\ Has(f, DOMAIN s.files) /\ Has(g, DOMAIN s.files)
      /\ \A i \in DOMAIN s.files : /\ f[i] = IF i \in DOMAIN resume THEN resume[i] ELSE s.sent[i]
                                   /\ g[i] = IF i \in DOMAIN resume THEN resume[i] ELSE s.acked[i]
  BY <1>1 DEF Has
<1>3. S = [s EXCEPT !.pc = "sending", !.sent = f, !.acked = g]
  BY DEF OnAccept
<1>. HIDE DEF f, g
<1>4. Has(S, {"pc", "files", "sent", "acked"}) /\ S.pc = "sending" /\ S.files = s.files /\ S.sent = f /\ S.acked = g
  BY <1>3 DEF IsSender, Has
<1>5. \A i \in DOMAIN resume : resume[i] \in Nat /\ resume[i] <= s.files[i].size
  BY DEF Resumes, ResumeIsValid
<1>6. ASSUME NEW i \in DOMAIN s.files
      PROVE  f[i] \in Nat /\ g[i] \in Nat /\ g[i] <= f[i] /\ f[i] <= s.files[i].size
  BY <1>2, <1>5 DEF IsSender
<1>7. IsSender(S)
  BY <1>2, <1>4, <1>6 DEF IsSender
<1>. QED
  BY <1>2, <1>4, <1>7

LEMMA OnAckIs ==
    ASSUME NEW s, IsSender(s), NEW m, m.file \in DOMAIN s.files, m.through \in Nat, AckIsValid(s, m),
           NEW S, S = OnAck(s, m)
    PROVE  /\ IsSender(S) /\ S.pc = s.pc /\ S.files = s.files /\ S.sent = s.sent
           /\ \A i \in DOMAIN s.files : S.acked[i] = s.acked[i] \/ (i = m.file /\ S.acked[i] = m.through)
<1>. DEFINE g == [s.acked EXCEPT ![m.file] = IF m.through > @ THEN m.through ELSE @]
<1>1. DOMAIN s.acked = DOMAIN s.files /\ Has(s.acked, DOMAIN s.files)
  BY DEF IsSender, Has
<1>2. /\ Has(g, DOMAIN s.files)
      /\ \A i \in DOMAIN s.files : g[i] = s.acked[i] \/ (i = m.file /\ g[i] = m.through)
  BY <1>1 DEF Has
<1>3. S = [s EXCEPT !.acked = g]
  BY DEF OnAck
<1>. HIDE DEF g
<1>4. Has(S, {"pc", "files", "sent", "acked"}) /\ S.pc = s.pc /\ S.files = s.files /\ S.sent = s.sent /\ S.acked = g
  BY <1>3 DEF IsSender, Has
<1>5. ASSUME NEW i \in DOMAIN s.files PROVE g[i] \in Nat /\ g[i] <= s.sent[i]
  BY <1>2 DEF IsSender, AckIsValid
<1>6. IsSender(S)
  BY <1>2, <1>4, <1>5 DEF IsSender
<1>. QED
  BY <1>2, <1>4, <1>6

LEMMA ReadAtIs ==
    ASSUME NEW content \in Content, NEW offset \in Nat, NEW want \in Nat
    PROVE  ReadAt(content, offset, want) \in Content /\ Len(ReadAt(content, offset, want)) <= want
<1>. DEFINE n == Least(offset + want, Len(content))
<1>1. n \in Nat /\ n <= offset + want /\ n <= Len(content)
  BY LeastIs DEF Content
<1>2. ReadAt(content, offset, want) = SubSeq(content, offset + 1, n)
  BY DEF ReadAt
<1>. HIDE DEF n
<1>3. SubSeq(content, offset + 1, n) \in Content
      /\ Len(SubSeq(content, offset + 1, n)) = IF offset + 1 <= n THEN n - offset ELSE 0
  BY <1>1 DEF Content
<1>. QED
  BY <1>1, <1>2, <1>3

LEMMA PollChunkIs ==
    ASSUME SourcesOk, NEW s, IsSender(s), Sendable(s) # {}, NEW c, c = PollChunk(s)
    PROVE  /\ c \in Chunk /\ c.file \in DOMAIN s.files /\ c.offset = s.sent[c.file]
           /\ c.offset + Len(c.data) <= s.files[c.file].size
<1>1. PICK i \in Sendable(s) : i = Min(Sendable(s))
  <2>1. Sendable(s) \subseteq Nat
    BY DEF Sendable, IsSender
  <2>. QED
    BY <2>1, MinIs
<1>2. /\ i \in DOMAIN s.files /\ i \in Nat /\ s.sent[i] < s.files[i].size /\ s.sent[i] - s.acked[i] < Window
      /\ s.sent[i] \in Nat /\ s.acked[i] \in Nat /\ s.acked[i] <= s.sent[i] /\ IsEntry(s.files[i])
  BY DEF Sendable, IsSender
<1>. DEFINE want == Least(ChunkSize, Least(Window - (s.sent[i] - s.acked[i]), s.files[i].size - s.sent[i]))
            d == ReadAt(src[s.files[i].path], s.sent[i], want)
<1>3. want \in Nat /\ want <= s.files[i].size - s.sent[i]
  <2>1. PICK a \in Nat : a = Window - (s.sent[i] - s.acked[i])
    BY <1>2, LimitsAreNatural
  <2>2. PICK b \in Nat : b = s.files[i].size - s.sent[i]
    BY <1>2, LimitsAreNatural DEF IsEntry
  <2>3. ChunkSize \in Nat
    BY LimitsAreNatural
  <2>4. Least(a, b) \in Nat /\ Least(a, b) <= b
    BY LeastIs
  <2>5. Least(ChunkSize, Least(a, b)) \in Nat /\ Least(ChunkSize, Least(a, b)) <= Least(a, b)
    BY <2>3, <2>4, LeastIs
  <2>. QED
    BY <2>1, <2>2, <2>4, <2>5
<1>. HIDE DEF want
<1>4. src[s.files[i].path] \in Content
  BY <1>2 DEF SourcesOk, IsEntry
<1>5. d \in Content /\ Len(d) \in Nat /\ Len(d) <= want
  <2>1. PICK content \in Content : content = src[s.files[i].path]
    BY <1>4
  <2>2. PICK offset \in Nat : offset = s.sent[i]
    BY <1>2
  <2>3. d = ReadAt(content, offset, want)
    BY <2>1, <2>2
  <2>. HIDE DEF d
  <2>4. d \in Content /\ Len(d) <= want
    BY <1>3, <2>3, ReadAtIs
  <2>. QED
    BY <2>4 DEF Content
<1>. HIDE DEF d
<1>6. c = [type |-> "chunk", file |-> i, offset |-> s.sent[i], data |-> d]
  BY <1>1 DEF PollChunk, d, want
<1>7. c \in Chunk /\ c.file = i /\ c.offset = s.sent[i] /\ c.data = d
  BY <1>2, <1>5, <1>6 DEF Chunk
<1>8. s.sent[i] + Len(d) <= s.files[i].size
  <2>1. s.files[i].size \in Nat
    BY <1>2, LimitsAreNatural DEF IsEntry
  <2>. QED
    BY <1>2, <1>3, <1>5, <2>1
<1>. QED
  BY <1>2, <1>7, <1>8

-----------------------------------------------------------------------------
(* Chunks on their way                                                     *)

Of(q, i) == {k \in 1 .. Len(q) : q[k].file = i}

\* The chunks of file i in q lead from a to b without a gap or an overlap.
Chain(q, i, a, b) ==
    /\ a <= b
    /\ \A k \in Of(q, i) : a <= q[k].offset /\ q[k].offset < End(q[k]) /\ End(q[k]) <= b
    /\ \A k, l \in Of(q, i) : k < l => End(q[k]) <= q[l].offset
    /\ \A k \in Of(q, i) : q[k].offset = a \/ \E j \in Of(q, i) : j < k /\ End(q[j]) = q[k].offset
    /\ a = b \/ \E k \in Of(q, i) : End(q[k]) = b

LEMMA ChunksTail ==
    ASSUME NEW q \in Seq(Chunk), q # <<>>
    PROVE  /\ Tail(q) \in Seq(Chunk) /\ Len(Tail(q)) = Len(q) - 1 /\ Len(q) \in Nat /\ Len(q) > 0
           /\ Head(q) = q[1] /\ Head(q) \in Chunk
           /\ \A j \in 1 .. Len(Tail(q)) : Tail(q)[j] = q[j + 1]
OBVIOUS

LEMMA ChunksAppend ==
    ASSUME NEW q \in Seq(Chunk), NEW c \in Chunk
    PROVE  /\ Append(q, c) \in Seq(Chunk) /\ Len(Append(q, c)) = Len(q) + 1 /\ Len(q) \in Nat
           /\ Append(q, c)[Len(q) + 1] = c
           /\ \A j \in 1 .. Len(q) : Append(q, c)[j] = q[j]
OBVIOUS

LEMMA EndIs ==
    ASSUME NEW q \in Seq(Chunk), NEW k \in 1 .. Len(q)
    PROVE  q[k] \in Chunk /\ q[k].offset \in Nat /\ End(q[k]) \in Nat /\ Len(q[k].data) \in Nat
BY ChunkIs DEF End

LEMMA ChainEmpty ==
    ASSUME NEW i, NEW a \in Nat
    PROVE  Chain(<<>>, i, a, a)
BY DEF Chain, Of

LEMMA ChainAppend ==
    ASSUME NEW q \in Seq(Chunk), NEW i, NEW a \in Nat, NEW b \in Nat, Chain(q, i, a, b),
           NEW c \in Chunk, c.file = i, c.offset = b, c.data # <<>>
    PROVE  Chain(Append(q, c), i, a, End(c))
<1>. DEFINE n == Len(q) + 1
            e == End(c)
<1>1. PICK w : w = Append(q, c)
  OBVIOUS
<1>2. Len(w) = n /\ Len(q) \in Nat /\ w[n] = c /\ (\A j \in 1 .. Len(q) : w[j] = q[j]) /\ n \in Nat
  BY <1>1, ChunksAppend
<1>3. e \in Nat /\ b < e
  <2>1. Len(c.data) \in Nat /\ Len(c.data) # 0
    BY ChunkIs DEF Content
  <2>. QED
    BY <2>1 DEF End
<1>4. Of(w, i) = Of(q, i) \cup {n} /\ n \notin Of(q, i)
  BY <1>2 DEF Of
<1>5. \A k \in Of(q, i) : /\ k \in Nat /\ k < n /\ w[k] = q[k]
                          /\ q[k].offset \in Nat /\ End(q[k]) \in Nat
  BY <1>2, EndIs DEF Of
<1>. HIDE DEF n, e
<1>6. End(w[n]) = e /\ w[n].offset = b
  BY <1>2 DEF e
<1>7. a <= e
  BY <1>3 DEF Chain
<1>8. \A k \in Of(w, i) : a <= w[k].offset /\ w[k].offset < End(w[k]) /\ End(w[k]) <= e
  BY <1>3, <1>4, <1>5, <1>6 DEF Chain
<1>9. \A k, l \in Of(w, i) : k < l => End(w[k]) <= w[l].offset
  <2>. SUFFICES ASSUME NEW k \in Of(w, i), NEW l \in Of(w, i), k < l PROVE End(w[k]) <= w[l].offset
    OBVIOUS
  <2>1. k # n
    BY <1>2, <1>4, <1>5
  <2>2. CASE l = n
    BY <1>4, <1>5, <1>6, <2>1, <2>2 DEF Chain
  <2>3. CASE l # n
    BY <1>4, <1>5, <2>1, <2>3 DEF Chain
  <2>. QED
    BY <2>2, <2>3
<1>10. \A k \in Of(w, i) : w[k].offset = a \/ \E j \in Of(w, i) : j < k /\ End(w[j]) = w[k].offset
  <2>1. ASSUME NEW k \in Of(q, i) PROVE w[k].offset = a \/ \E j \in Of(w, i) : j < k /\ End(w[j]) = w[k].offset
    BY <1>4, <1>5 DEF Chain
  <2>2. w[n].offset = a \/ \E j \in Of(w, i) : j < n /\ End(w[j]) = w[n].offset
    BY <1>4, <1>5, <1>6 DEF Chain
  <2>. QED
    BY <1>4, <2>1, <2>2
<1>11. \E k \in Of(w, i) : End(w[k]) = e
  BY <1>4, <1>6
<1>. QED
  BY <1>1, <1>7, <1>8, <1>9, <1>10, <1>11 DEF Chain, e

LEMMA ChainAppendOther ==
    ASSUME NEW q \in Seq(Chunk), NEW i, NEW a \in Nat, NEW b \in Nat, Chain(q, i, a, b),
           NEW c \in Chunk, c.file # i
    PROVE  Chain(Append(q, c), i, a, b)
<1>1. PICK w : w = Append(q, c)
  OBVIOUS
<1>2. Len(w) = Len(q) + 1 /\ Len(q) \in Nat /\ w[Len(q) + 1] = c /\ (\A j \in 1 .. Len(q) : w[j] = q[j])
  BY <1>1, ChunksAppend
<1>3. Of(w, i) = Of(q, i)
  BY <1>2 DEF Of
<1>4. \A k \in Of(q, i) : w[k] = q[k]
  BY <1>2 DEF Of
<1>. QED
  BY <1>1, <1>3, <1>4 DEF Chain

LEMMA ChainTail ==
    ASSUME NEW q \in Seq(Chunk), q # <<>>, NEW i, NEW a \in Nat, NEW b \in Nat, Chain(q, i, a, b), q[1].file = i
    PROVE  /\ q[1].offset = a /\ a < End(q[1]) /\ End(q[1]) <= b
           /\ Chain(Tail(q), i, End(q[1]), b)
<1>1. PICK w : w = Tail(q)
  OBVIOUS
<1>2. Len(w) = Len(q) - 1 /\ Len(q) \in Nat /\ Len(q) > 0 /\ (\A j \in 1 .. Len(w) : w[j] = q[j + 1])
  BY <1>1, ChunksTail
<1>3. \A k \in Of(q, i) : k \in Nat /\ k >= 1 /\ q[k].offset \in Nat /\ End(q[k]) \in Nat
  BY EndIs DEF Of
<1>4. 1 \in Of(q, i)
  BY <1>2 DEF Of
<1>5. \A k \in Of(w, i) : k \in Nat /\ k >= 1 /\ k + 1 \in Of(q, i) /\ w[k] = q[k + 1]
  BY <1>2 DEF Of
<1>6. \A k \in Of(q, i) \ {1} : k - 1 \in Of(w, i) /\ w[k - 1] = q[k]
  BY <1>2 DEF Of
<1>7. PICK e \in Nat : e = End(q[1])
  BY <1>3, <1>4
<1>8. q[1].offset = a /\ a < e /\ e <= b
  BY <1>3, <1>4, <1>7 DEF Chain
<1>9. \A k \in Of(w, i) : e <= w[k].offset /\ w[k].offset < End(w[k]) /\ End(w[k]) <= b
  BY <1>3, <1>4, <1>5, <1>7 DEF Chain
<1>10. \A k, l \in Of(w, i) : k < l => End(w[k]) <= w[l].offset
  BY <1>5 DEF Chain
<1>11. ASSUME NEW k \in Of(w, i)
       PROVE  w[k].offset = e \/ \E j \in Of(w, i) : j < k /\ End(w[j]) = w[k].offset
  <2>1. k + 1 \in Of(q, i) /\ w[k] = q[k + 1] /\ k \in Nat
    BY <1>5
  <2>2. e <= w[k].offset /\ w[k].offset \in Nat
    BY <1>3, <1>9, <2>1
  <2>3. PICK j \in Of(q, i) : j < k + 1 /\ End(q[j]) = q[k + 1].offset
    BY <1>8, <2>1, <2>2 DEF Chain
  <2>4. CASE j = 1
    BY <1>7, <2>1, <2>3, <2>4
  <2>5. CASE j # 1
    <3>1. j - 1 \in Of(w, i) /\ w[j - 1] = q[j] /\ j - 1 < k
      BY <1>3, <1>6, <2>1, <2>3, <2>5
    <3>. QED
      BY <2>1, <2>3, <3>1
  <2>. QED
    BY <2>4, <2>5
<1>12. e = b \/ \E k \in Of(w, i) : End(w[k]) = b
  <2>1. PICK k \in Of(q, i) : End(q[k]) = b
    BY <1>8 DEF Chain
  <2>2. CASE k = 1
    BY <1>7, <2>1, <2>2
  <2>3. CASE k # 1
    BY <1>6, <2>1, <2>3
  <2>. QED
    BY <2>2, <2>3
<1>13. Chain(w, i, e, b)
  BY <1>8, <1>9, <1>10, <1>11, <1>12 DEF Chain
<1>. QED
  BY <1>1, <1>7, <1>8, <1>13

LEMMA ChainTailOther ==
    ASSUME NEW q \in Seq(Chunk), q # <<>>, NEW i, NEW a \in Nat, NEW b \in Nat, Chain(q, i, a, b), q[1].file # i
    PROVE  Chain(Tail(q), i, a, b)
<1>1. PICK w : w = Tail(q)
  OBVIOUS
<1>2. Len(w) = Len(q) - 1 /\ Len(q) \in Nat /\ Len(q) > 0 /\ (\A j \in 1 .. Len(w) : w[j] = q[j + 1])
  BY <1>1, ChunksTail
<1>3. \A k \in Of(w, i) : k \in Nat /\ k + 1 \in Of(q, i) /\ w[k] = q[k + 1]
  BY <1>2 DEF Of
<1>4. \A k \in Of(q, i) : k \in Nat /\ k - 1 \in Of(w, i) /\ w[k - 1] = q[k]
  BY <1>2 DEF Of
<1>5. a <= b
  BY DEF Chain
<1>6. \A k \in Of(w, i) : a <= w[k].offset /\ w[k].offset < End(w[k]) /\ End(w[k]) <= b
  BY <1>3 DEF Chain
<1>7. \A k, l \in Of(w, i) : k < l => End(w[k]) <= w[l].offset
  BY <1>3 DEF Chain
<1>8. ASSUME NEW k \in Of(w, i)
      PROVE  w[k].offset = a \/ \E j \in Of(w, i) : j < k /\ End(w[j]) = w[k].offset
  <2>1. k + 1 \in Of(q, i) /\ w[k] = q[k + 1] /\ k \in Nat
    BY <1>3
  <2>2. ASSUME NEW j \in Of(q, i), j < k + 1, End(q[j]) = q[k + 1].offset
        PROVE  \E l \in Of(w, i) : l < k /\ End(w[l]) = w[k].offset
    <3>1. j - 1 \in Of(w, i) /\ w[j - 1] = q[j] /\ j - 1 < k
      BY <1>4, <2>1, <2>2
    <3>. QED
      BY <2>1, <2>2, <3>1
  <2>. QED
    BY <2>1, <2>2 DEF Chain
<1>9. a = b \/ \E k \in Of(w, i) : End(w[k]) = b
  BY <1>4 DEF Chain
<1>. QED
  BY <1>1, <1>5, <1>6, <1>7, <1>8, <1>9 DEF Chain

-----------------------------------------------------------------------------
(* One attempt: its sender s, its receiver r, the two directions q and w   *)
(* of its stream, its connection c, and the quarantine D                   *)

Offering(s) == [type |-> "offer", files |-> s.files]
Receiving(r) == r.pc = "open" /\ ~r.aborted
SayOk(m) == \E k \in 1 .. Len(m) : m[k] = Done(TRUE)

\* The receiver's slots are those of the offer, and what a slot counts as
\* received is in the quarantine.
Agree(s, r, D) ==
    /\ DOMAIN r.slots = DOMAIN s.files
    /\ \A i \in DOMAIN s.files :
        /\ r.slots[i].size = s.files[i].size /\ r.slots[i].expected = s.files[i].hash
        /\ r.slots[i].sink.name = s.files[i].name /\ r.slots[i].acked <= Len(D[s.files[i].name])

HeldAll(s, D) == \A i \in DOMAIN s.files : Len(D[s.files[i].name]) >= s.files[i].size

\* An acknowledgement never runs ahead of its slot, and the resume points
\* are where the slots still stand when the sender reads them.
AnswerOk(m, s, r) ==
    /\ m.type = "ack" => m.file \in DOMAIN s.files /\ (Receiving(r) => m.through <= r.slots[m.file].acked)
    /\ m.type = "accept" /\ Receiving(r) /\ s.pc = "offered" =>
           \A i \in DOMAIN s.files : r.slots[i].acked = IF i \in DOMAIN m.resume THEN m.resume[i] ELSE 0

Ends(s, r, q, w, c) ==
    /\ IsSender(s) /\ s.pc \in {"new", "offered", "sending", "ok", "failed"}
    /\ IsReceiver(r) /\ r.pc \in {"none", "open", "closed"}
    /\ s.pc = "new" => r.pc = "none" /\ q = <<>> /\ c = "none"
    /\ s.pc = "offered" => \A i \in DOMAIN s.files : s.sent[i] = 0 /\ s.acked[i] = 0
    /\ r.pc = "none" => /\ r = NoReceiver /\ s.pc \in {"new", "offered", "failed"} /\ w = <<>>
                        /\ q = <<>> \/ q = <<Offering(s)>>

Streams(s, r, q, w) ==
    /\ w \in Seq(Answer) /\ \A k \in 1 .. Len(w) : AnswerOk(w[k], s, r)
    /\ \A k \in 1 .. Len(r.out) : AnswerOk(r.out[k], s, r)
    /\ r.pc = "open" => /\ q \in Seq(Chunk) /\ \A k \in 1 .. Len(q) : q[k].file \in DOMAIN s.files
                        /\ s.pc = "offered" => q = <<>>
    /\ Receiving(r) /\ (s.pc = "sending" \/ q # <<>>) =>
           \A i \in DOMAIN s.files :
               /\ Chain(q, i, r.slots[i].acked, s.sent[i])
               /\ s.pc = "sending" => s.acked[i] <= r.slots[i].acked

Holds(s, r, w, D) ==
    /\ Receiving(r) => Agree(s, r, D)
    /\ SayOk(r.out) \/ SayOk(w) => HeldAll(s, D)

LinkOf(s, r, q, w, c, D) == Ends(s, r, q, w, c) /\ Streams(s, r, q, w) /\ Holds(s, r, w, D)
Link(t) == LinkOf(snd[t], rcv[t], up[t], down[t], conn[t], disk)

DiskOk(D) == Has(D, Name) /\ \A n \in Name : D[n] \in Content /\ Len(D[n]) <= MaxLen

Shape ==
    /\ Has(snd, Attempt) /\ Has(rcv, Attempt) /\ Has(up, Attempt) /\ Has(down, Attempt) /\ Has(conn, Attempt)
    /\ SourcesOk /\ edits \in Nat /\ DiskOk(disk)

TransferInv == Shape /\ \A t \in Attempt : Link(t)

\* No other slot has the file of slot i open.
Alone(t, i) ==
    /\ \A j \in DOMAIN rcv[t].slots \ {i} : rcv[t].slots[j].sink.name # rcv[t].slots[i].sink.name
    /\ \A u \in Attempt \ {t} : rcv[u].pc = "open" => rcv[t].slots[i].sink.name \notin OpenNames(u)

\* A slot that never shared its file has hashed what the quarantine holds.
Faithful(t) ==
    Receiving(rcv[t]) /\ t \notin shared =>
        \A i \in DOMAIN rcv[t].slots :
            /\ Alone(t, i)
            /\ disk[rcv[t].slots[i].sink.name] = rcv[t].slots[i].sink.hashed
            /\ rcv[t].slots[i].complete => rcv[t].slots[i].sink.hashed = rcv[t].slots[i].expected

FaithInv == \A t \in Attempt : Faithful(t)

-----------------------------------------------------------------------------
(* Answers on their way                                                    *)

AllOk(w, s, r) == \A k \in 1 .. Len(w) : AnswerOk(w[k], s, r)

LEMMA AnswersTail ==
    ASSUME NEW w \in Seq(Answer), w # <<>>, NEW s, NEW r
    PROVE  /\ Tail(w) \in Seq(Answer) /\ Head(w) \in Answer
           /\ AllOk(w, s, r) => AllOk(Tail(w), s, r) /\ AnswerOk(Head(w), s, r)
           /\ SayOk(Tail(w)) => SayOk(w)
           /\ Head(w) = Done(TRUE) => SayOk(w)
<1>1. PICK v : v = Tail(w)
  OBVIOUS
<1>2. /\ v \in Seq(Answer) /\ Len(v) = Len(w) - 1 /\ Len(w) \in Nat /\ Len(w) > 0 /\ Head(w) = w[1] /\ w[1] \in Answer
      /\ \A j \in 1 .. Len(v) : v[j] = w[j + 1]
  BY <1>1
<1>3. \A j \in 1 .. Len(v) : j + 1 \in 1 .. Len(w)
  BY <1>2
<1>4. AllOk(w, s, r) => AllOk(v, s, r) /\ AnswerOk(w[1], s, r)
  BY <1>2, <1>3 DEF AllOk
<1>5. SayOk(v) => SayOk(w)
  BY <1>2, <1>3 DEF SayOk
<1>6. w[1] = Done(TRUE) => SayOk(w)
  <2>1. 1 \in 1 .. Len(w)
    BY <1>2
  <2>. QED
    BY <2>1, Zenon DEF SayOk
<1>. QED
  BY <1>1, <1>2, <1>4, <1>5, <1>6

LEMMA AnswersAppend ==
    ASSUME NEW w \in Seq(Answer), NEW m \in Answer, NEW s, NEW r
    PROVE  /\ Append(w, m) \in Seq(Answer)
           /\ AllOk(w, s, r) /\ AnswerOk(m, s, r) => AllOk(Append(w, m), s, r)
           /\ SayOk(Append(w, m)) => SayOk(w) \/ m = Done(TRUE)
<1>1. PICK v : v = Append(w, m)
  OBVIOUS
<1>2. /\ v \in Seq(Answer) /\ Len(v) = Len(w) + 1 /\ Len(w) \in Nat /\ v[Len(w) + 1] = m
      /\ \A j \in 1 .. Len(w) : v[j] = w[j]
  BY <1>1
<1>3. \A j \in 1 .. Len(v) : j \in 1 .. Len(w) \/ j = Len(w) + 1
  BY <1>2
<1>4. AllOk(w, s, r) /\ AnswerOk(m, s, r) => AllOk(v, s, r)
  BY <1>2, <1>3 DEF AllOk
<1>5. SayOk(v) => SayOk(w) \/ m = Done(TRUE)
  BY <1>2, <1>3 DEF SayOk
<1>. QED
  BY <1>1, <1>2, <1>4, <1>5

LEMMA AnswersOne ==
    ASSUME NEW m, NEW s, NEW r
    PROVE  /\ AllOk(<<m>>, s, r) <=> AnswerOk(m, s, r)
           /\ SayOk(<<m>>) <=> m = Done(TRUE)
           /\ AllOk(<<>>, s, r) /\ ~SayOk(<<>>)
<1>1. Len(<<m>>) = 1 /\ <<m>>[1] = m /\ Len(<<>>) = 0
  OBVIOUS
<1>2. 1 .. 1 = {1} /\ 1 .. 0 = {}
  OBVIOUS
<1>. QED
  BY <1>1, <1>2 DEF AllOk, SayOk

\* The slots of R are at or after those of r, and stand still while the
\* sender has not read the answer to its offer.
Onward(s, r, S, R) ==
    /\ S.files = s.files /\ (S.pc = "offered" => s.pc = "offered")
    /\ Receiving(R) => /\ Receiving(r)
                       /\ \A i \in DOMAIN s.files :
                            /\ r.slots[i].acked \in Nat /\ R.slots[i].acked \in Nat
                            /\ r.slots[i].acked <= R.slots[i].acked
                            /\ S.pc = "offered" => r.slots[i].acked = R.slots[i].acked

LEMMA AnswersKept ==
    ASSUME NEW w \in Seq(Answer), NEW s, NEW r, NEW S, NEW R, AllOk(w, s, r), Onward(s, r, S, R)
    PROVE  AllOk(w, S, R)
<1>. SUFFICES ASSUME NEW m \in Answer, AnswerOk(m, s, r) PROVE AnswerOk(m, S, R)
  BY DEF AllOk
<1>1. m.type = "ack" => m.through \in Nat
  BY DEF Answer
<1>2. m.type = "ack" => m.file \in DOMAIN S.files /\ (Receiving(R) => m.through <= R.slots[m.file].acked)
  BY <1>1 DEF AnswerOk, Onward
<1>3. m.type = "accept" /\ Receiving(R) /\ S.pc = "offered" =>
           \A i \in DOMAIN S.files : R.slots[i].acked = IF i \in DOMAIN m.resume THEN m.resume[i] ELSE 0
  BY DEF AnswerOk, Onward
<1>. QED
  BY <1>2, <1>3 DEF AnswerOk

-----------------------------------------------------------------------------
(* What each step does to its attempt                                      *)

Grows(D, E) == \A n \in Name : Len(D[n]) <= Len(E[n])

LEMMA LinkGrows ==
    ASSUME NEW s, NEW r, NEW q, NEW w, NEW c, NEW D, NEW E, LinkOf(s, r, q, w, c, D), DiskOk(D), DiskOk(E), Grows(D, E)
    PROVE  LinkOf(s, r, q, w, c, E)
<1>1. ASSUME NEW i \in DOMAIN s.files
      PROVE  /\ Len(D[s.files[i].name]) \in Nat /\ Len(E[s.files[i].name]) \in Nat
             /\ Len(D[s.files[i].name]) <= Len(E[s.files[i].name]) /\ s.files[i].size \in Nat
  <2>1. IsEntry(s.files[i])
    BY DEF LinkOf, Ends, IsSender
  <2>2. PICK n : n = s.files[i].name
    OBVIOUS
  <2>3. n \in Name /\ s.files[i].size \in Nat
    BY <2>1, <2>2, LimitsAreNatural DEF IsEntry
  <2>4. D[n] \in Content /\ E[n] \in Content /\ Len(D[n]) <= Len(E[n])
    BY <2>3 DEF DiskOk, Grows
  <2>5. Len(D[n]) \in Nat /\ Len(E[n]) \in Nat
    BY <2>4 DEF Content
  <2>. QED
    BY <2>2, <2>3, <2>4, <2>5
<1>2. ASSUME Receiving(r) PROVE Agree(s, r, E)
  <2>1. Agree(s, r, D) /\ IsReceiver(r)
    BY <1>2 DEF LinkOf, Holds, Ends
  <2>2. \A i \in DOMAIN s.files : r.slots[i].acked \in Nat
    BY <2>1 DEF Agree, IsReceiver, IsSlot, IsSink, Content
  <2>. QED
    BY <1>1, <2>1, <2>2 DEF Agree
<1>3. ASSUME SayOk(r.out) \/ SayOk(w) PROVE HeldAll(s, E)
  <2>1. HeldAll(s, D)
    BY <1>3 DEF LinkOf, Holds
  <2>. QED
    BY <1>1, <2>1 DEF HeldAll
<1>. QED
  BY <1>2, <1>3 DEF LinkOf, Holds

\* Slots of a receiver that is receiving count natural numbers.
LEMMA Counts ==
    ASSUME NEW s, NEW r, IsReceiver(r), NEW D, Agree(s, r, D)
    PROVE  \A i \in DOMAIN s.files : r.slots[i].acked \in Nat /\ IsSlot(r.slots[i])
BY DEF Agree, IsReceiver, IsSlot, IsSink, Content

LEMMA StreamsIs ==
    ASSUME NEW s, NEW r, NEW q, NEW w
    PROVE  Streams(s, r, q, w) <=>
               /\ w \in Seq(Answer) /\ AllOk(w, s, r) /\ AllOk(r.out, s, r)
               /\ r.pc = "open" => /\ q \in Seq(Chunk) /\ \A k \in 1 .. Len(q) : q[k].file \in DOMAIN s.files
                                   /\ s.pc = "offered" => q = <<>>
               /\ Receiving(r) /\ (s.pc = "sending" \/ q # <<>>) =>
                      \A i \in DOMAIN s.files :
                          /\ Chain(q, i, r.slots[i].acked, s.sent[i])
                          /\ s.pc = "sending" => s.acked[i] <= r.slots[i].acked
BY DEF Streams, AllOk

LEMMA Standing ==
    ASSUME NEW s, NEW r, NEW q, NEW w, NEW c, NEW D, LinkOf(s, r, q, w, c, D),
           NEW S, S.files = s.files, S.pc = "offered" => s.pc = "offered"
    PROVE  Onward(s, r, S, r)
<1>1. ASSUME Receiving(r), NEW i \in DOMAIN s.files
      PROVE  r.slots[i].acked \in Nat /\ r.slots[i].acked <= r.slots[i].acked
  <2>1. Agree(s, r, D) /\ IsReceiver(r)
    BY <1>1 DEF LinkOf, Holds, Ends
  <2>2. r.slots[i].acked \in Nat
    BY <2>1, Counts
  <2>. QED
    BY <2>2
<1>. QED
  BY <1>1 DEF Onward

LEMMA LinkEnded ==
    ASSUME NEW s, NEW r, NEW q, NEW w, NEW c, NEW D, LinkOf(s, r, q, w, c, D),
           NEW p \in {"ok", "failed"}, p = "ok" => s.pc = "sending",
           NEW S, S = [s EXCEPT !.pc = p], NEW C, NEW W, W = w \/ (w # <<>> /\ W = Tail(w))
    PROVE  LinkOf(S, r, q, W, C, D)
<1>1. IsSender(S) /\ S.files = s.files /\ S.sent = s.sent /\ S.acked = s.acked /\ S.pc = p
  BY DEF LinkOf, Ends, IsSender, Has
<1>2. w \in Seq(Answer) /\ AllOk(w, s, r) /\ AllOk(r.out, s, r) /\ IsReceiver(r) /\ r.out \in Seq(Answer)
  BY StreamsIs DEF LinkOf, Ends, IsReceiver
<1>3. W \in Seq(Answer) /\ AllOk(W, s, r) /\ (SayOk(W) => SayOk(w))
  BY <1>2, AnswersTail
<1>4. Onward(s, r, S, r)
  BY <1>1, Standing
<1>5. AllOk(W, S, r) /\ AllOk(r.out, S, r)
  BY <1>2, <1>3, <1>4, AnswersKept
<1>6. Streams(S, r, q, W)
  BY <1>1, <1>3, <1>5, StreamsIs DEF LinkOf
<1>7. Holds(S, r, W, D)
  BY <1>1, <1>3 DEF LinkOf, Holds, Agree, HeldAll
<1>8. Ends(S, r, q, W, C)
  <2>1. ASSUME r.pc = "none" PROVE w = <<>> /\ (q = <<>> \/ q = <<Offering(S)>>) /\ r = NoReceiver /\ p = "failed"
    BY <1>1, <2>1 DEF LinkOf, Ends, Offering
  <2>. QED
    BY <1>1, <1>2, <2>1 DEF LinkOf, Ends
<1>. QED
  BY <1>6, <1>7, <1>8 DEF LinkOf

LEMMA LinkBegun ==
    ASSUME NEW s, NEW r, NEW q, NEW w, NEW c, NEW D, LinkOf(s, r, q, w, c, D), s.pc = "new",
           NEW S, IsSender(S), S.pc = "offered", \A i \in DOMAIN S.files : S.sent[i] = 0 /\ S.acked[i] = 0, NEW C
    PROVE  LinkOf(S, r, <<Offering(S)>>, w, C, D)
<1>1. r = NoReceiver /\ r.pc = "none" /\ r.out = <<>> /\ w = <<>> /\ IsReceiver(r) /\ w \in Seq(Answer)
  BY DEF LinkOf, Ends, NoReceiver, Streams
<1>2. Ends(S, r, <<Offering(S)>>, w, C)
  BY <1>1 DEF Ends
<1>3. Streams(S, r, <<Offering(S)>>, w)
  BY <1>1, StreamsIs, AnswersOne DEF Receiving
<1>4. Holds(S, r, w, D)
  BY <1>1, AnswersOne DEF Holds, Receiving
<1>. QED
  BY <1>2, <1>3, <1>4 DEF LinkOf

LEMMA LinkAccepted ==
    ASSUME NEW s, NEW r, NEW q, NEW w, NEW c, NEW D, LinkOf(s, r, q, w, c, D), s.pc = "offered", w # <<>>,
           NEW m, m = Head(w), m.type = "accept", ResumeIsValid(s, m.resume), NEW S, S = OnAccept(s, m.resume)
    PROVE  LinkOf(S, r, q, Tail(w), c, D)
<1>1. w \in Seq(Answer) /\ AllOk(w, s, r) /\ AllOk(r.out, s, r) /\ IsReceiver(r) /\ IsSender(s) /\ r.out \in Seq(Answer)
  BY StreamsIs DEF LinkOf, Ends, IsReceiver
<1>2. Tail(w) \in Seq(Answer) /\ m \in Answer /\ AllOk(Tail(w), s, r) /\ AnswerOk(m, s, r) /\ (SayOk(Tail(w)) => SayOk(w))
  BY <1>1, AnswersTail
<1>3. m.resume \in Resumes
  BY <1>2 DEF Answer
<1>4. /\ IsSender(S) /\ S.pc = "sending" /\ S.files = s.files
      /\ \A i \in DOMAIN s.files :
            /\ i \in DOMAIN m.resume => S.sent[i] = m.resume[i] /\ S.acked[i] = m.resume[i]
            /\ i \notin DOMAIN m.resume => S.sent[i] = s.sent[i] /\ S.acked[i] = s.acked[i]
  BY <1>1, <1>3, OnAcceptIs
<1>5. Onward(s, r, S, r)
  BY <1>4, Standing
<1>6. AllOk(Tail(w), S, r) /\ AllOk(r.out, S, r)
  BY <1>1, <1>2, <1>5, AnswersKept
<1>7. r.pc # "none"
  BY DEF LinkOf, Ends
<1>8. Ends(S, r, q, Tail(w), c)
  BY <1>1, <1>4, <1>7 DEF LinkOf, Ends
<1>9. Holds(S, r, Tail(w), D)
  <2>1. Receiving(r) => Agree(S, r, D)
    BY <1>4 DEF LinkOf, Holds, Agree
  <2>2. SayOk(r.out) \/ SayOk(w) => HeldAll(S, D)
    BY <1>4 DEF LinkOf, Holds, HeldAll
  <2>. QED
    BY <1>2, <2>1, <2>2 DEF Holds
<1>10. r.pc = "open" => q = <<>> /\ q \in Seq(Chunk)
  BY StreamsIs DEF LinkOf
<1>11. ASSUME Receiving(r), NEW i \in DOMAIN S.files
       PROVE  Chain(q, i, r.slots[i].acked, S.sent[i]) /\ S.acked[i] <= r.slots[i].acked
  <2>1. r.slots[i].acked \in Nat
    BY <1>4, <1>5, <1>11 DEF Onward
  <2>2. r.slots[i].acked = IF i \in DOMAIN m.resume THEN m.resume[i] ELSE 0
    BY <1>2, <1>4, <1>11 DEF AnswerOk
  <2>3. s.sent[i] = 0 /\ s.acked[i] = 0
    BY <1>4 DEF LinkOf, Ends
  <2>4. S.sent[i] = r.slots[i].acked /\ S.acked[i] = r.slots[i].acked
    BY <1>4, <2>2, <2>3
  <2>5. q = <<>>
    BY <1>10, <1>11 DEF Receiving
  <2>. QED
    BY <2>1, <2>4, <2>5, ChainEmpty
<1>12. Streams(S, r, q, Tail(w))
  <2>1. r.pc = "open" => /\ q \in Seq(Chunk) /\ (\A k \in 1 .. Len(q) : q[k].file \in DOMAIN S.files)
                         /\ (S.pc = "offered" => q = <<>>)
    BY <1>4, <1>10
  <2>. QED
    BY <1>2, <1>6, <1>11, <2>1, StreamsIs
<1>. QED
  BY <1>8, <1>9, <1>12 DEF LinkOf

\* The sender after n units of file i were put on the stream.
SentOn(s, i, n) == [s EXCEPT !.sent[i] = @ + n]

LEMMA SentIs ==
    ASSUME NEW s, IsSender(s), NEW i \in DOMAIN s.files, NEW n \in Nat, s.sent[i] + n <= s.files[i].size,
           NEW S, S = SentOn(s, i, n)
    PROVE  /\ IsSender(S) /\ S.pc = s.pc /\ S.files = s.files /\ S.acked = s.acked /\ S.sent[i] = s.sent[i] + n
           /\ \A j \in DOMAIN s.files \ {i} : S.sent[j] = s.sent[j]
<1>. DEFINE f == [s.sent EXCEPT ![i] = @ + n]
<1>1. DOMAIN s.sent = DOMAIN s.files /\ Has(s.sent, DOMAIN s.files)
  BY DEF IsSender, Has
<1>2. Has(f, DOMAIN s.files) /\ f[i] = s.sent[i] + n /\ \A j \in DOMAIN s.files \ {i} : f[j] = s.sent[j]
  BY <1>1 DEF Has
<1>3. S = [s EXCEPT !.sent = f]
  BY DEF SentOn
<1>. HIDE DEF f
<1>4. Has(S, {"pc", "files", "sent", "acked"}) /\ S.pc = s.pc /\ S.files = s.files /\ S.sent = f /\ S.acked = s.acked
  BY <1>3 DEF IsSender, Has
<1>5. \A j \in DOMAIN s.files : f[j] \in Nat /\ s.acked[j] <= f[j] /\ f[j] <= s.files[j].size
  BY <1>2 DEF IsSender
<1>6. IsSender(S)
  BY <1>2, <1>4, <1>5 DEF IsSender
<1>. QED
  BY <1>2, <1>4, <1>6

LEMMA LinkSent ==
    ASSUME NEW s, NEW r, NEW q, NEW w, NEW c, NEW D, LinkOf(s, r, q, w, c, D), s.pc = "sending",
           NEW x \in Chunk, x.file \in DOMAIN s.files, x.offset = s.sent[x.file], x.data # <<>>,
           x.offset + Len(x.data) <= s.files[x.file].size,
           NEW S, S = SentOn(s, x.file, Len(x.data))
    PROVE  LinkOf(S, r, Append(q, x), w, c, D)
<1>1. w \in Seq(Answer) /\ AllOk(w, s, r) /\ AllOk(r.out, s, r) /\ IsReceiver(r) /\ IsSender(s) /\ r.out \in Seq(Answer)
  BY StreamsIs DEF LinkOf, Ends, IsReceiver
<1>2. /\ IsSender(S) /\ S.pc = s.pc /\ S.files = s.files /\ S.acked = s.acked /\ S.sent[x.file] = End(x)
      /\ \A j \in DOMAIN s.files \ {x.file} : S.sent[j] = s.sent[j]
  <2>1. Len(x.data) \in Nat
    BY ChunkIs
  <2>2. PICK n \in Nat : n = Len(x.data)
    BY <2>1
  <2>3. PICK i \in DOMAIN s.files : i = x.file
    OBVIOUS
  <2>4. S = SentOn(s, i, n) /\ s.sent[i] + n <= s.files[i].size /\ End(x) = s.sent[i] + n
    BY <2>2, <2>3 DEF End
  <2>5. /\ IsSender(S) /\ S.pc = s.pc /\ S.files = s.files /\ S.acked = s.acked /\ S.sent[i] = s.sent[i] + n
        /\ \A j \in DOMAIN s.files \ {i} : S.sent[j] = s.sent[j]
    BY <1>1, <2>4, SentIs
  <2>. QED
    BY <2>3, <2>4, <2>5
<1>3. Onward(s, r, S, r)
  BY <1>2, Standing
<1>4. AllOk(w, S, r) /\ AllOk(r.out, S, r)
  BY <1>1, <1>3, AnswersKept
<1>5. r.pc # "none"
  BY DEF LinkOf, Ends
<1>6. Ends(S, r, Append(q, x), w, c)
  BY <1>1, <1>2, <1>5 DEF LinkOf, Ends
<1>7. Holds(S, r, w, D)
  BY <1>2 DEF LinkOf, Holds, Agree, HeldAll
<1>8. ASSUME r.pc = "open"
      PROVE  Append(q, x) \in Seq(Chunk) /\ \A k \in 1 .. Len(Append(q, x)) : Append(q, x)[k].file \in DOMAIN S.files
  <2>1. q \in Seq(Chunk) /\ \A k \in 1 .. Len(q) : q[k].file \in DOMAIN s.files
    BY <1>8, StreamsIs DEF LinkOf
  <2>2. PICK Q : Q = Append(q, x)
    OBVIOUS
  <2>3. Q \in Seq(Chunk) /\ Len(Q) = Len(q) + 1 /\ Len(q) \in Nat /\ Q[Len(q) + 1] = x /\ \A j \in 1 .. Len(q) : Q[j] = q[j]
    BY <2>1, <2>2, ChunksAppend
  <2>4. \A k \in 1 .. Len(Q) : k \in 1 .. Len(q) \/ k = Len(q) + 1
    BY <2>3
  <2>. QED
    BY <1>2, <2>1, <2>2, <2>3, <2>4
<1>9. ASSUME Receiving(r), NEW i \in DOMAIN S.files
      PROVE  Chain(Append(q, x), i, r.slots[i].acked, S.sent[i]) /\ S.acked[i] <= r.slots[i].acked
  <2>1. q \in Seq(Chunk) /\ i \in DOMAIN s.files
    BY <1>2, <1>9, StreamsIs DEF LinkOf, Receiving
  <2>2. Chain(q, i, r.slots[i].acked, s.sent[i]) /\ s.acked[i] <= r.slots[i].acked
    BY <1>9, <2>1, StreamsIs DEF LinkOf
  <2>3. r.slots[i].acked \in Nat /\ s.sent[i] \in Nat
    BY <1>1, <1>3, <1>9, <2>1 DEF Onward, IsSender
  <2>4. CASE i = x.file
    BY <1>2, <2>1, <2>2, <2>3, <2>4, ChainAppend
  <2>5. CASE i # x.file
    BY <1>2, <2>1, <2>2, <2>3, <2>5, ChainAppendOther
  <2>. QED
    BY <2>4, <2>5
<1>10. Streams(S, r, Append(q, x), w)
  BY <1>1, <1>2, <1>4, <1>8, <1>9, StreamsIs
<1>. QED
  BY <1>6, <1>7, <1>10 DEF LinkOf

LEMMA LinkAcked ==
    ASSUME NEW s, NEW r, NEW q, NEW w, NEW c, NEW D, LinkOf(s, r, q, w, c, D), s.pc = "sending", w # <<>>,
           NEW m, m = Head(w), m.type = "ack", AckIsValid(s, m), NEW S, S = OnAck(s, m)
    PROVE  LinkOf(S, r, q, Tail(w), c, D)
<1>1. w \in Seq(Answer) /\ AllOk(w, s, r) /\ AllOk(r.out, s, r) /\ IsReceiver(r) /\ IsSender(s) /\ r.out \in Seq(Answer)
  BY StreamsIs DEF LinkOf, Ends, IsReceiver
<1>2. Tail(w) \in Seq(Answer) /\ m \in Answer /\ AllOk(Tail(w), s, r) /\ AnswerOk(m, s, r) /\ (SayOk(Tail(w)) => SayOk(w))
  BY <1>1, AnswersTail
<1>3. m.through \in Nat /\ m.file \in DOMAIN s.files /\ (Receiving(r) => m.through <= r.slots[m.file].acked)
  BY <1>2 DEF Answer, AnswerOk
<1>4. /\ IsSender(S) /\ S.pc = s.pc /\ S.files = s.files /\ S.sent = s.sent
      /\ \A i \in DOMAIN s.files : S.acked[i] = s.acked[i] \/ (i = m.file /\ S.acked[i] = m.through)
  BY <1>1, <1>3, OnAckIs
<1>5. Onward(s, r, S, r)
  BY <1>4, Standing
<1>6. AllOk(Tail(w), S, r) /\ AllOk(r.out, S, r)
  BY <1>1, <1>2, <1>5, AnswersKept
<1>7. r.pc # "none"
  BY DEF LinkOf, Ends
<1>8. Ends(S, r, q, Tail(w), c)
  BY <1>1, <1>4, <1>7 DEF LinkOf, Ends
<1>9. Holds(S, r, Tail(w), D)
  BY <1>2, <1>4 DEF LinkOf, Holds, Agree, HeldAll
<1>10. r.pc = "open" => q \in Seq(Chunk) /\ \A k \in 1 .. Len(q) : q[k].file \in DOMAIN S.files
  BY <1>4, StreamsIs DEF LinkOf
<1>11. ASSUME Receiving(r), NEW i \in DOMAIN S.files
       PROVE  Chain(q, i, r.slots[i].acked, S.sent[i]) /\ S.acked[i] <= r.slots[i].acked
  <2>1. Chain(q, i, r.slots[i].acked, s.sent[i]) /\ s.acked[i] <= r.slots[i].acked
    BY <1>4, <1>11, StreamsIs DEF LinkOf
  <2>. QED
    BY <1>3, <1>4, <1>11, <2>1
<1>12. Streams(S, r, q, Tail(w))
  BY <1>2, <1>4, <1>6, <1>10, <1>11, StreamsIs
<1>. QED
  BY <1>8, <1>9, <1>12 DEF LinkOf

LEMMA LinkConn ==
    ASSUME NEW s, NEW r, NEW q, NEW w, NEW c, NEW D, LinkOf(s, r, q, w, c, D), s.pc # "new", NEW C
    PROVE  LinkOf(s, r, q, w, C, D)
BY DEF LinkOf, Ends

LEMMA LinkClosed ==
    ASSUME NEW s, NEW r, NEW q, NEW w, NEW c, NEW D, LinkOf(s, r, q, w, c, D), s.pc # "new", NEW C,
           NEW R, IsReceiver(R), R.pc = "closed", R.out = r.out \/ R.out = <<>>
    PROVE  LinkOf(s, R, q, w, C, D)
<1>1. w \in Seq(Answer) /\ AllOk(w, s, r) /\ AllOk(r.out, s, r) /\ r.out \in Seq(Answer) /\ IsSender(s)
  BY StreamsIs DEF LinkOf, Ends, IsReceiver
<1>2. ~Receiving(R)
  BY DEF Receiving
<1>3. Onward(s, r, s, R)
  BY <1>2 DEF Onward
<1>4. AllOk(w, s, R) /\ AllOk(r.out, s, R)
  BY <1>1, <1>3, AnswersKept
<1>5. AllOk(R.out, s, R) /\ (SayOk(R.out) => SayOk(r.out))
  BY <1>4, AnswersOne
<1>6. Streams(s, R, q, w)
  BY <1>1, <1>2, <1>4, <1>5, StreamsIs
<1>7. Holds(s, R, w, D)
  BY <1>2, <1>5 DEF LinkOf, Holds
<1>8. Ends(s, R, q, w, C)
  BY <1>1 DEF LinkOf, Ends
<1>. QED
  BY <1>6, <1>7, <1>8 DEF LinkOf

LEMMA LinkEmitted ==
    ASSUME NEW s, NEW r, NEW q, NEW w, NEW c, NEW D, LinkOf(s, r, q, w, c, D), r.pc = "open", r.out # <<>>,
           NEW R, IsReceiver(R), R.pc \in {"open", "closed"}, R.out = Tail(r.out), R.slots = r.slots, R.aborted = r.aborted
    PROVE  LinkOf(s, R, q, Append(w, Head(r.out)), c, D)
<1>1. w \in Seq(Answer) /\ AllOk(w, s, r) /\ AllOk(r.out, s, r) /\ r.out \in Seq(Answer) /\ IsSender(s) /\ IsReceiver(r)
  BY StreamsIs DEF LinkOf, Ends, IsReceiver
<1>2. PICK m \in Answer : m = Head(r.out)
  BY <1>1, AnswersTail
<1>3. AllOk(R.out, s, r) /\ AnswerOk(m, s, r) /\ (SayOk(R.out) => SayOk(r.out)) /\ (m = Done(TRUE) => SayOk(r.out)) /\ R.out \in Seq(Answer)
  BY <1>1, <1>2, AnswersTail
<1>4. PICK W : W = Append(w, m)
  OBVIOUS
<1>5. W \in Seq(Answer) /\ AllOk(W, s, r) /\ (SayOk(W) => SayOk(w) \/ m = Done(TRUE))
  BY <1>1, <1>3, <1>4, AnswersAppend
<1>6. Onward(s, r, s, R)
  BY Standing DEF Onward, Receiving
<1>7. AllOk(W, s, R) /\ AllOk(R.out, s, R)
  BY <1>3, <1>5, <1>6, AnswersKept
<1>8. R.pc = "open" => /\ q \in Seq(Chunk) /\ (\A k \in 1 .. Len(q) : q[k].file \in DOMAIN s.files)
                       /\ s.pc = "offered" => q = <<>>
  BY StreamsIs DEF LinkOf
<1>9. Receiving(R) /\ (s.pc = "sending" \/ q # <<>>) =>
           \A i \in DOMAIN s.files :
               /\ Chain(q, i, R.slots[i].acked, s.sent[i])
               /\ s.pc = "sending" => s.acked[i] <= R.slots[i].acked
  BY StreamsIs DEF LinkOf, Receiving
<1>10. Streams(s, R, q, W)
  BY <1>5, <1>7, <1>8, <1>9, StreamsIs
<1>11. Holds(s, R, W, D)
  BY <1>3, <1>5 DEF LinkOf, Holds, Agree, Receiving
<1>12. Ends(s, R, q, W, c)
  BY <1>1 DEF LinkOf, Ends
<1>. QED
  BY <1>2, <1>4, <1>10, <1>11, <1>12 DEF LinkOf

\* The chunks that stay when the first one is taken off the stream.
LEMMA ChunksLeft ==
    ASSUME NEW q \in Seq(Chunk), q # <<>>, NEW F, \A k \in 1 .. Len(q) : q[k].file \in F
    PROVE  /\ Tail(q) \in Seq(Chunk) /\ Head(q) \in Chunk /\ Head(q) = q[1] /\ Head(q).file \in F
           /\ \A k \in 1 .. Len(Tail(q)) : Tail(q)[k].file \in F
<1>1. PICK v : v = Tail(q)
  OBVIOUS
<1>2. /\ v \in Seq(Chunk) /\ Len(v) = Len(q) - 1 /\ Len(q) \in Nat /\ Len(q) > 0 /\ Head(q) = q[1] /\ Head(q) \in Chunk
      /\ \A j \in 1 .. Len(v) : v[j] = q[j + 1]
  BY <1>1, ChunksTail
<1>3. 1 \in 1 .. Len(q) /\ \A j \in 1 .. Len(v) : j + 1 \in 1 .. Len(q)
  BY <1>2
<1>. QED
  BY <1>1, <1>2, <1>3

LEMMA DoneAnswer ==
    ASSUME NEW s, NEW r
    PROVE  AnswerOk(Done(TRUE), s, r) /\ AnswerOk(Done(FALSE), s, r)
BY DEF AnswerOk, Done

LEMMA LinkAborted ==
    ASSUME NEW s, NEW r, NEW q, NEW w, NEW c, NEW D, LinkOf(s, r, q, w, c, D), r.pc = "open", q # <<>>,
           NEW R, IsReceiver(R), R.pc = "open", R.aborted, R.out = <<Done(FALSE)>>
    PROVE  LinkOf(s, R, Tail(q), w, c, D)
<1>1. w \in Seq(Answer) /\ AllOk(w, s, r) /\ IsSender(s)
  BY StreamsIs DEF LinkOf, Ends
<1>2. ~Receiving(R)
  BY DEF Receiving
<1>3. Onward(s, r, s, R)
  BY <1>2 DEF Onward
<1>4. AllOk(w, s, R)
  BY <1>1, <1>3, AnswersKept
<1>5. AllOk(R.out, s, R) /\ ~SayOk(R.out)
  <2>1. PICK d : d = Done(FALSE)
    OBVIOUS
  <2>2. AnswerOk(d, s, R) /\ d # Done(TRUE)
    BY <2>1, DoneAnswer, DoneIs
  <2>3. R.out = <<d>>
    BY <2>1
  <2>. QED
    BY <2>2, <2>3, AnswersOne
<1>6. q \in Seq(Chunk) /\ (\A k \in 1 .. Len(q) : q[k].file \in DOMAIN s.files) /\ s.pc # "offered"
  BY StreamsIs DEF LinkOf
<1>7. Tail(q) \in Seq(Chunk) /\ \A k \in 1 .. Len(Tail(q)) : Tail(q)[k].file \in DOMAIN s.files
  BY <1>6, ChunksLeft
<1>8. Streams(s, R, Tail(q), w)
  BY <1>1, <1>2, <1>4, <1>5, <1>6, <1>7, StreamsIs
<1>9. Holds(s, R, w, D)
  BY <1>2, <1>5 DEF LinkOf, Holds
<1>10. Ends(s, R, Tail(q), w, c)
  BY <1>1, <1>6 DEF LinkOf, Ends
<1>. QED
  BY <1>8, <1>9, <1>10 DEF LinkOf

\* What finalizing adds to the answers.
LEMMA FinalizedOut ==
    ASSUME NEW r, NEW R, Finalized(R, r), r.out \in Seq(Answer), NEW s, AllOk(r.out, s, R), ~SayOk(r.out)
    PROVE  AllOk(R.out, s, R) /\ (SayOk(R.out) => \A i \in DOMAIN r.slots : R.slots[i].complete)
<1>1. PICK a \in Answer : a = Done(TRUE)
  BY DoneIs
<1>2. PICK b \in Answer : b = Done(FALSE)
  BY DoneIs
<1>3. AnswerOk(a, s, R) /\ AnswerOk(b, s, R) /\ b # Done(TRUE)
  BY <1>1, <1>2, DoneIs, DoneAnswer
<1>4. /\ AllOk(Append(r.out, a), s, R) /\ AllOk(Append(r.out, b), s, R)
      /\ ~SayOk(Append(r.out, b))
  BY <1>3, AnswersAppend
<1>5. \/ R.out = r.out
      \/ R.out = Append(r.out, b)
      \/ R.out = Append(r.out, a) /\ \A i \in DOMAIN r.slots : R.slots[i].complete
  BY <1>1, <1>2, Zenon DEF Finalized
<1>. QED
  BY <1>4, <1>5

LEMMA LinkOffered ==
    ASSUME NEW s, NEW r, NEW q, NEW w, NEW c, LinkOf(s, r, q, w, c, disk), DiskOk(disk), r.pc = "none", q # <<>>,
           NEW R, R = AcceptOffer(s.files)
    PROVE  q = <<Offering(s)>> /\ LinkOf(s, R, Tail(q), w, c, disk)
<1>1. q = <<Offering(s)>> /\ Tail(q) = <<>> /\ s.pc \in {"offered", "failed"} /\ w = <<>> /\ IsSender(s)
  <2>1. q = <<Offering(s)>> /\ s.pc \in {"offered", "failed"} /\ w = <<>> /\ IsSender(s)
    BY DEF LinkOf, Ends
  <2>2. PICK x : x = Offering(s)
    OBVIOUS
  <2>3. Tail(<<x>>) = <<>>
    OBVIOUS
  <2>. QED
    BY <2>1, <2>2, <2>3
<1>2. DOMAIN s.files \subseteq Nat /\ \A i \in DOMAIN s.files : IsEntry(s.files[i]) /\ disk[s.files[i].name] \in Content
  BY <1>1 DEF IsSender, IsEntry, DiskOk
<1>3. s.pc = "offered" => \A i \in DOMAIN s.files : s.sent[i] = 0 /\ s.acked[i] = 0
  BY DEF LinkOf, Ends
<1>4. ASSUME IsReceiver(R), R.pc = "open", AllOk(R.out, s, R), SayOk(R.out) => HeldAll(s, disk), Receiving(R) => Agree(s, R, disk)
      PROVE  LinkOf(s, R, <<>>, w, c, disk)
  <2>1. Ends(s, R, <<>>, w, c)
    BY <1>1, <1>3, <1>4 DEF Ends
  <2>2. w \in Seq(Answer) /\ AllOk(w, s, R) /\ ~SayOk(w)
    <3>1. w \in Seq(Answer)
      BY StreamsIs DEF LinkOf
    <3>. QED
      BY <1>1, <3>1, AnswersOne
  <2>3. Streams(s, R, <<>>, w)
    <3>1. <<>> \in Seq(Chunk) /\ \A k \in 1 .. Len(<<>>) : <<>>[k].file \in DOMAIN s.files
      OBVIOUS
    <3>. QED
      BY <1>1, <1>4, <2>2, <3>1, StreamsIs
  <2>4. Holds(s, R, w, disk)
    BY <1>4, <2>2 DEF Holds
  <2>. QED
    BY <2>1, <2>3, <2>4 DEF LinkOf
<1>5. CASE IsReceiver(R) /\ R.pc = "open" /\ R.aborted /\ R.slots = <<>> /\ R.out = <<[type |-> "reject"]>>
  <2>1. PICK m : m = [type |-> "reject"]
    OBVIOUS
  <2>2. AnswerOk(m, s, R) /\ m # Done(TRUE)
    BY <2>1 DEF AnswerOk, Done
  <2>3. R.out = <<m>>
    BY <1>5, <2>1
  <2>4. AllOk(R.out, s, R) /\ ~SayOk(R.out) /\ ~Receiving(R)
    BY <1>5, <2>2, <2>3, AnswersOne DEF Receiving
  <2>. QED
    BY <1>1, <1>4, <1>5, <2>4
<1>6. ASSUME NEW r0, Finalized(R, r0), IsReceiver(r0), r0.pc = "open",
             DOMAIN r0.slots = DOMAIN s.files, \A i \in DOMAIN s.files : r0.slots[i] = Slot(s.files[i]),
             r0.out = <<[type |-> "accept", resume |-> ResumePoints(r0.slots)]>>
      PROVE  LinkOf(s, R, <<>>, w, c, disk)
  <2>1. IsReceiver(R) /\ R.pc = "open" /\ DOMAIN R.slots = DOMAIN s.files
    BY <1>6 DEF Finalized
  <2>2. ASSUME NEW i \in DOMAIN s.files
        PROVE  /\ R.slots[i].size = s.files[i].size /\ R.slots[i].expected = s.files[i].hash
               /\ R.slots[i].sink.name = s.files[i].name /\ R.slots[i].acked = Len(disk[s.files[i].name])
               /\ R.slots[i].acked = r0.slots[i].acked /\ IsSlot(R.slots[i]) /\ R.slots[i].acked \in Nat
    <3>1. IsEntry(s.files[i]) /\ disk[s.files[i].name] \in Content
      BY <1>2
    <3>2. PICK x : x = Slot(s.files[i])
      OBVIOUS
    <3>3. /\ x.size = s.files[i].size /\ x.expected = s.files[i].hash /\ x.sink.name = s.files[i].name
          /\ x.acked = Len(disk[s.files[i].name])
      BY <3>1, <3>2, SlotIs
    <3>4. r0.slots[i] = x /\ i \in DOMAIN r0.slots
      BY <1>6, <3>2
    <3>5. /\ R.slots[i].size = x.size /\ R.slots[i].expected = x.expected /\ R.slots[i].sink = x.sink
          /\ R.slots[i].acked = x.acked
      BY <1>6, <3>4 DEF Finalized
    <3>6. IsSlot(R.slots[i])
      BY <2>1 DEF IsReceiver
    <3>7. Len(disk[s.files[i].name]) \in Nat
      BY <3>1 DEF Content
    <3>. QED
      BY <3>3, <3>4, <3>5, <3>6, <3>7
  <2>3. Agree(s, R, disk)
    BY <2>1, <2>2 DEF Agree
  <2>4. PICK m : m = [type |-> "accept", resume |-> ResumePoints(r0.slots)]
    OBVIOUS
  <2>5. AnswerOk(m, s, R) /\ m # Done(TRUE)
    <3>1. m.type = "accept" /\ m.resume = ResumePoints(r0.slots)
      BY <2>4
    <3>2. \A i \in DOMAIN s.files : R.slots[i].acked = IF i \in DOMAIN m.resume THEN m.resume[i] ELSE 0
      BY <1>6, <2>2, <3>1 DEF ResumePoints
    <3>. QED
      BY <3>1, <3>2 DEF AnswerOk, Done
  <2>6. r0.out = <<m>> /\ r0.out \in Seq(Answer)
    BY <1>6, <2>4 DEF IsReceiver
  <2>7. AllOk(r0.out, s, R) /\ ~SayOk(r0.out)
    BY <2>5, <2>6, AnswersOne
  <2>8. AllOk(R.out, s, R) /\ (SayOk(R.out) => \A i \in DOMAIN s.files : R.slots[i].complete)
    BY <1>6, <2>6, <2>7, FinalizedOut
  <2>9. SayOk(R.out) => HeldAll(s, disk)
    BY <2>2, <2>8 DEF HeldAll, IsSlot
  <2>. QED
    BY <1>4, <2>1, <2>3, <2>8, <2>9
<1>7. LinkOf(s, R, <<>>, w, c, disk)
  <2>1. \/ IsReceiver(R) /\ R.pc = "open" /\ R.aborted /\ R.slots = <<>> /\ R.out = <<[type |-> "reject"]>>
        \/ \E r0 : /\ Finalized(R, r0) /\ IsReceiver(r0) /\ r0.pc = "open" /\ ~r0.aborted /\ ~r0.done
                   /\ DOMAIN r0.slots = DOMAIN s.files /\ \A i \in DOMAIN s.files : r0.slots[i] = Slot(s.files[i])
                   /\ \A i \in DOMAIN s.files : r0.slots[i].acked <= r0.slots[i].size
                   /\ r0.out = <<[type |-> "accept", resume |-> ResumePoints(r0.slots)]>>
    <3>1. PICK files : files = s.files
      OBVIOUS
    <3>. QED
      <4>1. R = AcceptOffer(files) /\ DOMAIN files \subseteq Nat
        BY <1>2, <3>1
      <4>2. \A i \in DOMAIN files : IsEntry(files[i]) /\ disk[files[i].name] \in Content
        BY <1>2, <3>1
      <4>3. \/ IsReceiver(R) /\ R.pc = "open" /\ R.aborted /\ R.slots = <<>> /\ R.out = <<[type |-> "reject"]>>
            \/ \E r0 : /\ Finalized(R, r0) /\ IsReceiver(r0) /\ r0.pc = "open" /\ ~r0.aborted /\ ~r0.done
                       /\ DOMAIN r0.slots = DOMAIN files /\ \A i \in DOMAIN files : r0.slots[i] = Slot(files[i])
                       /\ \A i \in DOMAIN files : r0.slots[i].acked <= r0.slots[i].size
                       /\ r0.out = <<[type |-> "accept", resume |-> ResumePoints(r0.slots)]>>
        BY <4>1, <4>2, AcceptIs
      <4>. QED
        BY <3>1, <4>3
  <2>. QED
    BY <1>1, <1>5, <1>6, <2>1
<1>. QED
  BY <1>1, <1>7

\* The next chunk of the stream is always stored: it starts where its slot
\* ends and stays within the size that was offered.
LEMMA ChunkStores ==
    ASSUME NEW s, NEW r, NEW q, NEW w, NEW c, NEW D, LinkOf(s, r, q, w, c, D), Receiving(r), q # <<>>,
           NEW x, x = Head(q), NEW o, o = OnChunk(r, x)
    PROVE  /\ o.store /\ Finalized(o.r, Taken(r, x)) /\ ~r.slots[x.file].complete
           /\ x \in Chunk /\ x.file \in DOMAIN s.files /\ x.file \in DOMAIN r.slots
           /\ x.offset = r.slots[x.file].acked /\ End(x) <= s.files[x.file].size
           /\ Tail(q) \in Seq(Chunk) /\ (\A k \in 1 .. Len(Tail(q)) : Tail(q)[k].file \in DOMAIN s.files)
           /\ \A i \in DOMAIN s.files : i # x.file => Chain(Tail(q), i, r.slots[i].acked, s.sent[i])
           /\ Chain(Tail(q), x.file, End(x), s.sent[x.file])
<1>1. q \in Seq(Chunk) /\ (\A k \in 1 .. Len(q) : q[k].file \in DOMAIN s.files) /\ IsReceiver(r) /\ IsSender(s) /\ Agree(s, r, D)
  BY StreamsIs DEF LinkOf, Receiving, Ends, Holds
<1>2. \A i \in DOMAIN s.files : Chain(q, i, r.slots[i].acked, s.sent[i])
  BY StreamsIs DEF LinkOf
<1>3. Tail(q) \in Seq(Chunk) /\ x \in Chunk /\ x = q[1] /\ x.file \in DOMAIN s.files
        /\ \A k \in 1 .. Len(Tail(q)) : Tail(q)[k].file \in DOMAIN s.files
  BY <1>1, ChunksLeft
<1>4. \A i \in DOMAIN s.files : r.slots[i].acked \in Nat /\ IsSlot(r.slots[i]) /\ s.sent[i] \in Nat
  BY <1>1, Counts DEF IsSender
<1>5. PICK f \in DOMAIN s.files : f = x.file
  BY <1>3
<1>6. x.offset = r.slots[f].acked /\ r.slots[f].acked < End(x) /\ End(x) <= s.sent[f] /\ Chain(Tail(q), f, End(x), s.sent[f])
  BY <1>1, <1>2, <1>3, <1>4, <1>5, ChainTail
<1>7. \A i \in DOMAIN s.files : i # f => Chain(Tail(q), i, r.slots[i].acked, s.sent[i])
  BY <1>1, <1>2, <1>3, <1>4, <1>5, ChainTailOther
<1>8. s.files[f].size \in Nat /\ s.sent[f] <= s.files[f].size /\ r.slots[f].size = s.files[f].size /\ End(x) \in Nat /\ f \in DOMAIN r.slots
  <2>1. End(x) \in Nat
    BY <1>3, ChunkIs DEF End
  <2>2. r.slots[f].size = s.files[f].size /\ f \in DOMAIN r.slots
    BY <1>1 DEF Agree
  <2>3. s.files[f].size \in Nat /\ s.sent[f] <= s.files[f].size
    BY <1>1, LimitsAreNatural DEF IsSender, IsEntry
  <2>. QED
    BY <2>1, <2>2, <2>3
<1>9. End(x) <= s.files[f].size /\ ~r.slots[f].complete
  BY <1>4, <1>6, <1>8 DEF IsSlot
<1>10. o.store /\ Finalized(o.r, Taken(r, x))
  <2>1. ~(r.slots[x.file].complete \/ x.offset # r.slots[x.file].acked \/ x.offset + Len(x.data) > r.slots[x.file].size)
    BY <1>4, <1>5, <1>6, <1>8, <1>9 DEF End
  <2>2. ~r.aborted /\ x.file \in DOMAIN r.slots
    BY <1>5, <1>8 DEF Receiving
  <2>. QED
    BY <1>1, <1>3, <2>1, <2>2, OnChunkIs
<1>. QED
  BY <1>3, <1>5, <1>6, <1>7, <1>8, <1>9, <1>10

\* A chunk or a torn part of it goes to disk.
Written(D, n, offset, data) == [D EXCEPT ![n] = Overwrite(@, offset, data)]

LEMMA DiskWritten ==
    ASSUME NEW D, DiskOk(D), NEW n \in Name, NEW offset \in Nat, offset <= Len(D[n]), NEW data \in Content,
           offset + Len(data) <= MaxLen, NEW E, E = Written(D, n, offset, data)
    PROVE  /\ DiskOk(E) /\ Grows(D, E) /\ Len(E[n]) >= offset + Len(data)
           /\ \A m \in Name \ {n} : E[m] = D[m]
           /\ offset = Len(D[n]) => E[n] = D[n] \o data
<1>1. PICK d \in Content : d = D[n]
  BY DEF DiskOk
<1>2. PICK e : e = Overwrite(d, offset, data)
  OBVIOUS
<1>3. /\ e \in Content /\ Len(e) >= Len(d) /\ Len(e) >= offset + Len(data)
      /\ Len(e) <= Len(d) \/ Len(e) <= offset + Len(data)
      /\ offset = Len(d) => e = d \o data
  BY <1>1, <1>2, OverwriteIs
<1>4. Has(E, Name) /\ E[n] = e /\ \A m \in Name \ {n} : E[m] = D[m]
  BY <1>1, <1>2 DEF DiskOk, Has, Written
<1>5. Len(e) \in Nat /\ Len(d) \in Nat /\ Len(data) \in Nat /\ Len(d) <= MaxLen /\ MaxLen \in Nat
  <2>1. Len(e) \in Nat /\ Len(d) \in Nat /\ Len(data) \in Nat
    BY <1>3 DEF Content
  <2>2. Len(d) <= MaxLen
    BY <1>1 DEF DiskOk
  <2>. QED
    BY <2>1, <2>2, LimitsAreNatural
<1>6. Len(e) <= MaxLen
  BY <1>3, <1>5
<1>7. DiskOk(E)
  BY <1>3, <1>4, <1>6 DEF DiskOk
<1>8. ASSUME NEW m \in Name PROVE Len(D[m]) <= Len(E[m])
  <2>1. Len(D[m]) \in Nat
    BY DEF DiskOk, Content
  <2>. QED
    BY <1>1, <1>3, <1>4, <2>1
<1>. QED
  BY <1>1, <1>3, <1>4, <1>7, <1>8 DEF Grows

LEMMA LinkTaken ==
    ASSUME NEW s, NEW r, NEW q, NEW w, NEW c, NEW D, LinkOf(s, r, q, w, c, D), DiskOk(D), Receiving(r), q # <<>>,
           NEW x, x = Head(q), NEW o, o = OnChunk(r, x), NEW E, DiskOk(E), Grows(D, E),
           Len(E[r.slots[x.file].sink.name]) >= End(x)
    PROVE  LinkOf(s, o.r, Tail(q), w, c, E)
<1>1. /\ IsSender(s) /\ IsReceiver(r) /\ Agree(s, r, D) /\ w \in Seq(Answer) /\ AllOk(w, s, r)
      /\ q \in Seq(Chunk) /\ s.pc # "offered" /\ s.pc # "new"
      /\ s.pc = "sending" => \A i \in DOMAIN s.files : s.acked[i] <= r.slots[i].acked
  BY StreamsIs DEF LinkOf, Ends, Holds, Receiving
<1>2. PICK T : T = Taken(r, x)
  OBVIOUS
<1>3. PICK R : R = o.r
  OBVIOUS
<1>4. /\ Finalized(R, T) /\ ~r.slots[x.file].complete
      /\ x \in Chunk /\ x.file \in DOMAIN s.files /\ x.file \in DOMAIN r.slots
      /\ x.offset = r.slots[x.file].acked /\ End(x) <= s.files[x.file].size
      /\ Tail(q) \in Seq(Chunk) /\ (\A k \in 1 .. Len(Tail(q)) : Tail(q)[k].file \in DOMAIN s.files)
      /\ (\A i \in DOMAIN s.files : i # x.file => Chain(Tail(q), i, r.slots[i].acked, s.sent[i]))
      /\ Chain(Tail(q), x.file, End(x), s.sent[x.file])
  BY <1>2, <1>3, ChunkStores
<1>5. /\ IsReceiver(T) /\ DOMAIN T.slots = DOMAIN r.slots /\ T.pc = r.pc /\ T.out = <<Ack(x.file, End(x))>>
      /\ T.slots[x.file] = Stored(r.slots[x.file], x)
      /\ \A i \in DOMAIN r.slots \ {x.file} : T.slots[i] = r.slots[i]
  <2>1. IsReceiver(r) /\ x \in Chunk /\ x.file \in DOMAIN r.slots /\ ~r.slots[x.file].complete /\ x.offset = r.slots[x.file].acked
    BY <1>1, <1>4
  <2>2. /\ IsReceiver(T) /\ DOMAIN T.slots = DOMAIN r.slots /\ T.pc = r.pc /\ T.out = <<Ack(x.file, x.offset + Len(x.data))>>
        /\ T.slots[x.file] = Stored(r.slots[x.file], x)
        /\ \A i \in DOMAIN r.slots \ {x.file} : T.slots[i] = r.slots[i]
    BY <1>2, <2>1, TakenIs
  <2>. QED
    BY <2>2 DEF End
<1>6. PICK f \in DOMAIN s.files : f = x.file
  BY <1>4
<1>7. /\ T.slots[f].size = r.slots[f].size /\ T.slots[f].expected = r.slots[f].expected
      /\ T.slots[f].acked = End(x) /\ T.slots[f].sink.name = r.slots[f].sink.name
  <2>1. IsReceiver(r) /\ x \in Chunk /\ x.file \in DOMAIN r.slots /\ ~r.slots[x.file].complete /\ x.offset = r.slots[x.file].acked
    BY <1>1, <1>4
  <2>2. /\ T.slots[x.file].size = r.slots[x.file].size /\ T.slots[x.file].expected = r.slots[x.file].expected
        /\ T.slots[x.file].acked = End(x) /\ T.slots[x.file].sink.name = r.slots[x.file].sink.name
    BY <1>2, <2>1, TakenSlot, SMTT(30)
  <2>. QED
    BY <1>6, <2>2
<1>8. IsReceiver(R) /\ R.pc = "open" /\ DOMAIN R.slots = DOMAIN s.files
  BY <1>1, <1>4, <1>5 DEF Finalized, Agree, Receiving
<1>9. End(x) \in Nat /\ x.file \in Nat /\ x.offset \in Nat /\ x.offset <= End(x)
  BY <1>4, ChunkIs DEF End
<1>10. ASSUME NEW i \in DOMAIN s.files
       PROVE  /\ R.slots[i].size = s.files[i].size /\ R.slots[i].expected = s.files[i].hash
              /\ R.slots[i].sink.name = s.files[i].name /\ R.slots[i].acked <= Len(E[s.files[i].name])
              /\ IsSlot(R.slots[i]) /\ R.slots[i].acked \in Nat /\ r.slots[i].acked \in Nat
              /\ r.slots[i].acked <= R.slots[i].acked
              /\ R.slots[i].acked = IF i = f THEN End(x) ELSE r.slots[i].acked
  <2>1. i \in DOMAIN T.slots /\ i \in DOMAIN r.slots
    BY <1>1, <1>5 DEF Agree
  <2>2. /\ R.slots[i].size = T.slots[i].size /\ R.slots[i].expected = T.slots[i].expected
        /\ R.slots[i].sink = T.slots[i].sink /\ R.slots[i].acked = T.slots[i].acked
    BY <1>4, <2>1 DEF Finalized
  <2>3. /\ r.slots[i].size = s.files[i].size /\ r.slots[i].expected = s.files[i].hash
        /\ r.slots[i].sink.name = s.files[i].name /\ r.slots[i].acked <= Len(D[s.files[i].name])
        /\ r.slots[i].acked \in Nat
    BY <1>1, Counts DEF Agree
  <2>4. IsSlot(R.slots[i])
    BY <1>8 DEF IsReceiver
  <2>5. s.files[i].name \in Name
    BY <1>1 DEF IsSender, IsEntry
  <2>6. Len(D[s.files[i].name]) \in Nat /\ Len(E[s.files[i].name]) \in Nat /\ Len(D[s.files[i].name]) <= Len(E[s.files[i].name])
    BY <2>5 DEF DiskOk, Content, Grows
  <2>7. CASE i = f
    BY <1>4, <1>6, <1>7, <1>9, <2>2, <2>3, <2>4, <2>6, <2>7, ZenonT(30)
  <2>8. CASE i # f
    <3>1. T.slots[i] = r.slots[i]
      BY <1>5, <1>6, <2>1, <2>8
    <3>. QED
      BY <2>2, <2>3, <2>4, <2>6, <2>8, <3>1
  <2>. QED
    BY <2>7, <2>8
<1>11. Agree(s, R, E)
  BY <1>8, <1>10 DEF Agree
<1>12. Onward(s, r, s, R)
  BY <1>1, <1>10 DEF Onward
<1>13. AllOk(w, s, R)
  BY <1>1, <1>12, AnswersKept
<1>14. AllOk(R.out, s, R) /\ (SayOk(R.out) => \A i \in DOMAIN s.files : R.slots[i].complete)
  <2>1. PICK m : m = Ack(x.file, End(x))
    OBVIOUS
  <2>2. m.type = "ack" /\ m.file = f /\ m.through = End(x) /\ m # Done(TRUE) /\ <<m>> \in Seq(Answer)
    BY <1>6, <1>9, <2>1, AckIs DEF Ack
  <2>3. AnswerOk(m, s, R)
    BY <1>9, <1>10, <2>2 DEF AnswerOk
  <2>4. T.out = <<m>>
    BY <1>5, <2>1
  <2>5. AllOk(T.out, s, R) /\ ~SayOk(T.out) /\ T.out \in Seq(Answer)
    BY <2>2, <2>3, <2>4, AnswersOne
  <2>6. DOMAIN T.slots = DOMAIN s.files
    BY <1>1, <1>5 DEF Agree
  <2>. QED
    BY <1>4, <2>5, <2>6, FinalizedOut
<1>15. SayOk(R.out) \/ SayOk(w) => HeldAll(s, E)
  <2>1. SayOk(w) => HeldAll(s, E)
    <3>1. LinkOf(s, r, q, w, c, E)
      BY LinkGrows
    <3>. QED
      BY <3>1 DEF LinkOf, Holds
  <2>2. ASSUME SayOk(R.out), NEW i \in DOMAIN s.files PROVE Len(E[s.files[i].name]) >= s.files[i].size
    <3>1. R.slots[i].acked >= s.files[i].size
      <4>1. R.slots[i].complete /\ IsSlot(R.slots[i]) /\ R.slots[i].size = s.files[i].size
        BY <1>10, <1>14, <2>2
      <4>. QED
        BY <4>1 DEF IsSlot
    <3>2. s.files[i].name \in Name /\ s.files[i].size \in Nat
      BY <1>1, LimitsAreNatural DEF IsSender, IsEntry
    <3>3. Len(E[s.files[i].name]) \in Nat
      BY <3>2 DEF DiskOk, Content
    <3>. QED
      BY <1>10, <3>1, <3>2, <3>3
  <2>. QED
    BY <2>1, <2>2 DEF HeldAll
<1>16. ASSUME NEW i \in DOMAIN s.files
       PROVE  /\ Chain(Tail(q), i, R.slots[i].acked, s.sent[i])
              /\ s.pc = "sending" => s.acked[i] <= R.slots[i].acked
  <2>1. Chain(Tail(q), i, R.slots[i].acked, s.sent[i])
    BY <1>4, <1>6, <1>10
  <2>2. s.acked[i] \in Nat
    BY <1>1 DEF IsSender
  <2>3. ASSUME s.pc = "sending" PROVE s.acked[i] <= R.slots[i].acked
    <3>1. s.acked[i] <= r.slots[i].acked
      BY <1>1, <2>3
    <3>. QED
      BY <1>10, <2>2, <3>1
  <2>. QED
    BY <2>1, <2>3
<1>17. Streams(s, R, Tail(q), w)
  BY <1>1, <1>4, <1>13, <1>14, <1>16, StreamsIs
<1>18. Ends(s, R, Tail(q), w, c)
  BY <1>1, <1>8 DEF LinkOf, Ends
<1>19. Holds(s, R, w, E)
  BY <1>11, <1>15 DEF Holds
<1>. QED
  BY <1>3, <1>17, <1>18, <1>19 DEF LinkOf

-----------------------------------------------------------------------------
(* The invariant of the whole transfer                                     *)

LEMMA FilledIs ==
    ASSUME NEW n \in Nat, NEW v \in Nat
    PROVE  [i \in 1 .. n |-> v] \in Content /\ Len([i \in 1 .. n |-> v]) = n
<1>1. [i \in 1 .. n |-> v] \in Seq(Nat)
  OBVIOUS
<1>2. Len([i \in 1 .. n |-> v]) = n
  BY <1>1
<1>. QED
  BY <1>1, <1>2 DEF Content

LEMMA TransferInit == Init => TransferInv
<1>. SUFFICES ASSUME Init PROVE TransferInv
  OBVIOUS
<1>1. SourcesOk
  <2>1. Has(src, Path)
    BY DEF Init, Has
  <2>2. ASSUME NEW p \in Path PROVE src[p] \in Content /\ Len(src[p]) <= MaxLen
    <3>1. InitLen[p] \in Nat /\ InitLen[p] <= MaxLen
      BY PlansAreOfPaths, LimitsAreNatural
    <3>2. src[p] = [i \in 1 .. InitLen[p] |-> 0]
      BY DEF Init
    <3>3. PICK n \in Nat : n = InitLen[p]
      BY <3>1
    <3>4. src[p] = [i \in 1 .. n |-> 0]
      BY <3>2, <3>3
    <3>5. src[p] \in Content /\ Len(src[p]) = n
      BY <3>4, FilledIs
    <3>. QED
      BY <3>1, <3>3, <3>5
  <2>. QED
    BY <2>1, <2>2 DEF SourcesOk
<1>2. DiskOk(disk)
  <2>1. <<>> \in Content /\ Len(<<>>) = 0 /\ 0 <= MaxLen
    BY LimitsAreNatural DEF Content
  <2>2. Has(disk, Name) /\ \A n \in Name : disk[n] = <<>>
    BY DEF Init, Has
  <2>. QED
    BY <2>1, <2>2 DEF DiskOk
<1>3. Shape
  BY <1>1, <1>2 DEF Init, Shape, Has
<1>4. IsSender(NoSender) /\ NoSender.pc = "new" /\ NoSender.files = <<>> /\ DOMAIN NoSender.files = {}
  BY DEF NoSender, IsSender, Has
<1>5. IsReceiver(NoReceiver) /\ NoReceiver.pc = "none" /\ NoReceiver.out = <<>>
  <2>1. /\ Has(NoReceiver, {"pc", "slots", "out", "done", "aborted"}) /\ NoReceiver.slots = <<>> /\ NoReceiver.out = <<>>
        /\ NoReceiver.done = FALSE /\ NoReceiver.aborted = FALSE /\ NoReceiver.pc = "none"
    BY DEF NoReceiver, Has
  <2>2. <<>> \in Seq(Answer) /\ DOMAIN <<>> = {} /\ Has(<<>>, {})
    BY DEF Has
  <2>. QED
    BY <2>1, <2>2 DEF IsReceiver
<1>6. LinkOf(NoSender, NoReceiver, <<>>, <<>>, "none", disk)
  <2>1. Ends(NoSender, NoReceiver, <<>>, <<>>, "none")
    BY <1>4, <1>5 DEF Ends
  <2>2. <<>> \in Seq(Answer)
    OBVIOUS
  <2>3. Streams(NoSender, NoReceiver, <<>>, <<>>)
    BY <1>4, <1>5, <2>2, AnswersOne, StreamsIs DEF Receiving
  <2>4. Holds(NoSender, NoReceiver, <<>>, disk)
    BY <1>5, AnswersOne DEF Holds, Receiving
  <2>. QED
    BY <2>1, <2>3, <2>4 DEF LinkOf
<1>7. \A t \in Attempt : snd[t] = NoSender /\ rcv[t] = NoReceiver /\ up[t] = <<>> /\ down[t] = <<>> /\ conn[t] = "none"
  BY DEF Init
<1>. QED
  BY <1>3, <1>6, <1>7 DEF TransferInv, Link

SameAt(u) == snd'[u] = snd[u] /\ rcv'[u] = rcv[u] /\ up'[u] = up[u] /\ down'[u] = down[u] /\ conn'[u] = conn[u]

LEMMA OneMoves ==
    ASSUME TransferInv, NEW t \in Attempt, Shape', Grows(disk, disk'), \A u \in Attempt \ {t} : SameAt(u), Link(t)'
    PROVE  TransferInv'
<1>1. ASSUME NEW u \in Attempt \ {t} PROVE Link(u)'
  <2>1. LinkOf(snd[u], rcv[u], up[u], down[u], conn[u], disk) /\ DiskOk(disk) /\ DiskOk(disk')
    BY DEF TransferInv, Link, Shape
  <2>2. LinkOf(snd[u], rcv[u], up[u], down[u], conn[u], disk')
    BY <2>1, LinkGrows
  <2>3. SameAt(u)
    OBVIOUS
  <2>. QED
    BY <2>2, <2>3 DEF Link, SameAt
<1>. QED
  BY <1>1 DEF TransferInv

LEMMA GrowsSame ==
    ASSUME NEW D, DiskOk(D)
    PROVE  Grows(D, D)
BY DEF DiskOk, Grows, Content

LEMMA EndSenderStep ==
    ASSUME TransferInv, NEW t \in Attempt, NEW p, p \in {"ok", "failed"}, p = "ok" => snd[t].pc = "sending",
           EndSender(t, p), UNCHANGED <<src, disk, rcv, up, edits>>,
           down' = down \/ (down[t] # <<>> /\ down' = [down EXCEPT ![t] = Tail(@)])
    PROVE  TransferInv'
<1>1. snd' = [snd EXCEPT ![t].pc = p] /\ conn' = [conn EXCEPT ![t] = "lost"]
  BY DEF EndSender
<1>2. /\ Shape' /\ snd'[t] = [snd[t] EXCEPT !.pc = p] /\ conn'[t] = "lost" /\ rcv'[t] = rcv[t] /\ up'[t] = up[t]
      /\ down'[t] = down[t] \/ (down[t] # <<>> /\ down'[t] = Tail(down[t]))
  BY <1>1 DEF TransferInv, Shape, Has, SourcesOk, DiskOk
<1>3. \A u \in Attempt \ {t} : SameAt(u)
  BY <1>1 DEF SameAt, TransferInv, Shape, Has
<1>4. LinkOf(snd[t], rcv[t], up[t], down[t], conn[t], disk)
  BY DEF TransferInv, Link
<1>5. LinkOf(snd'[t], rcv[t], up[t], down'[t], "lost", disk)
  <2>1. PICK S : S = snd'[t]
    OBVIOUS
  <2>2. PICK W : W = down'[t]
    OBVIOUS
  <2>3. LinkOf(S, rcv[t], up[t], W, "lost", disk)
    BY <1>2, <1>4, <2>1, <2>2, LinkEnded, ZenonT(60)
  <2>. QED
    BY <2>1, <2>2, <2>3
<1>6. Link(t)'
  BY <1>2, <1>5 DEF Link
<1>7. Grows(disk, disk')
  BY GrowsSame DEF TransferInv, Shape
<1>. QED
  BY <1>2, <1>3, <1>6, <1>7, OneMoves

LEMMA StartStep == ASSUME TransferInv, NEW t \in Attempt, Start(t) PROVE TransferInv'
<1>1. LinkOf(snd[t], rcv[t], up[t], down[t], conn[t], disk) /\ snd[t].pc = "new" /\ SourcesOk
  BY DEF TransferInv, Link, Start, Shape
<1>2. Grows(disk, disk')
  BY GrowsSame DEF TransferInv, Shape, Start
<1>3. PICK plan \in Plans :
        \/ snd' = [snd EXCEPT ![t].pc = "failed"] /\ conn' = conn /\ up' = up
        \/ /\ snd' = [snd EXCEPT ![t] = Sender(plan)] /\ conn' = [conn EXCEPT ![t] = "up"]
           /\ up' = [up EXCEPT ![t] = <<[type |-> "offer", files |-> Sender(plan).files]>>]
  BY DEF Start
<1>4. UNCHANGED <<src, disk, rcv, down, edits>>
  BY DEF Start
<1>5. CASE snd' = [snd EXCEPT ![t].pc = "failed"] /\ conn' = conn /\ up' = up
  <2>1. Shape' /\ snd'[t] = [snd[t] EXCEPT !.pc = "failed"] /\ \A u \in Attempt \ {t} : SameAt(u)
    BY <1>4, <1>5 DEF TransferInv, Shape, Has, SourcesOk, DiskOk, SameAt
  <2>2. PICK S : S = snd'[t]
    OBVIOUS
  <2>3. LinkOf(S, rcv[t], up[t], down[t], conn[t], disk)
    BY <1>1, <2>1, <2>2, LinkEnded
  <2>4. Link(t)'
    BY <1>4, <1>5, <2>2, <2>3 DEF Link
  <2>. QED
    BY <1>2, <2>1, <2>4, OneMoves
<1>6. CASE /\ snd' = [snd EXCEPT ![t] = Sender(plan)] /\ conn' = [conn EXCEPT ![t] = "up"]
           /\ up' = [up EXCEPT ![t] = <<[type |-> "offer", files |-> Sender(plan).files]>>]
  <2>1. PICK S : S = Sender(plan)
    OBVIOUS
  <2>2. IsSender(S) /\ S.pc = "offered" /\ \A i \in DOMAIN S.files : S.sent[i] = 0 /\ S.acked[i] = 0
    BY <1>1, <2>1, SenderIs
  <2>3. snd' = [snd EXCEPT ![t] = S] /\ up' = [up EXCEPT ![t] = <<Offering(S)>>]
    BY <1>6, <2>1 DEF Offering
  <2>4. Shape' /\ snd'[t] = S /\ up'[t] = <<Offering(S)>> /\ conn'[t] = "up" /\ \A u \in Attempt \ {t} : SameAt(u)
    BY <1>4, <1>6, <2>3 DEF TransferInv, Shape, Has, SourcesOk, DiskOk, SameAt
  <2>5. LinkOf(S, rcv[t], <<Offering(S)>>, down[t], "up", disk)
    BY <1>1, <2>2, LinkBegun
  <2>6. Link(t)'
    BY <1>4, <2>4, <2>5 DEF Link
  <2>. QED
    BY <1>2, <2>4, <2>6, OneMoves
<1>. QED
  BY <1>3, <1>5, <1>6

LEMMA RecvReplyStep == ASSUME TransferInv, NEW t \in Attempt, RecvReply(t) PROVE TransferInv'
<1>1. LinkOf(snd[t], rcv[t], up[t], down[t], conn[t], disk) /\ snd[t].pc = "offered" /\ down[t] # <<>>
  BY DEF TransferInv, Link, RecvReply
<1>2. UNCHANGED <<src, disk, rcv, up, edits>> /\ down' = [down EXCEPT ![t] = Tail(@)]
  BY DEF RecvReply
<1>3. PICK m : m = Head(down[t])
  OBVIOUS
<1>4. CASE m.type = "accept" /\ ResumeIsValid(snd[t], m.resume)
  <2>1. snd' = [snd EXCEPT ![t] = OnAccept(@, m.resume)] /\ conn' = conn
    BY <1>3, <1>4 DEF RecvReply
  <2>2. PICK S : S = OnAccept(snd[t], m.resume)
    OBVIOUS
  <2>3. snd' = [snd EXCEPT ![t] = S]
    BY <2>1, <2>2
  <2>4. Shape' /\ snd'[t] = S /\ down'[t] = Tail(down[t]) /\ \A u \in Attempt \ {t} : SameAt(u)
    BY <1>2, <2>1, <2>3 DEF TransferInv, Shape, Has, SourcesOk, DiskOk, SameAt
  <2>5. LinkOf(S, rcv[t], up[t], Tail(down[t]), conn[t], disk)
    BY <1>1, <1>3, <1>4, <2>2, LinkAccepted
  <2>6. Link(t)'
    BY <1>2, <2>1, <2>4, <2>5 DEF Link
  <2>7. Grows(disk, disk')
    BY <1>2, GrowsSame DEF TransferInv, Shape
  <2>. QED
    BY <2>4, <2>6, <2>7, OneMoves
<1>5. CASE ~(m.type = "accept" /\ ResumeIsValid(snd[t], m.resume))
  <2>1. EndSender(t, "failed")
    BY <1>3, <1>5 DEF RecvReply
  <2>. QED
    BY <1>1, <1>2, <2>1, EndSenderStep
<1>. QED
  BY <1>4, <1>5

LEMMA SendChunkStep == ASSUME TransferInv, NEW t \in Attempt, SendChunk(t) PROVE TransferInv'
<1>1. /\ LinkOf(snd[t], rcv[t], up[t], down[t], conn[t], disk) /\ snd[t].pc = "sending" /\ Sendable(snd[t]) # {} /\ SourcesOk
      /\ IsSender(snd[t])
  BY DEF TransferInv, Link, SendChunk, Shape, LinkOf, Ends
<1>2. UNCHANGED <<src, disk, rcv, down, edits>>
  BY DEF SendChunk
<1>3. PICK x : x = PollChunk(snd[t])
  OBVIOUS
<1>4. CASE x.data = <<>>
  <2>1. EndSender(t, "failed") /\ up' = up
    BY <1>3, <1>4 DEF SendChunk
  <2>. QED
    BY <1>1, <1>2, <2>1, EndSenderStep
<1>5. CASE x.data # <<>>
  <2>1. /\ snd' = [snd EXCEPT ![t].sent[x.file] = @ + Len(x.data)]
        /\ up' = [up EXCEPT ![t] = Append(@, x)] /\ conn' = conn
    BY <1>3, <1>5 DEF SendChunk
  <2>2. PICK s : s = snd[t]
    OBVIOUS
  <2>3. x \in Chunk /\ x.file \in DOMAIN s.files /\ x.offset = s.sent[x.file] /\ x.offset + Len(x.data) <= s.files[x.file].size
    BY <1>1, <1>3, <2>2, PollChunkIs
  <2>4. PICK S : S = SentOn(s, x.file, Len(x.data))
    OBVIOUS
  <2>5. snd' = [snd EXCEPT ![t] = S]
    BY <2>1, <2>2, <2>4 DEF SentOn
  <2>6. PICK Q : Q = Append(up[t], x)
    OBVIOUS
  <2>7. up' = [up EXCEPT ![t] = Q]
    BY <2>1, <2>6
  <2>8. Shape' /\ snd'[t] = S /\ up'[t] = Q /\ \A u \in Attempt \ {t} : SameAt(u)
    BY <1>2, <2>1, <2>5, <2>7 DEF TransferInv, Shape, Has, SourcesOk, DiskOk, SameAt
  <2>9. LinkOf(S, rcv[t], Q, down[t], conn[t], disk)
    BY <1>1, <1>5, <2>2, <2>3, <2>4, <2>6, LinkSent
  <2>10. Link(t)'
    BY <1>2, <2>1, <2>8, <2>9 DEF Link
  <2>11. Grows(disk, disk')
    BY <1>2, GrowsSame DEF TransferInv, Shape
  <2>. QED
    BY <2>8, <2>10, <2>11, OneMoves
<1>. QED
  BY <1>4, <1>5

LEMMA RecvProgressStep == ASSUME TransferInv, NEW t \in Attempt, RecvProgress(t) PROVE TransferInv'
<1>1. LinkOf(snd[t], rcv[t], up[t], down[t], conn[t], disk) /\ snd[t].pc = "sending" /\ down[t] # <<>>
  BY DEF TransferInv, Link, RecvProgress
<1>2. UNCHANGED <<src, disk, rcv, up, edits>> /\ down' = [down EXCEPT ![t] = Tail(@)]
  BY DEF RecvProgress
<1>3. PICK m : m = Head(down[t])
  OBVIOUS
<1>4. \/ EndSender(t, "ok") \/ EndSender(t, "failed")
      \/ /\ m.type = "ack" /\ AckIsValid(snd[t], m)
         /\ snd' = [snd EXCEPT ![t] = OnAck(@, m)] /\ conn' = conn
  <2>1. CASE m.type = "done"
    <3>1. EndSender(t, IF m.ok THEN "ok" ELSE "failed")
      BY <1>3, <2>1 DEF RecvProgress
    <3>2. CASE m.ok
      BY <3>1, <3>2
    <3>3. CASE ~m.ok
      BY <3>1, <3>3
    <3>. QED
      BY <3>2, <3>3
  <2>2. CASE m.type # "done" /\ m.type = "ack" /\ ~IsComplete(snd[t]) /\ AckIsValid(snd[t], m)
    BY <1>3, <2>2 DEF RecvProgress
  <2>3. CASE m.type # "done" /\ ~(m.type = "ack" /\ ~IsComplete(snd[t]) /\ AckIsValid(snd[t], m))
    BY <1>3, <2>3 DEF RecvProgress
  <2>. QED
    BY <2>1, <2>2, <2>3
<1>5. CASE EndSender(t, "ok")
  BY <1>1, <1>2, <1>5, EndSenderStep
<1>6. CASE EndSender(t, "failed")
  BY <1>1, <1>2, <1>6, EndSenderStep
<1>7. CASE /\ m.type = "ack" /\ AckIsValid(snd[t], m)
           /\ snd' = [snd EXCEPT ![t] = OnAck(@, m)] /\ conn' = conn
  <2>1. PICK S : S = OnAck(snd[t], m)
    OBVIOUS
  <2>2. snd' = [snd EXCEPT ![t] = S]
    BY <1>7, <2>1
  <2>3. Shape' /\ snd'[t] = S /\ down'[t] = Tail(down[t]) /\ \A u \in Attempt \ {t} : SameAt(u)
    BY <1>2, <1>7, <2>2 DEF TransferInv, Shape, Has, SourcesOk, DiskOk, SameAt
  <2>4. LinkOf(S, rcv[t], up[t], Tail(down[t]), conn[t], disk)
    BY <1>1, <1>3, <1>7, <2>1, LinkAcked
  <2>5. Link(t)'
    BY <1>2, <1>7, <2>3, <2>4 DEF Link
  <2>6. Grows(disk, disk')
    BY <1>2, GrowsSame DEF TransferInv, Shape
  <2>. QED
    BY <2>3, <2>5, <2>6, OneMoves
<1>. QED
  BY <1>4, <1>5, <1>6, <1>7

LEMMA SenderLostStep == ASSUME TransferInv, NEW t \in Attempt, SenderLost(t) \/ Timeout(t) PROVE TransferInv'
<1>1. EndSender(t, "failed") /\ UNCHANGED <<src, disk, rcv, up, edits>> /\ down' = down
  BY DEF SenderLost, Timeout
<1>. QED
  BY <1>1, EndSenderStep

LEMMA ReceiverMoves ==
    ASSUME TransferInv, NEW t \in Attempt, NEW R, rcv' = [rcv EXCEPT ![t] = R],
           up' = up \/ up' = [up EXCEPT ![t] = Tail(@)],
           conn' = conn \/ conn' = [conn EXCEPT ![t] = "lost"],
           \A u \in Attempt \ {t} : down'[u] = down[u], Has(down', Attempt),
           UNCHANGED <<src, snd, edits>>, DiskOk(disk'), Grows(disk, disk'),
           LinkOf(snd[t], R, up'[t], down'[t], conn'[t], disk')
    PROVE  TransferInv'
<1>1. Shape' /\ rcv'[t] = R /\ \A u \in Attempt \ {t} : SameAt(u)
  BY DEF TransferInv, Shape, Has, SourcesOk, SameAt
<1>2. Link(t)'
  BY <1>1 DEF Link
<1>. QED
  BY <1>1, <1>2, OneMoves

LEMMA RecvOfferStep == ASSUME TransferInv, NEW t \in Attempt, RecvOffer(t) PROVE TransferInv'
<1>1. LinkOf(snd[t], rcv[t], up[t], down[t], conn[t], disk) /\ rcv[t].pc = "none" /\ up[t] # <<>> /\ DiskOk(disk)
  BY DEF TransferInv, Link, RecvOffer, Shape
<1>2. UNCHANGED <<src, disk, snd, down, conn, edits>> /\ up' = [up EXCEPT ![t] = Tail(@)]
        /\ rcv' = [rcv EXCEPT ![t] = AcceptOffer(Head(up[t]).files)]
  BY DEF RecvOffer
<1>3. PICK s : s = snd[t]
  OBVIOUS
<1>4. PICK R : R = AcceptOffer(s.files)
  OBVIOUS
<1>5. up[t] = <<Offering(s)>> /\ LinkOf(s, R, Tail(up[t]), down[t], conn[t], disk)
  BY <1>1, <1>3, <1>4, LinkOffered
<1>6. rcv' = [rcv EXCEPT ![t] = R]
  <2>1. PICK x : x = Offering(s)
    OBVIOUS
  <2>2. Head(<<x>>) = x /\ x.files = s.files
    BY <2>1 DEF Offering
  <2>. QED
    BY <1>2, <1>4, <1>5, <2>1, <2>2
<1>7. up'[t] = Tail(up[t]) /\ Has(down', Attempt)
  BY <1>2 DEF TransferInv, Shape, Has
<1>8. Grows(disk, disk')
  BY <1>1, <1>2, GrowsSame
<1>. QED
  BY <1>1, <1>2, <1>3, <1>5, <1>6, <1>7, <1>8, ReceiverMoves

\* What a receiver about to take a chunk, a failed write or a crash knows.
LEMMA Reading ==
    ASSUME TransferInv, NEW t \in Attempt, rcv[t].pc = "open", ~Terminal(rcv[t]), up[t] # <<>>,
           NEW x, x = Head(up[t]), NEW n, n = rcv[t].slots[x.file].sink.name
    PROVE  /\ Receiving(rcv[t]) /\ OnChunk(rcv[t], x).store /\ x \in Chunk /\ x.file \in DOMAIN rcv[t].slots
           /\ n \in Name /\ x.offset \in Nat /\ x.data \in Content
           /\ x.offset = rcv[t].slots[x.file].acked /\ ~rcv[t].slots[x.file].complete
           /\ x.offset <= Len(disk[n]) /\ x.offset + Len(x.data) <= MaxLen
           /\ Finalized(OnChunk(rcv[t], x).r, Taken(rcv[t], x)) /\ IsReceiver(rcv[t])
<1>1. LinkOf(snd[t], rcv[t], up[t], down[t], conn[t], disk) /\ Receiving(rcv[t])
  BY DEF TransferInv, Link, Terminal, Receiving
<1>2. PICK r : r = rcv[t]
  OBVIOUS
<1>3. PICK s : s = snd[t]
  OBVIOUS
<1>4. /\ OnChunk(r, x).store /\ x \in Chunk /\ x.file \in DOMAIN s.files /\ x.file \in DOMAIN r.slots
      /\ x.offset = r.slots[x.file].acked /\ End(x) <= s.files[x.file].size
      /\ ~r.slots[x.file].complete /\ Finalized(OnChunk(r, x).r, Taken(r, x))
  BY <1>1, <1>2, <1>3, ChunkStores, SMTT(30)
<1>5. Agree(s, r, disk) /\ IsSender(s) /\ IsReceiver(r)
  BY <1>1, <1>2, <1>3 DEF LinkOf, Ends, Holds
<1>6. n = s.files[x.file].name /\ x.offset <= Len(disk[n])
  BY <1>2, <1>4, <1>5 DEF Agree
<1>7. n \in Name /\ s.files[x.file].size \in Nat /\ s.files[x.file].size <= MaxLen
  <2>1. PICK f \in DOMAIN s.files : f = x.file
    BY <1>4
  <2>2. IsEntry(s.files[f]) /\ n = s.files[f].name
    BY <1>5, <1>6, <2>1 DEF IsSender
  <2>3. n \in Name /\ s.files[f].size \in 0 .. MaxLen
    BY <2>2 DEF IsEntry
  <2>4. s.files[f].size \in Nat /\ s.files[f].size <= MaxLen
    BY <2>3, LimitsAreNatural
  <2>. QED
    BY <2>1, <2>3, <2>4
<1>8. x.offset \in Nat /\ x.data \in Content /\ Len(x.data) \in Nat
  BY <1>4, ChunkIs
<1>9. x.offset + Len(x.data) <= MaxLen
  <2>1. PICK z : z = s.files[x.file].size
    OBVIOUS
  <2>2. PICK e : e = End(x)
    OBVIOUS
  <2>3. z \in Nat /\ z <= MaxLen /\ e <= z
    BY <1>4, <1>7, <2>1, <2>2
  <2>4. e = x.offset + Len(x.data) /\ e \in Nat
    BY <1>8, <2>2 DEF End
  <2>5. e <= MaxLen
    BY <2>3, <2>4, LimitsAreNatural
  <2>. QED
    BY <2>4, <2>5
<1>10. OnChunk(rcv[t], x).store /\ Finalized(OnChunk(rcv[t], x).r, Taken(rcv[t], x))
  BY <1>2, <1>4
<1>11. /\ x.file \in DOMAIN rcv[t].slots /\ IsReceiver(rcv[t])
       /\ x.offset = rcv[t].slots[x.file].acked /\ ~rcv[t].slots[x.file].complete
  BY <1>2, <1>4, <1>5
<1>. QED
  BY <1>1, <1>4, <1>6, <1>7, <1>8, <1>9, <1>10, <1>11

LEMMA ChunkGrows ==
    ASSUME TransferInv, NEW t \in Attempt, RecvChunk(t), NEW x, x = Head(up[t]),
           NEW n, n = rcv[t].slots[x.file].sink.name
    PROVE  DiskOk(disk') /\ Grows(disk, disk') /\ Len(disk'[n]) >= End(x)
<1>1. DiskOk(disk) /\ rcv[t].pc = "open" /\ ~Terminal(rcv[t]) /\ up[t] # <<>>
  BY DEF TransferInv, RecvChunk, Shape
<1>2. /\ OnChunk(rcv[t], x).store /\ n \in Name /\ x.offset \in Nat /\ x.data \in Content
      /\ x.offset <= Len(disk[n]) /\ x.offset + Len(x.data) <= MaxLen
  BY <1>1, Reading
<1>3. PICK E : E = disk'
  OBVIOUS
<1>4. PICK d : d = x.data
  OBVIOUS
<1>5. PICK k : k = x.offset
  OBVIOUS
<1>6. disk' = [disk EXCEPT ![n] = Overwrite(@, x.offset, x.data)]
  BY <1>2 DEF RecvChunk
<1>7. E = Written(disk, n, k, d) /\ d \in Content /\ k \in Nat /\ k <= Len(disk[n]) /\ k + Len(d) <= MaxLen
  BY <1>2, <1>3, <1>4, <1>5, <1>6 DEF Written
<1>8. DiskOk(E) /\ Grows(disk, E) /\ Len(E[n]) >= k + Len(d)
  BY <1>1, <1>2, <1>7, DiskWritten
<1>. QED
  BY <1>3, <1>4, <1>5, <1>8 DEF End

LEMMA RecvChunkStep == ASSUME TransferInv, NEW t \in Attempt, RecvChunk(t) PROVE TransferInv'
<1>1. /\ LinkOf(snd[t], rcv[t], up[t], down[t], conn[t], disk) /\ rcv[t].pc = "open" /\ ~Terminal(rcv[t]) /\ up[t] # <<>>
      /\ DiskOk(disk)
  BY DEF TransferInv, Link, RecvChunk, Shape
<1>2. UNCHANGED <<src, snd, down, conn, edits>> /\ up' = [up EXCEPT ![t] = Tail(@)]
  BY DEF RecvChunk
<1>3. PICK x : x = Head(up[t])
  OBVIOUS
<1>4. PICK n : n = rcv[t].slots[x.file].sink.name
  OBVIOUS
<1>5. PICK o : o = OnChunk(rcv[t], x)
  OBVIOUS
<1>6. /\ Receiving(rcv[t]) /\ o.store /\ x \in Chunk /\ n \in Name /\ x.offset \in Nat /\ x.data \in Content
      /\ x.offset <= Len(disk[n]) /\ x.offset + Len(x.data) <= MaxLen
  BY <1>1, <1>3, <1>4, <1>5, Reading
<1>7. rcv' = [rcv EXCEPT ![t] = o.r] /\ disk' = [disk EXCEPT ![n] = Overwrite(@, x.offset, x.data)]
  BY <1>3, <1>4, <1>5, <1>6 DEF RecvChunk
<1>8. DiskOk(disk') /\ Grows(disk, disk') /\ Len(disk'[n]) >= End(x)
  BY <1>3, <1>4, ChunkGrows
<1>9. PICK E : E = disk'
  OBVIOUS
<1>10. LinkOf(snd[t], o.r, Tail(up[t]), down[t], conn[t], E)
  <2>1. PICK r : r = rcv[t]
    OBVIOUS
  <2>2. PICK q : q = up[t]
    OBVIOUS
  <2>3. LinkOf(snd[t], r, q, down[t], conn[t], disk) /\ Receiving(r) /\ q # <<>> /\ x = Head(q) /\ o = OnChunk(r, x)
    BY <1>1, <1>3, <1>5, <1>6, <2>1, <2>2
  <2>4. DiskOk(E) /\ Grows(disk, E) /\ Len(E[r.slots[x.file].sink.name]) >= End(x)
    BY <1>4, <1>8, <1>9, <2>1
  <2>5. LinkOf(snd[t], o.r, Tail(q), down[t], conn[t], E)
    BY <1>1, <2>3, <2>4, LinkTaken
  <2>. QED
    BY <2>2, <2>5
<1>11. up'[t] = Tail(up[t]) /\ Has(down', Attempt)
  BY <1>2 DEF TransferInv, Shape, Has
<1>12. LinkOf(snd[t], o.r, up'[t], down'[t], conn'[t], disk')
  BY <1>2, <1>9, <1>10, <1>11
<1>13. PICK R : R = o.r
  OBVIOUS
<1>14. rcv' = [rcv EXCEPT ![t] = R]
  BY <1>7, <1>13
<1>. QED
  BY <1>2, <1>8, <1>11, <1>12, <1>13, <1>14, ReceiverMoves

LEMMA EmitStep == ASSUME TransferInv, NEW t \in Attempt, Emit(t) PROVE TransferInv'
<1>1. LinkOf(snd[t], rcv[t], up[t], down[t], conn[t], disk) /\ rcv[t].pc = "open" /\ rcv[t].out # <<>> /\ DiskOk(disk)
  BY DEF TransferInv, Link, Emit, Shape
<1>2. UNCHANGED <<src, disk, snd, up, conn, edits>> /\ down' = [down EXCEPT ![t] = Append(@, Head(rcv[t].out))]
  BY DEF Emit
<1>3. PICK r : r = [rcv[t] EXCEPT !.out = Tail(@)]
  OBVIOUS
<1>4. PICK p : p = IF r.out = <<>> /\ Terminal(r) THEN "closed" ELSE "open"
  OBVIOUS
<1>5. PICK R : R = [r EXCEPT !.pc = p]
  OBVIOUS
<1>6. rcv' = [rcv EXCEPT ![t] = R]
  BY <1>3, <1>4, <1>5 DEF Emit
<1>7. IsReceiver(R) /\ R.pc \in {"open", "closed"} /\ R.out = Tail(rcv[t].out) /\ R.slots = rcv[t].slots /\ R.aborted = rcv[t].aborted
  <2>1. IsReceiver(rcv[t]) /\ rcv[t].out \in Seq(Answer)
    BY <1>1 DEF LinkOf, Ends, IsReceiver
  <2>2. PICK w \in Seq(Answer) : w = Tail(rcv[t].out)
    BY <1>1, <2>1, AnswersTail
  <2>3. r = [rcv[t] EXCEPT !.out = w] /\ p \in {"open", "closed"}
    BY <1>3, <1>4, <2>2
  <2>4. IsReceiver(r) /\ r.out = w /\ r.slots = rcv[t].slots /\ r.aborted = rcv[t].aborted
    BY <2>1, <2>3 DEF IsReceiver, Has
  <2>5. IsReceiver(R) /\ R.pc = p /\ R.out = w /\ R.slots = r.slots /\ R.aborted = r.aborted
    BY <1>5, <2>4 DEF IsReceiver, Has
  <2>. QED
    BY <2>2, <2>3, <2>4, <2>5
<1>8. LinkOf(snd[t], R, up[t], Append(down[t], Head(rcv[t].out)), conn[t], disk)
  BY <1>1, <1>7, LinkEmitted
<1>9. /\ down'[t] = Append(down[t], Head(rcv[t].out)) /\ Has(down', Attempt)
      /\ \A u \in Attempt \ {t} : down'[u] = down[u]
  BY <1>2 DEF TransferInv, Shape, Has
<1>10. LinkOf(snd[t], R, up'[t], down'[t], conn'[t], disk')
  BY <1>2, <1>8, <1>9
<1>11. DiskOk(disk') /\ Grows(disk, disk')
  BY <1>1, <1>2, GrowsSame
<1>. QED
  BY <1>2, <1>6, <1>9, <1>10, <1>11, ReceiverMoves

LEMMA ClosedIs ==
    ASSUME NEW r, IsReceiver(r)
    PROVE  /\ LET R == [r EXCEPT !.pc = "closed"] IN
                  IsReceiver(R) /\ R.pc = "closed" /\ R.out = r.out /\ R.slots = r.slots
           /\ LET R == [r EXCEPT !.pc = "closed", !.out = <<>>] IN
                  IsReceiver(R) /\ R.pc = "closed" /\ R.out = <<>> /\ R.slots = r.slots
<1>1. <<>> \in Seq(Answer)
  OBVIOUS
<1>2. PICK w \in Seq(Answer) : w = <<>>
  BY <1>1
<1>3. IsReceiver([r EXCEPT !.pc = "closed", !.out = w])
  BY DEF IsReceiver, Has
<1>4. LET R == [r EXCEPT !.pc = "closed", !.out = w] IN R.pc = "closed" /\ R.out = w /\ R.slots = r.slots
  BY DEF IsReceiver, Has
<1>5. LET R == [r EXCEPT !.pc = "closed"] IN IsReceiver(R) /\ R.pc = "closed" /\ R.out = r.out /\ R.slots = r.slots
  BY DEF IsReceiver, Has
<1>. QED
  BY <1>2, <1>3, <1>4, <1>5

LEMMA ClosingStep ==
    ASSUME TransferInv, NEW t \in Attempt, ReceiverLost(t) \/ OpenFails(t)
    PROVE  TransferInv'
<1>1. LinkOf(snd[t], rcv[t], up[t], down[t], conn[t], disk) /\ DiskOk(disk) /\ Has(down, Attempt) /\ Has(conn, Attempt)
  BY DEF TransferInv, Link, Shape
<1>2. UNCHANGED <<src, disk, snd, up, down, edits>> /\ (conn' = conn \/ conn' = [conn EXCEPT ![t] = "lost"])
  BY DEF ReceiverLost, OpenFails
<1>3. snd[t].pc # "new"
  <2>1. conn[t] = "lost" \/ up[t] # <<>>
    BY DEF ReceiverLost, OpenFails
  <2>. QED
    BY <1>1, <2>1 DEF LinkOf, Ends
<1>4. PICK R : /\ IsReceiver(R) /\ R.pc = "closed" /\ (R.out = rcv[t].out \/ R.out = <<>>)
               /\ rcv' = [rcv EXCEPT ![t] = R]
  <2>1. PICK r : r = rcv[t]
    OBVIOUS
  <2>2. IsReceiver(r)
    BY <1>1, <2>1 DEF LinkOf, Ends
  <2>3. CASE ReceiverLost(t)
    <3>1. PICK R : R = [r EXCEPT !.pc = "closed", !.out = <<>>]
      OBVIOUS
    <3>2. rcv' = [rcv EXCEPT ![t] = R]
      <4>1. rcv' = [rcv EXCEPT ![t].pc = "closed", ![t].out = <<>>]
        BY <2>3 DEF ReceiverLost
      <4>2. rcv' = [u \in Attempt |-> IF u = t THEN R ELSE rcv[u]]
        BY <2>1, <3>1, <4>1 DEF TransferInv, Shape, Has
      <4>3. [rcv EXCEPT ![t] = R] = [u \in Attempt |-> IF u = t THEN R ELSE rcv[u]]
        BY DEF TransferInv, Shape, Has
      <4>. QED
        BY <4>2, <4>3
    <3>3. IsReceiver(R) /\ R.pc = "closed" /\ R.out = <<>>
      BY <2>2, <3>1, ClosedIs
    <3>. QED
      BY <3>2, <3>3
  <2>4. CASE OpenFails(t)
    <3>1. PICK R : R = [r EXCEPT !.pc = "closed"]
      OBVIOUS
    <3>2. rcv' = [rcv EXCEPT ![t] = R]
      BY <2>1, <2>4, <3>1 DEF OpenFails
    <3>3. IsReceiver(R) /\ R.pc = "closed" /\ R.out = r.out
      BY <2>2, <3>1, ClosedIs
    <3>. QED
      BY <2>1, <3>2, <3>3
  <2>. QED
    BY <2>3, <2>4
<1>5. LinkOf(snd[t], R, up[t], down[t], conn'[t], disk)
  <2>1. PICK C : C = conn'[t]
    OBVIOUS
  <2>2. LinkOf(snd[t], R, up[t], down[t], C, disk)
    BY <1>1, <1>3, <1>4, LinkClosed
  <2>. QED
    BY <2>1, <2>2
<1>6. Grows(disk, disk')
  BY <1>1, <1>2, GrowsSame
<1>. QED
  BY <1>1, <1>2, <1>4, <1>5, <1>6, ReceiverMoves

LEMMA DisconnectStep == ASSUME TransferInv, NEW t \in Attempt, Disconnect(t) PROVE TransferInv'
<1>1. LinkOf(snd[t], rcv[t], up[t], down[t], conn[t], disk) /\ DiskOk(disk) /\ Has(down, Attempt) /\ Has(rcv, Attempt)
  BY DEF TransferInv, Link, Shape
<1>2. UNCHANGED <<src, disk, snd, rcv, up, down, edits>> /\ conn' = [conn EXCEPT ![t] = "lost"] /\ conn[t] = "up"
  BY DEF Disconnect
<1>3. snd[t].pc # "new"
  BY <1>1, <1>2 DEF LinkOf, Ends
<1>4. PICK C : C = conn'[t]
  OBVIOUS
<1>5. LinkOf(snd[t], rcv[t], up[t], down[t], C, disk)
  BY <1>1, <1>3, LinkConn
<1>6. Grows(disk, disk')
  BY <1>1, <1>2, GrowsSame
<1>7. rcv' = [rcv EXCEPT ![t] = rcv[t]]
  BY <1>1, <1>2 DEF Has
<1>8. LinkOf(snd[t], rcv[t], up'[t], down'[t], conn'[t], disk')
  BY <1>2, <1>4, <1>5
<1>9. PICK R : R = rcv[t]
  OBVIOUS
<1>. QED
  BY <1>1, <1>2, <1>6, <1>7, <1>8, <1>9, ReceiverMoves

LEMMA WriteFailsStep == ASSUME TransferInv, NEW t \in Attempt, WriteFails(t) PROVE TransferInv'
<1>1. /\ LinkOf(snd[t], rcv[t], up[t], down[t], conn[t], disk) /\ DiskOk(disk) /\ Has(down, Attempt) /\ Has(up, Attempt)
      /\ rcv[t].pc = "open" /\ up[t] # <<>>
  BY DEF TransferInv, Link, Shape, WriteFails
<1>2. UNCHANGED <<src, disk, snd, down, conn, edits>> /\ up' = [up EXCEPT ![t] = Tail(@)]
        /\ rcv' = [rcv EXCEPT ![t] = [Aborted(@) EXCEPT !.out = <<Done(FALSE)>>]]
  BY DEF WriteFails
<1>3. PICK m \in Seq(Answer) : m = <<Done(FALSE)>>
  <2>1. PICK d \in Answer : d = Done(FALSE)
    BY DoneIs
  <2>2. <<d>> \in Seq(Answer)
    OBVIOUS
  <2>. QED
    BY <2>1, <2>2, Zenon
<1>4. PICK r : r = rcv[t]
  OBVIOUS
<1>5. PICK R : R = [Aborted(r) EXCEPT !.out = m]
  OBVIOUS
<1>6. rcv' = [rcv EXCEPT ![t] = R]
  BY <1>2, <1>3, <1>4, <1>5
<1>7. IsReceiver(R) /\ R.pc = "open" /\ R.out = <<Done(FALSE)>> /\ R.aborted
  <2>1. IsReceiver(r)
    BY <1>1, <1>4 DEF LinkOf, Ends
  <2>2. IsReceiver(R) /\ R.pc = r.pc /\ R.out = m /\ R.aborted
    BY <1>5, <2>1, AbortedIs
  <2>. QED
    BY <1>1, <1>3, <1>4, <2>2
<1>8. LinkOf(snd[t], R, Tail(up[t]), down[t], conn[t], disk)
  BY <1>1, <1>7, LinkAborted
<1>9. up'[t] = Tail(up[t])
  BY <1>1, <1>2 DEF Has
<1>10. LinkOf(snd[t], R, up'[t], down'[t], conn'[t], disk')
  BY <1>2, <1>8, <1>9
<1>11. Grows(disk, disk')
  BY <1>1, <1>2, GrowsSame
<1>. QED
  BY <1>1, <1>2, <1>6, <1>10, <1>11, ReceiverMoves

\* A torn write leaves a prefix of the chunk behind, and cuts nothing.
LEMMA TornWrite ==
    ASSUME TransferInv, NEW t \in Attempt, Crash(t)
    PROVE  DiskOk(disk') /\ Grows(disk, disk')
<1>1. DiskOk(disk) /\ rcv[t].pc = "open" /\ ~Terminal(rcv[t]) /\ up[t] # <<>>
  BY DEF TransferInv, Shape, Crash
<1>2. PICK x : x = Head(up[t])
  OBVIOUS
<1>3. PICK n : n = rcv[t].slots[x.file].sink.name
  OBVIOUS
<1>4. /\ OnChunk(rcv[t], x).store /\ n \in Name /\ x.offset \in Nat /\ x.data \in Content
      /\ x.offset <= Len(disk[n]) /\ x.offset + Len(x.data) <= MaxLen
  BY <1>1, <1>2, <1>3, Reading
<1>5. PICK k \in 0 .. Len(x.data) : disk' = [disk EXCEPT ![n] = Overwrite(@, x.offset, SubSeq(x.data, 1, k))]
  BY <1>2, <1>3, <1>4 DEF Crash
<1>6. PICK offset \in Nat : offset = x.offset
  BY <1>4
<1>7. PICK data \in Content : data = x.data
  BY <1>4
<1>8. Len(data) \in Nat /\ k \in Nat /\ k <= Len(data) /\ SubSeq(data, 1, k) \in Content /\ Len(SubSeq(data, 1, k)) = k
  BY <1>5, <1>7 DEF Content
<1>9. PICK torn \in Content : torn = SubSeq(data, 1, k)
  BY <1>8
<1>10. PICK E : E = disk'
  OBVIOUS
<1>11. E = Written(disk, n, offset, torn) /\ offset <= Len(disk[n])
  BY <1>4, <1>5, <1>6, <1>7, <1>9, <1>10 DEF Written
<1>12. offset + Len(torn) <= MaxLen
  <2>1. offset + Len(data) <= MaxLen
    BY <1>4, <1>6, <1>7
  <2>2. PICK l \in Nat : l = Len(data)
    BY <1>8
  <2>3. offset + k <= MaxLen
    BY <1>8, <2>1, <2>2, LimitsAreNatural
  <2>. QED
    BY <1>8, <1>9, <2>3
<1>13. DiskOk(E) /\ Grows(disk, E)
  BY <1>1, <1>4, <1>11, <1>12, DiskWritten
<1>. QED
  BY <1>10, <1>13

LEMMA CrashStep == ASSUME TransferInv, NEW t \in Attempt, Crash(t) PROVE TransferInv'
<1>1. DiskOk(disk) /\ DiskOk(disk') /\ Grows(disk, disk')
  BY TornWrite DEF TransferInv, Shape
<1>2. PICK live : live = {u \in Attempt : rcv[u].pc = "open" \/ conn[u] = "up"}
  OBVIOUS
<1>3. /\ rcv' = [u \in Attempt |-> IF u \in live THEN [rcv[u] EXCEPT !.pc = "closed"] ELSE rcv[u]]
      /\ conn' = [u \in Attempt |-> IF u \in live THEN "lost" ELSE conn[u]]
      /\ UNCHANGED <<src, snd, up, down, edits>>
  BY <1>2 DEF Crash
<1>4. Shape'
  BY <1>1, <1>3 DEF TransferInv, Shape, Has, SourcesOk
<1>5. ASSUME NEW u \in Attempt PROVE Link(u)'
  <2>1. PICK E : E = disk'
    OBVIOUS
  <2>2. LinkOf(snd[u], rcv[u], up[u], down[u], conn[u], disk)
    BY DEF TransferInv, Link
  <2>3. LinkOf(snd[u], rcv[u], up[u], down[u], conn[u], E)
    BY <1>1, <2>1, <2>2, LinkGrows
  <2>4. CASE u \notin live
    BY <1>3, <2>1, <2>3, <2>4 DEF Link
  <2>5. CASE u \in live
    <3>1. PICK r : r = rcv[u]
      OBVIOUS
    <3>2. IsReceiver(r) /\ snd[u].pc # "new"
      BY <1>2, <2>2, <2>5, <3>1 DEF LinkOf, Ends
    <3>3. PICK R : R = [r EXCEPT !.pc = "closed"]
      OBVIOUS
    <3>4. IsReceiver(R) /\ R.pc = "closed" /\ R.out = r.out
      BY <3>2, <3>3, ClosedIs
    <3>5. LinkOf(snd[u], R, up[u], down[u], "lost", E)
      BY <2>3, <3>1, <3>2, <3>4, LinkClosed
    <3>6. rcv'[u] = R /\ conn'[u] = "lost"
      BY <1>3, <2>5, <3>1, <3>3
    <3>. QED
      BY <1>3, <2>1, <3>5, <3>6 DEF Link
  <2>. QED
    BY <2>4, <2>5
<1>. QED
  BY <1>4, <1>5 DEF TransferInv

LEMMA EditStep == ASSUME TransferInv, NEW p \in Path, Edit(p) PROVE TransferInv'
<1>1. PICK n \in 0 .. MaxLen : src' = [src EXCEPT ![p] = [i \in 1 .. n |-> edits + 1]]
  BY DEF Edit
<1>2. UNCHANGED <<disk, snd, rcv, up, down, conn>> /\ edits' = edits + 1 /\ edits \in Nat /\ SourcesOk
  BY DEF Edit, TransferInv, Shape
<1>3. PICK v \in Nat : v = edits + 1
  BY <1>2
<1>4. PICK new : new = [i \in 1 .. n |-> v]
  OBVIOUS
<1>5. new \in Content /\ Len(new) <= MaxLen
  <2>1. n \in Nat /\ n <= MaxLen
    BY LimitsAreNatural
  <2>. QED
    BY <1>4, <2>1, FilledIs
<1>6. src' = [src EXCEPT ![p] = new]
  BY <1>1, <1>3, <1>4
<1>7. SourcesOk'
  BY <1>2, <1>5, <1>6 DEF SourcesOk, Has
<1>8. Shape'
  BY <1>2, <1>7 DEF TransferInv, Shape, Has, DiskOk
<1>. QED
  BY <1>2, <1>8 DEF TransferInv, Link

LEMMA TransferNext == TransferInv /\ [Next]_vars => TransferInv'
<1>. SUFFICES ASSUME TransferInv, [Next]_vars PROVE TransferInv'
  OBVIOUS
<1>1. ASSUME NEW t \in Attempt, SenderStep(t) PROVE TransferInv'
  BY <1>1, StartStep, RecvReplyStep, SendChunkStep, RecvProgressStep, SenderLostStep DEF SenderStep
<1>2. ASSUME NEW t \in Attempt, ReceiverStep(t) PROVE TransferInv'
  BY <1>2, RecvOfferStep, RecvChunkStep, EmitStep, ClosingStep DEF ReceiverStep
<1>3. ASSUME NEW t \in Attempt, FaultStep(t) PROVE TransferInv'
  BY <1>3, SenderLostStep, DisconnectStep, WriteFailsStep, ClosingStep, CrashStep DEF FaultStep
<1>4. ASSUME NEW p \in Path, Edit(p) PROVE TransferInv'
  BY <1>4, EditStep
<1>5. CASE UNCHANGED vars
  BY <1>5 DEF vars, TransferInv, Shape, SourcesOk, DiskOk, Has, Link
<1>. QED
  BY <1>1, <1>2, <1>3, <1>4, <1>5 DEF Next

LEMMA TransferAlways == Spec => []TransferInv
<1>. QED
  BY TransferInit, TransferNext, PTL DEF Spec

-----------------------------------------------------------------------------
(* The sender never rewinds                                                *)

LEMMA PrefixFollows == TransferInv => ChunksContinuePrefix
<1>. SUFFICES ASSUME TransferInv, NEW t \in Attempt, Receiving(rcv[t]), NEW i \in DOMAIN rcv[t].slots
              PROVE  /\ \A k \in DOMAIN up[t] :
                           /\ up[t][k].type = "chunk" /\ up[t][k].file = i
                           /\ \A j \in 1 .. k - 1 : ~(up[t][j].type = "chunk" /\ up[t][j].file = i)
                           => up[t][k].offset = rcv[t].slots[i].acked
                     /\ snd[t].pc = "sending" => rcv[t].slots[i].acked \in snd[t].acked[i] .. snd[t].sent[i]
  BY DEF ChunksContinuePrefix, Receiving
<1>1. PICK s : s = snd[t]
  OBVIOUS
<1>2. PICK r : r = rcv[t]
  OBVIOUS
<1>3. PICK q : q = up[t]
  OBVIOUS
<1>4. LinkOf(s, r, q, down[t], conn[t], disk)
  BY <1>1, <1>2, <1>3 DEF TransferInv, Link
<1>5. q \in Seq(Chunk) /\ Agree(s, r, disk) /\ IsReceiver(r) /\ IsSender(s)
  BY <1>2, <1>4, StreamsIs DEF LinkOf, Receiving, Holds, Ends
<1>6. i \in DOMAIN s.files /\ r.slots[i].acked \in Nat /\ s.sent[i] \in Nat /\ s.acked[i] \in Nat
  BY <1>2, <1>5, Counts DEF Agree, IsSender
<1>7. s.pc = "sending" \/ q # <<>> => /\ Chain(q, i, r.slots[i].acked, s.sent[i])
                                      /\ s.pc = "sending" => s.acked[i] <= r.slots[i].acked
  BY <1>2, <1>4, <1>6, StreamsIs DEF LinkOf
<1>8. PICK a \in Nat : a = r.slots[i].acked
  BY <1>6
<1>9. PICK b \in Nat : b = s.sent[i]
  BY <1>6
<1>10. ASSUME NEW k \in DOMAIN q, q[k].file = i, \A j \in 1 .. k - 1 : ~(q[j].type = "chunk" /\ q[j].file = i)
       PROVE  q[k].offset = r.slots[i].acked
  <2>1. Len(q) \in Nat /\ DOMAIN q = 1 .. Len(q)
    BY <1>5
  <2>2. q # <<>>
    BY <1>5, <1>10
  <2>3. Chain(q, i, a, b)
    BY <1>7, <1>8, <1>9, <2>2
  <2>4. k \in Of(q, i)
    BY <1>10, <2>1 DEF Of
  <2>5. ASSUME NEW j \in Of(q, i), j < k PROVE FALSE
    <3>1. j \in 1 .. Len(q) /\ q[j].file = i /\ k \in 1 .. Len(q)
      BY <1>10, <2>1 DEF Of
    <3>2. q[j] \in Chunk
      BY <1>5, <3>1
    <3>3. q[j].type = "chunk"
      BY <3>2, ChunkIs
    <3>4. j \in 1 .. k - 1
      BY <2>1, <2>5, <3>1
    <3>. QED
      BY <1>10, <3>1, <3>3, <3>4
  <2>6. q[k].offset = a
    BY <2>3, <2>4, <2>5 DEF Chain
  <2>. QED
    BY <1>8, <2>6
<1>11. ASSUME s.pc = "sending" PROVE r.slots[i].acked \in s.acked[i] .. s.sent[i]
  <2>1. Chain(q, i, a, b) /\ s.acked[i] <= a
    BY <1>7, <1>8, <1>9, <1>11
  <2>2. a <= b
    BY <2>1 DEF Chain
  <2>. QED
    BY <1>6, <1>8, <1>9, <2>1, <2>2
<1>. QED
  BY <1>1, <1>2, <1>3, <1>10, <1>11

\* receiver.rs on_chunk, sender.rs poll_chunk and on_accept: for any plans,
\* window and chunk size, resumed or not, with edits, faults and crashes at
\* any moment, the next chunk on a stream starts where the receiver's prefix
\* of that file ends, so no chunk is re-acknowledged for ever.
THEOREM ChunksContinue == Spec => []ChunksContinuePrefix
<1>. QED
  BY TransferAlways, PrefixFollows, PTL

-----------------------------------------------------------------------------
(* What is committed is what was hashed                                    *)

\* u's receiver, if it still is one, has the files open it had open.
Settled(u) ==
    /\ rcv'[u].slots = rcv[u].slots
    /\ rcv'[u].pc = "open" => rcv[u].pc = "open"
    /\ Receiving(rcv'[u]) => Receiving(rcv[u])

LEMMA NamesSettled ==
    ASSUME NEW u, rcv'[u].slots = rcv[u].slots
    PROVE  OpenNames(u)' = OpenNames(u)
BY DEF OpenNames

LEMMA FaithQuiet ==
    ASSUME FaithInv, disk' = disk, shared' = shared, \A u \in Attempt : Settled(u)
    PROVE  FaithInv'
<1>. SUFFICES ASSUME NEW t \in Attempt, Receiving(rcv'[t]), t \notin shared, NEW i \in DOMAIN rcv'[t].slots
              PROVE  /\ Alone(t, i)' /\ disk'[rcv'[t].slots[i].sink.name] = rcv'[t].slots[i].sink.hashed
                     /\ rcv'[t].slots[i].complete => rcv'[t].slots[i].sink.hashed = rcv'[t].slots[i].expected
  BY DEF FaithInv, Faithful
<1>1. rcv'[t].slots = rcv[t].slots /\ Receiving(rcv[t])
  BY DEF Settled
<1>2. /\ Alone(t, i) /\ disk[rcv[t].slots[i].sink.name] = rcv[t].slots[i].sink.hashed
      /\ rcv[t].slots[i].complete => rcv[t].slots[i].sink.hashed = rcv[t].slots[i].expected
  BY <1>1 DEF FaithInv, Faithful
<1>3. \A u \in Attempt \ {t} : rcv'[u].pc = "open" => rcv[u].pc = "open" /\ OpenNames(u)' = OpenNames(u)
  BY NamesSettled DEF Settled
<1>4. Alone(t, i)'
  BY <1>1, <1>2, <1>3 DEF Alone
<1>. QED
  BY <1>1, <1>2, <1>4

\* The same slots with another pc, output or flag.
LEMMA SettledIs ==
    ASSUME TransferInv, NEW t \in Attempt, NEW R, rcv' = [rcv EXCEPT ![t] = R], R.slots = rcv[t].slots,
           R.pc = "open" => rcv[t].pc = "open", Receiving(R) => Receiving(rcv[t])
    PROVE  \A u \in Attempt : Settled(u)
<1>1. rcv'[t] = R /\ \A u \in Attempt \ {t} : rcv'[u] = rcv[u]
  BY DEF TransferInv, Shape, Has
<1>. QED
  BY <1>1 DEF Settled

LEMMA FaithSender ==
    ASSUME TransferInv, FaithInv, NEW t \in Attempt, SenderStep(t) \/ Timeout(t) \/ Disconnect(t)
    PROVE  FaithInv'
<1>1. rcv' = rcv /\ disk' = disk /\ shared' = shared
  BY DEF SenderStep, Start, RecvReply, SendChunk, RecvProgress, SenderLost, Timeout, Disconnect
<1>2. \A u \in Attempt : Settled(u)
  BY <1>1 DEF Settled
<1>. QED
  BY <1>1, <1>2, FaithQuiet

LEMMA FaithReceiver ==
    ASSUME TransferInv, FaithInv, NEW t \in Attempt, Emit(t) \/ ReceiverLost(t) \/ WriteFails(t) \/ OpenFails(t)
    PROVE  FaithInv'
<1>1. disk' = disk /\ shared' = shared
  BY DEF Emit, ReceiverLost, WriteFails, OpenFails
<1>2. Has(rcv[t], {"pc", "slots", "out", "done", "aborted"}) /\ Has(rcv, Attempt)
  BY DEF TransferInv, Shape, Link, LinkOf, Ends, IsReceiver
<1>3. \A u \in Attempt : Settled(u)
  <2>1. CASE Emit(t)
    <3>1. PICK r : r = [rcv[t] EXCEPT !.out = Tail(@)]
      OBVIOUS
    <3>2. PICK R : R = [r EXCEPT !.pc = IF r.out = <<>> /\ Terminal(r) THEN "closed" ELSE "open"]
      OBVIOUS
    <3>3. rcv' = [rcv EXCEPT ![t] = R] /\ rcv[t].pc = "open"
      BY <2>1, <3>1, <3>2 DEF Emit
    <3>4. Has(r, {"pc", "slots", "out", "done", "aborted"}) /\ r.slots = rcv[t].slots /\ r.aborted = rcv[t].aborted
      BY <1>2, <3>1 DEF Has
    <3>5. R.slots = r.slots /\ R.aborted = r.aborted
      BY <3>2, <3>4 DEF Has
    <3>. QED
      BY <3>3, <3>4, <3>5, SettledIs DEF Receiving
  <2>2. CASE WriteFails(t)
    <3>1. PICK R : R = [Aborted(rcv[t]) EXCEPT !.out = <<Done(FALSE)>>]
      OBVIOUS
    <3>2. rcv' = [rcv EXCEPT ![t] = R] /\ rcv[t].pc = "open"
      BY <2>2, <3>1 DEF WriteFails
    <3>3. R.slots = rcv[t].slots /\ R.aborted
      <4>1. PICK m : m = <<Done(FALSE)>>
        OBVIOUS
      <4>2. R = [Aborted(rcv[t]) EXCEPT !.out = m]
        BY <3>1, <4>1
      <4>. QED
        BY <1>2, <4>2 DEF Aborted, Has
    <3>. QED
      BY <3>2, <3>3, SettledIs DEF Receiving
  <2>3. CASE ReceiverLost(t)
    <3>1. rcv' = [rcv EXCEPT ![t].pc = "closed", ![t].out = <<>>]
      BY <2>3 DEF ReceiverLost
    <3>2. rcv'[t].pc = "closed" /\ rcv'[t].slots = rcv[t].slots /\ \A u \in Attempt \ {t} : rcv'[u] = rcv[u]
      BY <1>2, <3>1 DEF Has
    <3>. QED
      BY <3>2 DEF Settled, Receiving
  <2>4. CASE OpenFails(t)
    <3>1. rcv' = [rcv EXCEPT ![t].pc = "closed"]
      BY <2>4 DEF OpenFails
    <3>2. rcv'[t].pc = "closed" /\ rcv'[t].slots = rcv[t].slots /\ \A u \in Attempt \ {t} : rcv'[u] = rcv[u]
      BY <1>2, <3>1 DEF Has
    <3>. QED
      BY <3>2 DEF Settled, Receiving
  <2>. QED
    BY <2>1, <2>2, <2>3, <2>4
<1>. QED
  BY <1>1, <1>3, FaithQuiet

LEMMA FaithCrash ==
    ASSUME TransferInv, FaithInv, NEW t \in Attempt, Crash(t)
    PROVE  FaithInv'
<1>. SUFFICES ASSUME NEW u \in Attempt PROVE ~Receiving(rcv'[u])
  BY DEF FaithInv, Faithful
<1>1. PICK live : live = {v \in Attempt : rcv[v].pc = "open" \/ conn[v] = "up"}
  OBVIOUS
<1>2. rcv' = [v \in Attempt |-> IF v \in live THEN [rcv[v] EXCEPT !.pc = "closed"] ELSE rcv[v]]
  BY <1>1 DEF Crash
<1>3. Has(rcv[u], {"pc", "slots", "out", "done", "aborted"})
  BY DEF TransferInv, Link, LinkOf, Ends, IsReceiver
<1>4. CASE u \in live
  <2>1. rcv'[u] = [rcv[u] EXCEPT !.pc = "closed"]
    BY <1>2, <1>4
  <2>2. rcv'[u].pc = "closed"
    BY <1>3, <2>1 DEF Has
  <2>. QED
    BY <2>2 DEF Receiving
<1>5. CASE u \notin live
  BY <1>1, <1>2, <1>5 DEF Receiving
<1>. QED
  BY <1>4, <1>5

LEMMA ChunkSlots ==
    ASSUME NEW r, IsReceiver(r), NEW c \in Chunk, c.file \in DOMAIN r.slots, ~r.slots[c.file].complete,
           c.offset = r.slots[c.file].acked, NEW R, Finalized(R, Taken(r, c))
    PROVE  /\ DOMAIN R.slots = DOMAIN r.slots /\ R.pc = r.pc
           /\ \A i \in DOMAIN r.slots :
                /\ R.slots[i].sink.name = r.slots[i].sink.name /\ R.slots[i].expected = r.slots[i].expected
                /\ i # c.file => /\ R.slots[i].sink = r.slots[i].sink
                                 /\ R.slots[i].complete => r.slots[i].complete \/ r.slots[i].sink.hashed = r.slots[i].expected
                /\ i = c.file => /\ Extends(R.slots[i].sink.hashed, r.slots[i].sink.hashed, c.data)
                                 /\ R.slots[i].complete => R.slots[i].sink.hashed = R.slots[i].expected
<1>1. PICK T : T = Taken(r, c)
  OBVIOUS
<1>2. /\ DOMAIN T.slots = DOMAIN r.slots /\ T.pc = r.pc
      /\ \A i \in DOMAIN r.slots \ {c.file} : T.slots[i] = r.slots[i]
  BY <1>1, TakenIs
<1>3. /\ T.slots[c.file].expected = r.slots[c.file].expected /\ T.slots[c.file].sink.name = r.slots[c.file].sink.name
      /\ ~T.slots[c.file].complete /\ Extends(T.slots[c.file].sink.hashed, r.slots[c.file].sink.hashed, c.data)
  BY <1>1, TakenSlot
<1>4. /\ R.pc = T.pc /\ DOMAIN R.slots = DOMAIN T.slots
      /\ \A i \in DOMAIN T.slots :
            /\ R.slots[i].sink = T.slots[i].sink /\ R.slots[i].expected = T.slots[i].expected
            /\ R.slots[i].complete => T.slots[i].complete \/ T.slots[i].sink.hashed = T.slots[i].expected
  BY <1>1 DEF Finalized, HashOk, FinishSink
<1>. QED
  BY <1>2, <1>3, <1>4, ZenonT(60)

LEMMA FaithChunk ==
    ASSUME TransferInv, FaithInv, NEW t \in Attempt, RecvChunk(t)
    PROVE  FaithInv'
<1>1. DiskOk(disk) /\ Has(rcv, Attempt) /\ rcv[t].pc = "open" /\ ~Terminal(rcv[t]) /\ up[t] # <<>> /\ shared' = shared
  BY DEF TransferInv, RecvChunk, Shape
<1>2. PICK x : x = Head(up[t])
  OBVIOUS
<1>3. PICK n : n = rcv[t].slots[x.file].sink.name
  OBVIOUS
<1>4. PICK R : R = OnChunk(rcv[t], x).r
  OBVIOUS
<1>5. /\ Receiving(rcv[t]) /\ OnChunk(rcv[t], x).store /\ x \in Chunk /\ x.file \in DOMAIN rcv[t].slots
      /\ n \in Name /\ x.offset \in Nat /\ x.data \in Content
      /\ x.offset = rcv[t].slots[x.file].acked /\ ~rcv[t].slots[x.file].complete
      /\ x.offset <= Len(disk[n]) /\ x.offset + Len(x.data) <= MaxLen
      /\ Finalized(R, Taken(rcv[t], x)) /\ IsReceiver(rcv[t])
  BY <1>1, <1>2, <1>3, <1>4, Reading
<1>6. rcv' = [rcv EXCEPT ![t] = R] /\ disk' = [disk EXCEPT ![n] = Overwrite(@, x.offset, x.data)]
  BY <1>2, <1>3, <1>4, <1>5 DEF RecvChunk
<1>7. rcv'[t] = R /\ \A u \in Attempt \ {t} : rcv'[u] = rcv[u]
  BY <1>1, <1>6 DEF Has
<1>8. PICK r : r = rcv[t]
  OBVIOUS
<1>9. /\ DOMAIN R.slots = DOMAIN r.slots /\ R.pc = r.pc
      /\ \A i \in DOMAIN r.slots :
            /\ R.slots[i].sink.name = r.slots[i].sink.name /\ R.slots[i].expected = r.slots[i].expected
            /\ i # x.file => /\ R.slots[i].sink = r.slots[i].sink
                             /\ R.slots[i].complete => r.slots[i].complete \/ r.slots[i].sink.hashed = r.slots[i].expected
            /\ i = x.file => /\ Extends(R.slots[i].sink.hashed, r.slots[i].sink.hashed, x.data)
                             /\ R.slots[i].complete => R.slots[i].sink.hashed = R.slots[i].expected
  <2>1. /\ IsReceiver(r) /\ x \in Chunk /\ x.file \in DOMAIN r.slots /\ ~r.slots[x.file].complete
        /\ x.offset = r.slots[x.file].acked /\ Finalized(R, Taken(r, x))
    BY <1>5, <1>8
  <2>. QED
    BY <2>1, ChunkSlots
<1>10. /\ \A m \in Name \ {n} : disk'[m] = disk[m]
       /\ x.offset = Len(disk[n]) => Extends(disk'[n], disk[n], x.data)
  <2>1. PICK E : E = disk'
    OBVIOUS
  <2>2. PICK d : d = x.data
    OBVIOUS
  <2>3. PICK k : k = x.offset
    OBVIOUS
  <2>4. E = Written(disk, n, k, d) /\ d \in Content /\ k \in Nat /\ k <= Len(disk[n]) /\ k + Len(d) <= MaxLen
    BY <1>5, <1>6, <2>1, <2>2, <2>3 DEF Written
  <2>5. (\A m \in Name \ {n} : E[m] = disk[m]) /\ (k = Len(disk[n]) => Extends(E[n], disk[n], d))
    BY <1>1, <1>5, <2>4, DiskWritten, SMTT(30) DEF Extends
  <2>. QED
    BY <2>1, <2>2, <2>3, <2>5
<1>11. \A u \in Attempt : /\ DOMAIN rcv'[u].slots = DOMAIN rcv[u].slots /\ rcv'[u].pc = rcv[u].pc
                          /\ \A i \in DOMAIN rcv[u].slots : rcv'[u].slots[i].sink.name = rcv[u].slots[i].sink.name
  BY <1>7, <1>8, <1>9
<1>12. \A u \in Attempt : OpenNames(u)' = OpenNames(u)
  BY <1>11 DEF OpenNames
<1>13. \A u \in Attempt : \A i \in DOMAIN rcv[u].slots : Alone(u, i) => Alone(u, i)'
  BY <1>11, <1>12 DEF Alone
<1>14. ASSUME NEW i \in DOMAIN r.slots, t \notin shared
       PROVE  /\ Alone(t, i) /\ disk'[R.slots[i].sink.name] = R.slots[i].sink.hashed
              /\ R.slots[i].complete => R.slots[i].sink.hashed = R.slots[i].expected
  <2>1. \A j \in DOMAIN r.slots : /\ Alone(t, j) /\ disk[r.slots[j].sink.name] = r.slots[j].sink.hashed
                                  /\ r.slots[j].complete => r.slots[j].sink.hashed = r.slots[j].expected
    BY <1>5, <1>8, <1>14 DEF FaithInv, Faithful
  <2>2. CASE i = x.file
    <3>1. r.slots[i].sink.name = n /\ disk[n] = r.slots[i].sink.hashed
      BY <1>3, <1>8, <2>1, <2>2
    <3>2. x.offset = Len(disk[n])
      BY <1>5, <1>8, <2>2, <3>1 DEF IsReceiver, IsSlot, IsSink
    <3>3. disk'[n] = R.slots[i].sink.hashed
      BY <1>9, <1>10, <2>2, <3>1, <3>2 DEF Extends
    <3>. QED
      BY <1>9, <2>1, <2>2, <3>1, <3>3
  <2>3. CASE i # x.file
    <3>1. r.slots[i].sink.name # n
      BY <1>3, <1>5, <1>8, <2>1, <2>3 DEF Alone
    <3>2. r.slots[i].sink.name \in Name
      BY <1>5, <1>8 DEF IsReceiver, IsSlot, IsSink
    <3>3. disk'[r.slots[i].sink.name] = disk[r.slots[i].sink.name]
      BY <1>10, <3>1, <3>2
    <3>. QED
      BY <1>9, <2>1, <2>3, <3>3
  <2>. QED
    BY <2>2, <2>3
<1>15. Faithful(t)'
  BY <1>1, <1>7, <1>8, <1>9, <1>13, <1>14 DEF Faithful
<1>16. ASSUME NEW u \in Attempt \ {t} PROVE Faithful(u)'
  <2>. SUFFICES ASSUME Receiving(rcv[u]), u \notin shared, NEW i \in DOMAIN rcv[u].slots
                PROVE  /\ Alone(u, i)' /\ disk'[rcv[u].slots[i].sink.name] = rcv[u].slots[i].sink.hashed
                       /\ rcv[u].slots[i].complete => rcv[u].slots[i].sink.hashed = rcv[u].slots[i].expected
    BY <1>1, <1>7 DEF Faithful
  <2>1. /\ Alone(u, i) /\ disk[rcv[u].slots[i].sink.name] = rcv[u].slots[i].sink.hashed
        /\ rcv[u].slots[i].complete => rcv[u].slots[i].sink.hashed = rcv[u].slots[i].expected
    BY DEF FaithInv, Faithful
  <2>2. rcv[u].slots[i].sink.name # n
    <3>1. n \in OpenNames(t)
      BY <1>3, <1>5 DEF OpenNames
    <3>. QED
      BY <1>1, <2>1, <3>1 DEF Alone
  <2>3. rcv[u].slots[i].sink.name \in Name
    BY DEF TransferInv, Link, LinkOf, Ends, IsReceiver, IsSlot, IsSink
  <2>4. disk'[rcv[u].slots[i].sink.name] = disk[rcv[u].slots[i].sink.name]
    BY <1>10, <2>2, <2>3
  <2>. QED
    BY <1>13, <2>1, <2>4
<1>. QED
  BY <1>15, <1>16 DEF FaithInv

\* The slots of a receiver that took the offer of s, whatever it answered.
LEMMA OfferSlots ==
    ASSUME DiskOk(disk), NEW s, IsSender(s), NEW R, R = AcceptOffer(s.files)
    PROVE  /\ R.pc = "open" /\ (Receiving(R) => DOMAIN R.slots = DOMAIN s.files)
           /\ \A i \in DOMAIN R.slots :
                /\ i \in DOMAIN s.files /\ R.slots[i].sink.name = s.files[i].name
                /\ R.slots[i].sink.hashed = disk[s.files[i].name]
                /\ R.slots[i].complete => R.slots[i].sink.hashed = R.slots[i].expected
           /\ R.done /\ ~R.aborted => \A i \in DOMAIN R.slots : R.slots[i].complete
<1>1. PICK files : files = s.files
  OBVIOUS
<1>2. DOMAIN files \subseteq Nat /\ (\A i \in DOMAIN files : IsEntry(files[i]) /\ disk[files[i].name] \in Content) /\ R = AcceptOffer(files)
  BY <1>1 DEF IsSender, IsEntry, DiskOk
<1>3. \/ IsReceiver(R) /\ R.pc = "open" /\ R.aborted /\ R.slots = <<>> /\ R.out = <<[type |-> "reject"]>>
      \/ \E r0 : /\ Finalized(R, r0) /\ IsReceiver(r0) /\ r0.pc = "open" /\ ~r0.aborted /\ ~r0.done
                 /\ DOMAIN r0.slots = DOMAIN files /\ \A i \in DOMAIN files : r0.slots[i] = Slot(files[i])
                 /\ \A i \in DOMAIN files : r0.slots[i].acked <= r0.slots[i].size
                 /\ r0.out = <<[type |-> "accept", resume |-> ResumePoints(r0.slots)]>>
  BY <1>2, AcceptIs
<1>4. CASE R.pc = "open" /\ R.aborted /\ R.slots = <<>>
  <2>1. DOMAIN R.slots = {}
    BY <1>4
  <2>. QED
    BY <1>4, <2>1 DEF Receiving
<1>5. ASSUME NEW r0, Finalized(R, r0), ~r0.done, r0.pc = "open", DOMAIN r0.slots = DOMAIN files,
             \A i \in DOMAIN files : r0.slots[i] = Slot(files[i])
      PROVE  /\ R.pc = "open" /\ DOMAIN R.slots = DOMAIN files
             /\ \A i \in DOMAIN files :
                    /\ R.slots[i].sink.name = files[i].name /\ R.slots[i].sink.hashed = disk[files[i].name]
                    /\ R.slots[i].complete => R.slots[i].sink.hashed = R.slots[i].expected
             /\ R.done /\ ~R.aborted => \A i \in DOMAIN R.slots : R.slots[i].complete
  <2>1. /\ R.pc = "open" /\ DOMAIN R.slots = DOMAIN files
        /\ \A i \in DOMAIN files :
              /\ R.slots[i].sink = r0.slots[i].sink /\ R.slots[i].expected = r0.slots[i].expected
              /\ R.slots[i].complete => r0.slots[i].complete \/ r0.slots[i].sink.hashed = r0.slots[i].expected
        /\ R.done /\ ~R.aborted => \A i \in DOMAIN R.slots : R.slots[i].complete
    BY <1>5 DEF Finalized, HashOk, FinishSink
  <2>2. ASSUME NEW i \in DOMAIN files
        PROVE  r0.slots[i].sink.name = files[i].name /\ r0.slots[i].sink.hashed = disk[files[i].name] /\ ~r0.slots[i].complete
    <3>1. PICK z : z = Slot(files[i])
      OBVIOUS
    <3>2. z.sink.name = files[i].name /\ z.sink.hashed = disk[files[i].name] /\ ~z.complete
      BY <1>2, <3>1, SlotIs
    <3>. QED
      BY <1>5, <3>1, <3>2
  <2>. QED
    BY <2>1, <2>2
<1>. QED
  BY <1>1, <1>3, <1>4, <1>5

LEMMA FaithOffer ==
    ASSUME TransferInv, FaithInv, NEW t \in Attempt, RecvOffer(t)
    PROVE  FaithInv'
<1>1. /\ LinkOf(snd[t], rcv[t], up[t], down[t], conn[t], disk) /\ DiskOk(disk) /\ Has(rcv, Attempt)
      /\ rcv[t].pc = "none" /\ up[t] # <<>> /\ disk' = disk
  BY DEF TransferInv, Link, Shape, RecvOffer
<1>2. PICK s : s = snd[t]
  OBVIOUS
<1>3. PICK R : R = AcceptOffer(s.files)
  OBVIOUS
<1>4. Head(up[t]).files = s.files /\ IsSender(s)
  <2>1. up[t] = <<Offering(s)>> /\ IsSender(s)
    BY <1>1, <1>2 DEF LinkOf, Ends
  <2>2. PICK x : x = Offering(s)
    OBVIOUS
  <2>3. Head(<<x>>) = x /\ x.files = s.files
    BY <2>2 DEF Offering
  <2>. QED
    BY <2>1, <2>2, <2>3
<1>5. PICK over : over = Overlaps(t, s.files)
  OBVIOUS
<1>6. rcv' = [rcv EXCEPT ![t] = R] /\ shared' = shared \cup over \cup (IF over = {} THEN {} ELSE {t})
  BY <1>3, <1>4, <1>5 DEF RecvOffer
<1>7. rcv'[t] = R /\ \A u \in Attempt \ {t} : rcv'[u] = rcv[u]
  BY <1>1, <1>6 DEF Has
<1>8. PICK names : names = {s.files[i].name : i \in DOMAIN s.files}
  OBVIOUS
<1>9. /\ \A i \in DOMAIN R.slots : /\ i \in DOMAIN s.files /\ R.slots[i].sink.name = s.files[i].name
                                   /\ R.slots[i].sink.hashed = disk[s.files[i].name]
                                   /\ R.slots[i].complete => R.slots[i].sink.hashed = R.slots[i].expected
  BY <1>1, <1>3, <1>4, OfferSlots
<1>10. OpenNames(t)' \subseteq names
  BY <1>7, <1>8, <1>9 DEF OpenNames
<1>11. \A u \in Attempt \ {t} : OpenNames(u)' = OpenNames(u)
  BY <1>7 DEF OpenNames
<1>12. over = {u \in Attempt \ {t} : rcv[u].pc = "open" /\ OpenNames(u) \cap names # {}} \cup {u \in {t} : HasDuplicates(s.files)}
  BY <1>5, <1>8 DEF Overlaps
<1>13. ASSUME t \notin shared' PROVE \A i \in DOMAIN R.slots : Alone(t, i)'
  <2>1. over = {}
    BY <1>6, <1>13
  <2>2. ~HasDuplicates(s.files) /\ \A u \in Attempt \ {t} : rcv[u].pc = "open" => OpenNames(u) \cap names = {}
    BY <1>12, <2>1
  <2>3. \A i \in DOMAIN R.slots : \A j \in DOMAIN R.slots \ {i} : R.slots[j].sink.name # R.slots[i].sink.name
    BY <1>9, <2>2 DEF HasDuplicates
  <2>4. \A i \in DOMAIN R.slots : R.slots[i].sink.name \in names
    BY <1>8, <1>9
  <2>5. \A i \in DOMAIN R.slots : \A u \in Attempt \ {t} : rcv'[u].pc = "open" => R.slots[i].sink.name \notin OpenNames(u)'
    BY <1>7, <1>11, <2>2, <2>4
  <2>. QED
    BY <1>7, <2>3, <2>5 DEF Alone
<1>14. Faithful(t)'
  BY <1>1, <1>7, <1>9, <1>13 DEF Faithful
<1>15. ASSUME NEW u \in Attempt \ {t} PROVE Faithful(u)'
  <2>. SUFFICES ASSUME Receiving(rcv[u]), u \notin shared', NEW i \in DOMAIN rcv[u].slots
                PROVE  /\ Alone(u, i)' /\ disk[rcv[u].slots[i].sink.name] = rcv[u].slots[i].sink.hashed
                       /\ rcv[u].slots[i].complete => rcv[u].slots[i].sink.hashed = rcv[u].slots[i].expected
    BY <1>1, <1>7 DEF Faithful
  <2>1. u \notin shared /\ u \notin over
    BY <1>6
  <2>2. /\ Alone(u, i) /\ disk[rcv[u].slots[i].sink.name] = rcv[u].slots[i].sink.hashed
        /\ rcv[u].slots[i].complete => rcv[u].slots[i].sink.hashed = rcv[u].slots[i].expected
    BY <2>1 DEF FaithInv, Faithful
  <2>3. OpenNames(u) \cap names = {}
    BY <1>12, <2>1 DEF Receiving
  <2>4. rcv[u].slots[i].sink.name \in OpenNames(u)
    BY DEF OpenNames
  <2>5. rcv[u].slots[i].sink.name \notin OpenNames(t)'
    BY <1>10, <2>3, <2>4
  <2>6. \A v \in Attempt \ {u} : rcv'[v].pc = "open" => rcv[u].slots[i].sink.name \notin OpenNames(v)'
    BY <1>7, <1>11, <2>2, <2>5 DEF Alone
  <2>7. Alone(u, i)'
    BY <1>7, <2>2, <2>6 DEF Alone
  <2>. QED
    BY <2>2, <2>7
<1>. QED
  BY <1>14, <1>15 DEF FaithInv

LEMMA FaithNext == TransferInv /\ FaithInv /\ [Next]_vars => FaithInv'
<1>. SUFFICES ASSUME TransferInv, FaithInv, [Next]_vars PROVE FaithInv'
  OBVIOUS
<1>1. ASSUME NEW t \in Attempt, SenderStep(t) PROVE FaithInv'
  BY <1>1, FaithSender
<1>2. ASSUME NEW t \in Attempt, ReceiverStep(t) PROVE FaithInv'
  BY <1>2, FaithOffer, FaithChunk, FaithReceiver DEF ReceiverStep
<1>3. ASSUME NEW t \in Attempt, FaultStep(t) PROVE FaithInv'
  BY <1>3, FaithSender, FaithReceiver, FaithCrash DEF FaultStep
<1>4. ASSUME NEW p \in Path, Edit(p) PROVE FaithInv'
  <2>1. rcv' = rcv /\ disk' = disk /\ shared' = shared
    BY <1>4 DEF Edit
  <2>2. \A u \in Attempt : Settled(u)
    BY <2>1 DEF Settled
  <2>. QED
    BY <2>1, <2>2, FaithQuiet
<1>5. CASE UNCHANGED vars
  <2>1. rcv' = rcv /\ disk' = disk /\ shared' = shared
    BY <1>5 DEF vars
  <2>2. \A u \in Attempt : Settled(u)
    BY <2>1 DEF Settled
  <2>. QED
    BY <2>1, <2>2, FaithQuiet
<1>. QED
  BY <1>1, <1>2, <1>3, <1>4, <1>5 DEF Next

LEMMA FaithAlways == Spec => []FaithInv
<1>1. Init => FaithInv
  BY DEF Init, FaithInv, Faithful, Receiving, NoReceiver
<1>. QED
  BY <1>1, FaithNext, TransferAlways, PTL DEF Spec

\* Only an offer or a chunk makes a receiver say that all is well.
LEMMA OnlyTakingCommits ==
    ASSUME TransferInv, [Next]_vars, NEW t \in Attempt, EmitsOk(t)
    PROVE  RecvOffer(t) \/ RecvChunk(t)
<1>1. Has(rcv, Attempt) /\ \A u \in Attempt : Has(rcv[u], {"pc", "slots", "out", "done", "aborted"})
  BY DEF TransferInv, Shape, Link, LinkOf, Ends, IsReceiver
<1>2. ASSUME NEW u \in Attempt, ~(u = t /\ (RecvOffer(u) \/ RecvChunk(u))), SenderStep(u) \/ ReceiverStep(u) \/ FaultStep(u)
      PROVE  rcv'[t].done = rcv[t].done \/ rcv'[t].aborted
  <2>1. CASE SenderStep(u) \/ Timeout(u) \/ Disconnect(u)
    BY <2>1 DEF SenderStep, Start, RecvReply, SendChunk, RecvProgress, SenderLost, Timeout, Disconnect
  <2>2. CASE Crash(u)
    <3>1. rcv'[t] = [rcv[t] EXCEPT !.pc = "closed"] \/ rcv'[t] = rcv[t]
      BY <2>2 DEF Crash
    <3>. QED
      BY <1>1, <3>1 DEF Has
  <2>3. CASE RecvOffer(u)
    BY <1>1, <1>2, <2>3 DEF RecvOffer, Has
  <2>4. CASE RecvChunk(u)
    BY <1>1, <1>2, <2>4 DEF RecvChunk, Has
  <2>5. CASE Emit(u)
    <3>1. PICK r : r = [rcv[u] EXCEPT !.out = Tail(@)]
      OBVIOUS
    <3>2. PICK R : R = [r EXCEPT !.pc = IF r.out = <<>> /\ Terminal(r) THEN "closed" ELSE "open"]
      OBVIOUS
    <3>3. rcv' = [rcv EXCEPT ![u] = R]
      BY <2>5, <3>1, <3>2 DEF Emit
    <3>4. Has(r, {"pc", "slots", "out", "done", "aborted"}) /\ r.done = rcv[u].done
      BY <1>1, <3>1 DEF Has
    <3>5. R.done = r.done
      BY <3>2, <3>4 DEF Has
    <3>. QED
      BY <1>1, <3>3, <3>4, <3>5 DEF Has
  <2>6. CASE ReceiverLost(u)
    <3>1. rcv' = [rcv EXCEPT ![u].pc = "closed", ![u].out = <<>>]
      BY <2>6 DEF ReceiverLost
    <3>. QED
      BY <1>1, <3>1 DEF Has
  <2>7. CASE OpenFails(u)
    <3>1. rcv' = [rcv EXCEPT ![u].pc = "closed"]
      BY <2>7 DEF OpenFails
    <3>. QED
      BY <1>1, <3>1 DEF Has
  <2>8. CASE WriteFails(u)
    <3>1. PICK m : m = <<Done(FALSE)>>
      OBVIOUS
    <3>2. PICK R : R = [Aborted(rcv[u]) EXCEPT !.out = m]
      OBVIOUS
    <3>3. rcv' = [rcv EXCEPT ![u] = R]
      BY <2>8, <3>1, <3>2 DEF WriteFails
    <3>4. R.aborted
      BY <1>1, <3>2 DEF Aborted, Has
    <3>. QED
      BY <1>1, <3>3, <3>4 DEF Has
  <2>. QED
    BY <1>2, <2>1, <2>2, <2>3, <2>4, <2>5, <2>6, <2>7, <2>8 DEF ReceiverStep, FaultStep
<1>3. ~rcv[t].done /\ rcv'[t].done /\ ~rcv'[t].aborted
  BY DEF EmitsOk
<1>4. ~(rcv' = rcv)
  BY <1>3
<1>5. PICK u \in Attempt : SenderStep(u) \/ ReceiverStep(u) \/ FaultStep(u)
  BY <1>4 DEF Next, vars, Edit
<1>. QED
  BY <1>2, <1>3, <1>5

LEMMA CommitStep ==
    ASSUME TransferInv, FaithInv, [Next]_vars, NEW t \in Attempt, t \notin shared', EmitsOk(t), NEW i \in DOMAIN snd[t].files
    PROVE  disk'[snd[t].files[i].name] = snd[t].files[i].hash
<1>1. RecvOffer(t) \/ RecvChunk(t)
  BY OnlyTakingCommits
<1>2. TransferInv' /\ FaithInv' /\ snd' = snd
  BY <1>1, TransferNext, FaithNext DEF RecvOffer, RecvChunk
<1>3. PICK R : R = rcv'[t]
  OBVIOUS
<1>4. ~rcv[t].done /\ R.done /\ ~R.aborted
  BY <1>3 DEF EmitsOk
<1>5. R.pc = "open" /\ \A j \in DOMAIN R.slots : R.slots[j].complete
  <2>1. CASE RecvOffer(t)
    <3>1. PICK s : s = snd[t]
      OBVIOUS
    <3>2. IsSender(s) /\ up[t] = <<Offering(s)>> /\ DiskOk(disk) /\ Has(rcv, Attempt)
      BY <2>1, <3>1 DEF TransferInv, Shape, Link, LinkOf, Ends, RecvOffer
    <3>3. Head(up[t]).files = s.files
      <4>1. PICK x : x = Offering(s)
        OBVIOUS
      <4>2. Head(<<x>>) = x /\ x.files = s.files
        BY <4>1 DEF Offering
      <4>. QED
        BY <3>2, <4>1, <4>2
    <3>4. R = AcceptOffer(s.files)
      BY <1>3, <2>1, <3>2, <3>3 DEF RecvOffer, Has
    <3>. QED
      BY <1>4, <3>2, <3>4, OfferSlots
  <2>2. CASE RecvChunk(t)
    <3>1. rcv[t].pc = "open" /\ ~Terminal(rcv[t]) /\ up[t] # <<>> /\ Has(rcv, Attempt)
      BY <2>2 DEF RecvChunk, TransferInv, Shape
    <3>2. PICK x : x = Head(up[t])
      OBVIOUS
    <3>3. PICK r : r = rcv[t]
      OBVIOUS
    <3>4. R = OnChunk(r, x).r
      BY <1>3, <2>2, <3>1, <3>2, <3>3 DEF RecvChunk, Has
    <3>5. /\ x \in Chunk /\ x.file \in DOMAIN r.slots /\ IsReceiver(r)
          /\ x.offset = r.slots[x.file].acked /\ ~r.slots[x.file].complete /\ Finalized(R, Taken(r, x))
      BY <3>1, <3>2, <3>3, <3>4, Reading
    <3>6. PICK T : T = Taken(r, x)
      OBVIOUS
    <3>7. T.pc = r.pc /\ T.done = r.done
      BY <3>5, <3>6, TakenIs
    <3>8. R.pc = T.pc /\ DOMAIN R.slots = DOMAIN T.slots
            /\ (R.done = T.done \/ R.aborted \/ \A j \in DOMAIN T.slots : R.slots[j].complete)
      BY <3>5, <3>6 DEF Finalized
    <3>. QED
      BY <1>4, <3>1, <3>3, <3>7, <3>8
  <2>. QED
    BY <1>1, <2>1, <2>2
<1>6. Receiving(R)
  BY <1>4, <1>5 DEF Receiving
<1>7. PICK E : E = disk'
  OBVIOUS
<1>8. Agree(snd[t], R, E)
  BY <1>2, <1>3, <1>6, <1>7 DEF TransferInv, Link, LinkOf, Holds
<1>9. /\ i \in DOMAIN R.slots /\ R.slots[i].sink.name = snd[t].files[i].name /\ R.slots[i].expected = snd[t].files[i].hash
  BY <1>8 DEF Agree
<1>10. E[R.slots[i].sink.name] = R.slots[i].sink.hashed /\ (R.slots[i].complete => R.slots[i].sink.hashed = R.slots[i].expected)
  BY <1>2, <1>3, <1>6, <1>7, <1>9 DEF FaithInv, Faithful
<1>. QED
  BY <1>5, <1>7, <1>9, <1>10

\* receiver.rs finalize_completed_files: however often an attempt was broken
\* off, resumed, or its source rewritten under it, FileDone{ok} is only
\* produced when the quarantine holds exactly the content hashed for the
\* offer, unless another slot had the same file open.
THEOREM CommitsAreFaithful == Spec => CommitIsFaithful
<1>1. TransferInv /\ FaithInv /\ [Next]_vars =>
        [\A t \in Attempt \ shared' :
            EmitsOk(t) => \A i \in DOMAIN snd[t].files : disk'[snd[t].files[i].name] = snd[t].files[i].hash]_vars
  BY CommitStep
<1>. QED
  BY <1>1, TransferAlways, FaithAlways, PTL DEF Spec, CommitIsFaithful

-----------------------------------------------------------------------------
(* The transfer implements FileDelivery                                    *)

Held == [n \in Name |-> Len(disk[n])]
Offers == [t \in Attempt |-> Wanted(t)]
Outcome(s) == CASE s.pc \in {"offered", "sending"} -> "running" [] OTHER -> s.pc
Outcomes == [t \in Attempt |-> Outcome(snd[t])]

LEMMA OutcomeIs ==
    ASSUME NEW s
    PROVE  /\ s.pc \in {"offered", "sending"} => Outcome(s) = "running"
           /\ s.pc \in {"new", "ok", "failed"} => Outcome(s) = s.pc
BY DEF Outcome

\* What a step of attempt t alone means to the user.
LEMMA OneOutcome ==
    ASSUME TransferInv, NEW t \in Attempt, \A u \in Attempt \ {t} : snd'[u] = snd[u]
    PROVE  /\ Outcomes' = [Outcomes EXCEPT ![t] = Outcome(snd'[t])]
           /\ snd'[t].files = snd[t].files => Offers' = Offers
           /\ Offers' = [Offers EXCEPT ![t] = Wanted(t)']
           /\ Outcomes[t] = Outcome(snd[t])
<1>1. Outcomes[t] = Outcome(snd[t])
  BY DEF Outcomes
<1>2. \A u \in Attempt : Outcome(snd'[u]) = IF u = t THEN Outcome(snd'[t]) ELSE Outcome(snd[u])
  OBVIOUS
<1>3. Outcomes' = [Outcomes EXCEPT ![t] = Outcome(snd'[t])]
  BY <1>2 DEF Outcomes
<1>4. \A u \in Attempt \ {t} : Wanted(u)' = Wanted(u)
  BY DEF Wanted
<1>5. snd'[t].files = snd[t].files => Wanted(t)' = Wanted(t)
  BY DEF Wanted
<1>6. Offers' = [Offers EXCEPT ![t] = Wanted(t)']
  BY <1>4 DEF Offers
<1>7. snd'[t].files = snd[t].files => Offers' = Offers
  BY <1>4, <1>5 DEF Offers
<1>. QED
  BY <1>1, <1>3, <1>6, <1>7

LEMMA DeliveryFail ==
    ASSUME TransferInv, NEW t \in Attempt, disk' = disk, \A u \in Attempt \ {t} : snd'[u] = snd[u],
           snd'[t].files = snd[t].files, snd'[t].pc = "failed", snd[t].pc \in {"new", "offered", "sending"}
    PROVE  Delivery!Fail(t)
<1>1. Held' = Held
  BY DEF Held
<1>2. Outcomes' = [Outcomes EXCEPT ![t] = Outcome(snd'[t])] /\ Offers' = Offers /\ Outcomes[t] = Outcome(snd[t])
  BY OneOutcome
<1>3. Outcome(snd'[t]) = "failed" /\ Outcome(snd[t]) \in {"new", "running"}
  BY OutcomeIs
<1>. QED
  BY <1>1, <1>2, <1>3 DEF Delivery!Fail, Held, Offers, Outcomes, Outcome, SenderActive

LEMMA DeliverySucceed ==
    ASSUME TransferInv, NEW t \in Attempt, disk' = disk, \A u \in Attempt \ {t} : snd'[u] = snd[u],
           snd'[t].files = snd[t].files, snd'[t].pc = "ok", snd[t].pc = "sending", HeldAll(snd[t], disk)
    PROVE  Delivery!Succeed(t)
<1>1. Held' = Held
  BY DEF Held
<1>2. Outcomes' = [Outcomes EXCEPT ![t] = Outcome(snd'[t])] /\ Offers' = Offers /\ Outcomes[t] = Outcome(snd[t])
  BY OneOutcome
<1>3. Outcome(snd'[t]) = "ok" /\ Outcome(snd[t]) = "running"
  BY OutcomeIs
<1>4. \A w \in Offers[t] : Held[w[1]] >= w[2]
  <2>1. ASSUME NEW i \in DOMAIN snd[t].files PROVE Held[snd[t].files[i].name] >= snd[t].files[i].size
    <3>1. snd[t].files[i].name \in Name
      BY DEF TransferInv, Link, LinkOf, Ends, IsSender, IsEntry
    <3>. QED
      BY <3>1 DEF Held, HeldAll
  <2>2. Offers[t] = {<<snd[t].files[i].name, snd[t].files[i].size>> : i \in DOMAIN snd[t].files}
    BY DEF Offers, Wanted
  <2>. QED
    BY <2>1, <2>2
<1>. QED
  BY <1>1, <1>2, <1>3, <1>4 DEF Delivery!Succeed, Held, Offers, Outcomes, Outcome, SenderActive

LEMMA DeliveryBegin ==
    ASSUME TransferInv, NEW t \in Attempt, disk' = disk, \A u \in Attempt \ {t} : snd'[u] = snd[u],
           IsSender(snd'[t]), snd'[t].pc = "offered", snd[t].pc = "new"
    PROVE  Delivery!Begin(t)
<1>1. Held' = Held
  BY DEF Held
<1>2. Outcomes' = [Outcomes EXCEPT ![t] = Outcome(snd'[t])] /\ Offers' = [Offers EXCEPT ![t] = Wanted(t)'] /\ Outcomes[t] = Outcome(snd[t])
  BY OneOutcome
<1>3. Outcome(snd'[t]) = "running" /\ Outcome(snd[t]) = "new"
  BY OutcomeIs
<1>4. PICK w : w = Wanted(t)'
  OBVIOUS
<1>5. w \subseteq Name \X (0 .. MaxLen)
  <2>1. PICK s : s = snd'[t]
    OBVIOUS
  <2>2. w = {<<s.files[i].name, s.files[i].size>> : i \in DOMAIN s.files}
    BY <1>4, <2>1 DEF Wanted
  <2>3. \A i \in DOMAIN s.files : s.files[i].name \in Name /\ s.files[i].size \in 0 .. MaxLen
    BY <2>1 DEF IsSender, IsEntry
  <2>. QED
    BY <2>2, <2>3
<1>6. Offers' = [Offers EXCEPT ![t] = w]
  BY <1>2, <1>4
<1>7. Outcomes' = [Outcomes EXCEPT ![t] = "running"] /\ Outcomes[t] = "new"
  BY <1>2, <1>3
<1>8. \E v \in SUBSET (Name \X (0 .. MaxLen)) : Offers' = [Offers EXCEPT ![t] = v]
  BY <1>5, <1>6
<1>. QED
  BY <1>1, <1>7, <1>8 DEF Delivery!Begin, Delivery!Offer, Held, Offers, Outcomes, Outcome, SenderActive

LEMMA DeliveryExtend ==
    ASSUME TransferInv, snd' = snd, DiskOk(disk'), Grows(disk, disk'), NEW n \in Name,
           \A m \in Name \ {n} : disk'[m] = disk[m]
    PROVE  UNCHANGED <<Held, Offers, Outcomes>> \/ Delivery!Extend(n)
<1>1. Offers' = Offers /\ Outcomes' = Outcomes
  BY DEF Offers, Outcomes, Wanted
<1>2. PICK k : k = Len(disk'[n])
  OBVIOUS
<1>3. PICK l : l = Len(disk[n])
  OBVIOUS
<1>4. k \in Nat /\ l \in Nat /\ l <= k /\ k <= MaxLen
  BY <1>2, <1>3 DEF TransferInv, Shape, DiskOk, Content, Grows
<1>5. \A m \in Name : Len(disk'[m]) = IF m = n THEN k ELSE Len(disk[m])
  BY <1>2
<1>6. Held' = [Held EXCEPT ![n] = k] /\ Held[n] = l
  BY <1>3, <1>5 DEF Held
<1>7. CASE k = l
  <2>1. Held' = Held
    BY <1>6, <1>7 DEF Held
  <2>. QED
    BY <1>1, <2>1
<1>8. CASE k # l
  <2>1. k \in Held[n] + 1 .. MaxLen
    BY <1>4, <1>6, <1>8, LimitsAreNatural
  <2>2. \E v \in Held[n] + 1 .. MaxLen : Held' = [Held EXCEPT ![n] = v]
    BY <1>6, <2>1
  <2>. QED
    BY <1>1, <2>2 DEF Delivery!Extend, Held, Offers, Outcomes, Outcome, SenderActive
<1>. QED
  BY <1>7, <1>8

LEMMA DeliverySame ==
    ASSUME TransferInv, NEW t \in Attempt, disk' = disk, \A u \in Attempt \ {t} : snd'[u] = snd[u],
           snd'[t].files = snd[t].files, Outcome(snd'[t]) = Outcome(snd[t])
    PROVE  UNCHANGED <<Held, Offers, Outcomes>>
<1>1. Held' = Held
  BY DEF Held
<1>2. Outcomes' = [Outcomes EXCEPT ![t] = Outcome(snd'[t])] /\ Offers' = Offers /\ Outcomes[t] = Outcome(snd[t])
  BY OneOutcome
<1>3. Outcomes' = Outcomes
  BY <1>2 DEF Outcomes
<1>. QED
  BY <1>1, <1>2, <1>3

LEMMA EndIsFail ==
    ASSUME TransferInv, NEW t \in Attempt, disk' = disk, EndSender(t, "failed"), snd[t].pc \in {"new", "offered", "sending"}
    PROVE  Delivery!Fail(t)
<1>1. snd' = [snd EXCEPT ![t].pc = "failed"] /\ IsSender(snd[t]) /\ Has(snd, Attempt)
  BY DEF EndSender, TransferInv, Shape, Link, LinkOf, Ends
<1>2. snd'[t].pc = "failed" /\ snd'[t].files = snd[t].files /\ \A u \in Attempt \ {t} : snd'[u] = snd[u]
  BY <1>1 DEF IsSender, Has
<1>. QED
  BY <1>2, DeliveryFail

\* One attempt's sender moves on within the same offer.
LEMMA SenderGoesOn ==
    ASSUME TransferInv, NEW t \in Attempt, disk' = disk, NEW S, snd' = [snd EXCEPT ![t] = S],
           S.files = snd[t].files, S.pc = "sending", snd[t].pc \in {"offered", "sending"}
    PROVE  UNCHANGED <<Held, Offers, Outcomes>>
<1>1. snd'[t] = S /\ \A u \in Attempt \ {t} : snd'[u] = snd[u]
  BY DEF TransferInv, Shape, Has
<1>2. Outcome(snd'[t]) = Outcome(snd[t])
  BY <1>1, OutcomeIs
<1>. QED
  BY <1>1, <1>2, DeliverySame

LEMMA StartDelivers ==
    ASSUME TransferInv, NEW t \in Attempt, Start(t)
    PROVE  Delivery!Begin(t) \/ Delivery!Fail(t)
<1>1. snd[t].pc = "new" /\ SourcesOk /\ Has(snd, Attempt) /\ IsSender(snd[t]) /\ disk' = disk
  BY DEF TransferInv, Link, Start, Shape, LinkOf, Ends
<1>2. PICK plan \in Plans : snd' = [snd EXCEPT ![t].pc = "failed"] \/ snd' = [snd EXCEPT ![t] = Sender(plan)]
  BY DEF Start
<1>3. CASE snd' = [snd EXCEPT ![t].pc = "failed"]
  <2>1. snd'[t].pc = "failed" /\ snd'[t].files = snd[t].files /\ \A u \in Attempt \ {t} : snd'[u] = snd[u]
    BY <1>1, <1>3 DEF IsSender, Has
  <2>. QED
    BY <1>1, <2>1, DeliveryFail
<1>4. CASE snd' = [snd EXCEPT ![t] = Sender(plan)]
  <2>1. PICK S : S = Sender(plan)
    OBVIOUS
  <2>2. IsSender(S) /\ S.pc = "offered"
    BY <1>1, <2>1, SenderIs
  <2>3. snd'[t] = S /\ \A u \in Attempt \ {t} : snd'[u] = snd[u]
    BY <1>1, <1>4, <2>1 DEF Has
  <2>. QED
    BY <1>1, <2>2, <2>3, DeliveryBegin
<1>. QED
  BY <1>2, <1>3, <1>4

LEMMA ReplyDelivers ==
    ASSUME TransferInv, NEW t \in Attempt, RecvReply(t)
    PROVE  UNCHANGED <<Held, Offers, Outcomes>> \/ Delivery!Fail(t)
<1>1. snd[t].pc = "offered" /\ down[t] # <<>> /\ IsSender(snd[t]) /\ down[t] \in Seq(Answer) /\ disk' = disk
  BY DEF TransferInv, Link, LinkOf, Ends, Streams, RecvReply
<1>2. PICK m : m = Head(down[t])
  OBVIOUS
<1>3. CASE m.type = "accept" /\ ResumeIsValid(snd[t], m.resume)
  <2>1. PICK S : S = OnAccept(snd[t], m.resume)
    OBVIOUS
  <2>2. snd' = [snd EXCEPT ![t] = S]
    BY <1>2, <1>3, <2>1 DEF RecvReply
  <2>3. m \in Answer
    BY <1>1, <1>2, AnswersTail
  <2>4. m.resume \in Resumes
    BY <1>3, <2>3 DEF Answer
  <2>5. S.pc = "sending" /\ S.files = snd[t].files
    BY <1>1, <1>3, <2>1, <2>4, OnAcceptIs
  <2>. QED
    BY <1>1, <2>2, <2>5, SenderGoesOn
<1>4. CASE ~(m.type = "accept" /\ ResumeIsValid(snd[t], m.resume))
  <2>1. EndSender(t, "failed")
    BY <1>2, <1>4 DEF RecvReply
  <2>. QED
    BY <1>1, <2>1, EndIsFail
<1>. QED
  BY <1>3, <1>4

LEMMA ChunkDelivers ==
    ASSUME TransferInv, NEW t \in Attempt, SendChunk(t)
    PROVE  UNCHANGED <<Held, Offers, Outcomes>> \/ Delivery!Fail(t)
<1>1. snd[t].pc = "sending" /\ Sendable(snd[t]) # {} /\ SourcesOk /\ IsSender(snd[t]) /\ disk' = disk
  BY DEF TransferInv, Link, SendChunk, Shape, LinkOf, Ends
<1>2. PICK x : x = PollChunk(snd[t])
  OBVIOUS
<1>3. CASE x.data = <<>>
  <2>1. EndSender(t, "failed")
    BY <1>2, <1>3 DEF SendChunk
  <2>. QED
    BY <1>1, <2>1, EndIsFail
<1>4. CASE x.data # <<>>
  <2>1. snd' = [snd EXCEPT ![t].sent[x.file] = @ + Len(x.data)]
    BY <1>2, <1>4 DEF SendChunk
  <2>2. PICK s : s = snd[t]
    OBVIOUS
  <2>3. x \in Chunk /\ x.file \in DOMAIN s.files /\ x.offset = s.sent[x.file] /\ x.offset + Len(x.data) <= s.files[x.file].size
    BY <1>1, <1>2, <2>2, PollChunkIs
  <2>4. PICK n : n = Len(x.data)
    OBVIOUS
  <2>5. PICK S : S = SentOn(s, x.file, n)
    OBVIOUS
  <2>6. snd' = [snd EXCEPT ![t] = S]
    BY <2>1, <2>2, <2>4, <2>5 DEF SentOn
  <2>7. n \in Nat
    BY <2>3, <2>4, ChunkIs
  <2>8. S.pc = s.pc /\ S.files = s.files
    BY <1>1, <2>2, <2>3, <2>4, <2>5, <2>7, SentIs
  <2>. QED
    BY <1>1, <2>2, <2>6, <2>8, SenderGoesOn
<1>. QED
  BY <1>3, <1>4

LEMMA DoneOk ==
    ASSUME NEW m \in Answer, m.type = "done", m.ok
    PROVE  m = Done(TRUE)
<1>1. m \in [type : {"done"}, ok : BOOLEAN]
  BY DEF Answer
<1>2. m = [type |-> "done", ok |-> m.ok] /\ m.ok \in BOOLEAN
  BY <1>1
<1>3. m.ok = TRUE
  BY <1>2, Zenon
<1>. QED
  BY <1>2, <1>3, Zenon DEF Done

\* FileDone{ok} only reaches the sender once the quarantine holds it all.
LEMMA OkDelivers ==
    ASSUME TransferInv, NEW t \in Attempt, snd[t].pc = "sending", down[t] # <<>>, disk' = disk,
           Head(down[t]) = Done(TRUE), EndSender(t, "ok")
    PROVE  Delivery!Succeed(t)
<1>1. snd' = [snd EXCEPT ![t].pc = "ok"] /\ IsSender(snd[t]) /\ Has(snd, Attempt) /\ down[t] \in Seq(Answer)
  BY DEF EndSender, TransferInv, Shape, Link, LinkOf, Ends, Streams
<1>2. snd'[t].pc = "ok" /\ snd'[t].files = snd[t].files /\ \A u \in Attempt \ {t} : snd'[u] = snd[u]
  BY <1>1 DEF IsSender, Has
<1>3. SayOk(down[t])
  <2>1. PICK w : w = down[t]
    OBVIOUS
  <2>2. w \in Seq(Answer) /\ w # <<>> /\ Head(w) = Done(TRUE)
    BY <1>1, <2>1
  <2>3. SayOk(w)
    BY <2>2, AnswersTail
  <2>. QED
    BY <2>1, <2>3
<1>4. HeldAll(snd[t], disk)
  BY <1>3 DEF TransferInv, Link, LinkOf, Holds
<1>. QED
  BY <1>2, <1>4, DeliverySucceed

LEMMA ProgressDelivers ==
    ASSUME TransferInv, NEW t \in Attempt, RecvProgress(t)
    PROVE  UNCHANGED <<Held, Offers, Outcomes>> \/ Delivery!Succeed(t) \/ Delivery!Fail(t)
<1>1. snd[t].pc = "sending" /\ down[t] # <<>> /\ IsSender(snd[t]) /\ down[t] \in Seq(Answer) /\ disk' = disk
  BY DEF TransferInv, Link, LinkOf, Ends, Streams, RecvProgress
<1>2. PICK m : m = Head(down[t])
  OBVIOUS
<1>3. m \in Answer /\ AnswerOk(m, snd[t], rcv[t])
  <2>1. AllOk(down[t], snd[t], rcv[t])
    BY DEF TransferInv, Link, LinkOf, Streams, AllOk
  <2>. QED
    BY <1>1, <1>2, <2>1, AnswersTail
<1>4. CASE m.type = "done"
  <2>1. EndSender(t, IF m.ok THEN "ok" ELSE "failed")
    BY <1>2, <1>4 DEF RecvProgress
  <2>2. CASE m.ok
    <3>1. EndSender(t, "ok")
      BY <2>1, <2>2
    <3>2. m = Done(TRUE)
      BY <1>3, <1>4, <2>2, DoneOk
    <3>3. Head(down[t]) = Done(TRUE)
      BY <1>2, <3>2
    <3>. QED
      BY <1>1, <3>1, <3>3, OkDelivers
  <2>3. CASE ~m.ok
    <3>1. EndSender(t, "failed")
      BY <2>1, <2>3
    <3>. QED
      BY <1>1, <3>1, EndIsFail
  <2>. QED
    BY <2>2, <2>3
<1>5. CASE m.type # "done" /\ m.type = "ack" /\ ~IsComplete(snd[t]) /\ AckIsValid(snd[t], m)
  <2>1. PICK S : S = OnAck(snd[t], m)
    OBVIOUS
  <2>2. snd' = [snd EXCEPT ![t] = S]
    BY <1>2, <1>5, <2>1 DEF RecvProgress
  <2>3. m.through \in Nat /\ m.file \in DOMAIN snd[t].files
    BY <1>3, <1>5 DEF Answer, AnswerOk
  <2>4. S.pc = snd[t].pc /\ S.files = snd[t].files
    BY <1>1, <1>5, <2>1, <2>3, OnAckIs
  <2>. QED
    BY <1>1, <2>2, <2>4, SenderGoesOn
<1>6. CASE m.type # "done" /\ ~(m.type = "ack" /\ ~IsComplete(snd[t]) /\ AckIsValid(snd[t], m))
  <2>1. EndSender(t, "failed")
    BY <1>2, <1>6 DEF RecvProgress
  <2>. QED
    BY <1>1, <2>1, EndIsFail
<1>. QED
  BY <1>4, <1>5, <1>6

LEMMA LostDelivers ==
    ASSUME TransferInv, NEW t \in Attempt, SenderLost(t) \/ Timeout(t)
    PROVE  Delivery!Fail(t)
<1>1. EndSender(t, "failed") /\ disk' = disk /\ snd[t].pc \in {"offered", "sending"}
  BY DEF SenderLost, Timeout, SenderActive
<1>. QED
  BY <1>1, EndIsFail

LEMMA NothingDelivered ==
    ASSUME snd' = snd, disk' = disk
    PROVE  UNCHANGED <<Held, Offers, Outcomes>>
BY DEF Held, Offers, Outcomes, Wanted

\* A chunk, or the part of it written before a crash, extends one file.
LEMMA WriteDelivers ==
    ASSUME TransferInv, NEW t \in Attempt, RecvChunk(t) \/ Crash(t)
    PROVE  UNCHANGED <<Held, Offers, Outcomes>> \/ \E n \in Name : Delivery!Extend(n)
<1>1. snd' = snd /\ rcv[t].pc = "open" /\ ~Terminal(rcv[t]) /\ up[t] # <<>>
  BY DEF RecvChunk, Crash
<1>2. TransferInv'
  BY RecvChunkStep, CrashStep
<1>3. PICK x : x = Head(up[t])
  OBVIOUS
<1>4. PICK n : n = rcv[t].slots[x.file].sink.name
  OBVIOUS
<1>5. OnChunk(rcv[t], x).store /\ n \in Name
  BY <1>1, <1>3, <1>4, Reading
<1>6. \E v : disk' = [disk EXCEPT ![n] = v]
  BY <1>3, <1>4, <1>5 DEF RecvChunk, Crash
<1>7. \A m \in Name \ {n} : disk'[m] = disk[m]
  BY <1>6 DEF TransferInv, Shape, DiskOk, Has
<1>8. DiskOk(disk')
  BY <1>2 DEF TransferInv, Shape
<1>9. Grows(disk, disk')
  <2>1. CASE RecvChunk(t)
    BY <2>1, ChunkGrows
  <2>2. CASE Crash(t)
    BY <2>2, TornWrite
  <2>. QED
    BY <2>1, <2>2
<1>. QED
  BY <1>1, <1>5, <1>7, <1>8, <1>9, DeliveryExtend

LEMMA DeliveryStep ==
    TransferInv /\ [Next]_vars => [Delivery!Next]_<<Held, Offers, Outcomes>>
<1>. SUFFICES ASSUME TransferInv, [Next]_vars PROVE UNCHANGED <<Held, Offers, Outcomes>> \/ Delivery!Next
  OBVIOUS
<1>1. ASSUME NEW t \in Attempt, SenderStep(t) PROVE UNCHANGED <<Held, Offers, Outcomes>> \/ Delivery!Next
  BY <1>1, StartDelivers, ReplyDelivers, ChunkDelivers, ProgressDelivers, LostDelivers DEF SenderStep, Delivery!Next
<1>2. ASSUME NEW t \in Attempt, RecvChunk(t) \/ Crash(t) PROVE UNCHANGED <<Held, Offers, Outcomes>> \/ Delivery!Next
  BY <1>2, WriteDelivers DEF Delivery!Next
<1>3. ASSUME NEW t \in Attempt, Timeout(t) PROVE Delivery!Next
  BY <1>3, LostDelivers DEF Delivery!Next
<1>4. ASSUME NEW t \in Attempt, \/ RecvOffer(t) \/ Emit(t) \/ ReceiverLost(t)
                                \/ Disconnect(t) \/ WriteFails(t) \/ OpenFails(t)
      PROVE  UNCHANGED <<Held, Offers, Outcomes>>
  <2>1. snd' = snd /\ disk' = disk
    BY <1>4 DEF RecvOffer, Emit, ReceiverLost, Disconnect, WriteFails, OpenFails
  <2>. QED
    BY <2>1, NothingDelivered
<1>5. ASSUME \/ \E p \in Path : Edit(p)
             \/ UNCHANGED vars
      PROVE  UNCHANGED <<Held, Offers, Outcomes>>
  <2>1. snd' = snd /\ disk' = disk
    BY <1>5 DEF Edit, vars
  <2>. QED
    BY <2>1, NothingDelivered
<1>. QED
  BY <1>1, <1>2, <1>3, <1>4, <1>5 DEF Next, ReceiverStep, FaultStep

LEMMA DeliveryInit == Init => Delivery!Init
<1>. SUFFICES ASSUME Init PROVE Delivery!Init
  OBVIOUS
<1>1. Held = [n \in Name |-> 0]
  BY DEF Init, Held
<1>2. \A t \in Attempt : snd[t] = NoSender /\ NoSender.files = <<>> /\ NoSender.pc = "new"
  BY DEF Init, NoSender
<1>3. \A t \in Attempt : Wanted(t) = {} /\ Outcome(snd[t]) = "new"
  BY <1>2, OutcomeIs DEF Wanted
<1>4. Offers = [t \in Attempt |-> {}] /\ Outcomes = [t \in Attempt |-> "new"]
  BY <1>3 DEF Offers, Outcomes
<1>. QED
  BY <1>1, <1>4 DEF Delivery!Init, Held, Offers, Outcomes, Outcome, SenderActive

\* What the user is promised, for every number of files and attempts and all
\* window and chunk sizes: whatever order chunks, answers, timeouts, torn
\* writes and retries come in, bytes that reached the quarantine stay, every
\* attempt ends at most once, and run_sender_stream returns Ok only for files
\* that are held in full.
THEOREM TransferImplementsDelivery == Spec => ImplementsDelivery
<1>1. TransferInv /\ [Next]_vars =>
        [Delivery!Next]_<<[n \in Name |-> Len(disk[n])], [t \in Attempt |-> Wanted(t)],
                          [t \in Attempt |-> CASE SenderActive(t) -> "running" [] OTHER -> snd[t].pc]>>
  BY DeliveryStep DEF Held, Offers, Outcomes, Outcome, SenderActive
<1>. QED
  BY <1>1, DeliveryInit, TransferAlways, PTL DEF Spec, ImplementsDelivery, Delivery!Spec
=============================================================================
