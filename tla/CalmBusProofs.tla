---------------------------- MODULE CalmBusProofs ----------------------------
(***************************************************************************)
(* Proof that on a calm bus no node answers a frame of another one with an *)
(* error, for every value of the constants.                                *)
(*                                                                         *)
(* Every transfer that is sent makes its way to a node in stages, one per  *)
(* frame.  The entry from which it is received, the frames that wait in    *)
(* the node's inbox and the entry from which it is sent are at stages that *)
(* follow on each other; that is what the proof keeps track of.            *)
(***************************************************************************)
EXTENDS NetworkProofs

-----------------------------------------------------------------------------
(* How far a payload p has come: to the byte `at`, the frame that comes    *)
(* next having the toggle `toggle`.                                        *)

Aligned(x) == \E i \in Nat : x = i * FrameCapacity

(* The CRC of payload p is not divided between two frames. *)
Undivided(p) == Len(p) > FrameCapacity => ~ Aligned(Len(p) + 1)

IsStage(s) == s.at \in Nat /\ Aligned(s.at) /\ s.toggle \in BOOLEAN

Outset == [at |-> 0, toggle |-> TRUE]
After(s) == [at |-> s.at + FrameCapacity, toggle |-> ~ s.toggle]
Ended(p, s) == s.at > 0 /\ s.at >= Len(SentBytes(p))

(* The stage an entry of a sending node is at. *)
StageOf(e) == [at |-> e.consumed, toggle |-> e.transport_metadata.toggle_bit]

(* Frame f carries payload p on from stage s. *)
FrameAt(p, s, f) ==
    /\ f.tail.start <=> s.at = 0
    /\ f.tail.end <=> Len(SentBytes(p)) - s.at <= FrameCapacity
    /\ f.tail.toggle = s.toggle
    /\ f.data = SubSeq(SentBytes(p), s.at + 1,
                       IF f.tail.end THEN Len(SentBytes(p)) ELSE s.at + FrameCapacity)

(* Under k, a node with the entries `map` has received p up to stage s. *)
RxAt(map, k, p, s) ==
    \/ Ended(p, s)
    \/ s = Outset /\ k \notin DOMAIN map
    \/ /\ s.at > 0 /\ ActiveIn(map, k)
       /\ map[k].transport_metadata.toggle_bit = ~ s.toggle
       /\ map[k].transport_metadata.crc = SubSeq(p, 1, s.at)

(* All nodes but n that send frames under k are at stage s.  *)
TxAt(n, k, s) ==
    \A m \in Nodes \ {n} : \A l : Carries(m, l, k) => s = StageOf(TxMap(m)[l])

(* The frames in the inbox take payload p, under k, along path.  *)
Passing(box, k, p, path) ==
    /\ \A i \in 0 .. Len(box) : IsStage(path[i])
    /\ \A i \in 1 .. Len(box) :
          IF KeyOf(box[i]) = k
          THEN /\ ~ Ended(p, path[i - 1])
               /\ FrameAt(p, path[i - 1], box[i])
               /\ path[i] = After(path[i - 1])
          ELSE path[i] = path[i - 1]

Flow(n, u) ==
    \E path : /\ Passing(Inbox(n), Key(u), u.payload, path)
              /\ RxAt(RxMap(n), Key(u), u.payload, path[0])
              /\ TxAt(n, Key(u), path[Len(Inbox(n))])

Flows == \A n \in Peers : \A u \in sent : u.to \in {None, IdOf(n)} => Flow(n, u)

SentUndivided == \A u \in sent : Undivided(u.payload)

TxWhole ==
    \A n \in Nodes : \A l \in DOMAIN TxMap(n) : TxMap(n)[l].status = "Active" =>
        /\ Aligned(TxMap(n)[l].consumed)
        /\ n = "c" => TxMap(n)[l].consumed = 0

InboxClean == \A n \in Peers : \A i \in DOMAIN Inbox(n) : RxProcessError(Inbox(n)[i]) = "Ok"

AllActive == \A n \in Peers : \A k \in DOMAIN RxMap(n) : ActiveIn(RxMap(n), k)

CalmInv ==
    /\ OnceInv
    /\ SentUndivided /\ TxWhole /\ InboxClean
    /\ conditions = "calm" => now = 0 /\ AllActive /\ Flows /\ CalmBusAccepts

-----------------------------------------------------------------------------
(* The stages of a payload.                                                *)

LEMMA CapacityIs == FrameCapacity \in Nat /\ FrameCapacity >= 2 /\ MTU_SIZE = FrameCapacity + 1
BY CanAssumption DEF FrameCapacity

LEMMA AlignedIs ==
    /\ Aligned(0)
    /\ \A x \in Nat : Aligned(x) => Aligned(x + FrameCapacity)
    /\ \A x \in Nat : Aligned(x) /\ x > 0 => x >= FrameCapacity
<1> DEFINE FC == FrameCapacity
<1>1. FC \in Nat /\ FC >= 2
  BY CapacityIs
<1> HIDE DEF FC
<1>2. Aligned(0)
  <2>1. 0 = 0 * FC
    BY <1>1
  <2> QED BY <2>1 DEF Aligned, FC
<1>3. ASSUME NEW x \in Nat, Aligned(x) PROVE Aligned(x + FC)
  <2>1. PICK i \in Nat : x = i * FC
    BY <1>3 DEF Aligned, FC
  <2>2. x + FC = (i + 1) * FC /\ i + 1 \in Nat
    BY <1>1, <2>1
  <2> QED BY <2>2 DEF Aligned, FC
<1>4. ASSUME NEW x \in Nat, Aligned(x), x > 0 PROVE x >= FC
  <2>1. PICK i \in Nat : x = i * FC
    BY <1>4 DEF Aligned, FC
  <2>2. i # 0
    BY <1>1, <1>4, <2>1
  <2>3. PICK j \in Nat : i = j + 1
    BY <2>2
  <2>4. x = j * FC + FC /\ j * FC \in Nat
    BY <1>1, <2>1, <2>3
  <2> QED BY <1>1, <2>4
<1> QED BY <1>2, <1>3, <1>4 DEF FC

LEMMA SentBytesIs ==
    ASSUME NEW p, IsPayload(p)
    PROVE  /\ p \in Seq(Byte) /\ Len(p) \in Nat
           /\ Len(p) <= FrameCapacity => SentBytes(p) = p
           /\ Len(p) > FrameCapacity =>
                 /\ p # << >> /\ SentBytes(p) = WholeOf(p)
                 /\ Len(SentBytes(p)) = Len(p) + 2
           /\ SentBytes(p) \in Seq(Byte)
<1>1. p \in Seq(Byte) /\ Len(p) \in Nat
  BY DEF IsPayload
<1>2. CASE Len(p) <= FrameCapacity
  BY <1>1, <1>2, CapacityIs DEF SentBytes
<1>3. CASE Len(p) > FrameCapacity
  <2>1. p # << >>
    BY <1>3, CapacityIs
  <2>2. SentBytes(p) = WholeOf(p)
    BY <1>3 DEF SentBytes
  <2>3. WholeOf(p) \in Seq(Byte) /\ Len(WholeOf(p)) = Len(p) + 2
    BY <2>1, WholeOfIs
  <2> QED BY <1>1, <1>3, <2>1, <2>2, <2>3, CapacityIs
<1> QED BY <1>1, <1>2, <1>3, CapacityIs

(* A payload is not over in the middle of its CRC. *)
LEMMA NotEnded ==
    ASSUME NEW p, IsPayload(p), Undivided(p), NEW s, IsStage(s), ~ Ended(p, s)
    PROVE  /\ Len(p) <= FrameCapacity => s.at = 0
           /\ Len(p) > FrameCapacity => s.at <= Len(p)
           /\ s.at > 0 => s.at >= FrameCapacity
           /\ s.at <= Len(SentBytes(p))
<1>1. /\ s.at \in Nat /\ Aligned(s.at)
      /\ s.at = 0 \/ s.at < Len(SentBytes(p))
  BY DEF IsStage, Ended
<1>2. s.at > 0 => s.at >= FrameCapacity
  BY <1>1, AlignedIs
<1>3. Len(p) > FrameCapacity => s.at # Len(p) + 1
  BY <1>1 DEF Undivided
<1> QED BY <1>1, <1>2, <1>3, SentBytesIs, CapacityIs

LEMMA OutsetIs == IsStage(Outset) /\ Outset.at = 0 /\ Outset.toggle = TRUE
BY AlignedIs DEF IsStage, Outset

LEMMA AfterIs ==
    ASSUME NEW s, IsStage(s)
    PROVE  /\ IsStage(After(s)) /\ After(s).at = s.at + FrameCapacity /\ After(s).at > 0
           /\ After(s).toggle = ~ s.toggle
BY AlignedIs, CapacityIs DEF IsStage, After

(* Slices of a payload, and of what is sent of it. *)
LEMMA SliceIs ==
    ASSUME NEW s \in Seq(Byte), NEW a \in Nat, NEW b \in Nat, a <= b, b <= Len(s)
    PROVE  /\ SubSeq(s, a + 1, b) \in Seq(Byte) /\ Len(SubSeq(s, a + 1, b)) = b - a
           /\ \A i \in 1 .. b - a : SubSeq(s, a + 1, b)[i] = s[a + i]
OBVIOUS

LEMMA SameSlices ==
    ASSUME NEW s \in Seq(Byte), NEW u \in Seq(Byte), Len(s) = Len(u),
           \A i \in 1 .. Len(s) : s[i] = u[i]
    PROVE  s = u
OBVIOUS

LEMMA SlicesJoin ==
    ASSUME NEW s \in Seq(Byte), NEW a \in Nat, NEW b \in Nat, a <= b, b <= Len(s)
    PROVE  SubSeq(s, 1, a) \o SubSeq(s, a + 1, b) = SubSeq(s, 1, b)
<1>1. PICK x, y, z : x = SubSeq(s, 1, a) /\ y = SubSeq(s, a + 1, b) /\ z = SubSeq(s, 1, b)
  OBVIOUS
<1>2. /\ x \in Seq(Byte) /\ Len(x) = a /\ \A i \in 1 .. a : x[i] = s[i]
      /\ z \in Seq(Byte) /\ Len(z) = b /\ \A i \in 1 .. b : z[i] = s[i]
  BY <1>1, PartOf
<1>3. y \in Seq(Byte) /\ Len(y) = b - a /\ \A i \in 1 .. b - a : y[i] = s[a + i]
  BY <1>1, SliceIs
<1>4. PICK w : w = x \o y
  OBVIOUS
<1>5. /\ w \in Seq(Byte) /\ Len(w) = Len(x) + Len(y)
      /\ \A i \in 1 .. Len(x) : w[i] = x[i]
      /\ \A i \in 1 .. Len(y) : w[Len(x) + i] = y[i]
  <2>1. x \in Seq(Byte) /\ y \in Seq(Byte)
    BY <1>2, <1>3
  <2> QED BY <1>4, <2>1, Concat
<1>6. ASSUME NEW i \in 1 .. b PROVE w[i] = s[i]
  <2>1. CASE i <= a
    BY <1>2, <1>5, <2>1
  <2>2. CASE i > a
    <3>1. PICK j \in 1 .. b - a : i = a + j
      BY <2>2
    <3> QED BY <1>2, <1>3, <1>5, <3>1
  <2> QED BY <2>1, <2>2
<1>7. w = z
  BY <1>2, <1>3, <1>5, <1>6, SameSlices
<1> QED BY <1>1, <1>4, <1>7

LEMMA SliceOfWhole ==
    ASSUME NEW p, IsPayload(p), p # << >>, NEW a \in Nat, NEW b \in Nat, a <= b, b <= Len(p)
    PROVE  SubSeq(WholeOf(p), a + 1, b) = SubSeq(p, a + 1, b)
<1>1. PICK w : w = WholeOf(p)
  OBVIOUS
<1>2. /\ w \in Seq(Byte) /\ Len(w) = Len(p) + 2 /\ p \in Seq(Byte) /\ Len(p) \in Nat
      /\ \A i \in 1 .. Len(p) : w[i] = p[i]
  BY <1>1, WholeOfIs, PayloadBytes
<1>3. PICK x, y : x = SubSeq(w, a + 1, b) /\ y = SubSeq(p, a + 1, b)
  OBVIOUS
<1>4. x \in Seq(Byte) /\ Len(x) = b - a /\ \A i \in 1 .. b - a : x[i] = w[a + i]
  <2>1. w \in Seq(Byte) /\ b <= Len(w)
    BY <1>2
  <2> QED BY <1>3, <2>1, SliceIs
<1>5. y \in Seq(Byte) /\ Len(y) = b - a /\ \A i \in 1 .. b - a : y[i] = p[a + i]
  <2>1. p \in Seq(Byte) /\ b <= Len(p)
    BY <1>2
  <2> QED BY <1>3, <2>1, SliceIs
<1>6. ASSUME NEW i \in 1 .. b - a PROVE x[i] = y[i]
  <2>1. a + i \in 1 .. Len(p)
    BY <1>2
  <2> QED BY <1>2, <1>4, <1>5, <2>1
<1> QED BY <1>1, <1>3, <1>4, <1>5, <1>6, SameSlices

LEMMA ClosingSlice ==
    ASSUME NEW p, IsPayload(p), p # << >>, NEW a \in Nat, a <= Len(p),
           NEW data, data = SubSeq(WholeOf(p), a + 1, Len(p) + 2)
    PROVE  /\ data \in Seq(Byte) /\ Len(data) = Len(p) + 2 - a
           /\ SubSeq(data, 1, Len(data) - 2) = SubSeq(p, a + 1, Len(p))
<1>1. PICK w : w = WholeOf(p)
  OBVIOUS
<1>2. /\ w \in Seq(Byte) /\ Len(w) = Len(p) + 2 /\ p \in Seq(Byte) /\ Len(p) \in Nat
      /\ \A i \in 1 .. Len(p) : w[i] = p[i]
  BY <1>1, WholeOfIs, PayloadBytes
<1>3. /\ data \in Seq(Byte) /\ Len(data) = Len(p) + 2 - a
      /\ \A i \in 1 .. Len(p) + 2 - a : data[i] = w[a + i]
  BY <1>1, <1>2, SliceIs
<1>4. PICK n, x, y : /\ n = Len(p) - a /\ x = SubSeq(data, 1, n) /\ y = SubSeq(p, a + 1, Len(p))
  OBVIOUS
<1>5. n \in Nat /\ n = Len(data) - 2 /\ n <= Len(data)
  BY <1>2, <1>3, <1>4
<1>6. x \in Seq(Byte) /\ Len(x) = n /\ \A i \in 1 .. n : x[i] = data[i]
  BY <1>3, <1>4, <1>5, PartOf
<1>7. y \in Seq(Byte) /\ Len(y) = n /\ \A i \in 1 .. n : y[i] = p[a + i]
  BY <1>2, <1>4, SliceIs
<1>8. \A i \in 1 .. n : x[i] = y[i]
  BY <1>2, <1>3, <1>4, <1>6, <1>7
<1> QED BY <1>3, <1>4, <1>5, <1>6, <1>7, <1>8, SameSlices

-----------------------------------------------------------------------------
(* What a frame that is in its turn does to the entry it is for.           *)

Fits(p, s, f) ==
    /\ IsPayload(p) /\ Undivided(p) /\ IsStage(s) /\ ~ Ended(p, s)
    /\ f \in CanFrame /\ RxProcessError(f) = "Ok" /\ FrameIsOf(f, p) /\ FrameAt(p, s, f)

(* The payload such a frame brings, and its CRC. *)
LEMMA BytesAt ==
    ASSUME NEW p, NEW s, NEW f, Fits(p, s, f), Len(p) > FrameCapacity
    PROVE  /\ ~ (f.tail.start /\ f.tail.end)
           /\ f.tail.end => BytesOf(f) = SubSeq(p, s.at + 1, Len(p))
           /\ f.tail.end => RxFrameMetadata(f).crc_val = Crc(p)
           /\ ~ f.tail.end => s.at + FrameCapacity <= Len(p)
           /\ ~ f.tail.end => BytesOf(f) = SubSeq(p, s.at + 1, s.at + FrameCapacity)
           /\ ~ f.tail.end => RxFrameMetadata(f).crc_val = None
<1>1. /\ IsPayload(p) /\ Undivided(p) /\ IsStage(s) /\ ~ Ended(p, s) /\ FrameIsOf(f, p)
      /\ f \in CanFrame /\ RxProcessError(f) = "Ok" /\ FrameAt(p, s, f)
  BY DEF Fits
<1>2. PICK a : a = s.at
  OBVIOUS
<1>3. /\ p \in Seq(Byte) /\ Len(p) \in Nat /\ p # << >> /\ SentBytes(p) = WholeOf(p)
      /\ Len(WholeOf(p)) = Len(p) + 2
  <2>1. SentBytes(p) = WholeOf(p) /\ Len(SentBytes(p)) = Len(p) + 2
    BY <1>1, SentBytesIs
  <2> QED BY <1>1, <2>1, SentBytesIs
<1>4. a \in Nat /\ a <= Len(p) /\ FrameCapacity \in Nat /\ Aligned(a)
  <2>1. a \in Nat /\ Aligned(a)
    BY <1>1, <1>2 DEF IsStage
  <2> QED BY <1>1, <1>2, <2>1, NotEnded, CapacityIs
<1>5. /\ f.tail.start <=> a = 0
      /\ f.tail.end <=> Len(p) + 2 - a <= FrameCapacity
      /\ f.tail.end => f.data = SubSeq(WholeOf(p), a + 1, Len(p) + 2)
      /\ ~ f.tail.end => f.data = SubSeq(WholeOf(p), a + 1, a + FrameCapacity)
  <2>1. /\ f.tail.start <=> a = 0
        /\ f.tail.end <=> Len(WholeOf(p)) - a <= FrameCapacity
        /\ f.data = SubSeq(WholeOf(p), a + 1,
                           IF f.tail.end THEN Len(WholeOf(p)) ELSE a + FrameCapacity)
    BY <1>1, <1>2, <1>3, Zenon DEF FrameAt
  <2>2. f.tail.end <=> Len(p) + 2 - a <= FrameCapacity
    <3>1. Len(WholeOf(p)) - a <= FrameCapacity <=> Len(p) + 2 - a <= FrameCapacity
      BY <1>3, <1>4
    <3> QED BY <2>1, <3>1, Zenon
  <2>3. f.tail.end => f.data = SubSeq(WholeOf(p), a + 1, Len(p) + 2)
    BY <1>3, <2>1, Zenon
  <2>4. ~ f.tail.end => f.data = SubSeq(WholeOf(p), a + 1, a + FrameCapacity)
    BY <2>1, Zenon
  <2> QED BY <2>1, <2>2, <2>3, <2>4
<1>6. ~ (f.tail.start /\ f.tail.end)
  BY <1>3, <1>4, <1>5
<1>7. CASE f.tail.end
  <2>1. ClosesMultiFrame(f)
    BY <1>6, <1>7 DEF ClosesMultiFrame
  <2>2. BytesOf(f) = SubSeq(f.data, 1, Len(f.data) - 2)
    BY <2>1, CanAssumption DEF BytesOf, RxTransferFrame
  <2>3. SubSeq(f.data, 1, Len(f.data) - 2) = SubSeq(p, a + 1, Len(p))
    BY <1>1, <1>3, <1>4, <1>5, <1>7, ClosingSlice
  <2>4. RxFrameMetadata(f).crc_val = Crc(p)
    BY <1>1, <2>1, ClosingBytes
  <2> QED BY <1>2, <1>6, <1>7, <2>2, <2>3, <2>4
<1>8. CASE ~ f.tail.end
  <2>1. ~ ClosesMultiFrame(f)
    BY <1>8 DEF ClosesMultiFrame
  <2>2. BytesOf(f) = f.data /\ RxFrameMetadata(f).crc_val = None
    BY <2>1 DEF BytesOf, RxTransferFrame, RxFrameMetadata
  <2>3. a + FrameCapacity # Len(p) + 1
    <3>1. Aligned(a + FrameCapacity)
      BY <1>4, AlignedIs
    <3>2. ~ Aligned(Len(p) + 1)
      BY <1>1 DEF Undivided
    <3> QED BY <3>1, <3>2
  <2>4. a + FrameCapacity <= Len(p)
    <3>1. ~ (Len(p) + 2 - a <= FrameCapacity)
      BY <1>5, <1>8
    <3>2. Len(p) \in Nat /\ a \in Nat /\ FrameCapacity \in Nat
      BY <1>3, <1>4
    <3> QED BY <2>3, <3>1, <3>2
  <2>5. SubSeq(WholeOf(p), a + 1, a + FrameCapacity) = SubSeq(p, a + 1, a + FrameCapacity)
    <3>1. a + FrameCapacity \in Nat /\ a <= a + FrameCapacity
      BY <1>4
    <3> QED BY <1>1, <1>3, <1>4, <2>4, <3>1, SliceOfWhole
  <2> QED BY <1>2, <1>5, <1>6, <1>8, <2>2, <2>4, <2>5
<1> QED BY <1>7, <1>8

(* It is welcome: the first one of a new entry, or the next of an old one. *)
LEMMA Welcomed ==
    ASSUME NEW p, NEW s, NEW f, Fits(p, s, f), NEW map, NEW k, RxAt(map, k, p, s)
    PROVE  \/ k \notin DOMAIN map /\ f.tail.start /\ s.at = 0
           \/ /\ s.at > 0 /\ Len(p) > FrameCapacity
              /\ ActiveIn(map, k) /\ map[k].transport_metadata.crc = SubSeq(p, 1, s.at)
              /\ f.tail.toggle # map[k].transport_metadata.toggle_bit
              /\ Updated(f, map[k].transport_metadata).error = "Ok"
<1>1. /\ IsPayload(p) /\ Undivided(p) /\ IsStage(s) /\ ~ Ended(p, s) /\ FrameAt(p, s, f)
  BY DEF Fits
<1>2. CASE s = Outset /\ k \notin DOMAIN map
  BY <1>1, <1>2, OutsetIs DEF FrameAt
<1>3. CASE /\ s.at > 0 /\ ActiveIn(map, k)
           /\ map[k].transport_metadata.toggle_bit = ~ s.toggle
           /\ map[k].transport_metadata.crc = SubSeq(p, 1, s.at)
  <2>1. PICK m, a : m = map[k].transport_metadata /\ a = s.at
    OBVIOUS
  <2>2. f.tail.toggle # m.toggle_bit
    BY <1>1, <1>3, <2>1 DEF FrameAt, IsStage
  <2>3. Len(p) > FrameCapacity
    BY <1>1, <1>3, NotEnded, SentBytesIs, CapacityIs
  <2>4. a \in Nat /\ a <= Len(p) /\ p \in Seq(Byte)
    BY <1>1, <2>1, <2>3, NotEnded, SentBytesIs DEF IsStage
  <2>5. /\ ~ (f.tail.start /\ f.tail.end)
        /\ f.tail.end => BytesOf(f) = SubSeq(p, a + 1, Len(p))
        /\ f.tail.end => RxFrameMetadata(f).crc_val = Crc(p)
        /\ ~ f.tail.end => RxFrameMetadata(f).crc_val = None
    BY <2>1, <2>3, BytesAt
  <2>6. RxFrameMetadata(f).crc_val \in {None, Crc(m.crc \o BytesOf(f))}
    <3>1. CASE f.tail.end
      <4>1. SubSeq(p, 1, a) \o SubSeq(p, a + 1, Len(p)) = SubSeq(p, 1, Len(p))
        <5>1. Len(p) \in Nat /\ Len(p) <= Len(p)
          BY <2>4
        <5> QED BY <2>4, <5>1, SlicesJoin
      <4>2. m.crc \o BytesOf(f) = p
        BY <1>3, <2>1, <2>4, <2>5, <3>1, <4>1, AllOfSeq
      <4> QED BY <2>5, <3>1, <4>2
    <3>2. CASE ~ f.tail.end
      BY <2>5, <3>2
    <3> QED BY <3>1, <3>2
  <2>7. Updated(f, m).error = "Ok"
    BY <2>2, <2>5, <2>6, UpdatedIs
  <2> QED BY <1>3, <2>1, <2>2, <2>3, <2>7
<1> QED BY <1>1, <1>2, <1>3 DEF RxAt

(* And it carries the transfer on. *)
LEMMA CarriedOn ==
    ASSUME NEW p, NEW s, NEW f, Fits(p, s, f), NEW map, NEW k, k = KeyOf(f), RxAt(map, k, p, s),
           NEW time \in Nat, NEW e, NEW kind, Takes(f, time, map, e, kind),
           ActiveIn(map, k) => map[k] \in RxEntry
    PROVE  RxAt(Insert(map, k, e), k, p, After(s))
<1>1. /\ IsPayload(p) /\ Undivided(p) /\ IsStage(s) /\ ~ Ended(p, s) /\ FrameAt(p, s, f)
      /\ f \in CanFrame /\ RxProcessError(f) = "Ok"
  BY DEF Fits
<1>2. PICK a, new : a = s.at /\ new = Insert(map, k, e)
  OBVIOUS
<1>3. /\ p \in Seq(Byte) /\ Len(p) \in Nat /\ a \in Nat /\ FrameCapacity \in Nat
      /\ FrameCapacity >= 2 /\ After(s).at = a + FrameCapacity /\ After(s).at > 0
      /\ After(s).toggle = ~ s.toggle /\ s.toggle \in BOOLEAN
      /\ f.tail \in TailByte
  BY <1>1, <1>2, SentBytesIs, AfterIs, CapacityIs, RxFrameType DEF IsStage, Timestamp
<1>4. new[k] = e /\ k \in DOMAIN new
  BY <1>2 DEF Insert
<1>5. f.tail.toggle = s.toggle
  BY <1>1 DEF FrameAt
<1>6. CASE Len(p) <= FrameCapacity
  <2>1. a = 0
    BY <1>1, <1>2, <1>6, NotEnded
  <2>2. SentBytes(p) = p
    BY <1>1, <1>6, SentBytesIs
  <2>3. Ended(p, After(s))
    BY <1>3, <1>6, <2>1, <2>2 DEF Ended
  <2> QED BY <2>3 DEF RxAt
<1>7. CASE Len(p) > FrameCapacity
  <2>1. /\ SentBytes(p) = WholeOf(p) /\ Len(SentBytes(p)) = Len(p) + 2
    BY <1>1, <1>7, SentBytesIs
  <2>2. /\ ~ (f.tail.start /\ f.tail.end)
        /\ ~ f.tail.end => a + FrameCapacity <= Len(p)
        /\ ~ f.tail.end => BytesOf(f) = SubSeq(p, a + 1, a + FrameCapacity)
    BY <1>2, <1>7, BytesAt
  <2>3. CASE f.tail.end
    <3>1. Len(SentBytes(p)) - a <= FrameCapacity
      BY <1>1, <1>2, <2>3 DEF FrameAt
    <3>2. Ended(p, After(s))
      BY <1>3, <2>1, <3>1 DEF Ended
    <3> QED BY <3>2 DEF RxAt
  <2>4. CASE ~ f.tail.end
    <3>1. ASSUME NEW m, m.crc = SubSeq(p, 1, a), f.tail.toggle # m.toggle_bit, a <= Len(p),
                 e.transport_metadata = Updated(f, m).metadata, e.status = "Active"
          PROVE  RxAt(new, k, p, After(s))
      <4>1. /\ e.transport_metadata.toggle_bit = f.tail.toggle
            /\ e.transport_metadata.crc = m.crc \o BytesOf(f)
        <5>1. /\ Updated(f, m).metadata.toggle_bit = f.tail.toggle
              /\ Updated(f, m).metadata.crc = m.crc \o BytesOf(f)
          BY <2>2, <3>1, UpdatedIs
        <5> QED BY <3>1, <5>1
      <4>2. SubSeq(p, 1, a) \o SubSeq(p, a + 1, a + FrameCapacity)
               = SubSeq(p, 1, a + FrameCapacity)
        <5>1. a + FrameCapacity \in Nat /\ a <= a + FrameCapacity
          BY <1>3
        <5> QED BY <1>3, <2>2, <2>4, <5>1, SlicesJoin
      <4>3. e.transport_metadata.crc = SubSeq(p, 1, After(s).at)
        BY <1>3, <2>2, <2>4, <3>1, <4>1, <4>2
      <4>4. e.transport_metadata.toggle_bit = ~ After(s).toggle
        BY <1>3, <1>5, <4>1
      <4> QED BY <1>3, <1>4, <3>1, <4>3, <4>4 DEF RxAt, ActiveIn
    <3>2. CASE k \notin DOMAIN map /\ f.tail.start /\ s.at = 0
      <4>1. /\ e \in RxEntry /\ f.tail.start
            /\ e.transport_metadata = Updated(f, RxMetadataDefault).metadata
        BY <1>1, <3>2, TakesFirst DEF ActiveIn
      <4>2. /\ RxMetadataDefault.crc = << >> /\ RxMetadataDefault.toggle_bit = FALSE
        BY DEF RxMetadataDefault
      <4>3. SubSeq(p, 1, a) = << >> /\ a <= Len(p)
        BY <1>2, <1>3, <3>2
      <4>4. f.tail.toggle = TRUE
        <5>1. s = Outset
          BY <1>3, <3>2 DEF RxAt, Ended
        <5> QED BY <1>5, <5>1, OutsetIs
      <4> QED BY <1>2, <3>1, <4>1, <4>2, <4>3, <4>4, EntryParts
    <3>3. CASE /\ ActiveIn(map, k) /\ map[k].transport_metadata.crc = SubSeq(p, 1, s.at)
               /\ f.tail.toggle # map[k].transport_metadata.toggle_bit
      <4>1. PICK old : old = map[k] /\ old \in RxEntry
        BY <3>3
      <4>2. /\ e \in RxEntry
            /\ e.transport_metadata = Updated(f, old.transport_metadata).metadata
        BY <1>1, <3>3, <4>1, TakesActive
      <4>3. a <= Len(p)
        BY <1>1, <1>2, <1>7, NotEnded
      <4> QED BY <1>2, <3>1, <3>3, <4>1, <4>2, <4>3, EntryParts
    <3> QED BY <1>2, <3>2, <3>3, Welcomed
  <2> QED BY <2>3, <2>4
<1> QED BY <1>3, <1>6, <1>7

-----------------------------------------------------------------------------
(* What a sending node makes is in its turn.                               *)

LEMMA SliceOfRest ==
    ASSUME NEW s \in Seq(Byte), NEW c \in Nat, NEW n \in Nat, c + n <= Len(s)
    PROVE  SubSeq(SubSeq(s, c + 1, Len(s)), 1, n) = SubSeq(s, c + 1, c + n)
<1>1. PICK d, x, y : /\ d = SubSeq(s, c + 1, Len(s)) /\ x = SubSeq(d, 1, n)
                     /\ y = SubSeq(s, c + 1, c + n)
  OBVIOUS
<1>2. /\ d \in Seq(Byte) /\ Len(d) = Len(s) - c
      /\ \A i \in 1 .. Len(s) - c : d[i] = s[c + i]
  <2>1. c <= Len(s)
    OBVIOUS
  <2> QED BY <1>1, <2>1, RestOf
<1>3. /\ x \in Seq(Byte) /\ Len(x) = n
      /\ \A i \in 1 .. n : x[i] = d[i]
  <2>1. n <= Len(d)
    BY <1>2
  <2> QED BY <1>1, <1>2, <2>1, PartOf
<1>4. y \in Seq(Byte) /\ Len(y) = n /\ \A i \in 1 .. n : y[i] = s[c + i]
  <2>1. c + n \in Nat /\ c <= c + n /\ (c + n) - c = n
    OBVIOUS
  <2> QED BY <1>1, <2>1, SliceIs
<1>5. ASSUME NEW i \in 1 .. n PROVE x[i] = y[i]
  <2>1. i \in 1 .. Len(s) - c
    OBVIOUS
  <2>2. d[i] = s[c + i]
    BY <1>2, <2>1
  <2> QED BY <1>3, <1>4, <2>2
<1> QED BY <1>1, <1>3, <1>4, <1>5, SameSlices

(* The identifier of a frame says that it is anonymous if its node is; and *)
(* no node sets reserved bits.                                             *)
LEMMA IdSays ==
    ASSUME NEW m, NEW i
    PROVE  /\ ~ TxCanId(m, i).rsvd
           /\ ~ TxCanId(m, i).svc /\ TxCanId(m, i).anon =>
                 m.transfer_kind = "Message" /\ i = None
<1>1. CASE m.transfer_kind = "Message"
  <2>1. /\ TxCanId(m, i).rsvd = FALSE
        /\ TxCanId(m, i).anon = (i = None)
    BY <1>1 DEF TxCanId, CanMessageIdNew
  <2> QED BY <1>1, <2>1
<1>2. CASE m.transfer_kind # "Message"
  <2>1. TxCanId(m, i) = CanServiceIdNew(m.priority, m.transfer_kind = "Request", m.port_id,
                                        m.destination_node_id, i)
    BY <1>2 DEF TxCanId
  <2>2. TxCanId(m, i).rsvd = FALSE /\ TxCanId(m, i).svc = TRUE
    BY <2>1 DEF CanServiceIdNew
  <2> QED BY <2>2
<1> QED BY <1>1, <1>2

(* Frame f is cut from entry e of node n, which sends payload p. *)
CutOf(n, e, p, f) ==
    /\ IsPayload(p) /\ Undivided(p) /\ SendsPayload(e, p) /\ Aligned(e.consumed)
    /\ \E data : /\ CutFrom(e, data, f)
                 /\ TxFrameError(e.transfer_metadata, data, IdOf(n)) = "Ok"
    /\ f.id = TxCanId(e.transfer_metadata, IdOf(n))
    /\ f \in CanFrame /\ f.tail \in TailByte

LEMMA CutIsInTurn ==
    ASSUME NEW n, NEW e, NEW p, NEW f, CutOf(n, e, p, f)
    PROVE  /\ IsStage(StageOf(e)) /\ ~ Ended(p, StageOf(e))
           /\ FrameAt(p, StageOf(e), f) /\ FrameIsOf(f, p)
           /\ f.data \in Seq(Byte)
           /\ f.tail.end => f.data = SubSeq(SentBytes(p), e.consumed + 1, Len(SentBytes(p)))
           /\ ~ f.tail.end => Len(f.data) = FrameCapacity
<1>1. /\ IsPayload(p) /\ Undivided(p) /\ SendsPayload(e, p) /\ Aligned(e.consumed)
  BY DEF CutOf
<1>2. PICK data : CutFrom(e, data, f)
  BY DEF CutOf
<1>3. PICK S, c, s : S = SentBytes(p) /\ c = e.consumed /\ s = StageOf(e)
  OBVIOUS
<1>4. /\ e.payload = S /\ S \in Seq(Byte) /\ c \in Nat /\ Aligned(c)
      /\ c = 0 \/ c < Len(S)
      /\ e.transport_metadata.first_frame <=> c = 0
      /\ e.transport_metadata.toggle_bit \in BOOLEAN
      /\ s.at = c /\ s.toggle = e.transport_metadata.toggle_bit
  BY <1>1, <1>3, SentBytesIs DEF SendsPayload, SentBytes, TxMetadata, StageOf
<1>5. /\ data = SubSeq(S, c + 1, Len(S)) /\ f.tail.start = e.transport_metadata.first_frame
      /\ f.tail.end = IsLastFrame(data) /\ f.tail.toggle = e.transport_metadata.toggle_bit
      /\ f.data = SubSeq(data, 1, ConsumeLen(data))
  BY <1>2, <1>3, <1>4 DEF CutFrom
<1>6. IsStage(s) /\ ~ Ended(p, s)
  BY <1>3, <1>4 DEF IsStage, Ended
<1>7. /\ data \in Seq(Byte) /\ Len(data) = Len(S) - c /\ c <= Len(S) /\ Len(S) \in Nat
      /\ IsLastFrame(data) <=> Len(S) - c <= FrameCapacity
  <2>1. c <= Len(S) /\ Len(S) \in Nat
    BY <1>4
  <2>2. data \in Seq(Byte) /\ Len(data) = Len(S) - c
    BY <1>4, <1>5, <2>1, RestOf
  <2> QED BY <2>1, <2>2 DEF IsLastFrame
<1>8. FrameIsOf(f, p)
  BY <1>1, <1>2, MadeFrame
<1>9. CASE IsLastFrame(data)
  <2>1. f.data = data
    BY <1>5, <1>7, <1>9, AllOfSeq DEF ConsumeLen
  <2>2. FrameAt(p, s, f)
    BY <1>3, <1>4, <1>5, <1>7, <1>9, <2>1 DEF FrameAt
  <2> QED BY <1>3, <1>5, <1>6, <1>7, <1>8, <1>9, <2>1, <2>2
<1>10. CASE ~ IsLastFrame(data)
  <2>1. FrameCapacity \in Nat /\ c + FrameCapacity <= Len(S)
    BY <1>4, <1>7, <1>10, CapacityIs
  <2>2. f.data = SubSeq(data, 1, FrameCapacity)
    BY <1>5, <1>10 DEF ConsumeLen
  <2>3. f.data = SubSeq(S, c + 1, c + FrameCapacity)
    BY <1>4, <1>5, <2>1, <2>2, SliceOfRest
  <2>4. f.data \in Seq(Byte) /\ Len(f.data) = FrameCapacity
    <3>1. FrameCapacity <= Len(data)
      BY <1>4, <1>7, <2>1
    <3> QED BY <1>7, <2>1, <2>2, <3>1, PartOf
  <2>5. FrameAt(p, s, f)
    BY <1>3, <1>4, <1>5, <1>7, <1>10, <2>3 DEF FrameAt
  <2> QED BY <1>3, <1>5, <1>6, <1>8, <1>10, <2>4, <2>5
<1> QED BY <1>9, <1>10

LEMMA CutIsClean ==
    ASSUME NEW n \in Nodes, NEW e, NEW p, NEW f, CutOf(n, e, p, f), n = "c" => e.consumed = 0
    PROVE  RxProcessError(f) = "Ok" /\ Fits(p, StageOf(e), f)
<1>1. PICK s : s = StageOf(e)
  OBVIOUS
<1>2. /\ IsPayload(p) /\ Undivided(p) /\ SendsPayload(e, p) /\ s.at = e.consumed
      /\ s.toggle = e.transport_metadata.toggle_bit
      /\ f \in CanFrame /\ f.tail \in TailByte /\ f.id = TxCanId(e.transfer_metadata, IdOf(n))
  BY <1>1 DEF CutOf, StageOf
<1>3. /\ IsStage(s) /\ ~ Ended(p, s) /\ FrameAt(p, s, f) /\ FrameIsOf(f, p)
      /\ f.data \in Seq(Byte)
      /\ f.tail.end => f.data = SubSeq(SentBytes(p), s.at + 1, Len(SentBytes(p)))
      /\ ~ f.tail.end => Len(f.data) = FrameCapacity
  BY <1>1, <1>2, CutIsInTurn
<1>4. f.tail # None
  BY <1>2, NoTailAssumption
<1>5. FrameLen(f) = Len(f.data) + 1
  BY <1>4 DEF FrameLen
<1>6. (f.tail.start <=> s.at = 0) /\ f.tail.toggle = s.toggle
  BY <1>3 DEF FrameAt
<1>7. ClosesMultiFrame(f) => ~ (FrameLen(f) < CRC_SIZE + 1)
  <2> SUFFICES ASSUME ClosesMultiFrame(f) PROVE ~ (FrameLen(f) < CRC_SIZE + 1)
    OBVIOUS
  <2>1. s.at # 0 /\ f.tail.end
    BY <1>6 DEF ClosesMultiFrame
  <2>2. s.at \in Nat /\ s.at <= Len(p) /\ Len(p) > FrameCapacity
    BY <1>2, <1>3, <2>1, NotEnded, SentBytesIs, CapacityIs DEF IsStage
  <2>3. /\ p # << >> /\ Len(p) \in Nat /\ SentBytes(p) = WholeOf(p)
        /\ Len(SentBytes(p)) = Len(p) + 2
    BY <1>2, <2>2, SentBytesIs
  <2>4. f.data = SubSeq(WholeOf(p), s.at + 1, Len(p) + 2)
    BY <1>3, <2>1, <2>3
  <2>5. Len(f.data) = Len(p) + 2 - s.at
    BY <1>2, <2>2, <2>3, <2>4, ClosingSlice
  <2> QED BY <1>5, <2>2, <2>3, <2>5, CanAssumption
<1>8. f.tail.start => f.tail.toggle
  BY <1>2, <1>6 DEF SendsPayload
<1>9. ~ f.tail.end => ~ (FrameLen(f) < MTU_SIZE)
  BY <1>3, <1>5, CapacityIs
<1>10. ~ f.id.svc /\ f.id.anon => f.tail.start /\ f.tail.end
  <2> SUFFICES ASSUME ~ f.id.svc, f.id.anon PROVE f.tail.start /\ f.tail.end
    OBVIOUS
  <2>1. e.transfer_metadata.transfer_kind = "Message" /\ IdOf(n) = None
    BY <1>2, IdSays
  <2>2. n = "c"
    BY <2>1, PeerIds DEF Nodes, Peers
  <2>3. f.tail.start
    BY <1>2, <1>6, <2>2
  <2>4. PICK data : /\ CutFrom(e, data, f)
                    /\ TxFrameError(e.transfer_metadata, data, IdOf(n)) = "Ok"
    BY DEF CutOf
  <2>5. IsLastFrame(data)
    BY <2>1, <2>4 DEF TxFrameError
  <2> QED BY <2>3, <2>4, <2>5 DEF CutFrom
<1>11. ~ f.id.rsvd
  BY <1>2, IdSays
<1>12. RxProcessError(f) = "Ok"
  BY <1>4, <1>7, <1>8, <1>9, <1>10, <1>11, Zenon DEF RxProcessError
<1> QED BY <1>1, <1>2, <1>3, <1>12 DEF Fits

(* Cuts, of an entry that is sent as u. *)
LEMMA CutsInTurn ==
    ASSUME NEW n \in Nodes, NEW map, NEW new, NEW l, NEW f, Cuts(IdOf(n), map, new, l, f),
           NEW u, Proper(u), EntryOf(n, u, map[l]),
           Undivided(u.payload), Aligned(map[l].consumed)
    PROVE  /\ CutOf(n, map[l], u.payload, f)
           /\ l \in DOMAIN new =>
                 /\ StageOf(new[l]) = After(StageOf(map[l]))
                 /\ new[l].status = "Active" /\ EntryKey(n, new[l]) = EntryKey(n, map[l])
                 /\ ~ f.tail.end
<1>1. PICK e, data, c, p, m :
          /\ e = map[l] /\ data = SubSeq(e.payload, e.consumed + 1, Len(e.payload))
          /\ c = e.consumed + ConsumeLen(data) /\ p = u.payload /\ m = e.transfer_metadata
  OBVIOUS
<1>2. /\ l \in DOMAIN map /\ e.status = "Active"
      /\ TxFrameError(m, data, IdOf(n)) = "Ok"
      /\ f = TxFrame(m, e.transport_metadata, data, IdOf(n))
      /\ new = IF c < Len(e.payload) THEN [map EXCEPT ![l] = Advanced(e, c)]
               ELSE Remove(map, l)
  BY <1>1 DEF Cuts
<1>3. SendsPayload(e, p) /\ IsPayload(p) /\ EntrySeen(n, e) = MetadataSeen(u)
  BY <1>1 DEF EntryOf, Proper
<1>4. CutFrom(e, data, f)
  BY <1>1, <1>2 DEF CutFrom, TxFrame, TailByteNew
<1>5. f.id = TxCanId(m, IdOf(n))
  BY <1>2 DEF TxFrame
<1>6. FrameOf(u, f)
  BY FrameMade
<1>7. CutOf(n, e, p, f)
  BY <1>1, <1>2, <1>3, <1>4, <1>5, <1>6 DEF CutOf, FrameOf
<1>8. CASE c < Len(e.payload)
  <2>1. new[l] = Advanced(e, c)
    BY <1>2, <1>8
  <2>2. ~ f.tail.end /\ ConsumeLen(data) = FrameCapacity
    BY <1>1, <1>3, <1>4, <1>8, MadeFrame
  <2>3. PICK d : d = Advanced(e, c)
    OBVIOUS
  <2>4. /\ d.transfer_metadata = m /\ d.consumed = c /\ d.status = e.status
        /\ d.transport_metadata = TxMetadataNext(e.transport_metadata)
    <3>1. e.transfer_metadata = m
      BY <1>1
    <3>2. d = [e EXCEPT !.transport_metadata = TxMetadataNext(e.transport_metadata),
                        !.consumed = c]
      BY <2>3 DEF Advanced
    <3> QED BY <3>1, <3>2
  <2>5. EntryKey(n, d) = EntryKey(n, e)
    BY <1>1, <2>4 DEF EntryKey, EntrySeen
  <2>6. StageOf(d) = After(StageOf(e))
    <3>1. d.consumed = e.consumed + FrameCapacity
      BY <1>1, <2>2, <2>4
    <3>2. d.transport_metadata.toggle_bit = ~ e.transport_metadata.toggle_bit
      BY <2>4 DEF TxMetadataNext
    <3> QED BY <3>1, <3>2 DEF StageOf, After
  <2> QED BY <1>1, <1>2, <1>7, <2>1, <2>2, <2>3, <2>4, <2>5, <2>6
<1>9. CASE ~ (c < Len(e.payload))
  <2>1. new = [x \in DOMAIN map \ {l} |-> map[x]]
    BY <1>2, <1>9, RemoveIs
  <2> QED BY <1>1, <1>7, <2>1
<1> QED BY <1>8, <1>9

-----------------------------------------------------------------------------
(* What is sent, and what the entries of sending nodes have consumed.      *)

LEMMA UndividedIs ==
    ASSUME UndividedCrcs, NEW use \in NetworkUses, use.claimed \in Nat, use.claimed # None,
           NEW p, Len(p) = use.claimed
    PROVE  Undivided(p)
<1> DEFINE FC == FrameCapacity
           x == use.claimed
<1> SUFFICES ASSUME x > FC, Aligned(x + 1) PROVE FALSE
  BY DEF Undivided
<1>1. \A i \in 1 .. x : x + 1 # i * FC
  BY DEF UndividedCrcs
<1>2. PICK i \in Nat : x + 1 = i * FC
  BY DEF Aligned
<1>3. FC \in Nat /\ FC >= 2 /\ x \in Nat
  BY CapacityIs
<1> HIDE DEF FC, x
<1>4. PICK d \in Nat : FC = 2 + d
  BY <1>3
<1>5. i * FC = i * 2 + i * d /\ i * d \in Nat
  BY <1>3, <1>4
<1>6. i # 0
  BY <1>2, <1>3
<1>7. i \in 1 .. x
  BY <1>2, <1>3, <1>5, <1>6
<1> QED BY <1>1, <1>2, <1>7

LEMMA SentStaysUndivided ==
    ASSUME UndividedCrcs, QueuesTyped, now \in Nat, SentUndivided, NetStep
    PROVE  SentUndivided'
<1> SUFFICES ASSUME NEW u \in sent' PROVE Undivided(u.payload)
  BY DEF SentUndivided, Undivided, Aligned, FrameCapacity
<1>1. CASE u \in sent
  BY <1>1 DEF SentUndivided
<1>2. CASE u \notin sent
  <2>1. PICK n \in Nodes, q \in Queues : /\ Begins(n, q) /\ u = Due(n, q, 1)
                                         /\ 1 \in DOMAIN Waiting(n, q)
    BY <1>2, SentIsDue
  <2>2. PICK t : /\ t = Head(Waiting(n, q)) /\ t \in Awaited(n, q) /\ t.use.claimed # None
    BY <2>1, BeginsIs
  <2>3. u = AsSeen(IdOf(n), t)
    BY <2>1, <2>2, TailIs DEF Due, QueuesTyped
  <2>4. Len(u.payload) = t.use.claimed
    BY <2>2, <2>3, SeenIsProper
  <2>5. t.use.claimed \in Nat
    BY <2>2, AwaitedIs, HonestPayload
  <2>6. t.use \in NetworkUses
    <3>1. q = "plan" => t \in ToSend
      BY <2>2 DEF Awaited
    <3>2. q = "answers" => t.use = ReplyUse
      BY <2>2, AwaitedIs
    <3> QED BY <3>1, <3>2 DEF NetworkUses, Queues
  <2> QED BY <2>2, <2>4, <2>5, <2>6, UndividedIs
<1> QED BY <1>1, <1>2

(* An active entry after a step: what it was, a new one, or what a frame   *)
(* was cut from.                                                           *)
Stays(n, l) == l \in DOMAIN TxMap(n) /\ TxMap(n)'[l] = TxMap(n)[l]

Enters(n, l) ==
    /\ \E q \in Queues : Begins(n, q)
    /\ l \notin DOMAIN TxMap(n) /\ StageOf(TxMap(n)'[l]) = Outset

IsCut(n, l) == Sends(n) /\ \E f : Cuts(IdOf(n), TxMap(n), TxMap(n)', l, f)

LEMMA EntryOrigin ==
    ASSUME NetStep, NEW n \in Nodes, NEW l \in DOMAIN TxMap(n)', TxMap(n)'[l].status = "Active"
    PROVE  Stays(n, l) \/ Enters(n, l) \/ IsCut(n, l)
<1>1. ASSUME l \in DOMAIN TxMap(n), TxMap(n)'[l] = TxMap(n)[l] PROVE Stays(n, l)
  BY <1>1 DEF Stays
<1>2. ASSUME NEW m \in Nodes, NEW q \in Queues, Begins(m, q)
      PROVE  Stays(n, l) \/ Enters(n, l)
  <2>1. CASE m # n
    BY <1>1, <1>2, <2>1 DEF Begins
  <2>2. CASE m = n
    <3>1. PICK j, e, map, new :
              /\ j \notin DOMAIN map /\ e = EntryFrom(IdOf(n), Head(Waiting(n, q)), now)
              /\ map = TxMap(n) /\ new = TxMap(n)' /\ new = Insert(map, j, e)
      BY <1>2, <2>2 DEF Begins
    <3>2. /\ DOMAIN new = DOMAIN map \cup {j} /\ new[j] = e
          /\ \A x \in DOMAIN map : new[x] = map[x]
      BY <3>1 DEF Insert
    <3>3. CASE l = j
      <4>1. StageOf(e) = Outset
        BY <3>1 DEF EntryFrom, StageOf, Outset, TxMetadataDefault
      <4> QED BY <1>2, <2>2, <3>1, <3>2, <3>3, <4>1 DEF Enters
    <3>4. CASE l # j
      BY <1>1, <3>1, <3>2, <3>4
    <3> QED BY <3>3, <3>4
  <2> QED BY <2>1, <2>2
<1>3. ASSUME NEW m \in Nodes, Sends(m) PROVE Stays(n, l) \/ IsCut(n, l)
  <2>1. CASE m # n
    BY <1>1, <1>3, <2>1 DEF Sends
  <2>2. CASE m = n
    <3>1. PICK j, f, map, new : /\ Cuts(IdOf(n), map, new, j, f)
                                /\ map = TxMap(n) /\ new = TxMap(n)'
      BY <1>3, <2>2 DEF Sends
    <3>2. CASE j = l
      BY <1>3, <2>2, <3>1, <3>2 DEF IsCut
    <3>3. CASE j # l
      <4>1. \/ \E e : new = [map EXCEPT ![j] = e]
            \/ new = Remove(map, j)
        BY <3>1 DEF Cuts
      <4>2. l \in DOMAIN map /\ new[l] = map[l]
        BY <3>1, <3>3, <4>1, RemoveIs
      <4> QED BY <1>1, <3>1, <4>2
    <3> QED BY <3>2, <3>3
  <2> QED BY <2>1, <2>2
<1>4. CASE \E m \in Peers : Receives(m) \/ Reads(m) \/ Loses(m) \/ Repeats(m)
  <2>1. TxMap(n)' = TxMap(n)
    BY <1>4 DEF Receives, Reads, Loses, Repeats, SameTx
  <2> QED BY <1>1, <2>1
<1>5. CASE Passes
  BY <1>1, <1>5 DEF Passes, Thins
<1> QED BY <1>2, <1>3, <1>4, <1>5 DEF NetStep

(* Frame f is cut from what node n has under l, of transfer u. *)
CutAs(n, l, f, u) ==
    /\ l \in DOMAIN TxMap(n) /\ TxMap(n)[l].status = "Active"
    /\ u \in sent /\ Proper(u) /\ FrameOf(u, f)
    /\ KeyOf(f) = Key(u) /\ EntryKey(n, TxMap(n)[l]) = Key(u)
    /\ RxProcessError(f) = "Ok" /\ Fits(u.payload, StageOf(TxMap(n)[l]), f)
    /\ l \in DOMAIN TxMap(n)' =>
          /\ StageOf(TxMap(n)'[l]) = After(StageOf(TxMap(n)[l]))
          /\ EntryKey(n, TxMap(n)'[l]) = Key(u) /\ n # "c"
    /\ DOMAIN TxMap(n)' \subseteq DOMAIN TxMap(n)
    /\ \A j \in DOMAIN TxMap(n)' : j # l => TxMap(n)'[j] = TxMap(n)[j]

LEMMA CutIs ==
    ASSUME SentProper, TxOk, SentUndivided, TxWhole,
           NEW n \in Nodes, NEW l, NEW f, Cuts(IdOf(n), TxMap(n), TxMap(n)', l, f)
    PROVE  \E u : CutAs(n, l, f, u)
<1>1. PICK map, new, e : map = TxMap(n) /\ new = TxMap(n)' /\ e = map[l]
  OBVIOUS
<1>2. Cuts(IdOf(n), map, new, l, f)
  BY <1>1
<1>3. l \in DOMAIN map /\ e.status = "Active"
  BY <1>1, <1>2 DEF Cuts
<1>4. PICK u \in sent : EntryOf(n, u, e)
  BY <1>1, <1>3 DEF TxOk
<1>5. Proper(u) /\ Undivided(u.payload)
  BY DEF SentProper, SentUndivided
<1>6. Aligned(e.consumed) /\ (n = "c" => e.consumed = 0)
  BY <1>1, <1>3 DEF TxWhole
<1>7. /\ FrameOf(u, f) /\ DOMAIN new \subseteq DOMAIN map
      /\ \A j \in DOMAIN new : j # l => new[j] = map[j]
  BY <1>1, <1>2, <1>4, <1>5, FrameMade
<1>8. /\ CutOf(n, e, u.payload, f)
      /\ l \in DOMAIN new =>
            /\ StageOf(new[l]) = After(StageOf(e)) /\ EntryKey(n, new[l]) = EntryKey(n, e)
            /\ ~ f.tail.end
  BY <1>1, <1>2, <1>4, <1>5, <1>6, CutsInTurn
<1>9. RxProcessError(f) = "Ok" /\ Fits(u.payload, StageOf(e), f)
  BY <1>6, <1>8, CutIsClean
<1>10. KeyOf(f) = Key(u) /\ EntryKey(n, e) = Key(u)
  BY <1>4, <1>7 DEF KeyOf, Key, EntryKey, EntryOf, FrameOf
<1>11. n = "c" => f.tail.end
  <2> SUFFICES ASSUME n = "c" PROVE f.tail.end
    OBVIOUS
  <2>1. IdOf(n) = None
    BY DEF IdOf
  <2>2. PICK data : /\ CutFrom(e, data, f)
                    /\ TxFrameError(e.transfer_metadata, data, None) = "Ok"
    BY <1>8, <2>1 DEF CutOf
  <2>3. IsLastFrame(data)
    BY <2>2 DEF TxFrameError
  <2> QED BY <2>2, <2>3 DEF CutFrom
<1> QED BY <1>1, <1>3, <1>4, <1>5, <1>7, <1>8, <1>9, <1>10, <1>11 DEF CutAs

LEMMA TxStaysWhole ==
    ASSUME SentProper, TxOk, SentUndivided, TxWhole, NetStep
    PROVE  TxWhole'
<1> SUFFICES ASSUME NEW n \in Nodes, NEW l \in DOMAIN TxMap(n)',
                    TxMap(n)'[l].status = "Active"
             PROVE  /\ Aligned(TxMap(n)'[l].consumed)
                    /\ n = "c" => TxMap(n)'[l].consumed = 0
  BY DEF TxWhole, Aligned, FrameCapacity
<1>1. CASE Stays(n, l)
  BY <1>1 DEF Stays, TxWhole
<1>2. CASE Enters(n, l)
  <2>1. TxMap(n)'[l].consumed = 0
    BY <1>2 DEF Enters, StageOf, Outset
  <2> QED BY <2>1, AlignedIs
<1>3. CASE IsCut(n, l)
  <2>1. PICK f, u : CutAs(n, l, f, u)
    BY <1>3, CutIs DEF IsCut
  <2>2. /\ StageOf(TxMap(n)'[l]) = After(StageOf(TxMap(n)[l])) /\ n # "c"
        /\ IsStage(StageOf(TxMap(n)[l]))
    BY <2>1 DEF CutAs, Fits
  <2>3. Aligned(StageOf(TxMap(n)'[l]).at)
    BY <2>2, AfterIs DEF IsStage
  <2> QED BY <2>2, <2>3 DEF StageOf
<1> QED BY <1>1, <1>2, <1>3, EntryOrigin

LEMMA InboxStaysClean ==
    ASSUME QueuesTyped, now \in Nat, SentProper, TxOk, InboxOk, SentUndivided, TxWhole,
           InboxClean, NetStep
    PROVE  InboxClean'
<1> SUFFICES ASSUME NEW n \in Peers PROVE \A i \in DOMAIN Inbox(n)' :
                                              RxProcessError(Inbox(n)'[i]) = "Ok"
  BY DEF InboxClean
<1>1. PICK box, new : box = Inbox(n) /\ new = Inbox(n)'
  OBVIOUS
<1>2. /\ box \in Seq(CanFrame)
      /\ \A i \in DOMAIN box : RxProcessError(box[i]) = "Ok"
  BY <1>1 DEF InboxOk, InboxClean
<1> SUFFICES \A i \in DOMAIN new : RxProcessError(new[i]) = "Ok"
  BY <1>1
<1>3. CASE new = box
  BY <1>1, <1>2, <1>3
<1>4. ASSUME NEW f, Arrives(n, f) PROVE \A i \in DOMAIN new : RxProcessError(new[i]) = "Ok"
  <2>1. PICK m, l : m \in Nodes /\ Cuts(IdOf(m), TxMap(m), TxMap(m)', l, f)
    BY <1>4 DEF Arrives
  <2>2. PICK u : CutAs(m, l, f, u)
    BY <2>1, CutIs
  <2>3. RxProcessError(f) = "Ok" /\ f \in CanFrame
    BY <2>2 DEF CutAs, FrameOf
  <2>4. new = Append(box, f)
    BY <1>1, <1>4 DEF Arrives
  <2> QED BY <1>2, <2>3, <2>4, AppendIs
<1>5. CASE box # << >> /\ new = Tail(box)
  <2>1. \A i \in DOMAIN new : i + 1 \in DOMAIN box /\ new[i] = box[i + 1]
    BY <1>2, <1>5, TailIs
  <2> QED BY <1>2, <2>1
<1>6. CASE box # << >> /\ new = << Head(box) >> \o box
  <2>1. 1 \in DOMAIN box
    BY <1>2, <1>6, TailIs
  <2>2. \A i \in DOMAIN new : \/ new[i] = box[1]
                              \/ i - 1 \in DOMAIN box /\ new[i] = box[i - 1]
    BY <1>2, <1>6, RepeatIs
  <2> QED BY <1>2, <2>1, <2>2
<1> QED BY <1>1, <1>3, <1>4, <1>5, <1>6, InboxChanges DEF Leaves, Doubles

-----------------------------------------------------------------------------
(* The steps on a calm bus.                                                *)

MetaOf(f) == RxMetadataOf(f.id, f.tail.transfer_id, 0)
IsFor(n, f) == MetaOf(f).destination_node_id \in {None, IdOf(n)}

RxKept(n) ==
    /\ DOMAIN RxMap(n)' = DOMAIN RxMap(n)
    /\ \A k \in DOMAIN RxMap(n) : RxMap(n)'[k] = RxMap(n)[k]

(* No frame is repeated, none is lost that its node would take, and no     *)
(* entry of a receiving node times out.                                    *)
CalmStep ==
    \/ \E n \in Nodes, q \in Queues : Begins(n, q)
    \/ \E n \in Nodes : Sends(n)
    \/ \E n \in Peers : \/ Receives(n) \/ Reads(n)
                        \/ Loses(n) /\ ~ IsFor(n, Head(Inbox(n)))
    \/ Passes /\ \A n \in Peers : RxKept(n)

LEMMA CalmStepIsStep == CalmStep => NetStep
BY DEF CalmStep, NetStep

(* Only one entry of one node changes when a frame is sent; no other step  *)
(* changes an active entry of a sending node.                              *)
TxKept ==
    \A n \in Nodes : \A l : l \in DOMAIN TxMap(n) /\ l \in DOMAIN TxMap(n)'
                              /\ TxMap(n)'[l].status = "Active"
        => TxMap(n)'[l] = TxMap(n)[l]

LEMMA InsertKeeps ==
    ASSUME NEW map, NEW k, k \notin DOMAIN map, NEW e, NEW new, new = Insert(map, k, e)
    PROVE  \A x \in DOMAIN map : new[x] = map[x]
BY DEF Insert

LEMMA OthersKeepTx ==
    ASSUME CalmStep, \A n \in Nodes : ~ Sends(n)
    PROVE  TxKept
<1>1. ASSUME NEW n \in Nodes, NEW q \in Queues, Begins(n, q) PROVE TxKept
  <2>1. PICK l, e : l \notin DOMAIN TxMap(n) /\ TxMap(n)' = Insert(TxMap(n), l, e)
    BY <1>1 DEF Begins
  <2>2. \A m \in Nodes \ {n} : TxMap(m)' = TxMap(m)
    BY <1>1 DEF Begins
  <2>3. \A x \in DOMAIN TxMap(n) : TxMap(n)'[x] = TxMap(n)[x]
    <3>1. PICK map, new : map = TxMap(n) /\ new = TxMap(n)'
      OBVIOUS
    <3>2. l \notin DOMAIN map /\ new = Insert(map, l, e)
      BY <2>1, <3>1
    <3> QED BY <3>1, <3>2, InsertKeeps
  <2> QED BY <2>2, <2>3 DEF TxKept
<1>2. CASE SameTx
  BY <1>2 DEF SameTx, TxKept
<1>3. CASE Passes
  BY <1>3 DEF Passes, Thins, TxKept
<1> QED BY <1>1, <1>2, <1>3 DEF CalmStep, Receives, Reads, Loses

(* What was sent is what no later transfer is taken for. *)
LEMMA SentNotFresh ==
    ASSUME SentProper, DueNotSent, NEW u \in sent,
           NEW n \in Nodes, NEW l
    PROVE  ~ Fresh(n, l, Key(u))
<1> SUFFICES ASSUME Fresh(n, l, Key(u)) PROVE FALSE
  OBVIOUS
<1>1. PICK q \in Queues : /\ 1 \in DOMAIN Waiting(n, q) /\ Key(u) = Key(Due(n, q, 1))
                          /\ Proper(Due(n, q, 1))
  BY DEF Fresh
<1>2. ~ Alike(Due(n, q, 1), u)
  BY <1>1 DEF DueNotSent
<1>3. MetadataSeen(Due(n, q, 1)) = MetadataSeen(u)
  BY <1>1, KeyTells DEF SentProper
<1> QED BY <1>2, <1>3 DEF Alike

LEMMA StageKept ==
    ASSUME QueuesTyped, now \in Nat, SentProper, TxOk, DueNotSent, NetStep, TxKept,
           NEW u \in sent, NEW n \in Peers, NEW s, TxAt(n, Key(u), s)
    PROVE  TxAt(n, Key(u), s)'
<1> SUFFICES ASSUME NEW m \in Nodes \ {n}, NEW l, Carries(m, l, Key(u))'
             PROVE  s = StageOf(TxMap(m)'[l])
  BY DEF TxAt, StageOf
<1>1. PICK k : k = Key(u)
  OBVIOUS
<1>2. Carries(m, l, k)'
  BY <1>1 DEF Carries, EntryKey, Key
<1>3. Carries(m, l, k)
  BY <1>1, <1>2, CarryOrigin, SentNotFresh
<1>4. TxMap(m)'[l] = TxMap(m)[l]
  BY <1>2, <1>3 DEF Carries, TxKept
<1> QED BY <1>1, <1>3, <1>4 DEF TxAt

(* A transfer that is started is at its outset everywhere.                 *)
LEMMA FlowBegins ==
    ASSUME QueuesTyped, now \in Nat, SentProper, TxOk, InboxOk, RxOk, DueNotSent, AllActive,
           NetStep, NEW n \in Peers, NEW u \in sent', u \notin sent
    PROVE  Flow(n, u)'
<1>1. PICK m \in Nodes, q \in Queues :
         Begins(m, q) /\ 1 \in DOMAIN Waiting(m, q) /\ u = Due(m, q, 1)
  BY SentIsDue
<1>2. \A v \in sent : ~ Alike(u, v)
  BY <1>1 DEF DueNotSent
<1>3. Proper(u)
  BY SentStaysProper DEF SentProper
<1>4. PICK k, p : k = Key(u) /\ p = u.payload
  OBVIOUS
<1>5. \A v \in sent : Key(v) # k
  BY <1>2, <1>3, <1>4, KeyTells DEF SentProper, Alike
<1>6. PICK box, map : /\ box = Inbox(n) /\ map = RxMap(n)
                      /\ box = Inbox(n)' /\ map = RxMap(n)'
  BY <1>1 DEF Begins, SameBus, SameRx
<1>7. Len(box) \in Nat /\ \A i \in 1 .. Len(box) : KeyOf(box[i]) # k
  <2>1. box \in Seq(CanFrame) /\ \A i \in DOMAIN box : \E v \in sent : FrameOf(v, box[i])
    BY <1>6 DEF InboxOk
  <2>2. \A i \in DOMAIN box : \E v \in sent : KeyOf(box[i]) = Key(v)
    BY <2>1 DEF FrameOf, KeyOf, Key
  <2> QED BY <1>5, <2>1, <2>2
<1>8. k \notin DOMAIN map
  <2> SUFFICES ASSUME k \in DOMAIN map PROVE FALSE
    OBVIOUS
  <2>1. Known(n, k, map[k])
    BY <1>6 DEF AllActive, ActiveIn, RxOk
  <2> QED BY <1>5, <2>1 DEF Known
<1>9. ASSUME NEW j \in Nodes \ {n}, NEW l, Carries(j, l, k)'
      PROVE  Outset = StageOf(TxMap(j)'[l])
  <2>1. /\ l \in DOMAIN TxMap(j)' /\ TxMap(j)'[l].status = "Active"
        /\ EntryKey(j, TxMap(j)'[l]) = k
    BY <1>9 DEF Carries, EntryKey, EntrySeen, IdOf
  <2>2. ASSUME l \in DOMAIN TxMap(j), TxMap(j)'[l] = TxMap(j)[l] PROVE FALSE
    <3>1. PICK v \in sent : EntryOf(j, v, TxMap(j)[l])
      BY <2>1, <2>2 DEF TxOk
    <3>2. EntryKey(j, TxMap(j)[l]) = Key(v)
      BY <3>1 DEF EntryOf, EntryKey, Key
    <3> QED BY <1>5, <2>1, <2>2, <3>2
  <2>3. l \in DOMAIN TxMap(j) => TxMap(j)'[l] = TxMap(j)[l]
    <3>1. CASE j = m
      <4>1. PICK x, e : x \notin DOMAIN TxMap(m) /\ TxMap(m)' = Insert(TxMap(m), x, e)
        BY <1>1 DEF Begins
      <4>2. PICK old, new : old = TxMap(m) /\ new = TxMap(m)'
        OBVIOUS
      <4>3. \A y \in DOMAIN old : new[y] = old[y]
        <5>1. x \notin DOMAIN old /\ new = Insert(old, x, e)
          BY <4>1, <4>2
        <5> QED BY <5>1, InsertKeeps
      <4> QED BY <3>1, <4>2, <4>3
    <3>2. CASE j # m
      BY <1>1, <3>2 DEF Begins
    <3> QED BY <3>1, <3>2
  <2>4. l \notin DOMAIN TxMap(j)
    BY <2>2, <2>3
  <2>5. Enters(j, l)
    BY <2>1, <2>4, EntryOrigin DEF Stays, IsCut, Cuts
  <2> QED BY <2>5 DEF Enters
<1>10. PICK path : path = [i \in 0 .. Len(box) |-> Outset]
  OBVIOUS
<1>11. Passing(box, k, p, path)
  BY <1>7, <1>10, OutsetIs DEF Passing
<1>12. RxAt(map, k, p, path[0]) /\ path[Len(box)] = Outset
  BY <1>7, <1>8, <1>10 DEF RxAt
<1>13. TxAt(n, k, path[Len(box)])'
  BY <1>9, <1>12 DEF TxAt, StageOf
<1>14. TxAt(n, Key(u), path[Len(box)])'
  BY <1>4, <1>13 DEF TxAt, Key
<1> QED BY <1>4, <1>6, <1>11, <1>12, <1>14 DEF Flow

(* What comes under key k when node m sends frame f of transfer v.         *)
LEMMA StageAfter ==
    ASSUME QueuesTyped, now \in Nat, SentProper, TxOk, SentDistinct, DueNotSent,
           EntriesDistinct, NetStep, NEW n \in Peers, NEW m \in Nodes \ {n}, NEW l, NEW f, NEW v,
           CutAs(m, l, f, v), \A j \in Nodes \ {m} : TxMap(j)' = TxMap(j),
           NEW u \in sent, NEW s, TxAt(n, Key(u), s)
    PROVE  IF KeyOf(f) = Key(u)
           THEN u = v /\ s = StageOf(TxMap(m)[l]) /\ TxAt(n, Key(u), After(s))'
           ELSE TxAt(n, Key(u), s)'
<1>1. PICK k : k = Key(u)
  OBVIOUS
<1>2. /\ l \in DOMAIN TxMap(m) /\ TxMap(m)[l].status = "Active" /\ v \in sent /\ Proper(v)
      /\ KeyOf(f) = Key(v) /\ EntryKey(m, TxMap(m)[l]) = Key(v)
      /\ l \in DOMAIN TxMap(m)' =>
            /\ StageOf(TxMap(m)'[l]) = After(StageOf(TxMap(m)[l]))
            /\ EntryKey(m, TxMap(m)'[l]) = Key(v)
      /\ \A j \in DOMAIN TxMap(m)' : j # l => TxMap(m)'[j] = TxMap(m)[j]
  BY DEF CutAs
<1>3. Carries(m, l, Key(v))
  BY <1>2 DEF Carries
<1>4. ASSUME NEW i \in Nodes, NEW j, Carries(i, j, k)' PROVE Carries(i, j, k)
  BY <1>1, <1>4, CarryOrigin, SentNotFresh
<1>5. CASE KeyOf(f) = k
  <2>1. u = v
    <3>1. MetadataSeen(u) = MetadataSeen(v)
      BY <1>1, <1>2, <1>5, KeyTells DEF SentProper
    <3> QED BY <1>2, <3>1 DEF SentDistinct, Alike
  <2>2. s = StageOf(TxMap(m)[l])
    BY <1>3, <2>1 DEF TxAt
  <2>3. ASSUME NEW i \in Nodes \ {n}, NEW j, Carries(i, j, k)'
        PROVE  After(s) = StageOf(TxMap(i)'[j])
    <3>1. i = m /\ j = l
      BY <1>1, <1>3, <1>4, <2>1, <2>3 DEF EntriesDistinct
    <3>2. l \in DOMAIN TxMap(m)'
      BY <2>3, <3>1 DEF Carries
    <3> QED BY <1>2, <2>2, <3>1, <3>2
  <2>4. TxAt(n, k, After(s))'
    BY <2>3 DEF TxAt, StageOf, After, FrameCapacity
  <2> QED BY <1>1, <1>5, <2>1, <2>2, <2>4 DEF TxAt, Key
<1>6. CASE KeyOf(f) # k
  <2>1. ASSUME NEW i \in Nodes \ {n}, NEW j, Carries(i, j, k)'
        PROVE  s = StageOf(TxMap(i)'[j])
    <3>1. Carries(i, j, k)
      BY <1>4, <2>1
    <3>2. s = StageOf(TxMap(i)[j])
      BY <1>1, <3>1 DEF TxAt
    <3>3. TxMap(i)'[j] = TxMap(i)[j]
      <4>1. CASE i # m
        BY <4>1
      <4>2. CASE i = m
        <5>1. j \in DOMAIN TxMap(m)' /\ EntryKey(m, TxMap(m)[j]) = k
          BY <2>1, <3>1, <4>2 DEF Carries
        <5>2. j # l
          BY <1>2, <1>6, <5>1
        <5> QED BY <1>2, <4>2, <5>1, <5>2
      <4> QED BY <4>1, <4>2
    <3> QED BY <3>2, <3>3
  <2>2. TxAt(n, k, s)'
    BY <2>1 DEF TxAt, StageOf
  <2> QED BY <1>1, <1>6, <2>2 DEF TxAt, Key
<1> QED BY <1>1, <1>5, <1>6

(* A frame takes a payload with key k from stage s to stage t. *)
Grows(k, p, f, s, t) ==
    IF KeyOf(f) = k THEN ~ Ended(p, s) /\ FrameAt(p, s, f) /\ t = After(s) ELSE t = s

(* The frames that wait take a payload along a path; one more goes on.     *)
LEMMA PathGrows ==
    ASSUME NEW box \in Seq(CanFrame), NEW k, NEW p, NEW path, Passing(box, k, p, path),
           NEW f \in CanFrame, NEW s, s = path[Len(box)], NEW t,
           Grows(k, p, f, s, t)
    PROVE  \E new : /\ Passing(Append(box, f), k, p, new)
                    /\ new[0] = path[0] /\ new[Len(Append(box, f))] = t
<1>1. PICK n, more : n = Len(box) /\ more = Append(box, f)
  OBVIOUS
<1>2. /\ n \in Nat /\ Len(more) = n + 1 /\ more[n + 1] = f
      /\ \A i \in 1 .. n : more[i] = box[i]
  BY <1>1
<1>3. PICK new : new = [i \in 0 .. n + 1 |-> IF i <= n THEN path[i] ELSE t]
  OBVIOUS
<1>4. /\ \A i \in 0 .. n : new[i] = path[i]
      /\ new[n + 1] = t
  BY <1>2, <1>3
<1>5. /\ \A i \in 0 .. n : IsStage(path[i])
      /\ \A i \in 1 .. n :
            IF KeyOf(box[i]) = k
            THEN ~ Ended(p, path[i - 1]) /\ FrameAt(p, path[i - 1], box[i])
                 /\ path[i] = After(path[i - 1])
            ELSE path[i] = path[i - 1]
  BY <1>1 DEF Passing
<1>6. IsStage(t)
  <2>1. IsStage(s)
    BY <1>1, <1>2, <1>5
  <2> QED BY <2>1, AfterIs DEF Grows
<1>7. \A i \in 0 .. n + 1 : IsStage(new[i])
  <2> SUFFICES ASSUME NEW i \in 0 .. n + 1 PROVE IsStage(new[i])
    OBVIOUS
  <2>1. i \in 0 .. n \/ i = n + 1
    BY <1>2
  <2> QED BY <1>4, <1>5, <1>6, <2>1
<1>8. ASSUME NEW i \in 1 .. n + 1
      PROVE  IF KeyOf(more[i]) = k
             THEN ~ Ended(p, new[i - 1]) /\ FrameAt(p, new[i - 1], more[i])
                  /\ new[i] = After(new[i - 1])
             ELSE new[i] = new[i - 1]
  <2>1. CASE i \in 1 .. n
    <3>1. i \in 0 .. n /\ i - 1 \in 0 .. n
      BY <1>2, <2>1
    <3>2. new[i] = path[i] /\ new[i - 1] = path[i - 1] /\ more[i] = box[i]
      BY <1>2, <1>4, <2>1, <3>1
    <3> QED BY <1>5, <2>1, <3>2
  <2>2. CASE i = n + 1
    <3>1. i - 1 = n /\ n \in 0 .. n
      BY <1>2, <2>2
    <3>2. new[i] = t /\ new[i - 1] = s /\ more[i] = f
      BY <1>1, <1>2, <1>4, <2>2, <3>1
    <3> QED BY <3>2 DEF Grows
  <2> QED BY <1>2, <2>1, <2>2
<1>9. Passing(more, k, p, new)
  BY <1>2, <1>7, <1>8 DEF Passing
<1>10. new[0] = path[0] /\ new[Len(more)] = t
  BY <1>2, <1>4
<1> QED BY <1>1, <1>9, <1>10

(* The first one is gone. *)
LEMMA PathShrinks ==
    ASSUME NEW box \in Seq(CanFrame), box # << >>, NEW k, NEW p, NEW path,
           Passing(box, k, p, path)
    PROVE  /\ IsStage(path[0]) /\ IsStage(path[1])
           /\ IF KeyOf(Head(box)) = k
              THEN /\ ~ Ended(p, path[0]) /\ FrameAt(p, path[0], Head(box))
                   /\ path[1] = After(path[0])
              ELSE path[1] = path[0]
           /\ \E new : /\ Passing(Tail(box), k, p, new)
                       /\ new[0] = path[1] /\ new[Len(Tail(box))] = path[Len(box)]
<1>1. PICK n, less : n = Len(box) /\ less = Tail(box)
  OBVIOUS
<1>2. /\ n \in Nat /\ n >= 1 /\ Len(less) = n - 1 /\ Head(box) = box[1]
      /\ \A i \in 1 .. n - 1 : less[i] = box[i + 1]
  BY <1>1
<1>3. PICK new : new = [i \in 0 .. n - 1 |-> path[i + 1]]
  OBVIOUS
<1>4. /\ \A i \in 0 .. n : IsStage(path[i])
      /\ \A i \in 1 .. n :
            IF KeyOf(box[i]) = k
            THEN ~ Ended(p, path[i - 1]) /\ FrameAt(p, path[i - 1], box[i])
                 /\ path[i] = After(path[i - 1])
            ELSE path[i] = path[i - 1]
  BY <1>1 DEF Passing
<1>5. /\ IsStage(path[0]) /\ IsStage(path[1])
      /\ IF KeyOf(box[1]) = k
         THEN ~ Ended(p, path[0]) /\ FrameAt(p, path[0], box[1]) /\ path[1] = After(path[0])
         ELSE path[1] = path[0]
  <2>1. 0 \in 0 .. n /\ 1 \in 0 .. n /\ 1 \in 1 .. n /\ 1 - 1 = 0
    BY <1>2
  <2>2. IF KeyOf(box[1]) = k
        THEN ~ Ended(p, path[1 - 1]) /\ FrameAt(p, path[1 - 1], box[1])
             /\ path[1] = After(path[1 - 1])
        ELSE path[1] = path[1 - 1]
    BY <1>4, <2>1, Zenon
  <2> QED BY <1>4, <2>1, <2>2
<1>6. \A i \in 0 .. n - 1 : new[i] = path[i + 1]
  BY <1>3
<1>7. \A i \in 0 .. n - 1 : IsStage(new[i])
  BY <1>2, <1>4, <1>6
<1>8. ASSUME NEW i \in 1 .. n - 1
      PROVE  IF KeyOf(less[i]) = k
             THEN ~ Ended(p, new[i - 1]) /\ FrameAt(p, new[i - 1], less[i])
                  /\ new[i] = After(new[i - 1])
             ELSE new[i] = new[i - 1]
  <2>1. /\ i \in 0 .. n - 1 /\ i - 1 \in 0 .. n - 1 /\ i + 1 \in 1 .. n
        /\ (i + 1) - 1 = i /\ (i - 1) + 1 = i
    BY <1>2
  <2>2. new[i] = path[i + 1] /\ new[i - 1] = path[i] /\ less[i] = box[i + 1]
    BY <1>2, <1>6, <2>1
  <2>3. IF KeyOf(box[i + 1]) = k
        THEN ~ Ended(p, path[(i + 1) - 1]) /\ FrameAt(p, path[(i + 1) - 1], box[i + 1])
             /\ path[i + 1] = After(path[(i + 1) - 1])
        ELSE path[i + 1] = path[(i + 1) - 1]
    BY <1>4, <2>1, Zenon
  <2>4. (i + 1) - 1 = i
    BY <2>1
  <2> QED BY <2>2, <2>3, <2>4
<1>9. Passing(less, k, p, new)
  BY <1>2, <1>7, <1>8 DEF Passing
<1>10. new[0] = path[1] /\ new[Len(less)] = path[n]
  BY <1>2, <1>6
<1> QED BY <1>1, <1>2, <1>5, <1>9, <1>10

LEMMA FlowSends ==
    ASSUME QueuesTyped, now \in Nat, SentProper, TxOk, InboxOk, SentDistinct, DueNotSent,
           EntriesDistinct, SentUndivided, TxWhole, NEW m \in Nodes, Sends(m),
           NEW n \in Peers, NEW u \in sent, Flow(n, u)
    PROVE  Flow(n, u)'
<1>1. PICK k, p, map : k = Key(u) /\ p = u.payload /\ map = RxMap(n) /\ map = RxMap(n)'
  BY DEF Sends, SameRx
<1>2. PICK l, f : /\ Cuts(IdOf(m), TxMap(m), TxMap(m)', l, f)
                  /\ Inbox(n)' = IF n = m THEN Inbox(n) ELSE Append(Inbox(n), f)
  BY DEF Sends
<1>3. \A j \in Nodes \ {m} : TxMap(j)' = TxMap(j)
  BY DEF Sends
<1>4. PICK box, more : box = Inbox(n) /\ more = Inbox(n)'
  OBVIOUS
<1>5. PICK path : /\ Passing(box, k, p, path) /\ RxAt(map, k, p, path[0])
                  /\ TxAt(n, k, path[Len(box)])
  BY <1>1, <1>4 DEF Flow
<1>6. SUFFICES \E new : /\ Passing(more, k, p, new) /\ RxAt(map, k, p, new[0])
                        /\ TxAt(n, k, new[Len(more)])'
  <2>1. PICK new : /\ Passing(more, k, p, new) /\ RxAt(map, k, p, new[0])
                   /\ TxAt(n, k, new[Len(more)])'
    BY <1>6
  <2>2. TxAt(n, Key(u), new[Len(more)])'
    BY <1>1, <2>1 DEF TxAt, Key
  <2> QED BY <1>1, <1>4, <2>1, <2>2 DEF Flow
<1>7. CASE n = m
  <2>1. more = box
    BY <1>2, <1>4, <1>7
  <2>2. TxAt(n, k, path[Len(box)])'
    BY <1>3, <1>5, <1>7 DEF TxAt, Carries
  <2> QED BY <1>5, <2>1, <2>2
<1>8. CASE n # m
  <2>1. PICK v : CutAs(m, l, f, v)
    BY <1>2, CutIs
  <2>2. f \in CanFrame /\ box \in Seq(CanFrame) /\ more = Append(box, f)
    BY <1>2, <1>4, <1>8, <2>1 DEF CutAs, FrameOf, InboxOk
  <2>3. PICK s : s = path[Len(box)]
    OBVIOUS
  <2>4. NetStep
    BY DEF NetStep
  <2>5. IF KeyOf(f) = k
        THEN u = v /\ s = StageOf(TxMap(m)[l]) /\ TxAt(n, k, After(s))'
        ELSE TxAt(n, k, s)'
    <3>1. m \in Nodes \ {n} /\ TxAt(n, Key(u), s)
      BY <1>1, <1>5, <1>8, <2>3
    <3>2. IF KeyOf(f) = Key(u)
          THEN u = v /\ s = StageOf(TxMap(m)[l]) /\ TxAt(n, Key(u), After(s))'
          ELSE TxAt(n, Key(u), s)'
      BY <1>3, <2>1, <2>4, <3>1, StageAfter
    <3> QED BY <1>1, <3>2 DEF TxAt, Key
  <2>6. PICK t : t = IF KeyOf(f) = k THEN After(s) ELSE s
    OBVIOUS
  <2>7. TxAt(n, k, t)'
    <3>1. CASE KeyOf(f) = k
      <4>1. TxAt(n, k, After(s))'
        BY <2>5, <3>1
      <4>2. t = After(s)
        BY <2>6, <3>1
      <4> QED BY <4>1, <4>2 DEF TxAt, After, FrameCapacity
    <3>2. CASE KeyOf(f) # k
      BY <2>5, <2>6, <3>2
    <3> QED BY <3>1, <3>2
  <2>8. KeyOf(f) = k => ~ Ended(p, s) /\ FrameAt(p, s, f)
    BY <1>1, <2>1, <2>5 DEF CutAs, Fits
  <2>9. Grows(k, p, f, s, t)
    BY <2>6, <2>8 DEF Grows
  <2>10. \E new : /\ Passing(Append(box, f), k, p, new)
                  /\ new[0] = path[0] /\ new[Len(Append(box, f))] = t
    <3>1. Passing(box, k, p, path) /\ box \in Seq(CanFrame) /\ f \in CanFrame
      BY <1>5, <2>2
    <3> QED BY <2>3, <2>9, <3>1, PathGrows
  <2>11. PICK new : /\ Passing(more, k, p, new)
                    /\ new[0] = path[0] /\ new[Len(more)] = t
    BY <2>2, <2>10
  <2> QED BY <1>5, <2>7, <2>11
<1> QED BY <1>7, <1>8

(* Nothing comes or goes. *)
LEMMA FlowKept ==
    ASSUME QueuesTyped, now \in Nat, SentProper, TxOk, DueNotSent, NetStep, TxKept,
           NEW n \in Peers, Inbox(n)' = Inbox(n), RxKept(n),
           NEW u \in sent, Flow(n, u)
    PROVE  Flow(n, u)'
<1>1. PICK k, p, map, new, box : /\ k = Key(u) /\ p = u.payload
                                 /\ map = RxMap(n) /\ new = RxMap(n)'
                                 /\ box = Inbox(n) /\ box = Inbox(n)'
  OBVIOUS
<1>2. PICK path : /\ Passing(box, k, p, path) /\ RxAt(map, k, p, path[0])
                  /\ TxAt(n, k, path[Len(box)])
  BY <1>1 DEF Flow
<1>3. PICK s : s = path[Len(box)]
  OBVIOUS
<1>4. TxAt(n, Key(u), s)'
  BY <1>1, <1>2, <1>3, StageKept
<1>5. TxAt(n, Key(u), path[Len(box)])'
  BY <1>3, <1>4 DEF TxAt
<1>6. RxAt(new, k, p, path[0])
  <2>1. DOMAIN new = DOMAIN map /\ \A x \in DOMAIN map : new[x] = map[x]
    BY <1>1 DEF RxKept
  <2> QED BY <1>2, <2>1 DEF RxAt, ActiveIn
<1> QED BY <1>1, <1>2, <1>5, <1>6 DEF Flow

(* The frame that is taken from an inbox, if it is of transfer u.          *)
LEMMA HeadIs ==
    ASSUME SentProper, SentDistinct, SentUndivided, InboxOk, InboxClean,
           NEW n \in Peers, NEW box, box = Inbox(n), box # << >>, NEW f, f = Head(box)
    PROVE  /\ box \in Seq(CanFrame) /\ f \in CanFrame /\ RxProcessError(f) = "Ok"
           /\ \E u \in sent : KeyOf(f) = Key(u) /\ FrameOf(u, f)
           /\ \A u \in sent : KeyOf(f) = Key(u) =>
                 /\ IsPayload(u.payload) /\ Undivided(u.payload)
                 /\ FrameIsOf(f, u.payload)
                 /\ MetaOf(f).destination_node_id = u.to
<1>1. /\ box \in Seq(CanFrame) /\ \A i \in DOMAIN box : \E v \in sent : FrameOf(v, box[i])
      /\ \A i \in DOMAIN box : RxProcessError(box[i]) = "Ok"
  BY DEF InboxOk, InboxClean
<1>2. 1 \in DOMAIN box /\ f = box[1]
  BY <1>1, TailIs
<1>3. PICK v \in sent : FrameOf(v, f)
  BY <1>1, <1>2
<1>4. KeyOf(f) = Key(v) /\ f \in CanFrame /\ MetaOf(f) = MetadataSeen(v) /\ FrameIsOf(f, v.payload)
  BY <1>3 DEF FrameOf, KeyOf, Key, MetaOf
<1>5. ASSUME NEW u \in sent, KeyOf(f) = Key(u) PROVE u = v
  <2>1. MetadataSeen(u) = MetadataSeen(v)
    BY <1>4, <1>5, KeyTells DEF SentProper
  <2> QED BY <2>1 DEF SentDistinct, Alike
<1>6. IsPayload(v.payload) /\ Undivided(v.payload)
  BY DEF SentProper, Proper, SentUndivided
<1>7. MetaOf(f).destination_node_id = v.to
  BY <1>4 DEF MetadataSeen
<1> QED BY <1>1, <1>2, <1>3, <1>4, <1>5, <1>6, <1>7

LEMMA RxElsewhere ==
    ASSUME NEW map, NEW k, NEW p, NEW s, RxAt(map, k, p, s), NEW x, x # k, NEW e
    PROVE  RxAt(Insert(map, x, e), k, p, s)
<1>1. PICK new : new = Insert(map, x, e)
  OBVIOUS
<1>2. DOMAIN new = DOMAIN map \cup {x} /\ \A y \in DOMAIN map : y # x => new[y] = map[y]
  BY <1>1, InsertIs
<1>3. RxAt(new, k, p, s)
  BY <1>2 DEF RxAt, ActiveIn
<1> QED BY <1>1, <1>3

LEMMA FlowReceives ==
    ASSUME now \in Nat, SentProper, SentDistinct, SentUndivided, InboxOk, InboxClean, RxOk,
           NEW n \in Peers, Inbox(n) # << >>, Inbox(n)' = Tail(Inbox(n)), SameTx,
           \/ \E e, kind : /\ RxMap(n)' = Insert(RxMap(n), KeyOf(Head(Inbox(n))), e)
                           /\ Takes(Head(Inbox(n)), now, RxMap(n), e, kind)
           \/ ~ IsFor(n, Head(Inbox(n))) /\ RxMap(n)' = RxMap(n),
           NEW u \in sent, u.to \in {None, IdOf(n)}, Flow(n, u)
    PROVE  Flow(n, u)'
<1>1. PICK k, p : k = Key(u) /\ p = u.payload
  OBVIOUS
<1>2. PICK map, newmap, box, f : /\ map = RxMap(n) /\ newmap = RxMap(n)'
                                 /\ box = Inbox(n) /\ f = Head(box)
  OBVIOUS
<1>3. PICK path : /\ Passing(box, k, p, path) /\ RxAt(map, k, p, path[0])
                  /\ TxAt(n, k, path[Len(box)])
  BY <1>1, <1>2 DEF Flow
<1>4. /\ box # << >> /\ Inbox(n)' = Tail(box)
      /\ box \in Seq(CanFrame) /\ f \in CanFrame /\ RxProcessError(f) = "Ok"
  BY <1>2, HeadIs
<1>5. /\ IsStage(path[0]) /\ IsStage(path[1])
      /\ KeyOf(f) = k => /\ ~ Ended(p, path[0]) /\ FrameAt(p, path[0], f)
                         /\ path[1] = After(path[0])
      /\ KeyOf(f) # k => path[1] = path[0]
  BY <1>2, <1>3, <1>4, PathShrinks
<1>6. PICK new : /\ Passing(Tail(box), k, p, new)
                 /\ new[0] = path[1] /\ new[Len(Tail(box))] = path[Len(box)]
  BY <1>3, <1>4, PathShrinks
<1>7. \/ \E e, kind : newmap = Insert(map, KeyOf(f), e) /\ Takes(f, now, map, e, kind)
      \/ ~ IsFor(n, f) /\ newmap = map
  BY <1>2
<1>8. RxAt(newmap, k, p, path[1])
  <2>1. CASE KeyOf(f) = k
    <3>1. /\ IsPayload(p) /\ Undivided(p) /\ FrameIsOf(f, p)
          /\ MetaOf(f).destination_node_id = u.to
      BY <1>1, <1>2, <1>4, <2>1, HeadIs
    <3>2. PICK e, kind : newmap = Insert(map, k, e) /\ Takes(f, now, map, e, kind)
      BY <1>7, <2>1, <3>1 DEF IsFor
    <3>3. Fits(p, path[0], f)
      BY <1>4, <1>5, <2>1, <3>1 DEF Fits
    <3>4. ActiveIn(map, k) => map[k] \in RxEntry
      BY <1>2 DEF RxOk, ActiveIn, Known
    <3>5. PICK s : s = path[0]
      OBVIOUS
    <3>6. Fits(p, s, f) /\ RxAt(map, k, p, s)
      BY <1>3, <3>3, <3>5
    <3>7. RxAt(Insert(map, k, e), k, p, After(s))
      BY <2>1, <3>2, <3>4, <3>6, CarriedOn
    <3> QED BY <1>5, <2>1, <3>2, <3>5, <3>7
  <2>2. CASE KeyOf(f) # k
    <3>1. RxAt(map, k, p, path[1])
      BY <1>3, <1>5, <2>2
    <3> QED BY <1>7, <2>2, <3>1, RxElsewhere
  <2> QED BY <2>1, <2>2
<1>9. TxAt(n, k, path[Len(box)])'
  BY <1>3 DEF SameTx, TxAt, Carries
<1>10. PICK s : s = path[Len(box)]
  OBVIOUS
<1>11. TxAt(n, Key(u), s)'
  BY <1>1, <1>9, <1>10 DEF TxAt, Key
<1>12. TxAt(n, Key(u), new[Len(Tail(box))])'
  BY <1>6, <1>10, <1>11 DEF TxAt
<1> QED BY <1>1, <1>2, <1>4, <1>6, <1>8, <1>12 DEF Flow

(* All transfers make their way.                                           *)
LEMMA FlowsStay ==
    ASSUME OnceInv, SentUndivided, TxWhole, InboxClean, AllActive, Flows, CalmStep
    PROVE  Flows'
<1>1. /\ QueuesTyped /\ now \in Nat /\ SentProper /\ TxOk /\ InboxOk /\ RxOk
      /\ SentDistinct /\ DueNotSent /\ EntriesDistinct /\ NetStep
  BY CalmStepIsStep DEF OnceInv, NetInv
<1>2. SUFFICES ASSUME NEW n \in Peers, NEW u \in sent', u.to \in {None, IdOf(n)}
               PROVE  Flow(n, u)'
  BY DEF Flows, IdOf
<1>3. CASE u \notin sent
  BY <1>1, <1>3, FlowBegins
<1>4. CASE u \in sent
  <2>1. Flow(n, u)
    BY <1>2, <1>4 DEF Flows
  <2>2. CASE \E m \in Nodes : Sends(m)
    BY <1>1, <1>4, <2>1, <2>2, FlowSends
  <2>3. CASE \A m \in Nodes : ~ Sends(m)
    <3>1. TxKept
      BY <2>3, OthersKeepTx
    <3>2. Inbox(n)' = Inbox(n) /\ (RxMap(n)' = RxMap(n) \/ RxKept(n)) => Flow(n, u)'
      BY <1>1, <1>4, <2>1, <3>1, FlowKept DEF RxKept
    <3>3. CASE \E m \in Nodes, q \in Queues : Begins(m, q)
      BY <3>2, <3>3 DEF Begins, SameRx, SameBus
    <3>4. CASE \E m \in Peers : Reads(m)
      BY <3>2, <3>4 DEF Reads, SameBus
    <3>5. CASE Passes /\ RxKept(n)
      BY <3>2, <3>5 DEF Passes, SameBus
    <3>6. ASSUME NEW m \in Peers, Receives(m) PROVE Flow(n, u)'
      <4>1. CASE m # n
        BY <3>2, <3>6, <4>1 DEF Receives
      <4>2. CASE m = n
        <5>1. /\ Inbox(n) # << >> /\ Inbox(n)' = Tail(Inbox(n)) /\ SameTx
              /\ \E e, kind : /\ RxMap(n)' = Insert(RxMap(n), KeyOf(Head(Inbox(n))), e)
                              /\ Takes(Head(Inbox(n)), now, RxMap(n), e, kind)
          BY <3>6, <4>2 DEF Receives, TakesUp
        <5> QED BY <1>1, <1>2, <1>4, <2>1, <5>1, FlowReceives
      <4> QED BY <4>1, <4>2
    <3>7. ASSUME NEW m \in Peers, Loses(m), ~ IsFor(m, Head(Inbox(m))) PROVE Flow(n, u)'
      <4>1. RxMap(n)' = RxMap(n)
        BY <3>7 DEF Loses, SameRx
      <4>2. CASE m # n
        BY <3>2, <3>7, <4>1, <4>2 DEF Loses
      <4>3. CASE m = n
        <5>1. Inbox(n) # << >> /\ Inbox(n)' = Tail(Inbox(n)) /\ SameTx
          BY <3>7, <4>3 DEF Loses
        <5> QED BY <1>1, <1>2, <1>4, <2>1, <3>7, <4>1, <4>3, <5>1, FlowReceives
      <4> QED BY <4>2, <4>3
    <3> QED BY <2>3, <3>3, <3>4, <3>5, <3>6, <3>7 DEF CalmStep
  <2> QED BY <2>2, <2>3
<1> QED BY <1>3, <1>4

LEMMA AllStayActive ==
    ASSUME OnceInv, AllActive, CalmStep
    PROVE  AllActive'
<1>1. /\ QueuesTyped /\ now \in Nat /\ SentProper /\ InboxOk /\ RxOk
  BY DEF OnceInv, NetInv
<1>2. SUFFICES ASSUME NEW n \in Peers, NEW k \in DOMAIN RxMap(n)'
               PROVE  RxMap(n)'[k].status = "Active"
  BY DEF AllActive, ActiveIn
<1>3. CASE RxMap(n)' = RxMap(n) \/ RxKept(n)
  BY <1>2, <1>3 DEF AllActive, ActiveIn, RxKept
<1>4. CASE Receives(n)
  <2>1. PICK f, x, e, kind : TakenUp(n, f, x, e, kind)
    BY <1>4, ReceivesIs
  <2>2. Known(n, x, e)
    BY <1>1, <2>1, TakenIsKnown
  <2>3. e.status = "Active"
    BY <2>2, EntryParts DEF Known
  <2>4. PICK map, new : map = RxMap(n) /\ new = RxMap(n)' /\ new = Insert(map, x, e)
    BY <2>1 DEF TakenUp
  <2>5. \A y \in DOMAIN map : map[y].status = "Active"
    BY <2>4 DEF AllActive, ActiveIn
  <2>6. \A y \in DOMAIN new : new[y].status = "Active"
    <3>1. new = [y \in DOMAIN map \cup {x} |-> IF y = x THEN e ELSE map[y]]
      BY <2>4 DEF Insert
    <3> QED BY <2>3, <2>5, <3>1
  <2> QED BY <1>2, <2>4, <2>6
<1> QED BY <1>3, <1>4 DEF CalmStep, Begins, Sends, Receives, Reads, Loses, SameRx

(* The frame a node is about to take will do. *)
Welcome(n, f) ==
    /\ RxProcessError(f) = "Ok"
    /\ IsFor(n, f) =>
          \/ KeyOf(f) \notin DOMAIN RxMap(n) /\ f.tail.start
          \/ /\ ActiveIn(RxMap(n), KeyOf(f))
             /\ Updated(f, RxMap(n)[KeyOf(f)].transport_metadata).error = "Ok"

LEMMA HeadsWelcome ==
    ASSUME OnceInv, SentUndivided, InboxClean, Flows,
           NEW n \in Peers, Inbox(n) # << >>
    PROVE  Head(Inbox(n)) \in CanFrame /\ Welcome(n, Head(Inbox(n)))
<1>1. SentProper /\ SentDistinct /\ InboxOk
  BY DEF OnceInv, NetInv
<1>2. PICK box, f, map : box = Inbox(n) /\ f = Head(box) /\ map = RxMap(n)
  OBVIOUS
<1>3. box \in Seq(CanFrame) /\ f \in CanFrame /\ RxProcessError(f) = "Ok" /\ box # << >>
  BY <1>1, <1>2, HeadIs
<1>4. PICK k : k = KeyOf(f)
  OBVIOUS
<1>5. ASSUME IsFor(n, f)
      PROVE  \/ k \notin DOMAIN map /\ f.tail.start
             \/ ActiveIn(map, k) /\ Updated(f, map[k].transport_metadata).error = "Ok"
  <2>1. PICK u \in sent : k = Key(u)
    BY <1>1, <1>2, <1>3, <1>4, HeadIs
  <2>2. PICK p : p = u.payload
    OBVIOUS
  <2>3. /\ IsPayload(p) /\ Undivided(p) /\ FrameIsOf(f, p)
        /\ MetaOf(f).destination_node_id = u.to
    BY <1>1, <1>2, <1>3, <1>4, <2>1, <2>2, HeadIs
  <2>4. Flow(n, u)
    BY <1>5, <2>3 DEF Flows, IsFor
  <2>5. PICK path : Passing(box, k, p, path) /\ RxAt(map, k, p, path[0])
    BY <1>2, <2>1, <2>2, <2>4 DEF Flow
  <2>6. PICK s : s = path[0]
    OBVIOUS
  <2>7. IsStage(s) /\ ~ Ended(p, s) /\ FrameAt(p, s, f)
    BY <1>2, <1>3, <1>4, <2>5, <2>6, PathShrinks
  <2>8. Fits(p, s, f) /\ RxAt(map, k, p, s)
    BY <1>3, <2>3, <2>5, <2>6, <2>7 DEF Fits
  <2> QED BY <2>8, Welcomed
<1> QED BY <1>2, <1>3, <1>4, <1>5 DEF Welcome

-----------------------------------------------------------------------------
(* What the calls of peer a return.                                        *)

LEMMA AcceptsA ==
    ASSUME A!Receive, NEW f \in CanFrame, f = Head(a_inbox), Welcome("a", f)
    PROVE  /\ rx_result'.kind # "RxError"
           /\ IsFor("a", f) =>
                 TakesUp(IdA, a_rx_transfers, a_rx_transfers', a_rx_tokens, a_rx_tokens', f, now)
<1> DEFINE k == KeyOf(f)
           frame == RxTransferFrame(f, now)
<1>1. A!Rx!ReceiveFrame(f)
  BY DEF A!Receive, A!TryReceiveFrame
<1>2. /\ RxProcessError(f) = "Ok"
      /\ IsFor("a", f) =>
            \/ k \notin DOMAIN a_rx_transfers /\ f.tail.start
            \/ /\ ActiveIn(a_rx_transfers, k)
               /\ Updated(f, a_rx_transfers[k].transport_metadata).error = "Ok"
  BY DEF Welcome, RxMap
<1>3. /\ frame.metadata.destination_node_id = MetaOf(f).destination_node_id
      /\ frame.metadata.transfer_kind = MetaOf(f).transfer_kind
      /\ MetaOf(f).transfer_kind = "Message" => MetaOf(f).destination_node_id = None
      /\ IdOf("a") = IdA
  BY DEF RxTransferFrame, MetaOf, RxMetadataOf, IdOf
<1>4. /\ A!Rx!HashMetadata(frame.metadata) = k /\ frame.first_frame = f.tail.start
      /\ \A m : A!Rx!UpdateRxMetadata(m, RxFrameMetadata(f), frame) = Updated(f, m)
  BY RxSameA, TimeIrrelevant
<1> HIDE DEF k, frame
<1>5. A!Rx!IgnoreFrame(frame) \/ A!Rx!TakeFrame(RxFrameMetadata(f), frame)
  BY <1>1, <1>2, RxSameA DEF A!Rx!ReceiveFrame, A!Rx!RejectFrame, frame
<1>6. CASE A!Rx!IgnoreFrame(frame)
  <2>1. A!Rx!IsForOthers(frame.metadata) /\ rx_result'.kind = "Nothing"
    BY <1>6 DEF A!Rx!IgnoreFrame
  <2>2. ~ IsFor("a", f)
    BY <1>3, <2>1 DEF A!Rx!IsForOthers, IsFor
  <2> QED BY <2>1, <2>2
<1>7. CASE A!Rx!TakeFrame(RxFrameMetadata(f), frame)
  <2>1. ~ A!Rx!IsForOthers(frame.metadata)
    BY <1>7 DEF A!Rx!TakeFrame
  <2>2. IsFor("a", f)
    BY <1>3, <2>1 DEF A!Rx!IsForOthers, IsFor
  <2>3. ~ A!Rx!HasRemoteId(frame.metadata)
    BY <1>3 DEF A!Rx!HasRemoteId
  <2>4. \/ A!Rx!AppendToTimedOut(k) \/ A!Rx!AppendFrame(k, RxFrameMetadata(f), frame)
        \/ A!Rx!NewSessionNoStart(k, frame) \/ A!Rx!NewTransfer(k, RxFrameMetadata(f), frame)
    BY <1>4, <1>7, <2>3 DEF A!Rx!TakeFrame
  <2>5. ~ A!Rx!AppendToTimedOut(k) /\ ~ A!Rx!NewSessionNoStart(k, frame)
    BY <1>2, <1>4, <2>2 DEF A!Rx!AppendToTimedOut, A!Rx!RxIsTimedOut, A!Rx!NewSessionNoStart,
                            ActiveIn
  <2>6. A!Rx!Accepted(k, frame) => rx_result'.kind # "RxError"
    BY DEF A!Rx!Accepted
  <2>7. CASE A!Rx!AppendFrame(k, RxFrameMetadata(f), frame)
    <3>1. A!Rx!RxIsActive(k)
      BY <2>7 DEF A!Rx!AppendFrame
    <3>2. Updated(f, a_rx_transfers[k].transport_metadata).error = "Ok"
      BY <1>2, <2>2, <3>1 DEF A!Rx!RxIsActive
    <3>3. A!Rx!Accepted(k, frame)
      BY <1>4, <2>7, <3>2 DEF A!Rx!AppendFrame
    <3>4. \E e, kind :
             /\ a_rx_transfers' = Insert(a_rx_transfers, k, e)
             /\ Takes(f, now, a_rx_transfers, e, kind)
             /\ a_rx_tokens' = IF kind = "Token" THEN [a_rx_tokens EXCEPT ![k] = @ + 1]
                               ELSE a_rx_tokens
      BY <1>2, <2>7, AppendsA DEF k, frame
    <3> QED BY <1>3, <2>2, <2>6, <3>3, <3>4 DEF TakesUp, IsFor, MetaOf, k
  <2>8. CASE A!Rx!NewTransfer(k, RxFrameMetadata(f), frame)
    <3>1. k \notin DOMAIN a_rx_transfers /\ f.tail.start
      BY <1>4, <2>8 DEF A!Rx!NewTransfer
    <3>2. Updated(f, RxMetadataDefault).error = "Ok"
      BY <1>2, <3>1, FirstFrameAccepted DEF Updated
    <3>3. /\ A!Rx!Accepted(k, frame)
          /\ \E e : a_rx_transfers' = A!Rx!Insert(a_rx_transfers, k, e)
      BY <1>4, <2>8, <3>2, RxSameA DEF A!Rx!NewTransfer
    <3>4. a_rx_transfers' # a_rx_transfers
      <4>1. PICK e : a_rx_transfers' = Insert(a_rx_transfers, k, e)
        BY <3>3, RxSameA
      <4>2. k \in DOMAIN Insert(a_rx_transfers, k, e)
        BY DEF Insert
      <4> QED BY <3>1, <4>1, <4>2
    <3>5. \E e, kind :
             /\ a_rx_transfers' = Insert(a_rx_transfers, k, e)
             /\ Takes(f, now, a_rx_transfers, e, kind)
             /\ a_rx_tokens' = IF kind = "Token" THEN [a_rx_tokens EXCEPT ![k] = @ + 1]
                               ELSE a_rx_tokens
      BY <1>2, <2>8, <3>4, OpensA DEF k, frame
    <3> QED BY <1>3, <2>2, <2>6, <3>3, <3>5 DEF TakesUp, IsFor, MetaOf, k
  <2> QED BY <2>4, <2>5, <2>7, <2>8
<1> QED BY <1>5, <1>6, <1>7

(* And of peer b. *)
LEMMA AcceptsB ==
    ASSUME B!Receive, NEW f \in CanFrame, f = Head(b_inbox), Welcome("b", f)
    PROVE  /\ rx_result'.kind # "RxError"
           /\ IsFor("b", f) =>
                 TakesUp(IdB, b_rx_transfers, b_rx_transfers', b_rx_tokens, b_rx_tokens', f, now)
<1> DEFINE k == KeyOf(f)
           frame == RxTransferFrame(f, now)
<1>1. B!Rx!ReceiveFrame(f)
  BY DEF B!Receive, B!TryReceiveFrame
<1>2. /\ RxProcessError(f) = "Ok"
      /\ IsFor("b", f) =>
            \/ k \notin DOMAIN b_rx_transfers /\ f.tail.start
            \/ /\ ActiveIn(b_rx_transfers, k)
               /\ Updated(f, b_rx_transfers[k].transport_metadata).error = "Ok"
  BY DEF Welcome, RxMap
<1>3. /\ frame.metadata.destination_node_id = MetaOf(f).destination_node_id
      /\ frame.metadata.transfer_kind = MetaOf(f).transfer_kind
      /\ MetaOf(f).transfer_kind = "Message" => MetaOf(f).destination_node_id = None
      /\ IdOf("b") = IdB
  BY DEF RxTransferFrame, MetaOf, RxMetadataOf, IdOf
<1>4. /\ B!Rx!HashMetadata(frame.metadata) = k /\ frame.first_frame = f.tail.start
      /\ \A m : B!Rx!UpdateRxMetadata(m, RxFrameMetadata(f), frame) = Updated(f, m)
  BY RxSameB, TimeIrrelevant
<1> HIDE DEF k, frame
<1>5. B!Rx!IgnoreFrame(frame) \/ B!Rx!TakeFrame(RxFrameMetadata(f), frame)
  BY <1>1, <1>2, RxSameB DEF B!Rx!ReceiveFrame, B!Rx!RejectFrame, frame
<1>6. CASE B!Rx!IgnoreFrame(frame)
  <2>1. B!Rx!IsForOthers(frame.metadata) /\ rx_result'.kind = "Nothing"
    BY <1>6 DEF B!Rx!IgnoreFrame
  <2>2. ~ IsFor("b", f)
    BY <1>3, <2>1 DEF B!Rx!IsForOthers, IsFor
  <2> QED BY <2>1, <2>2
<1>7. CASE B!Rx!TakeFrame(RxFrameMetadata(f), frame)
  <2>1. ~ B!Rx!IsForOthers(frame.metadata)
    BY <1>7 DEF B!Rx!TakeFrame
  <2>2. IsFor("b", f)
    BY <1>3, <2>1 DEF B!Rx!IsForOthers, IsFor
  <2>3. ~ B!Rx!HasRemoteId(frame.metadata)
    BY <1>3 DEF B!Rx!HasRemoteId
  <2>4. \/ B!Rx!AppendToTimedOut(k) \/ B!Rx!AppendFrame(k, RxFrameMetadata(f), frame)
        \/ B!Rx!NewSessionNoStart(k, frame) \/ B!Rx!NewTransfer(k, RxFrameMetadata(f), frame)
    BY <1>4, <1>7, <2>3 DEF B!Rx!TakeFrame
  <2>5. ~ B!Rx!AppendToTimedOut(k) /\ ~ B!Rx!NewSessionNoStart(k, frame)
    BY <1>2, <1>4, <2>2 DEF B!Rx!AppendToTimedOut, B!Rx!RxIsTimedOut, B!Rx!NewSessionNoStart,
                            ActiveIn
  <2>6. B!Rx!Accepted(k, frame) => rx_result'.kind # "RxError"
    BY DEF B!Rx!Accepted
  <2>7. CASE B!Rx!AppendFrame(k, RxFrameMetadata(f), frame)
    <3>1. B!Rx!RxIsActive(k)
      BY <2>7 DEF B!Rx!AppendFrame
    <3>2. Updated(f, b_rx_transfers[k].transport_metadata).error = "Ok"
      BY <1>2, <2>2, <3>1 DEF B!Rx!RxIsActive
    <3>3. B!Rx!Accepted(k, frame)
      BY <1>4, <2>7, <3>2 DEF B!Rx!AppendFrame
    <3>4. \E e, kind :
             /\ b_rx_transfers' = Insert(b_rx_transfers, k, e)
             /\ Takes(f, now, b_rx_transfers, e, kind)
             /\ b_rx_tokens' = IF kind = "Token" THEN [b_rx_tokens EXCEPT ![k] = @ + 1]
                               ELSE b_rx_tokens
      BY <1>2, <2>7, AppendsB DEF k, frame
    <3> QED BY <1>3, <2>2, <2>6, <3>3, <3>4 DEF TakesUp, IsFor, MetaOf, k
  <2>8. CASE B!Rx!NewTransfer(k, RxFrameMetadata(f), frame)
    <3>1. k \notin DOMAIN b_rx_transfers /\ f.tail.start
      BY <1>4, <2>8 DEF B!Rx!NewTransfer
    <3>2. Updated(f, RxMetadataDefault).error = "Ok"
      BY <1>2, <3>1, FirstFrameAccepted DEF Updated
    <3>3. /\ B!Rx!Accepted(k, frame)
          /\ \E e : b_rx_transfers' = B!Rx!Insert(b_rx_transfers, k, e)
      BY <1>4, <2>8, <3>2, RxSameB DEF B!Rx!NewTransfer
    <3>4. b_rx_transfers' # b_rx_transfers
      <4>1. PICK e : b_rx_transfers' = Insert(b_rx_transfers, k, e)
        BY <3>3, RxSameB
      <4>2. k \in DOMAIN Insert(b_rx_transfers, k, e)
        BY DEF Insert
      <4> QED BY <3>1, <4>1, <4>2
    <3>5. \E e, kind :
             /\ b_rx_transfers' = Insert(b_rx_transfers, k, e)
             /\ Takes(f, now, b_rx_transfers, e, kind)
             /\ b_rx_tokens' = IF kind = "Token" THEN [b_rx_tokens EXCEPT ![k] = @ + 1]
                               ELSE b_rx_tokens
      BY <1>2, <2>8, <3>4, OpensB DEF k, frame
    <3> QED BY <1>3, <2>2, <2>6, <3>3, <3>5 DEF TakesUp, IsFor, MetaOf, k
  <2> QED BY <2>4, <2>5, <2>7, <2>8
<1> QED BY <1>5, <1>6, <1>7

-----------------------------------------------------------------------------
(* Every step on a calm bus is one of these, and none returns an error.    *)

Quiet == /\ now' = now /\ conditions' = conditions
         /\ rx_result' = rx_result \/ rx_result'.kind # "RxError"

(* Entries are stamped when they are begun, and not later than now. *)
Stamped ==
    \A n \in Peers : \A k \in DOMAIN RxMap(n) :
        RxMap(n)[k].status = "Active" => RxMap(n)[k].transfer_metadata.timestamp \in Nat

Admits(n) == Inbox(n) # << >> => Head(Inbox(n)) \in CanFrame /\ Welcome(n, Head(Inbox(n)))

LEMMA NoneExpired ==
    ASSUME now = 0, NEW t \in Nat
    PROVE  ~ (now - t > Timeout)
BY NetworkAssumption DEF Duration

LEMMA CalmStartsA ==
    ASSUME QueuesTyped, StartA \/ AnswerA \/ \E k : TransmitA(k)
    PROVE  CalmStep /\ Quiet
<1>1. /\ UNCHANGED << a_rx_transfers, a_rx_tokens, rx_result, now, conditions >>
      /\ b_rx_transfers' = b_rx_transfers
  <2>1. CASE StartA
    BY <2>1 DEF StartA, A!StartPlanned, A!StartTransfer, A!StartTxTransfer,
                A!Tx!StartTxTransfer, A!rx_part, bus_vars, b_vars
  <2>2. CASE AnswerA
    BY <2>2 DEF AnswerA, A!StartAnswer, A!StartTransfer, A!StartTxTransfer,
                A!Tx!StartTxTransfer, A!rx_part, bus_vars, b_vars
  <2>3. ASSUME NEW k, TransmitA(k)
        PROVE  UNCHANGED << a_rx_transfers, a_rx_tokens, rx_result, now, conditions,
                            b_rx_transfers >>
    <3>1. A!Transmit(k) /\ UNCHANGED << b_vars, bus_vars >>
      BY <2>3 DEF TransmitA
    <3> QED BY <3>1, SendsA DEF A!Transmit, A!TransmitFrame, A!rx_part, bus_vars, b_vars
  <2> QED BY <2>1, <2>2, <2>3
<1>2. \A n \in Peers : RxKept(n)
  BY <1>1 DEF RxKept, RxMap
<1>3. (\E q \in Queues : Begins("a", q)) \/ Sends("a") \/ Passes
  BY BeginsA, TransmitsA
<1> QED BY <1>1, <1>2, <1>3 DEF CalmStep, Quiet, Nodes

LEMMA CalmReadsA ==
    ASSUME NEW k \in DOMAIN a_rx_tokens, ReadA(k)
    PROVE  CalmStep /\ Quiet
<1>1. A!Read(k) /\ UNCHANGED bus_vars
  BY DEF ReadA
<1>2. now' = now /\ rx_result'.kind # "RxError"
  BY <1>1 DEF A!Read, A!WithRxTransfer, A!Rx!WithRxTransfer
<1>3. Reads("a")
  BY GivesA
<1> QED BY <1>1, <1>2, <1>3 DEF CalmStep, Quiet, Peers, bus_vars

LEMMA CalmUpdatesA ==
    ASSUME now = 0, Stamped, UpdateA
    PROVE  CalmStep /\ Quiet
<1>1. /\ A!Update /\ UNCHANGED << b_vars, bus_vars >>
  BY DEF UpdateA
<1>2. /\ now' = now /\ rx_result' = [kind |-> "Unit"]
      /\ a_rx_transfers' = [k \in DOMAIN a_rx_transfers |->
                              IF A!Rx!RxExpired(k) THEN A!Rx!TimedOut ELSE a_rx_transfers[k]]
  BY <1>1 DEF A!Update, A!UpdateTransfers, A!Rx!UpdateRxTransfers, A!Rx!Unit
<1>3. ASSUME NEW k \in DOMAIN a_rx_transfers PROVE ~ A!Rx!RxExpired(k)
  <2> SUFFICES ASSUME A!Rx!RxIsActive(k) PROVE ~ A!Rx!RxExpired(k)
    BY DEF A!Rx!RxExpired
  <2>1. PICK t : t = a_rx_transfers[k].transfer_metadata.timestamp
    OBVIOUS
  <2>2. t \in Nat
    BY <2>1 DEF Stamped, Peers, RxMap, A!Rx!RxIsActive
  <2>3. ~ (now - t > Timeout)
    BY <2>2, NoneExpired
  <2> QED BY <2>1, <2>3 DEF A!Rx!RxExpired, A!Rx!TimestampExpired
<1>4. \A n \in Peers : RxKept(n)
  <2>1. /\ DOMAIN a_rx_transfers' = DOMAIN a_rx_transfers
        /\ \A k \in DOMAIN a_rx_transfers : a_rx_transfers'[k] = a_rx_transfers[k]
    BY <1>2, <1>3
  <2>2. b_rx_transfers' = b_rx_transfers
    BY <1>1 DEF b_vars
  <2> QED BY <2>1, <2>2 DEF RxKept, RxMap
<1>5. Passes
  BY AgesA
<1> QED BY <1>1, <1>2, <1>4, <1>5 DEF CalmStep, Quiet, bus_vars

LEMMA CalmReceivesA ==
    ASSUME Admits("a"), ReceiveA
    PROVE  CalmStep /\ Quiet
<1>1. A!Receive /\ UNCHANGED bus_vars
  BY DEF ReceiveA
<1>2. PICK f : f = Head(a_inbox)
  OBVIOUS
<1>3. /\ Inbox("a") = a_inbox /\ a_inbox # << >> /\ IdOf("a") = IdA
      /\ RxMap("a") = a_rx_transfers /\ RxMap("a")' = a_rx_transfers'
      /\ Tokens("a") = a_rx_tokens /\ Tokens("a")' = a_rx_tokens'
  BY <1>1 DEF A!Receive, Inbox, IdOf, RxMap, Tokens
<1>4. f \in CanFrame /\ Welcome("a", f)
  BY <1>2, <1>3 DEF Admits
<1>5. /\ rx_result'.kind # "RxError"
      /\ IsFor("a", f) =>
            TakesUp(IdA, a_rx_transfers, a_rx_transfers', a_rx_tokens, a_rx_tokens', f, now)
  BY <1>1, <1>2, <1>4, AcceptsA
<1>6. /\ now' = now /\ \A k \in DOMAIN a_rx_tokens : ~ (a_rx_tokens[k] > 0)
  BY <1>1, ReceivesA
<1>7. Receives("a") \/ Loses("a")
  BY ArrivesA
<1>8. Receives("a") \/ (Loses("a") /\ ~ IsFor("a", f))
  <2> SUFFICES ASSUME Loses("a"), IsFor("a", f) PROVE Receives("a")
    BY <1>7
  <2>1. TakesUp(IdOf("a"), RxMap("a"), RxMap("a")', Tokens("a"), Tokens("a")',
                Head(Inbox("a")), now)
    BY <1>2, <1>3, <1>5
  <2>2. \A k \in DOMAIN Tokens("a") : ~ (Tokens("a")[k] > 0)
    BY <1>3, <1>6
  <2> QED BY <2>1, <2>2 DEF Loses, Receives, SameRx
<1>9. CalmStep
  BY <1>2, <1>3, <1>8 DEF CalmStep, Peers
<1> QED BY <1>1, <1>5, <1>6, <1>9 DEF Quiet, bus_vars

LEMMA CalmStepA ==
    ASSUME QueuesTyped, now = 0, Stamped, Admits("a"), StepA \/ UpdateA
    PROVE  CalmStep /\ Quiet
BY CalmStartsA, CalmReadsA, CalmUpdatesA, CalmReceivesA DEF StepA

LEMMA CalmStartsB ==
    ASSUME QueuesTyped, StartB \/ AnswerB \/ \E k : TransmitB(k)
    PROVE  CalmStep /\ Quiet
<1>1. /\ UNCHANGED << b_rx_transfers, b_rx_tokens, rx_result, now, conditions >>
      /\ a_rx_transfers' = a_rx_transfers
  <2>1. CASE StartB
    BY <2>1 DEF StartB, B!StartPlanned, B!StartTransfer, B!StartTxTransfer,
                B!Tx!StartTxTransfer, B!rx_part, bus_vars, a_vars
  <2>2. CASE AnswerB
    BY <2>2 DEF AnswerB, B!StartAnswer, B!StartTransfer, B!StartTxTransfer,
                B!Tx!StartTxTransfer, B!rx_part, bus_vars, a_vars
  <2>3. ASSUME NEW k, TransmitB(k)
        PROVE  UNCHANGED << b_rx_transfers, b_rx_tokens, rx_result, now, conditions,
                            a_rx_transfers >>
    <3>1. B!Transmit(k) /\ UNCHANGED << a_vars, bus_vars >>
      BY <2>3 DEF TransmitB
    <3> QED BY <3>1, SendsB DEF B!Transmit, B!TransmitFrame, B!rx_part, bus_vars, a_vars
  <2> QED BY <2>1, <2>2, <2>3
<1>2. \A n \in Peers : RxKept(n)
  BY <1>1 DEF RxKept, RxMap
<1>3. (\E q \in Queues : Begins("b", q)) \/ Sends("b") \/ Passes
  BY BeginsB, TransmitsB
<1> QED BY <1>1, <1>2, <1>3 DEF CalmStep, Quiet, Nodes

LEMMA CalmReadsB ==
    ASSUME NEW k \in DOMAIN b_rx_tokens, ReadB(k)
    PROVE  CalmStep /\ Quiet
<1>1. B!Read(k) /\ UNCHANGED bus_vars
  BY DEF ReadB
<1>2. now' = now /\ rx_result'.kind # "RxError"
  BY <1>1 DEF B!Read, B!WithRxTransfer, B!Rx!WithRxTransfer
<1>3. Reads("b")
  BY GivesB
<1> QED BY <1>1, <1>2, <1>3 DEF CalmStep, Quiet, Peers, bus_vars

LEMMA CalmUpdatesB ==
    ASSUME now = 0, Stamped, UpdateB
    PROVE  CalmStep /\ Quiet
<1>1. /\ B!Update /\ UNCHANGED << a_vars, bus_vars >>
  BY DEF UpdateB
<1>2. /\ now' = now /\ rx_result' = [kind |-> "Unit"]
      /\ b_rx_transfers' = [k \in DOMAIN b_rx_transfers |->
                              IF B!Rx!RxExpired(k) THEN B!Rx!TimedOut ELSE b_rx_transfers[k]]
  BY <1>1 DEF B!Update, B!UpdateTransfers, B!Rx!UpdateRxTransfers, B!Rx!Unit
<1>3. ASSUME NEW k \in DOMAIN b_rx_transfers PROVE ~ B!Rx!RxExpired(k)
  <2> SUFFICES ASSUME B!Rx!RxIsActive(k) PROVE ~ B!Rx!RxExpired(k)
    BY DEF B!Rx!RxExpired
  <2>1. PICK t : t = b_rx_transfers[k].transfer_metadata.timestamp
    OBVIOUS
  <2>2. t \in Nat
    BY <2>1 DEF Stamped, Peers, RxMap, B!Rx!RxIsActive
  <2>3. ~ (now - t > Timeout)
    BY <2>2, NoneExpired
  <2> QED BY <2>1, <2>3 DEF B!Rx!RxExpired, B!Rx!TimestampExpired
<1>4. \A n \in Peers : RxKept(n)
  <2>1. /\ DOMAIN b_rx_transfers' = DOMAIN b_rx_transfers
        /\ \A k \in DOMAIN b_rx_transfers : b_rx_transfers'[k] = b_rx_transfers[k]
    BY <1>2, <1>3
  <2>2. a_rx_transfers' = a_rx_transfers
    BY <1>1 DEF a_vars
  <2> QED BY <2>1, <2>2 DEF RxKept, RxMap
<1>5. Passes
  BY AgesB
<1> QED BY <1>1, <1>2, <1>4, <1>5 DEF CalmStep, Quiet, bus_vars

LEMMA CalmReceivesB ==
    ASSUME Admits("b"), ReceiveB
    PROVE  CalmStep /\ Quiet
<1>1. B!Receive /\ UNCHANGED bus_vars
  BY DEF ReceiveB
<1>2. PICK f : f = Head(b_inbox)
  OBVIOUS
<1>3. /\ Inbox("b") = b_inbox /\ b_inbox # << >> /\ IdOf("b") = IdB
      /\ RxMap("b") = b_rx_transfers /\ RxMap("b")' = b_rx_transfers'
      /\ Tokens("b") = b_rx_tokens /\ Tokens("b")' = b_rx_tokens'
  BY <1>1 DEF B!Receive, Inbox, IdOf, RxMap, Tokens
<1>4. f \in CanFrame /\ Welcome("b", f)
  BY <1>2, <1>3 DEF Admits
<1>5. /\ rx_result'.kind # "RxError"
      /\ IsFor("b", f) =>
            TakesUp(IdB, b_rx_transfers, b_rx_transfers', b_rx_tokens, b_rx_tokens', f, now)
  BY <1>1, <1>2, <1>4, AcceptsB
<1>6. /\ now' = now /\ \A k \in DOMAIN b_rx_tokens : ~ (b_rx_tokens[k] > 0)
  BY <1>1, ReceivesB
<1>7. Receives("b") \/ Loses("b")
  BY ArrivesB
<1>8. Receives("b") \/ (Loses("b") /\ ~ IsFor("b", f))
  <2> SUFFICES ASSUME Loses("b"), IsFor("b", f) PROVE Receives("b")
    BY <1>7
  <2>1. TakesUp(IdOf("b"), RxMap("b"), RxMap("b")', Tokens("b"), Tokens("b")',
                Head(Inbox("b")), now)
    BY <1>2, <1>3, <1>5
  <2>2. \A k \in DOMAIN Tokens("b") : ~ (Tokens("b")[k] > 0)
    BY <1>3, <1>6
  <2> QED BY <2>1, <2>2 DEF Loses, Receives, SameRx
<1>9. CalmStep
  BY <1>2, <1>3, <1>8 DEF CalmStep, Peers
<1> QED BY <1>1, <1>5, <1>6, <1>9 DEF Quiet, bus_vars

LEMMA CalmStepB ==
    ASSUME QueuesTyped, now = 0, Stamped, Admits("b"), StepB \/ UpdateB
    PROVE  CalmStep /\ Quiet
BY CalmStartsB, CalmReadsB, CalmUpdatesB, CalmReceivesB DEF StepB

LEMMA CalmStepC ==
    ASSUME QueuesTyped, StepC
    PROVE  CalmStep /\ Quiet
<1>1. UNCHANGED << a_rx_transfers, b_rx_transfers, rx_result, now, conditions >>
  <2>1. CASE StartC
    BY <2>1 DEF StartC, C!StartTxTransfer, a_vars, b_vars, bus_vars
  <2>2. ASSUME NEW k, TransmitC(k)
        PROVE  UNCHANGED << a_rx_transfers, b_rx_transfers, rx_result, now, conditions >>
    <3>1. C!TransmitFrame(k) /\ UNCHANGED << a_vars, b_vars, rx_result, bus_vars >>
      BY <2>2 DEF TransmitC
    <3> QED BY <3>1, SendsC DEF a_vars, b_vars, bus_vars
  <2> QED BY <2>1, <2>2 DEF StepC
<1>2. \A n \in Peers : RxKept(n)
  BY <1>1 DEF RxKept, RxMap
<1>3. Begins("c", "plan") \/ Sends("c") \/ Passes
  BY BeginsC, TransmitsC DEF StepC
<1> QED BY <1>1, <1>2, <1>3 DEF CalmStep, Quiet, Nodes, Queues

LEMMA CalmStepIs ==
    ASSUME CalmInv, conditions = "calm", [Next]_network_vars
    PROVE  CalmStep /\ Quiet
<1>1. /\ QueuesTyped /\ RxOk /\ now = 0 /\ OnceInv
      /\ SentUndivided /\ InboxClean /\ Flows
  BY DEF CalmInv, OnceInv, NetInv
<1>2. Stamped
  <2> SUFFICES ASSUME NEW n \in Peers, NEW k \in DOMAIN RxMap(n), RxMap(n)[k].status = "Active"
               PROVE  RxMap(n)[k].transfer_metadata.timestamp \in Nat
    BY DEF Stamped
  <2>1. PICK e : e = RxMap(n)[k]
    OBVIOUS
  <2>2. e.transfer_metadata \in TransferMetadata
    BY <1>1, <2>1, EntryParts DEF RxOk, Known
  <2>3. e.transfer_metadata.timestamp \in Nat
    BY <2>2 DEF TransferMetadata, Timestamp
  <2> QED BY <2>1, <2>3
<1>3. \A n \in Peers : Admits(n)
  BY <1>1, HeadsWelcome DEF Admits
<1>4. CASE StepA \/ UpdateA
  BY <1>1, <1>2, <1>3, <1>4, CalmStepA DEF Peers
<1>5. CASE StepB \/ UpdateB
  BY <1>1, <1>2, <1>3, <1>5, CalmStepB DEF Peers
<1>6. CASE StepC
  BY <1>1, <1>6, CalmStepC
<1>7. CASE UNCHANGED network_vars
  <2>1. UNCHANGED << a_vars, b_vars, c_vars, inboxes, history >>
    BY <1>7 DEF network_vars
  <2>2. SameQueues /\ SameTx /\ SameRx /\ SameBus /\ SameHistory
    BY <2>1 DEF Nodes, Peers, Queues, Waiting, Plan, AnswersOf, TxMap, SameQueues, SameTx,
          SameRx, SameBus, RxMap, Tokens, Inbox, a_vars, b_vars, c_vars, inboxes,
          SameHistory, history
  <2>3. Passes /\ \A n \in Peers : RxKept(n)
    BY <2>2, StayIsPassing DEF SameRx, RxKept
  <2>4. Quiet
    BY <1>7 DEF network_vars, bus_vars, results, Quiet
  <2> QED BY <2>3, <2>4 DEF CalmStep
<1>8. ~ Lose /\ ~ Duplicate /\ ~ Tick
  BY DEF Lose, Duplicate, Fault, Tick
<1> QED BY <1>4, <1>5, <1>6, <1>7, <1>8 DEF Next

(* No step makes a bus a calm one. *)
LEMMA StaysCalm == [Next]_network_vars => conditions' = conditions
BY DEF Next, StepA, StepB, StepC, StartA, AnswerA, TransmitA, ReceiveA, ReadA, UpdateA,
       StartB, AnswerB, TransmitB, ReceiveB, ReadB, UpdateB, StartC, TransmitC,
       Lose, Duplicate, Fault, Tick, bus_vars, network_vars

LEMMA CalmInvStays ==
    UndividedCrcs /\ CalmInv /\ [Next]_network_vars => CalmInv'
<1> SUFFICES ASSUME UndividedCrcs, CalmInv, [Next]_network_vars PROVE CalmInv'
  OBVIOUS
<1>1. /\ OnceInv /\ SentUndivided /\ TxWhole /\ InboxClean
      /\ QueuesTyped /\ now \in Nat /\ SentProper /\ TxOk /\ InboxOk /\ NetStep
  BY StepIs DEF CalmInv, OnceInv, NetInv
<1>2. OnceInv' /\ SentUndivided' /\ TxWhole' /\ InboxClean'
  BY <1>1, OnceInvStays, SentStaysUndivided, TxStaysWhole, InboxStaysClean
<1>3. ASSUME (conditions = "calm")'
      PROVE  (now = 0 /\ AllActive /\ Flows /\ CalmBusAccepts)'
  <2>1. conditions = "calm"
    BY <1>3, StaysCalm
  <2>2. now = 0 /\ AllActive /\ Flows /\ rx_result.kind # "RxError"
    BY <2>1 DEF CalmInv, CalmBusAccepts
  <2>3. CalmStep /\ Quiet
    BY <2>1, CalmStepIs
  <2>4. AllActive' /\ Flows'
    BY <1>1, <2>2, <2>3, AllStayActive, FlowsStay
  <2>5. now' = 0 /\ rx_result'.kind # "RxError"
    BY <2>2, <2>3 DEF Quiet
  <2> QED BY <2>4, <2>5 DEF CalmBusAccepts
<1> QED BY <1>2, <1>3 DEF CalmInv

LEMMA CalmInvInit == PlansUseIdsOnce /\ Init => CalmInv
<1> SUFFICES ASSUME PlansUseIdsOnce, Init PROVE CalmInv
  OBVIOUS
<1>1. OnceInv
  BY OnceInvInit
<1>2. /\ \A n \in Nodes : DOMAIN TxMap(n) = {}
      /\ \A n \in Peers : DOMAIN RxMap(n) = {} /\ Inbox(n) = << >>
      /\ sent = {} /\ now = 0
  BY InitIs
<1>3. SentUndivided /\ TxWhole /\ AllActive /\ Flows
  BY <1>2 DEF SentUndivided, TxWhole, AllActive, Flows
<1>4. InboxClean
  BY <1>2, EmptyQueue DEF InboxClean
<1>5. rx_result.kind = "Unit"
  BY DEF Init, A!PeerInit, A!NodeInit, A!Rx!Init, A!Rx!Unit
<1> QED BY <1>1, <1>2, <1>3, <1>4, <1>5 DEF CalmInv, CalmBusAccepts

(* On a bus that neither loses nor delays anything no call of              *)
(* try_receive_frame answers a frame of another node with an error: each   *)
(* comes in its turn, with the toggle, the start bit and the CRC that the  *)
(* entry for it waits for (handle_frame, update_metadata and               *)
(* rx_process_frame against transmit_frame of the nodes that send).  That  *)
(* is so of payloads whose CRC is not divided between two frames, which    *)
(* rx_process_frame refuses, and of plans that use no ids twice.           *)
THEOREM CalmBusIsAccepting ==
    ASSUME PlansUseIdsOnce, UndividedCrcs
    PROVE  Spec => []CalmBusAccepts
<1>1. Init => CalmInv
  BY CalmInvInit
<1>2. CalmInv /\ [Next]_network_vars => CalmInv'
  BY CalmInvStays
<1>3. CalmInv => CalmBusAccepts
  BY DEF CalmInv, CalmBusAccepts
<1> QED BY <1>1, <1>2, <1>3, PTL DEF Spec
=============================================================================
