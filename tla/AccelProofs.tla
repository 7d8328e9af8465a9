---------------------------- MODULE AccelProofs -----------------------------
(***************************************************************************)
(* Theorems about I2C and its client Adxl345, for any registers, number of *)
(* transfers and depths of the FIFOs, and a controller of any speed.        *)
(***************************************************************************)
EXTENDS Adxl345, TLAPS

\* The order in which bytes are read from the target.
Before(a, b) ==
    \/ a.transfer < b.transfer
    \/ a.transfer = b.transfer /\ a.register < b.register

\* A byte comes before the one the controller reads next.
Fetched(b) ==
    /\ b.transfer <= fetching.transfer
    /\ b.transfer = fetching.transfer /\ fetching.left > 0 => b.register < pointer

\* What the caller has, what waits in the FIFO and what is still to be read are
\* in order.
OrderInv ==
    /\ \A i, j \in 1..Len(data) : i < j => Before(data[i], data[j])
    /\ \A i, j \in 1..Len(rx) : i < j => Before(rx[i], rx[j])
    /\ \A i \in 1..Len(data), j \in 1..Len(rx) : Before(data[i], rx[j])
    /\ \A i \in 1..Len(data) : Fetched(data[i])
    /\ \A i \in 1..Len(rx) : Fetched(rx[i])

IsRead(e) == e.format = "RX_STOP"

\* The reads in the format FIFO are in the order of their transfers and none has
\* begun; the transfer being formatted comes behind them and ends with its read.
FormatInv ==
    /\ fetching.transfer <= transfer
    /\ fetching.left > 0 => fetching.transfer > 0
    /\ \A i \in 1..Len(fmt) : IsRead(fmt[i]) =>
           /\ fmt[i].byte \in 1..MaxCount
           /\ fetching.transfer < fmt[i].transfer /\ fmt[i].transfer <= transfer
    /\ \A i, j \in 1..Len(fmt) :
           i < j /\ IsRead(fmt[i]) /\ IsRead(fmt[j]) => fmt[i].transfer < fmt[j].transfer
    /\ pc = "format" =>
           /\ entries # <<>> /\ transfer > 0
           /\ \A i \in 1..Len(entries) :
                  /\ entries[i].transfer = transfer
                  /\ IsRead(entries[i]) <=> i = Len(entries)
                  /\ IsRead(entries[i]) => entries[i].byte \in 1..MaxCount
           /\ fetching.transfer < transfer
           /\ \A i \in 1..Len(fmt) : IsRead(fmt[i]) => fmt[i].transfer < transfer
    /\ pc = "drain" => ~request.write

I2CInv == I2CTypeOK /\ FormatInv /\ OrderInv

----------------------------------------------------------------------------
(* Queues *)

LEMMA QueueAppend ==
    ASSUME NEW S, NEW q \in Seq(S), NEW e \in S
    PROVE  /\ Append(q, e) \in Seq(S)
           /\ Len(q) \in Nat /\ Len(Append(q, e)) = Len(q) + 1
           /\ \A i \in 1..Len(q) : Append(q, e)[i] = q[i]
           /\ Append(q, e)[Len(q) + 1] = e
  BY SMT

LEMMA QueueTail ==
    ASSUME NEW S, NEW q \in Seq(S), q # <<>>
    PROVE  /\ Tail(q) \in Seq(S) /\ Head(q) \in S /\ Head(q) = q[1]
           /\ Len(q) \in Nat /\ Len(q) > 0 /\ Len(Tail(q)) = Len(q) - 1
           /\ \A i \in 1..(Len(q) - 1) : Tail(q)[i] = q[i + 1]
  BY SMT

LEMMA EmptyQueue ==
    ASSUME NEW S
    PROVE  <<>> \in Seq(S) /\ Len(<<>>) = 0
  OBVIOUS

\* The entries a transfer is made of, by their formats and bytes.
LEMMA EntryType ==
    ASSUME NEW format \in {"START", "TX", "RX_STOP"}, NEW byte \in Nat,
           transfer' \in 1..MaxTransfers
    PROVE  /\ Entry(format, byte) \in Entries
           /\ Entry(format, byte).format = format
           /\ Entry(format, byte).byte = byte
           /\ Entry(format, byte).transfer = transfer'
  BY DEF Entry, Entries

----------------------------------------------------------------------------
(* The beginning of a transfer *)

\* What the entries of a transfer look like.
WellFormed(q) ==
    /\ q \in Seq(Entries) /\ q # <<>>
    /\ \A i \in 1..Len(q) :
           /\ q[i].transfer = transfer'
           /\ IsRead(q[i]) <=> i = Len(q)
           /\ IsRead(q[i]) => q[i].byte \in 1..MaxCount

LEMMA ReadEntriesWellFormed ==
    ASSUME NEW a \in Registers, NEW n \in 1..MaxCount, transfer' \in 1..MaxTransfers
    PROVE  WellFormed(ReadEntries(a, n))
<1>1. a \in Nat /\ n \in Nat
  BY I2CAssumption
<1>2. PICK x, y, z : x = Entry("START", 0) /\ y = Entry("TX", a) /\ z = Entry("RX_STOP", n)
  OBVIOUS
<1>3. /\ x \in Entries /\ x.format = "START" /\ x.transfer = transfer'
      /\ y \in Entries /\ y.format = "TX" /\ y.transfer = transfer'
      /\ z \in Entries /\ z.format = "RX_STOP" /\ z.byte = n /\ z.transfer = transfer'
  BY <1>1, <1>2, EntryType
<1>4. ReadEntries(a, n) = <<x, y, z>>
  BY <1>2, Zenon DEF ReadEntries
<1>5. <<x, y, z>> \in Seq(Entries) /\ <<x, y, z>> # <<>> /\ Len(<<x, y, z>>) = 3
  BY <1>3
<1>6. WellFormed(<<x, y, z>>)
  BY <1>3, <1>5 DEF WellFormed, IsRead
<1> QED BY <1>4, <1>6, Zenon

LEMMA WriteEntriesWellFormed ==
    ASSUME NEW a \in Registers, transfer' \in 1..MaxTransfers
    PROVE  WellFormed(WriteEntries(a))
<1>1. a \in Nat /\ 1 \in 1..MaxCount
  BY I2CAssumption
<1>2. PICK x, y, w, z : /\ x = Entry("START", 0) /\ y = Entry("TX", a)
                        /\ w = Entry("TX", 0) /\ z = Entry("RX_STOP", 1)
  OBVIOUS
<1>3. /\ x \in Entries /\ x.format = "START" /\ x.transfer = transfer'
      /\ y \in Entries /\ y.format = "TX" /\ y.transfer = transfer'
      /\ w \in Entries /\ w.format = "TX" /\ w.transfer = transfer'
      /\ z \in Entries /\ z.format = "RX_STOP" /\ z.byte = 1 /\ z.transfer = transfer'
  BY <1>1, <1>2, EntryType
<1>4. WriteEntries(a) = <<x, y, w, z>>
  BY <1>2, Zenon DEF WriteEntries
<1>5. <<x, y, w, z>> \in Seq(Entries) /\ <<x, y, w, z>> # <<>> /\ Len(<<x, y, w, z>>) = 4
  BY <1>3
<1>6. WellFormed(<<x, y, w, z>>)
  BY <1>1, <1>3, <1>5 DEF WellFormed, IsRead
<1> QED BY <1>4, <1>6, Zenon

\* Either operation of the driver begins a transfer.
LEMMA BeginKeeps ==
    ASSUME I2CInv, transfer < MaxTransfers, Begin, request' \in Requests,
           WellFormed(entries'), data' = <<>>, pc' = "format",
           UNCHANGED <<controller, written, whole>>
    PROVE  I2CInv'
<1>1. transfer' = transfer + 1 /\ transfer \in 0..MaxTransfers /\ transfer' \in 1..MaxTransfers
      /\ keptUp' \in BOOLEAN
  BY I2CAssumption DEF I2CInv, I2CTypeOK, Begin
<1>2. UNCHANGED <<fmt, rx, addressed, pointer, fetching, memory, written, whole>>
  BY DEF controller
<1>3. data' \in Seq(Bytes) /\ Len(data') = 0 /\ Len(data') <= MaxCount
  <2>1. data' \in Seq(Bytes) /\ Len(data') = 0
    BY EmptyQueue, Zenon
  <2> QED BY <2>1, I2CAssumption
<1>4. entries' \in Seq(Entries)
  BY DEF WellFormed
<1>5. I2CTypeOK'
  BY <1>1, <1>2, <1>3, <1>4 DEF I2CInv, I2CTypeOK
<1>6. fetching.transfer \in Nat /\ fetching.transfer <= transfer
  BY DEF I2CInv, I2CTypeOK, FormatInv
<1>7. ASSUME NEW i \in 1..Len(fmt), IsRead(fmt[i])
      PROVE  /\ fmt[i].byte \in 1..MaxCount /\ fetching.transfer < fmt[i].transfer
             /\ fmt[i].transfer < transfer' /\ fmt[i].transfer <= transfer'
  <2>1. fmt[i] \in Entries
    BY DEF I2CInv, I2CTypeOK
  <2>2. fmt[i].transfer \in Nat
    BY <2>1 DEF Entries
  <2> QED BY <1>1, <1>7, <2>2 DEF I2CInv, FormatInv
<1>8. FormatInv'
  <2>1. fetching'.transfer <= transfer' /\ fetching'.transfer < transfer' /\ transfer' > 0
    BY <1>1, <1>2, <1>6
  <2>6. fetching'.left > 0 => fetching'.transfer > 0
    BY <1>2 DEF I2CInv, FormatInv
  <2>2. \A i \in 1..Len(fmt') : IsRead(fmt'[i]) =>
            /\ fmt'[i].byte \in 1..MaxCount
            /\ fetching'.transfer < fmt'[i].transfer /\ fmt'[i].transfer <= transfer'
            /\ fmt'[i].transfer < transfer'
    BY <1>2, <1>7
  <2>3. \A i, j \in 1..Len(fmt') :
            i < j /\ IsRead(fmt'[i]) /\ IsRead(fmt'[j]) => fmt'[i].transfer < fmt'[j].transfer
    BY <1>2 DEF I2CInv, FormatInv
  <2>4. /\ entries' # <<>>
        /\ \A i \in 1..Len(entries') :
               /\ entries'[i].transfer = transfer'
               /\ IsRead(entries'[i]) <=> i = Len(entries')
               /\ IsRead(entries'[i]) => entries'[i].byte \in 1..MaxCount
    BY DEF WellFormed
  <2>5. pc' # "drain"
    OBVIOUS
  <2> QED BY <2>1, <2>2, <2>3, <2>4, <2>5, <2>6 DEF FormatInv, IsRead
<1>9. OrderInv'
  BY <1>2, <1>3 DEF I2CInv, OrderInv, Fetched, Before
<1> QED BY <1>5, <1>8, <1>9 DEF I2CInv

----------------------------------------------------------------------------
(* The controller *)

LEMMA ExecuteKeeps == I2CInv /\ Execute => I2CInv'
<1> SUFFICES ASSUME I2CInv, Execute PROVE I2CInv'
  OBVIOUS
<1> DEFINE e == Head(fmt)
<1>1. /\ fetching.left = 0 /\ fmt # <<>> /\ fmt' = Tail(fmt)
      /\ UNCHANGED <<driver, rx>>
  BY DEF Execute
<1>2. UNCHANGED <<pc, request, transfer, entries, data, rx, written, whole, keptUp>>
  BY <1>1 DEF driver
<1>3. /\ fmt \in Seq(Entries) /\ rx \in Seq(Bytes) /\ data \in Seq(Bytes)
      /\ fetching \in [left : 0..MaxCount, transfer : 0..MaxTransfers]
      /\ memory \in [Registers -> 0..MaxTransfers] /\ pointer \in Nat /\ transfer \in Nat
  BY DEF I2CInv, I2CTypeOK
<1>4. /\ Tail(fmt) \in Seq(Entries) /\ e \in Entries /\ e = fmt[1]
      /\ Len(fmt) \in Nat /\ Len(fmt) > 0 /\ Len(Tail(fmt)) = Len(fmt) - 1
      /\ \A i \in 1..(Len(fmt) - 1) : Tail(fmt)[i] = fmt[i + 1]
  BY <1>1, <1>3, QueueTail
<1>5. /\ fmt' \in Seq(Entries) /\ Len(fmt') = Len(fmt) - 1 /\ Len(fmt') <= FmtDepth
      /\ \A i \in 1..(Len(fmt) - 1) : fmt'[i] = fmt[i + 1]
  <2>1. /\ fmt' \in Seq(Entries) /\ Len(fmt') = Len(fmt) - 1
        /\ \A i \in 1..(Len(fmt) - 1) : fmt'[i] = fmt[i + 1]
    BY <1>1, <1>4, Zenon
  <2>2. Len(fmt) <= FmtDepth /\ FmtDepth \in Nat
    BY I2CAssumption DEF I2CInv, I2CTypeOK
  <2> QED BY <1>4, <2>1, <2>2
<1>6. e.byte \in Nat /\ e.transfer \in 1..MaxTransfers
  BY <1>4 DEF Entries
<1> HIDE DEF e
<1>7. ASSUME NEW i \in 1..Len(fmt')
      PROVE  i + 1 \in 1..Len(fmt) /\ fmt'[i] = fmt[i + 1] /\ i \in 1..Len(fmt)
             /\ fmt'[i].transfer \in Nat
  <2>1. i + 1 \in 1..Len(fmt) /\ fmt'[i] = fmt[i + 1] /\ i \in 1..Len(fmt)
    BY <1>4, <1>5
  <2>2. fmt[i + 1] \in Entries
    BY <1>3, <2>1
  <2> QED BY <2>1, <2>2 DEF Entries
\* START and TX leave alone what is being read.
<1>8. ASSUME UNCHANGED fetching, pointer' \in Nat, addressed' \in BOOLEAN,
             memory' \in [Registers -> 0..MaxTransfers]
      PROVE  I2CInv'
  <2>1. I2CTypeOK'
    BY <1>2, <1>5, <1>8 DEF I2CInv, I2CTypeOK
  <2>2. FormatInv'
    <3>1. \A i \in 1..Len(fmt') : IsRead(fmt'[i]) =>
              /\ fmt'[i].byte \in 1..MaxCount
              /\ fetching.transfer < fmt'[i].transfer /\ fmt'[i].transfer <= transfer
              /\ pc = "format" => fmt'[i].transfer < transfer
      BY <1>7 DEF I2CInv, FormatInv
    <3>2. \A i, j \in 1..Len(fmt') :
              i < j /\ IsRead(fmt'[i]) /\ IsRead(fmt'[j]) => fmt'[i].transfer < fmt'[j].transfer
      BY <1>4, <1>5, <1>7 DEF I2CInv, FormatInv
    <3> QED BY <1>2, <1>8, <3>1, <3>2 DEF I2CInv, FormatInv, IsRead
  <2>3. OrderInv'
    BY <1>1, <1>2, <1>8 DEF I2CInv, OrderInv, Fetched, Before
  <2> QED BY <2>1, <2>2, <2>3 DEF I2CInv
<1>9. CASE e.format = "START" /\ addressed' = FALSE /\ UNCHANGED <<pointer, fetching, memory>>
  BY <1>3, <1>8, <1>9
<1>10. CASE e.format = "TX" /\ addressed' = TRUE /\ pointer' = e.byte
            /\ UNCHANGED <<fetching, memory>>
  BY <1>3, <1>6, <1>8, <1>10
<1>11. CASE /\ e.format = "TX"
            /\ memory' = [r \in Registers |-> IF r = pointer THEN e.transfer ELSE memory[r]]
            /\ pointer' = pointer + 1 /\ UNCHANGED <<addressed, fetching>>
  <2>1. memory' \in [Registers -> 0..MaxTransfers]
    BY <1>3, <1>6, <1>11
  <2>2. addressed \in BOOLEAN
    BY DEF I2CInv, I2CTypeOK
  <2> QED BY <1>3, <1>8, <1>11, <2>1, <2>2
\* A read begins: it comes behind every byte there is.
<1>12. CASE /\ e.format = "RX_STOP"
            /\ fetching' = [left |-> e.byte, transfer |-> e.transfer]
            /\ UNCHANGED <<addressed, pointer, memory>>
  <2>1. /\ IsRead(fmt[1]) /\ 1 \in 1..Len(fmt)
        /\ e.byte \in 1..MaxCount /\ fetching.transfer < e.transfer /\ e.transfer <= transfer
        /\ pc = "format" => e.transfer < transfer
    BY <1>4, <1>12 DEF I2CInv, FormatInv, IsRead
  <2>2. fetching'.left = e.byte /\ fetching'.transfer = e.transfer
    BY <1>12
  <2>3. I2CTypeOK'
    <3>1. fetching' \in [left : 0..MaxCount, transfer : 0..MaxTransfers]
      BY <1>6, <1>12, <2>1
    <3> QED BY <1>2, <1>5, <1>12, <3>1 DEF I2CInv, I2CTypeOK
  <2>4. FormatInv'
    <3>1. \A i \in 1..Len(fmt') : IsRead(fmt'[i]) =>
              /\ fmt'[i].byte \in 1..MaxCount
              /\ e.transfer < fmt'[i].transfer /\ fmt'[i].transfer <= transfer
              /\ pc = "format" => fmt'[i].transfer < transfer
      <4> SUFFICES ASSUME NEW i \in 1..Len(fmt'), IsRead(fmt'[i])
                   PROVE  /\ fmt'[i].byte \in 1..MaxCount
                          /\ e.transfer < fmt'[i].transfer /\ fmt'[i].transfer <= transfer
                          /\ pc = "format" => fmt'[i].transfer < transfer
        OBVIOUS
      <4>1. i + 1 \in 1..Len(fmt) /\ fmt'[i] = fmt[i + 1] /\ 1 < i + 1
        BY <1>7
      <4>2. fmt[1].transfer < fmt[i + 1].transfer
        BY <2>1, <4>1 DEF I2CInv, FormatInv
      <4> QED BY <1>4, <4>1, <4>2 DEF I2CInv, FormatInv
    <3>2. \A i, j \in 1..Len(fmt') :
              i < j /\ IsRead(fmt'[i]) /\ IsRead(fmt'[j]) => fmt'[i].transfer < fmt'[j].transfer
      BY <1>4, <1>5, <1>7 DEF I2CInv, FormatInv
    <3>3. fetching'.transfer > 0 /\ fetching'.transfer <= transfer'
      BY <1>2, <1>6, <2>1, <2>2
    <3>4. pc' = "format" =>
              /\ entries' # <<>> /\ transfer' > 0
              /\ \A i \in 1..Len(entries') :
                     /\ entries'[i].transfer = transfer'
                     /\ IsRead(entries'[i]) <=> i = Len(entries')
                     /\ IsRead(entries'[i]) => entries'[i].byte \in 1..MaxCount
      BY <1>2 DEF I2CInv, FormatInv
    <3>5. /\ pc' = "format" => fetching'.transfer < transfer'
          /\ pc' = "drain" => ~request'.write
      BY <1>2, <2>1, <2>2 DEF I2CInv, FormatInv
    <3> QED BY <1>2, <2>2, <3>1, <3>2, <3>3, <3>4, <3>5 DEF FormatInv, IsRead
  <2>5. OrderInv'
    <3>1. ASSUME NEW b \in Bytes, Fetched(b) PROVE Fetched(b)'
      BY <1>3, <1>6, <2>1, <2>2, <3>1 DEF Fetched, Bytes
    <3>2. (\A i \in 1..Len(data) : data[i] \in Bytes) /\ \A i \in 1..Len(rx) : rx[i] \in Bytes
      BY <1>3
    <3>3. (\A i \in 1..Len(data) : Fetched(data[i])') /\ \A i \in 1..Len(rx) : Fetched(rx[i])'
      BY <1>2, <3>1, <3>2 DEF I2CInv, OrderInv
    <3> QED BY <1>2, <3>3 DEF I2CInv, OrderInv, Before, Fetched
  <2> QED BY <2>3, <2>4, <2>5 DEF I2CInv
<1> QED BY <1>9, <1>10, <1>11, <1>12 DEF Execute, e

LEMMA FetchKeeps == I2CInv /\ Fetch => I2CInv'
<1> SUFFICES ASSUME I2CInv, Fetch PROVE I2CInv'
  OBVIOUS
<1> DEFINE b == [register |-> pointer, transfer |-> fetching.transfer]
           FetchedNow(x) == /\ x.transfer <= fetching'.transfer
                            /\ x.transfer = fetching'.transfer /\ fetching'.left > 0
                                   => x.register < pointer'
<1>1. /\ fetching.left > 0 /\ fetching' = [fetching EXCEPT !.left = fetching.left - 1]
      /\ pointer' = pointer + 1
      /\ UNCHANGED <<pc, request, transfer, entries, data, written, whole, keptUp, fmt,
                     addressed, memory>>
  BY DEF Fetch, driver
<1>2. /\ rx \in Seq(Bytes) /\ Len(rx) <= RxDepth /\ data \in Seq(Bytes)
      /\ fetching \in [left : 0..MaxCount, transfer : 0..MaxTransfers]
      /\ pointer \in Nat /\ RxDepth \in Nat /\ MaxCount \in Nat
  BY I2CAssumption DEF I2CInv, I2CTypeOK
<1>3. fetching'.left = fetching.left - 1 /\ fetching'.transfer = fetching.transfer
      /\ fetching' \in [left : 0..MaxCount, transfer : 0..MaxTransfers]
  <2>1. fetching.left \in 0..MaxCount /\ fetching.transfer \in 0..MaxTransfers
    BY <1>2
  <2>2. fetching' = [left |-> fetching.left - 1, transfer |-> fetching.transfer]
    BY <1>1, <1>2
  <2>3. fetching.left - 1 \in 0..MaxCount
    BY <1>1, <1>2, <2>1
  <2> QED BY <2>1, <2>2, <2>3
<1>4. ASSUME NEW x \in Bytes, Fetched(x)
      PROVE  FetchedNow(x) /\ Before(x, b)
  BY <1>1, <1>2, <1>3, <1>4 DEF Fetched, Before, Bytes
<1>5. (\A i \in 1..Len(data) : data[i] \in Bytes) /\ \A i \in 1..Len(rx) : rx[i] \in Bytes
  BY <1>2
<1>6. (\A i \in 1..Len(data) : FetchedNow(data[i]) /\ Before(data[i], b))
      /\ \A i \in 1..Len(rx) : FetchedNow(rx[i]) /\ Before(rx[i], b)
  <2> HIDE DEF FetchedNow, b
  <2> QED BY <1>4, <1>5 DEF I2CInv, OrderInv
<1>7. FormatInv'
  BY <1>1, <1>2, <1>3 DEF I2CInv, FormatInv, IsRead
<1>8. CASE rx' = rx
  <2>1. I2CTypeOK'
    BY <1>1, <1>2, <1>3, <1>8 DEF I2CInv, I2CTypeOK
  <2>2. OrderInv'
    BY <1>1, <1>6, <1>8 DEF I2CInv, OrderInv, Before, Fetched
  <2> QED BY <1>7, <2>1, <2>2 DEF I2CInv
<1>9. CASE Len(rx) # RxDepth /\ rx' = Append(rx, b)
  <2>1. b \in Bytes
    <3>1. fetching.transfer \in 1..MaxTransfers
      BY <1>1, <1>2 DEF I2CInv, FormatInv
    <3> QED BY <1>2, <3>1 DEF Bytes
  <2>2. FetchedNow(b)
    BY <1>1, <1>2, <1>3
  <2> HIDE DEF b, FetchedNow
  <2>3. /\ rx' \in Seq(Bytes) /\ Len(rx) \in Nat /\ Len(rx') = Len(rx) + 1
        /\ \A i \in 1..Len(rx) : rx'[i] = rx[i]
        /\ rx'[Len(rx) + 1] = b
    <3>1. /\ Append(rx, b) \in Seq(Bytes)
          /\ Len(rx) \in Nat /\ Len(Append(rx, b)) = Len(rx) + 1
          /\ \A i \in 1..Len(rx) : Append(rx, b)[i] = rx[i]
          /\ Append(rx, b)[Len(rx) + 1] = b
      BY <1>2, <2>1, QueueAppend
    <3> QED BY <1>9, <3>1, Zenon
  <2>4. I2CTypeOK'
    <3>1. Len(rx') <= RxDepth
      BY <1>2, <1>9, <2>3
    <3>2. pointer' \in Nat
      BY <1>1, <1>2
    <3> QED BY <1>1, <1>3, <2>3, <3>1, <3>2 DEF I2CInv, I2CTypeOK
  <2>5. OrderInv'
    <3>1. \A i \in 1..Len(rx') : FetchedNow(rx'[i])
      BY <1>6, <2>2, <2>3
    <3>2. \A i \in 1..Len(data) : FetchedNow(data[i])
      BY <1>6
    <3>3. \A i, j \in 1..Len(rx') : i < j => Before(rx'[i], rx'[j])
      <4> SUFFICES ASSUME NEW i \in 1..Len(rx'), NEW j \in 1..Len(rx'), i < j
                   PROVE  Before(rx'[i], rx'[j])
        OBVIOUS
      <4>1. i \in 1..Len(rx) /\ rx'[i] = rx[i]
        BY <2>3
      <4>2. CASE j \in 1..Len(rx)
        BY <2>3, <4>1, <4>2 DEF I2CInv, OrderInv
      <4>3. CASE j = Len(rx) + 1
        BY <1>6, <2>3, <4>1, <4>3
      <4> QED BY <2>3, <4>2, <4>3
    <3>4. \A i \in 1..Len(data), j \in 1..Len(rx') : Before(data[i], rx'[j])
      <4> SUFFICES ASSUME NEW i \in 1..Len(data), NEW j \in 1..Len(rx')
                   PROVE  Before(data[i], rx'[j])
        OBVIOUS
      <4>2. CASE j \in 1..Len(rx)
        BY <2>3, <4>2 DEF I2CInv, OrderInv
      <4>3. CASE j = Len(rx) + 1
        BY <1>6, <2>3, <4>3
      <4> QED BY <2>3, <4>2, <4>3
    <3> QED BY <1>1, <3>1, <3>2, <3>3, <3>4 DEF I2CInv, OrderInv, Fetched, FetchedNow, Before
  <2> QED BY <1>7, <2>4, <2>5 DEF I2CInv
<1> QED BY <1>8, <1>9 DEF Fetch, b

----------------------------------------------------------------------------
(* The driver *)

\* An entry is stored behind the others or lost.
LEMMA PutStep ==
    ASSUME I2CInv, Put, Head(entries) \in Entries, NEW e, e = Head(entries),
           transfer \in 1..MaxTransfers
    PROVE  /\ fmt' \in Seq(Entries) /\ Len(fmt) \in Nat /\ Len(fmt') <= FmtDepth
           /\ \A i \in 1..Len(fmt) : fmt'[i] = fmt[i]
           /\ Len(fmt) < FmtDepth =>
                  /\ Len(fmt') = Len(fmt) + 1 /\ fmt'[Len(fmt) + 1] = e
                  /\ whole' = whole
           /\ ~(Len(fmt) < FmtDepth) => fmt' = fmt /\ whole' = transfer + 1
           /\ whole' \in 0..(MaxTransfers + 1)
<1>1. /\ fmt \in Seq(Entries) /\ FmtDepth \in Nat /\ MaxTransfers \in Nat
      /\ Len(fmt) <= FmtDepth /\ whole \in 0..(MaxTransfers + 1)
  BY I2CAssumption DEF I2CInv, I2CTypeOK
<1>2. /\ Append(fmt, e) \in Seq(Entries) /\ Len(fmt) \in Nat
      /\ Len(Append(fmt, e)) = Len(fmt) + 1
      /\ \A i \in 1..Len(fmt) : Append(fmt, e)[i] = fmt[i]
      /\ Append(fmt, e)[Len(fmt) + 1] = e
  BY <1>1, QueueAppend
<1>3. CASE Len(fmt) < FmtDepth
  <2>1. fmt' = Append(fmt, e) /\ whole' = whole
    BY <1>3 DEF Put
  <2>2. /\ fmt' \in Seq(Entries) /\ Len(fmt') = Len(fmt) + 1
        /\ \A i \in 1..Len(fmt) : fmt'[i] = fmt[i]
        /\ fmt'[Len(fmt) + 1] = e
    BY <1>2, <2>1, Zenon
  <2> QED BY <1>1, <1>2, <1>3, <2>1, <2>2
<1>4. CASE ~(Len(fmt) < FmtDepth)
  <2>1. fmt' = fmt /\ whole' = transfer + 1
    BY <1>4 DEF Put
  <2> QED BY <1>1, <1>2, <1>4, <2>1
<1> QED BY <1>3, <1>4

LEMMA WriteByteKeeps == I2CInv /\ i2c_write_byte => I2CInv'
<1> SUFFICES ASSUME I2CInv, i2c_write_byte PROVE I2CInv'
  OBVIOUS
<1> DEFINE e == Head(entries)
<1>1. /\ pc = "format" /\ Put /\ entries' = Tail(entries)
      /\ pc' = IF entries' # <<>> THEN "format" ELSE IF request.write THEN "idle" ELSE "drain"
      /\ written' = IF pc' = "idle" THEN [written EXCEPT ![request.address] = transfer]
                    ELSE written
      /\ UNCHANGED <<request, transfer, data, rx, addressed, pointer, fetching, memory>>
  BY DEF i2c_write_byte
<1>2. /\ fmt \in Seq(Entries) /\ entries \in Seq(Entries) /\ entries # <<>>
      /\ transfer \in 1..MaxTransfers /\ request \in Requests
      /\ written \in [Registers -> 0..MaxTransfers]
      /\ fetching \in [left : 0..MaxCount, transfer : 0..MaxTransfers]
  BY <1>1, I2CAssumption DEF I2CInv, I2CTypeOK, FormatInv
<1>3. /\ e \in Entries /\ e = entries[1]
      /\ entries' \in Seq(Entries) /\ Len(entries) \in Nat /\ Len(entries) > 0
      /\ Len(entries') = Len(entries) - 1
      /\ \A i \in 1..(Len(entries) - 1) : entries'[i] = entries[i + 1]
  <2>1. /\ Tail(entries) \in Seq(Entries) /\ e \in Entries /\ e = entries[1]
        /\ Len(entries) \in Nat /\ Len(entries) > 0 /\ Len(Tail(entries)) = Len(entries) - 1
        /\ \A i \in 1..(Len(entries) - 1) : Tail(entries)[i] = entries[i + 1]
    BY <1>2, QueueTail
  <2> QED BY <1>1, <2>1, Zenon
<1>4. /\ fmt' \in Seq(Entries) /\ Len(fmt) \in Nat /\ Len(fmt') <= FmtDepth
      /\ \A i \in 1..Len(fmt) : fmt'[i] = fmt[i]
      /\ \/ Len(fmt') = Len(fmt) + 1 /\ fmt'[Len(fmt) + 1] = e
         \/ Len(fmt') = Len(fmt)
      /\ whole' \in 0..(MaxTransfers + 1)
  <2>1. PICK x : x = e
    OBVIOUS
  <2>2. x = Head(entries) /\ Head(entries) \in Entries
    BY <1>3, <2>1
  <2> HIDE DEF e
  <2> QED BY <1>1, <1>2, <2>1, <2>2, PutStep
<1> HIDE DEF e
\* Only the last entry is a read.
<1>5. /\ e.transfer = transfer
      /\ IsRead(e) <=> Len(entries) = 1
      /\ IsRead(e) => e.byte \in 1..MaxCount
  <2>1. 1 \in 1..Len(entries)
    BY <1>3
  <2> QED BY <1>1, <1>3, <2>1, Zenon DEF I2CInv, FormatInv
<1>6. /\ fetching.transfer \in Nat /\ fetching.transfer < transfer
      /\ fetching.left > 0 => fetching.transfer > 0
  BY <1>1, <1>2 DEF I2CInv, FormatInv
<1>7. ASSUME Len(fmt) + 1 \in 1..Len(fmt')
      PROVE  /\ IsRead(fmt'[Len(fmt) + 1]) <=> Len(entries) = 1
             /\ IsRead(fmt'[Len(fmt) + 1]) => fmt'[Len(fmt) + 1].byte \in 1..MaxCount
             /\ fmt'[Len(fmt) + 1].transfer = transfer
  <2>1. fmt'[Len(fmt) + 1] = e
    BY <1>4, <1>7
  <2> QED BY <1>5, <2>1, Zenon
<1>8. \A i \in 1..Len(fmt) : IsRead(fmt'[i]) =>
          /\ fmt'[i].byte \in 1..MaxCount
          /\ fetching.transfer < fmt'[i].transfer /\ fmt'[i].transfer < transfer
  BY <1>1, <1>4 DEF I2CInv, FormatInv
<1>9. \A i \in 1..Len(fmt) : fmt'[i].transfer \in Nat
  <2>1. \A i \in 1..Len(fmt) : fmt'[i] \in Entries
    BY <1>2, <1>4
  <2> QED BY <2>1 DEF Entries
<1>10. I2CTypeOK'
  <2>1. written' \in [Registers -> 0..MaxTransfers]
    <3>1. [written EXCEPT ![request.address] = transfer] \in [Registers -> 0..MaxTransfers]
      <4>1. transfer \in 0..MaxTransfers
        BY <1>2, I2CAssumption
      <4> QED BY <1>2, <4>1
    <3> QED BY <1>1, <1>2, <3>1, Zenon
  <2>2. keptUp' \in BOOLEAN
    BY DEF i2c_write_byte, Access, I2CInv, I2CTypeOK
  <2>3. pc' \in {"idle", "format", "drain"}
    BY <1>1
  <2> QED BY <1>1, <1>3, <1>4, <2>1, <2>2, <2>3 DEF I2CInv, I2CTypeOK
<1>11. FormatInv'
  <2>1. /\ fetching'.transfer <= transfer' /\ fetching'.transfer < transfer'
        /\ fetching'.left > 0 => fetching'.transfer > 0
        /\ transfer' > 0
    BY <1>1, <1>2, <1>6
  <2>2. \A i \in 1..Len(fmt') : IsRead(fmt'[i]) =>
            /\ fmt'[i].byte \in 1..MaxCount
            /\ fetching'.transfer < fmt'[i].transfer /\ fmt'[i].transfer <= transfer'
    <3> SUFFICES ASSUME NEW i \in 1..Len(fmt'), IsRead(fmt'[i])
                 PROVE  /\ fmt'[i].byte \in 1..MaxCount
                        /\ fetching'.transfer < fmt'[i].transfer /\ fmt'[i].transfer <= transfer'
      OBVIOUS
    <3>1. CASE i \in 1..Len(fmt)
      BY <1>1, <1>2, <1>8, <1>9, <3>1
    <3>2. CASE i = Len(fmt) + 1
      BY <1>1, <1>2, <1>6, <1>7, <3>2
    <3> QED BY <1>4, <3>1, <3>2
  <2>3. \A i, j \in 1..Len(fmt') :
            i < j /\ IsRead(fmt'[i]) /\ IsRead(fmt'[j]) => fmt'[i].transfer < fmt'[j].transfer
    <3> SUFFICES ASSUME NEW i \in 1..Len(fmt'), NEW j \in 1..Len(fmt'),
                        i < j, IsRead(fmt'[i]), IsRead(fmt'[j])
                 PROVE  fmt'[i].transfer < fmt'[j].transfer
      OBVIOUS
    <3>1. i \in 1..Len(fmt)
      BY <1>4
    <3>2. CASE j \in 1..Len(fmt)
      BY <1>4, <3>1, <3>2 DEF I2CInv, FormatInv
    <3>3. CASE j = Len(fmt) + 1
      BY <1>7, <1>8, <3>1, <3>3
    <3> QED BY <1>4, <3>2, <3>3
  <2>4. pc' = "format" =>
            /\ entries' # <<>>
            /\ \A i \in 1..Len(entries') :
                   /\ entries'[i].transfer = transfer'
                   /\ IsRead(entries'[i]) <=> i = Len(entries')
                   /\ IsRead(entries'[i]) => entries'[i].byte \in 1..MaxCount
    <3>1. pc' = "format" => entries' # <<>>
      BY <1>1
    <3>2. ASSUME NEW i \in 1..Len(entries')
          PROVE  /\ entries'[i].transfer = transfer'
                 /\ IsRead(entries'[i]) <=> i = Len(entries')
                 /\ IsRead(entries'[i]) => entries'[i].byte \in 1..MaxCount
      <4>1. /\ entries'[i] = entries[i + 1] /\ i + 1 \in 1..Len(entries)
            /\ i + 1 = Len(entries) <=> i = Len(entries')
        BY <1>3
      <4>2. /\ entries[i + 1].transfer = transfer
            /\ IsRead(entries[i + 1]) <=> i + 1 = Len(entries)
            /\ IsRead(entries[i + 1]) => entries[i + 1].byte \in 1..MaxCount
        BY <1>1, <4>1 DEF I2CInv, FormatInv
      <4> QED BY <1>1, <4>1, <4>2, Zenon
    <3> QED BY <3>1, <3>2
  <2>5. pc' = "format" => \A i \in 1..Len(fmt') : IsRead(fmt'[i]) => fmt'[i].transfer < transfer'
    <3> SUFFICES ASSUME pc' = "format", NEW i \in 1..Len(fmt'), IsRead(fmt'[i])
                 PROVE  fmt'[i].transfer < transfer'
      OBVIOUS
    <3>1. Len(entries) # 1
      <4>1. entries' # <<>>
        BY <1>1
      <4>2. Len(entries') # 0
        BY <1>3, <4>1
      <4> QED BY <1>3, <4>2
    <3>2. i \in 1..Len(fmt)
      BY <1>4, <1>7, <3>1
    <3> QED BY <1>1, <1>8, <3>2
  <2>6. pc' = "drain" => ~request'.write
    BY <1>1
  <2> QED BY <2>1, <2>2, <2>3, <2>4, <2>5, <2>6 DEF FormatInv, IsRead
<1>12. OrderInv'
  BY <1>1 DEF I2CInv, OrderInv, Fetched, Before
<1> QED BY <1>10, <1>11, <1>12 DEF I2CInv

\* Steps that leave what is being formatted and read alone.
LEMMA FormatKept ==
    ASSUME FormatInv, UNCHANGED <<request, transfer, entries, fmt, fetching>>,
           pc' \in {"idle", "drain"}, pc' = "drain" => pc = "drain"
    PROVE  FormatInv'
  BY DEF FormatInv, IsRead

LEMMA ReadByteKeeps == I2CInv /\ i2c_read_byte => I2CInv'
<1> SUFFICES ASSUME I2CInv, i2c_read_byte PROVE I2CInv'
  OBVIOUS
<1> DEFINE b == Head(rx)
<1>1. /\ pc = "drain" /\ rx # <<>> /\ Len(data) < request.count
      /\ data' = Append(data, b) /\ rx' = Tail(rx)
      /\ UNCHANGED <<pc, request, transfer, entries, fmt, addressed, pointer, fetching,
                     memory, written, whole>>
  BY DEF i2c_read_byte
<1>2. /\ rx \in Seq(Bytes) /\ data \in Seq(Bytes) /\ request \in Requests
      /\ Len(rx) <= RxDepth /\ RxDepth \in Nat /\ MaxCount \in Nat
  BY I2CAssumption DEF I2CInv, I2CTypeOK
<1>3. /\ b \in Bytes /\ b = rx[1] /\ rx' \in Seq(Bytes)
      /\ Len(rx) \in Nat /\ Len(rx) > 0 /\ Len(rx') = Len(rx) - 1
      /\ \A i \in 1..(Len(rx) - 1) : rx'[i] = rx[i + 1]
  <2>1. /\ Tail(rx) \in Seq(Bytes) /\ b \in Bytes /\ b = rx[1]
        /\ Len(rx) \in Nat /\ Len(rx) > 0 /\ Len(Tail(rx)) = Len(rx) - 1
        /\ \A i \in 1..(Len(rx) - 1) : Tail(rx)[i] = rx[i + 1]
    BY <1>1, <1>2, QueueTail
  <2> QED BY <1>1, <2>1, Zenon
<1>4. /\ data' \in Seq(Bytes) /\ Len(data) \in Nat /\ Len(data') = Len(data) + 1
      /\ \A i \in 1..Len(data) : data'[i] = data[i]
      /\ data'[Len(data) + 1] = b
  <2>1. /\ Append(data, b) \in Seq(Bytes) /\ Len(data) \in Nat
        /\ Len(Append(data, b)) = Len(data) + 1
        /\ \A i \in 1..Len(data) : Append(data, b)[i] = data[i]
        /\ Append(data, b)[Len(data) + 1] = b
    BY <1>2, <1>3, QueueAppend
  <2> HIDE DEF b
  <2> QED BY <1>1, <2>1, Zenon
<1> HIDE DEF b
<1>5. ASSUME NEW i \in 1..Len(rx')
      PROVE  i + 1 \in 1..Len(rx) /\ rx'[i] = rx[i + 1] /\ 1 < i + 1
  BY <1>3
<1>6. 1 \in 1..Len(rx)
  BY <1>3
<1>7. I2CTypeOK'
  <2>1. Len(data') <= MaxCount
    <3>1. request.count \in 1..MaxCount
      BY <1>2 DEF Requests
    <3> QED BY <1>1, <1>2, <1>4, <3>1
  <2>2. Len(rx') <= RxDepth
    BY <1>2, <1>3
  <2>3. keptUp' \in BOOLEAN
    BY DEF i2c_read_byte, Access, I2CInv, I2CTypeOK
  <2> QED BY <1>1, <1>3, <1>4, <2>1, <2>2, <2>3 DEF I2CInv, I2CTypeOK
<1>8. FormatInv'
  BY <1>1, FormatKept DEF I2CInv
<1>9. OrderInv'
  <2>1. \A i, j \in 1..Len(data') : i < j => Before(data'[i], data'[j])
    <3> SUFFICES ASSUME NEW i \in 1..Len(data'), NEW j \in 1..Len(data'), i < j
                 PROVE  Before(data'[i], data'[j])
      OBVIOUS
    <3>1. i \in 1..Len(data) /\ data'[i] = data[i]
      BY <1>4
    <3>2. CASE j \in 1..Len(data)
      BY <1>4, <3>1, <3>2 DEF I2CInv, OrderInv
    <3>3. CASE j = Len(data) + 1
      <4>1. Before(data[i], rx[1])
        BY <1>6, <3>1 DEF I2CInv, OrderInv
      <4> QED BY <1>3, <1>4, <3>1, <3>3, <4>1
    <3> QED BY <1>4, <3>2, <3>3
  <2>2. \A i, j \in 1..Len(rx') : i < j => Before(rx'[i], rx'[j])
    <3> SUFFICES ASSUME NEW i \in 1..Len(rx'), NEW j \in 1..Len(rx'), i < j
                 PROVE  Before(rx'[i], rx'[j])
      OBVIOUS
    <3>1. i + 1 \in 1..Len(rx) /\ rx'[i] = rx[i + 1] /\ j + 1 \in 1..Len(rx) /\ rx'[j] = rx[j + 1]
          /\ i + 1 < j + 1
      BY <1>5
    <3> QED BY <3>1 DEF I2CInv, OrderInv
  <2>3. \A i \in 1..Len(data'), j \in 1..Len(rx') : Before(data'[i], rx'[j])
    <3> SUFFICES ASSUME NEW i \in 1..Len(data'), NEW j \in 1..Len(rx')
                 PROVE  Before(data'[i], rx'[j])
      OBVIOUS
    <3>1. CASE i \in 1..Len(data)
      BY <1>4, <1>5, <3>1 DEF I2CInv, OrderInv
    <3>2. CASE i = Len(data) + 1
      <4>1. Before(rx[1], rx[j + 1])
        BY <1>5, <1>6 DEF I2CInv, OrderInv
      <4> QED BY <1>3, <1>4, <1>5, <3>2, <4>1
    <3> QED BY <1>4, <3>1, <3>2
  <2>4. \A i \in 1..Len(data') : Fetched(data'[i])
    <3> SUFFICES ASSUME NEW i \in 1..Len(data') PROVE Fetched(data'[i])
      OBVIOUS
    <3>1. CASE i \in 1..Len(data)
      BY <1>4, <3>1 DEF I2CInv, OrderInv
    <3>2. CASE i = Len(data) + 1
      <4>1. Fetched(rx[1])
        BY <1>6 DEF I2CInv, OrderInv
      <4> QED BY <1>3, <1>4, <3>2, <4>1
    <3> QED BY <1>4, <3>1, <3>2
  <2>5. \A i \in 1..Len(rx') : Fetched(rx'[i])
    BY <1>5 DEF I2CInv, OrderInv
  <2> QED BY <1>1, <2>1, <2>2, <2>3, <2>4, <2>5 DEF OrderInv, Fetched, Before
<1> QED BY <1>7, <1>8, <1>9 DEF I2CInv

LEMMA ReturnKeeps == I2CInv /\ ReturnData => I2CInv'
<1> SUFFICES ASSUME I2CInv, ReturnData PROVE I2CInv'
  OBVIOUS
<1>1. /\ pc' = "idle" /\ keptUp' \in BOOLEAN
      /\ UNCHANGED <<request, transfer, entries, data, fmt, rx, addressed, pointer,
                     fetching, memory, written, whole>>
  BY DEF ReturnData, Access, controller, I2CInv, I2CTypeOK
<1>2. I2CTypeOK'
  BY <1>1 DEF I2CInv, I2CTypeOK
<1>3. FormatInv'
  BY <1>1, FormatKept DEF I2CInv
<1>4. OrderInv'
  BY <1>1 DEF I2CInv, OrderInv, Fetched, Before
<1> QED BY <1>2, <1>3, <1>4 DEF I2CInv

LEMMA ReadBegins ==
    ASSUME NEW a \in Registers, NEW n \in 1..MaxCount,
           I2CInv, i2c_read_target_registers(a, n)
    PROVE  I2CInv'
<1>1. transfer < MaxTransfers /\ Begin /\ data' = <<>> /\ pc' = "format"
      /\ entries' = ReadEntries(a, n) /\ UNCHANGED <<controller, written, whole>>
  BY DEF i2c_read_target_registers
<1>2. transfer' \in 1..MaxTransfers
  BY <1>1, I2CAssumption DEF Begin, I2CInv, I2CTypeOK
<1>3. request' \in Requests
  BY DEF i2c_read_target_registers, Requests
<1>4. WellFormed(entries')
  BY <1>1, <1>2, ReadEntriesWellFormed, Zenon
<1> QED BY <1>1, <1>3, <1>4, BeginKeeps, Zenon

LEMMA WriteBegins ==
    ASSUME NEW a \in Registers, I2CInv, i2c_write_target_register(a)
    PROVE  I2CInv'
<1>1. transfer < MaxTransfers /\ Begin /\ data' = <<>> /\ pc' = "format"
      /\ entries' = WriteEntries(a) /\ UNCHANGED <<controller, written, whole>>
  BY DEF i2c_write_target_register
<1>2. transfer' \in 1..MaxTransfers
  BY <1>1, I2CAssumption DEF Begin, I2CInv, I2CTypeOK
<1>3. request' \in Requests
  BY I2CAssumption DEF i2c_write_target_register, Requests
<1>4. WellFormed(entries')
  BY <1>1, <1>2, WriteEntriesWellFormed, Zenon
<1> QED BY <1>1, <1>3, <1>4, BeginKeeps, Zenon

----------------------------------------------------------------------------
(* The accelerometer *)

LEMMA I2CStutters == I2CInv /\ UNCHANGED vars => I2CInv'
<1> SUFFICES ASSUME I2CInv, UNCHANGED vars PROVE I2CInv'
  OBVIOUS
<1>1. UNCHANGED <<pc, request, transfer, entries, data, fmt, rx, addressed, pointer,
                  fetching, memory, written, whole, keptUp>>
  BY DEF vars
<1>2. I2CTypeOK'
  BY <1>1 DEF I2CInv, I2CTypeOK
<1>3. FormatInv'
  BY <1>1 DEF I2CInv, FormatInv, IsRead
<1>4. OrderInv'
  BY <1>1 DEF I2CInv, OrderInv, Fetched, Before
<1> QED BY <1>2, <1>3, <1>4 DEF I2CInv

LEMMA I2CStarts == Init => I2CInv
<1> SUFFICES ASSUME Init PROVE I2CInv
  OBVIOUS
<1>1. /\ entries \in Seq(Entries) /\ data \in Seq(Bytes) /\ fmt \in Seq(Entries)
      /\ rx \in Seq(Bytes) /\ Len(data) = 0 /\ Len(fmt) = 0 /\ Len(rx) = 0
  <2>1. entries = <<>> /\ data = <<>> /\ fmt = <<>> /\ rx = <<>>
    BY DEF Init
  <2> QED BY <2>1, EmptyQueue, Zenon
<1>2. request \in Requests
  BY I2CAssumption DEF Init, Requests
<1>3. /\ memory \in [Registers -> 0..MaxTransfers] /\ written \in [Registers -> 0..MaxTransfers]
      /\ whole \in 0..(MaxTransfers + 1)
      /\ fetching \in [left : 0..MaxCount, transfer : 0..MaxTransfers]
  BY I2CAssumption DEF Init
<1>4. /\ pc = "idle" /\ transfer = 0 /\ addressed = FALSE /\ pointer = 0 /\ keptUp = TRUE
      /\ fetching.left = 0 /\ fetching.transfer = 0
  BY DEF Init
<1>5. MaxCount \in Nat /\ RxDepth \in Nat /\ FmtDepth \in Nat /\ MaxTransfers \in Nat
  BY I2CAssumption
<1>6. I2CTypeOK
  <2>1. /\ Len(data) <= MaxCount /\ Len(rx) <= RxDepth /\ Len(fmt) <= FmtDepth
        /\ transfer \in 0..MaxTransfers
    BY <1>1, <1>4, <1>5
  <2>2. pc \in {"idle", "format", "drain"} /\ pointer \in Nat
        /\ addressed \in BOOLEAN /\ keptUp \in BOOLEAN
    BY <1>4
  <2> QED BY <1>1, <1>2, <1>3, <2>1, <2>2, Zenon DEF I2CTypeOK
<1>7. FormatInv
  BY <1>1, <1>4 DEF FormatInv
<1>8. OrderInv
  BY <1>1, <1>4 DEF OrderInv
<1> QED BY <1>6, <1>7, <1>8 DEF I2CInv

\* Every step of the sensor is one of the driver or the controller, or none.
LEMMA StepKeeps == I2CInv /\ Step => I2CInv'
<1> SUFFICES ASSUME I2CInv, Step PROVE I2CInv'
  OBVIOUS
<1>1. CASE sensor_get_device_id
  <2>1. 0 \in Registers /\ 1 \in 1..MaxCount
    BY I2CAssumption, Adxl345Assumption
  <2> QED BY <1>1, <2>1, ReadBegins DEF sensor_get_device_id
<1>2. CASE sensor_init
  BY <1>2, I2CStutters DEF sensor_init, vars
<1>3. CASE adxl345_read_data
  BY <1>3, Adxl345Assumption, ReadBegins DEF adxl345_read_data
<1>4. CASE ReturnSample
  BY <1>4, I2CStutters DEF ReturnSample
<1>5. CASE Other
  BY <1>5, ReadBegins, WriteBegins DEF Other
<1>6. CASE Driver
  BY <1>6, WriteByteKeeps, ReadByteKeeps, ReturnKeeps DEF Driver
<1>7. CASE Controller
  BY <1>7, ExecuteKeeps, FetchKeeps DEF Controller
<1> QED BY <1>1, <1>2, <1>3, <1>4, <1>5, <1>6, <1>7 DEF Step

AccelInv == I2CInv /\ Adxl345TypeOK /\ SampleInOrder

\* A new sample holds what the driver returned, in its order, from the front.
LEMMA SampleStep ==
    ASSUME AccelInv, Step
    PROVE  /\ client' \in {"off", "identify", "ready", "sampling", "failed"}
           /\ sample' = <<>> \/ sample' \in [1..DataSize -> Bytes \union {Uninitialised}]
           /\ SampleInOrder'
<1>1. CASE UNCHANGED sample /\ client' \in {"off", "identify", "ready", "sampling", "failed"}
  BY <1>1 DEF AccelInv, Adxl345TypeOK, SampleInOrder
<1>2. CASE ReturnSample
  <2>1. /\ sample' = [i \in 1..DataSize |-> IF i <= Len(data) THEN data[i] ELSE Uninitialised]
        /\ client' = "ready"
    BY <1>2 DEF ReturnSample
  <2>2. /\ data \in Seq(Bytes) /\ Len(data) \in Nat /\ DataSize \in Nat
        /\ \A i, j \in 1..Len(data) : i < j => Before(data[i], data[j])
    <3>1. data \in Seq(Bytes) /\ Len(data) \in Nat
      BY DEF AccelInv, I2CInv, I2CTypeOK
    <3>2. DataSize \in Nat
      BY I2CAssumption, Adxl345Assumption
    <3> QED BY <3>1, <3>2, Zenon DEF AccelInv, I2CInv, OrderInv
  <2>3. ASSUME NEW i \in 1..DataSize
        PROVE  /\ i <= Len(data) => sample'[i] = data[i] /\ data[i] \in Bytes
               /\ ~(i <= Len(data)) => sample'[i] = Uninitialised
    BY <2>1, <2>2
  <2>4. sample' \in [1..DataSize -> Bytes \union {Uninitialised}]
    BY <2>1, <2>2
  <2>5. SampleInOrder'
    <3> SUFFICES ASSUME NEW i \in 1..DataSize, NEW j \in 1..DataSize,
                        i < j, sample'[j] # Uninitialised
                 PROVE  /\ sample'[i] # Uninitialised
                        /\ Before(sample'[i], sample'[j])
      <4>1. DOMAIN sample' = 1..DataSize
        BY <2>1
      <4> QED BY <4>1 DEF SampleInOrder, Before
    <3>1. j <= Len(data) /\ i <= Len(data)
      BY <2>2, <2>3
    <3>2. Before(data[i], data[j])
      BY <2>2, <3>1
    <3>3. sample'[i] = data[i] /\ data[i] \in Bytes /\ sample'[j] = data[j]
      BY <2>3, <3>1
    <3>4. sample'[i] # Uninitialised
      BY <3>3, Adxl345Assumption
    <3> QED BY <3>2, <3>3, <3>4, Zenon
  <2> QED BY <2>1, <2>4, <2>5
<1> QED
  <2>1. client \in {"off", "identify", "ready", "sampling", "failed"}
    BY DEF AccelInv, Adxl345TypeOK
  <2> QED BY <1>1, <1>2, <2>1 DEF Step, sensor_get_device_id, sensor_init,
             adxl345_read_data, Other

LEMMA AccelInductive ==
    /\ AccelInit => AccelInv
    /\ AccelInv /\ [AccelNext]_accelVars => AccelInv'
<1>1. ASSUME AccelInit PROVE AccelInv
  <2>1. I2CInv
    BY <1>1, I2CStarts DEF AccelInit
  <2>2. Adxl345TypeOK
    BY <1>1, <2>1 DEF AccelInit, Adxl345TypeOK, I2CInv
  <2>3. sample = <<>>
    BY <1>1 DEF AccelInit
  <2>4. SampleInOrder
    BY <2>3 DEF SampleInOrder
  <2> QED BY <2>1, <2>2, <2>4 DEF AccelInv
<1>2. ASSUME AccelInv, AccelNext PROVE AccelInv'
  <2>1. Step /\ lagged' \in BOOLEAN /\ wrote' = (wrote \/ request'.write)
    BY <1>2 DEF AccelNext, AccelInv, Adxl345TypeOK
  <2>2. I2CInv'
    BY <1>2, <2>1, StepKeeps DEF AccelInv
  <2>3. wrote' \in BOOLEAN
    BY <2>1
  <2>4. /\ client' \in {"off", "identify", "ready", "sampling", "failed"}
        /\ sample' = <<>> \/ sample' \in [1..DataSize -> Bytes \union {Uninitialised}]
        /\ SampleInOrder'
    BY <1>2, <2>1, SampleStep
  <2>5. Adxl345TypeOK'
    BY <2>1, <2>2, <2>3, <2>4 DEF Adxl345TypeOK, I2CInv
  <2> QED BY <2>2, <2>4, <2>5 DEF AccelInv
<1>3. ASSUME AccelInv, UNCHANGED accelVars PROVE AccelInv'
  <2>1. UNCHANGED <<vars, client, sample, lagged, wrote>>
    BY <1>3 DEF accelVars
  <2>2. I2CInv'
    BY <1>3, <2>1, I2CStutters DEF AccelInv
  <2>3. Adxl345TypeOK'
    BY <1>3, <2>1, <2>2 DEF AccelInv, Adxl345TypeOK, I2CInv
  <2>4. SampleInOrder'
    BY <1>3, <2>1 DEF AccelInv, SampleInOrder
  <2> QED BY <2>2, <2>3, <2>4 DEF AccelInv
<1> QED BY <1>1, <1>2, <1>3

----------------------------------------------------------------------------

(***************************************************************************)
(* The driver and the accelerometer are typed: the driver stores no more   *)
(* bytes than the buffer of the caller has room for (i2c.c), and the       *)
(* receive FIFO never holds more than its depth.                           *)
(***************************************************************************)
THEOREM AccelTypeCorrect == AccelSpec => []Adxl345TypeOK
<1>1. AccelInv => Adxl345TypeOK
  BY DEF AccelInv
<1> QED BY <1>1, AccelInductive, PTL DEF AccelSpec

(***************************************************************************)
(* The bytes of a sample (adxl345_read_data) are in the order they were    *)
(* read from the target, none twice, with what is missing at the end,      *)
(* although the driver never waits for the controller and a transfer can   *)
(* find bytes of an earlier one in the FIFO.                               *)
(***************************************************************************)
THEOREM InOrder == AccelSpec => []SampleInOrder
<1>1. AccelInv => SampleInOrder
  BY DEF AccelInv
<1> QED BY <1>1, AccelInductive, PTL DEF AccelSpec

----------------------------------------------------------------------------
(* What waits for the controller *)

\* Steps a transfer is made of, and those whose entries are written.
Total == IF request.write THEN 4 ELSE 3
Done == Total - Len(entries)

IsByte(e) == e.format = "TX"

\* The entries still to be written are the last ones of the transfer: START,
\* the address, the byte of a write, and the read that ends it.
ShapeInv ==
    pc = "format" =>
        /\ Len(entries) \in 1..Total
        /\ \A i \in 1..Len(entries) :
               /\ Done + i = 1 => entries[i].format = "START"
               /\ 1 < Done + i /\ Done + i < Total => IsByte(entries[i])
               /\ Done + i = 2 => entries[i].byte = request.address
               /\ Done + i = Total /\ ~request.write => entries[i].byte = request.count

\* The entries wait in the order of their transfers, and no count is ahead of
\* the transfer being made.
AgeInv ==
    /\ whole <= transfer + 1
    /\ \A r \in Registers : written[r] <= transfer
    /\ \A i \in 1..Len(fmt) : fmt[i].transfer <= transfer
    /\ \A i, j \in 1..Len(fmt) : i < j => fmt[i].transfer <= fmt[j].transfer

\* The entry at i belongs to a transfer that has lost nothing, nor has any
\* behind it.
Sound(i) == fmt[i].transfer >= whole

\* The entry at i writes a register, and which one it is.
WritesAt(i) == IsByte(fmt[i]) /\ IF i = 1 THEN addressed ELSE IsByte(fmt[i - 1])
Target(i) == IF i = 1 THEN pointer ELSE fmt[i - 1].byte
Writes(i, r) == i \in 1..Len(fmt) /\ Sound(i) /\ WritesAt(i) /\ Target(i) = r

\* What the controller will have done last when the FIFO is empty: a START, or
\* the transmission of the address a.
Opened ==
    IF fmt = <<>> THEN ~addressed /\ fetching.left = 0
    ELSE Sound(Len(fmt)) /\ fmt[Len(fmt)].format = "START"
Pointed(a) ==
    IF fmt = <<>> THEN addressed /\ pointer = a /\ fetching.left = 0
    ELSE /\ Sound(Len(fmt)) /\ IsByte(fmt[Len(fmt)]) /\ fmt[Len(fmt)].byte = a
         /\ ~WritesAt(Len(fmt))

\* The entry at i is one that a byte follows.
Leads(i) == Sound(i) /\ (fmt[i].format = "START" \/ (IsByte(fmt[i]) /\ ~WritesAt(i)))

\* A byte follows a START or the address, in the FIFO and across its end, in the
\* transfers that have lost nothing.
BusInv ==
    /\ \A i, j \in 1..Len(fmt) : j = i + 1 /\ IsByte(fmt[j]) /\ Sound(j) => Leads(i)
    /\ fmt # <<>> /\ fetching.left > 0 => ~(IsByte(fmt[1]) /\ Sound(1))
    /\ pc = "format" /\ whole <= transfer =>
           /\ Done = 1 => Opened
           /\ Done = 2 => Pointed(request.address)

\* The write a register is to hold when the controller has caught up.
Due(r) ==
    IF pc = "format" /\ request.write /\ request.address = r /\ Done = 3
    THEN transfer ELSE written[r]

\* If nothing was lost since: the last write in the FIFO to a register, or the
\* register if there is none, and then nothing of a transfer that lost entries
\* is left to disturb it.
LandInv ==
    \A r \in Registers : Due(r) >= whole =>
        /\ (\A i \in 1..Len(fmt) : ~Writes(i, r)) =>
               memory[r] = Due(r) /\ \A i \in 1..Len(fmt) : Sound(i)
        /\ \A i \in 1..Len(fmt) :
               Writes(i, r) /\ (\A j \in 1..Len(fmt) : Writes(j, r) => j <= i)
                   => fmt[i].transfer = Due(r)

\* The byte of register address + i - 1 of this transfer.
Wanted(i) == [register |-> request.address + i - 1, transfer |-> transfer]

\* While the controller keeps up, no more than one entry waits for it and what
\* it has read of this transfer is with the caller or in the FIFO.
Reading ==
    \/ /\ Len(fmt) = 1 /\ IsRead(fmt[1])
       /\ fmt[1].byte = request.count /\ fmt[1].transfer = transfer
       /\ fetching.left = 0 /\ pointer = request.address /\ data = <<>> /\ rx = <<>>
    \/ /\ fmt = <<>> /\ fetching.transfer = transfer
       /\ fetching.left <= request.count
       /\ pointer = request.address + (request.count - fetching.left)
       /\ Len(data) + Len(rx) = request.count - fetching.left
       /\ \A i \in 1..Len(data) : data[i] = Wanted(i)
       /\ \A i \in 1..Len(rx) : rx[i] = Wanted(Len(data) + i)

KeptInv ==
    keptUp =>
        /\ pc = "format" => /\ Len(fmt) <= 1 /\ fetching.left = 0
                            /\ data = <<>> /\ rx = <<>> /\ whole <= transfer
                            /\ \A i \in 1..Len(fmt) : ~IsRead(fmt[i])
                            /\ Done = 0 => fmt = <<>>
        /\ pc = "drain" => Reading
        /\ pc = "idle" /\ ~request.write =>
               /\ ControllerIdle /\ rx = <<>>
               /\ transfer > 0 => /\ Len(data) = request.count
                                  /\ \A i \in 1..Len(data) : data[i] = Wanted(i)

TransferInv == I2CInv /\ ShapeInv /\ AgeInv /\ BusInv /\ LandInv /\ KeptInv

----------------------------------------------------------------------------
(* What the controller does to the queue *)

LEMMA ExecuteStep ==
    ASSUME I2CInv, Execute
    PROVE  /\ fetching.left = 0 /\ fmt # <<>>
           /\ UNCHANGED <<pc, request, transfer, entries, data, rx, written, whole, keptUp>>
           /\ Len(fmt) \in Nat \ {0} /\ Len(fmt') = Len(fmt) - 1
           /\ fmt' = <<>> <=> Len(fmt) = 1
           /\ \A i \in 1..Len(fmt') : /\ i + 1 \in 1..Len(fmt)
                                      /\ fmt'[i] = fmt[i + 1]
                                      /\ i \in 1..Len(fmt)
           /\ fmt[1] \in Entries /\ Head(fmt) = fmt[1]
<1>1. /\ fetching.left = 0 /\ fmt # <<>> /\ fmt' = Tail(fmt)
      /\ UNCHANGED <<driver, rx>> /\ fmt \in Seq(Entries)
  BY DEF Execute, I2CInv, I2CTypeOK
<1>2. UNCHANGED <<pc, request, transfer, entries, data, rx, written, whole, keptUp>>
  BY <1>1 DEF driver
<1>3. /\ Head(fmt) \in Entries /\ Head(fmt) = fmt[1] /\ Tail(fmt) \in Seq(Entries)
      /\ Len(fmt) \in Nat /\ Len(fmt) > 0 /\ Len(Tail(fmt)) = Len(fmt) - 1
      /\ \A i \in 1..(Len(fmt) - 1) : Tail(fmt)[i] = fmt[i + 1]
  BY <1>1, QueueTail
<1>4. /\ fmt' \in Seq(Entries) /\ Len(fmt') = Len(fmt) - 1
      /\ \A i \in 1..(Len(fmt) - 1) : fmt'[i] = fmt[i + 1]
  BY <1>1, <1>3, Zenon
<1>5. fmt' = <<>> <=> Len(fmt) = 1
  BY <1>3, <1>4
<1>6. \A i \in 1..Len(fmt') : i + 1 \in 1..Len(fmt) /\ fmt'[i] = fmt[i + 1] /\ i \in 1..Len(fmt)
  BY <1>3, <1>4
<1> QED BY <1>1, <1>2, <1>3, <1>4, <1>5, <1>6

\* What the first entry does, in the words of BusInv.
LEMMA ExecuteCases ==
    ASSUME I2CInv, Execute
    PROVE  \/ /\ fmt[1].format = "START" /\ addressed' = FALSE
              /\ UNCHANGED <<pointer, fetching, memory>>
           \/ /\ IsByte(fmt[1]) /\ ~addressed /\ addressed' = TRUE
              /\ pointer' = fmt[1].byte
              /\ UNCHANGED <<fetching, memory>>
           \/ /\ IsByte(fmt[1]) /\ addressed
              /\ memory' = [r \in Registers |-> IF r = pointer THEN fmt[1].transfer
                                                ELSE memory[r]]
              /\ UNCHANGED <<addressed, fetching>>
           \/ /\ IsRead(fmt[1])
              /\ fetching' = [left |-> fmt[1].byte, transfer |-> fmt[1].transfer]
              /\ UNCHANGED <<addressed, pointer, memory>>
<1>1. Head(fmt) = fmt[1]
  BY ExecuteStep
<1>2. addressed \in BOOLEAN
  BY DEF I2CInv, I2CTypeOK
<1> QED BY <1>1, <1>2 DEF Execute, IsByte, IsRead

\* The entries behind the first keep their meaning: what the first one does to
\* the target is what they found in it.
LEMMA MeaningKept ==
    ASSUME I2CInv, BusInv, Execute, NEW i \in 1..Len(fmt'), Sound(i + 1)
    PROVE  /\ WritesAt(i)' <=> WritesAt(i + 1)
           /\ WritesAt(i)' => Target(i)' = Target(i + 1)
<1>1. /\ Len(fmt) \in Nat \ {0} /\ Len(fmt') = Len(fmt) - 1
      /\ i + 1 \in 1..Len(fmt) /\ fmt'[i] = fmt[i + 1] /\ i \in 1..Len(fmt)
  BY ExecuteStep
<1>2. CASE i > 1
  <2>1. i - 1 \in 1..Len(fmt') /\ (i - 1) + 1 = i /\ (i + 1) - 1 = i /\ i # 1 /\ i + 1 # 1
    BY <1>1, <1>2
  <2>2. fmt'[i - 1] = fmt[i]
    BY <2>1, ExecuteStep
  <2> QED BY <1>1, <2>1, <2>2 DEF WritesAt, Target
<1>3. CASE i = 1
  <2>1. /\ WritesAt(1)' <=> (IsByte(fmt'[1]) /\ addressed')
        /\ WritesAt(2) <=> (IsByte(fmt[2]) /\ IsByte(fmt[1]))
        /\ WritesAt(1) <=> (IsByte(fmt[1]) /\ addressed)
        /\ Target(1)' = pointer' /\ Target(2) = fmt[1].byte
    BY DEF WritesAt, Target, IsByte
  <2>2. fmt'[1] = fmt[2] /\ 2 \in 1..Len(fmt)
    BY <1>1, <1>3
  <2>3. CASE IsByte(fmt[2])
    <3>1. Leads(1)
      <4>1. 1 \in 1..Len(fmt) /\ 2 = 1 + 1 /\ Sound(2)
        BY <1>1, <1>3
      <4> QED BY <2>2, <2>3, <4>1 DEF BusInv
    <3>2. fmt[1].format = "START" \/ (IsByte(fmt[1]) /\ ~addressed)
      BY <2>1, <3>1 DEF Leads
    <3>3. (addressed' <=> IsByte(fmt[1])) /\ (addressed' => pointer' = fmt[1].byte)
      BY <3>2, ExecuteCases DEF IsByte, IsRead
    <3>4. IsByte(fmt'[1])
      BY <2>2, <2>3 DEF IsByte
    <3>5. WritesAt(1)' <=> WritesAt(2)
      BY <2>1, <2>3, <3>3, <3>4
    <3>6. WritesAt(1)' => Target(1)' = Target(2)
      BY <2>1, <3>3
    <3> QED BY <1>3, <3>5, <3>6
  <2>4. CASE ~IsByte(fmt[2])
    BY <1>3, <2>1, <2>2, <2>4 DEF IsByte
  <2> QED BY <2>3, <2>4
<1> QED BY <1>1, <1>2, <1>3

LEMMA ExecuteKeepsBus ==
    ASSUME I2CInv, BusInv, Execute
    PROVE  BusInv'
<1>1. /\ fetching.left = 0 /\ UNCHANGED <<pc, request, transfer, entries, whole>>
      /\ Len(fmt) \in Nat \ {0} /\ Len(fmt') = Len(fmt) - 1
      /\ fmt' = <<>> <=> Len(fmt) = 1
      /\ \A i \in 1..Len(fmt') : i + 1 \in 1..Len(fmt) /\ fmt'[i] = fmt[i + 1]
  BY ExecuteStep
<1>2. ASSUME NEW i \in 1..Len(fmt'), NEW j \in 1..Len(fmt'), j = i + 1, IsByte(fmt'[j]),
             Sound(j)'
      PROVE  Leads(i)'
  <2>1. /\ i + 1 \in 1..Len(fmt) /\ fmt'[i] = fmt[i + 1]
        /\ j + 1 \in 1..Len(fmt) /\ fmt'[j] = fmt[j + 1] /\ j + 1 = (i + 1) + 1
    BY <1>1, <1>2
  <2>2. IsByte(fmt[j + 1]) /\ Sound(j + 1)
    BY <1>1, <1>2, <2>1 DEF IsByte, Sound
  <2>3. Leads(i + 1)
    BY <2>1, <2>2 DEF BusInv
  <2>4. WritesAt(i)' <=> WritesAt(i + 1)
    BY <2>3, MeaningKept DEF Leads
  <2> QED BY <1>1, <2>1, <2>3, <2>4 DEF Leads, IsByte, Sound
<1>3. ASSUME fmt' # <<>>, fetching'.left > 0, IsByte(fmt'[1]), Sound(1)'
      PROVE  FALSE
  <2>1. 2 \in 1..Len(fmt) /\ fmt'[1] = fmt[2]
    <3>1. 1 \in 1..Len(fmt')
      BY <1>1, <1>3
    <3> QED BY <1>1, <3>1
  <2>2. Leads(1)
    <3>1. 1 \in 1..Len(fmt) /\ 2 = 1 + 1 /\ IsByte(fmt[2]) /\ Sound(2)
      BY <1>1, <1>3, <2>1 DEF IsByte, Sound
    <3> QED BY <2>1, <3>1 DEF BusInv
  <2>3. fmt[1].format = "START" \/ IsByte(fmt[1])
    BY <2>2 DEF Leads
  <2>4. ~IsRead(fmt[1])
    BY <2>3 DEF IsByte, IsRead
  <2>5. fetching' = fetching
    BY <2>4, ExecuteCases
  <2> QED BY <1>1, <1>3, <2>5
<1>4. Done' = Done
  BY <1>1 DEF Done, Total
<1>5. CASE fmt' = <<>>
  <2>1. Opened => Opened'
    <3>1. SUFFICES ASSUME Opened PROVE ~addressed' /\ fetching'.left = 0
      BY <1>5 DEF Opened
    <3>2. fmt[1].format = "START"
      BY <1>1, <1>5, <3>1 DEF Opened
    <3> QED BY <1>1, <3>2, ExecuteCases DEF IsByte, IsRead
  <2>2. ASSUME NEW a, Pointed(a) PROVE Pointed(a)'
    <3>1. IsByte(fmt[1]) /\ fmt[1].byte = a /\ ~WritesAt(1)
      BY <1>1, <1>5, <2>2 DEF Pointed
    <3>2. ~addressed
      BY <3>1 DEF WritesAt
    <3>3. addressed' /\ pointer' = a /\ fetching'.left = 0
      BY <1>1, <3>1, <3>2, ExecuteCases DEF IsByte, IsRead
    <3> QED BY <1>5, <3>3 DEF Pointed
  <2>3. pc' = "format" /\ whole' <= transfer' =>
            (Done' = 1 => Opened') /\ (Done' = 2 => Pointed(request.address)')
    BY <1>1, <1>4, <2>1, <2>2 DEF BusInv
  <2> QED BY <1>2, <1>3, <2>3 DEF BusInv, IsByte
<1>6. CASE fmt' # <<>>
  <2>0. PICK m : m = Len(fmt')
    OBVIOUS
  <2>1. m \in 1..Len(fmt') /\ fmt'[m] = fmt[Len(fmt)] /\ m + 1 = Len(fmt) /\ fmt # <<>>
    BY <1>1, <1>6, <2>0
  <2>2. Sound(m + 1) => (WritesAt(m)' <=> WritesAt(m + 1))
    BY <2>1, MeaningKept
  <2>6. Sound(m)' <=> Sound(Len(fmt))
    BY <1>1, <2>1 DEF Sound
  <2>3. Opened => Opened'
    BY <1>6, <2>0, <2>1, <2>6 DEF Opened
  <2>4. ASSUME NEW a, Pointed(a) PROVE Pointed(a)'
    BY <1>6, <2>0, <2>1, <2>2, <2>4, <2>6 DEF Pointed, IsByte
  <2>5. pc' = "format" /\ whole' <= transfer' =>
            (Done' = 1 => Opened') /\ (Done' = 2 => Pointed(request.address)')
    BY <1>1, <1>4, <2>3, <2>4 DEF BusInv
  <2> QED BY <1>2, <1>3, <2>5 DEF BusInv, IsByte
<1> QED BY <1>5, <1>6

LEMMA EntriesTyped ==
    ASSUME I2CInv
    PROVE  /\ whole \in Nat /\ transfer \in Nat
           /\ \A i \in 1..Len(fmt) : fmt[i].transfer \in Nat
           /\ \A r \in Registers : written[r] \in Nat
<1>1. /\ whole \in 0..(MaxTransfers + 1) /\ transfer \in 0..MaxTransfers
      /\ fmt \in Seq(Entries) /\ written \in [Registers -> 0..MaxTransfers]
      /\ MaxTransfers \in Nat
  BY I2CAssumption DEF I2CInv, I2CTypeOK
<1>2. \A i \in 1..Len(fmt) : fmt[i] \in Entries
  BY <1>1
<1> QED BY <1>1, <1>2 DEF Entries

LEMMA ExecuteKeepsAge ==
    ASSUME I2CInv, AgeInv, Execute
    PROVE  AgeInv'
<1>1. /\ UNCHANGED <<transfer, written, whole>>
      /\ Len(fmt) \in Nat \ {0} /\ Len(fmt') = Len(fmt) - 1
      /\ \A i \in 1..Len(fmt') : i + 1 \in 1..Len(fmt) /\ fmt'[i] = fmt[i + 1]
  BY ExecuteStep
<1>2. ASSUME NEW i \in 1..Len(fmt'), NEW j \in 1..Len(fmt'), i < j
      PROVE  fmt'[i].transfer <= fmt'[j].transfer
  <2>1. i + 1 \in 1..Len(fmt) /\ j + 1 \in 1..Len(fmt) /\ i + 1 < j + 1
    BY <1>1, <1>2
  <2> QED BY <1>1, <2>1 DEF AgeInv
<1> QED BY <1>1, <1>2 DEF AgeInv

LEMMA ExecuteKeepsLand ==
    ASSUME I2CInv, AgeInv, BusInv, LandInv, Execute
    PROVE  LandInv'
<1> SUFFICES ASSUME NEW r \in Registers, Due(r)' >= whole'
             PROVE  /\ (\A i \in 1..Len(fmt') : ~Writes(i, r)') =>
                           /\ memory'[r] = Due(r)'
                           /\ \A i \in 1..Len(fmt') : Sound(i)'
                    /\ \A i \in 1..Len(fmt') :
                           Writes(i, r)' /\ (\A j \in 1..Len(fmt') : Writes(j, r)' => j <= i)
                               => fmt'[i].transfer = Due(r)'
  BY DEF LandInv
<1>1. /\ UNCHANGED <<pc, request, transfer, entries, written, whole>>
      /\ Len(fmt) \in Nat \ {0} /\ Len(fmt') = Len(fmt) - 1
      /\ \A i \in 1..Len(fmt') : i + 1 \in 1..Len(fmt) /\ fmt'[i] = fmt[i + 1]
  BY ExecuteStep
<1>2. Due(r)' = Due(r) /\ Due(r) >= whole
  <2>1. Due(r)' = Due(r)
    BY <1>1 DEF Due, Done, Total
  <2> QED BY <1>1, <2>1
<1>3. ASSUME NEW i \in 1..Len(fmt')
      PROVE  (Writes(i, r)' <=> Writes(i + 1, r)) /\ (Sound(i)' <=> Sound(i + 1))
  <2>1. Sound(i)' <=> Sound(i + 1)
    BY <1>1 DEF Sound
  <2> QED BY <1>1, <2>1, MeaningKept DEF Writes
<1>4. ASSUME NEW k \in 1..Len(fmt), k # 1
      PROVE  k - 1 \in 1..Len(fmt') /\ (k - 1) + 1 = k
  <2>1. Len(fmt) \in Nat /\ Len(fmt') = Len(fmt) - 1
    BY <1>1
  <2> QED BY <1>4, <2>1
<1>5. ASSUME \A i \in 1..Len(fmt') : ~Writes(i, r)'
      PROVE  memory'[r] = Due(r) /\ \A i \in 1..Len(fmt') : Sound(i)'
  <2>1. \A k \in 1..Len(fmt) : k # 1 => ~Writes(k, r)
    BY <1>3, <1>4, <1>5
  <2>2. Writes(1, r) <=> (Sound(1) /\ IsByte(fmt[1]) /\ addressed /\ pointer = r)
    BY <1>1 DEF Writes, WritesAt, Target
  <2>3. CASE Writes(1, r)
    <3>1. fmt[1].transfer = Due(r)
      BY <1>1, <1>2, <2>1, <2>3 DEF LandInv
    <3>2. memory'[r] = fmt[1].transfer
      BY <2>2, <2>3, ExecuteCases DEF IsByte, IsRead
    <3>3. ASSUME NEW i \in 1..Len(fmt') PROVE Sound(i)'
      <4>1. i + 1 \in 1..Len(fmt) /\ 1 \in 1..Len(fmt) /\ 1 < i + 1
        BY <1>1
      <4>2. fmt[1].transfer <= fmt[i + 1].transfer /\ fmt[1].transfer >= whole
        BY <2>2, <2>3, <4>1 DEF AgeInv, Sound
      <4>3. fmt[1].transfer \in Nat /\ fmt[i + 1].transfer \in Nat /\ whole \in Nat
        BY <4>1, EntriesTyped
      <4> QED BY <1>3, <4>2, <4>3 DEF Sound
    <3> QED BY <3>1, <3>2, <3>3
  <2>4. CASE ~Writes(1, r)
    <3>1. memory[r] = Due(r) /\ \A i \in 1..Len(fmt) : Sound(i)
      BY <1>2, <2>1, <2>4 DEF LandInv
    <3>2. memory'[r] = memory[r]
      <4>1. Sound(1)
        BY <1>1, <3>1
      <4>2. ~(IsByte(fmt[1]) /\ addressed /\ pointer = r)
        BY <2>2, <2>4, <4>1
      <4> QED BY <4>2, ExecuteCases
    <3> QED BY <1>1, <1>3, <3>1, <3>2
  <2> QED BY <2>3, <2>4
<1>6. ASSUME NEW i \in 1..Len(fmt'), Writes(i, r)',
             \A j \in 1..Len(fmt') : Writes(j, r)' => j <= i
      PROVE  fmt'[i].transfer = Due(r)
  <2>1. i + 1 \in 1..Len(fmt) /\ fmt'[i] = fmt[i + 1] /\ Writes(i + 1, r)
    BY <1>1, <1>3, <1>6
  <2>2. \A k \in 1..Len(fmt) : Writes(k, r) => k <= i + 1
    <3> SUFFICES ASSUME NEW k \in 1..Len(fmt), Writes(k, r), k # 1
                 PROVE  k <= i + 1
      BY <1>1
    <3>1. k - 1 \in 1..Len(fmt') /\ Writes(k - 1, r)'
      BY <1>3, <1>4
    <3>2. k - 1 <= i
      BY <1>6, <3>1
    <3> QED BY <1>1, <3>2
  <2> QED BY <1>2, <2>1, <2>2 DEF LandInv
<1> QED BY <1>2, <1>5, <1>6

LEMMA FetchKeepsBus ==
    ASSUME I2CInv, AgeInv, BusInv, LandInv, Fetch
    PROVE  AgeInv' /\ BusInv' /\ LandInv'
<1>1. /\ fetching.left > 0
      /\ UNCHANGED <<pc, request, transfer, entries, written, whole, fmt, addressed, memory>>
  BY DEF Fetch, driver
<1>2. fetching.left # 0 /\ (fmt # <<>> => ~(IsByte(fmt[1]) /\ Sound(1)))
  <2>1. fetching.left \in Nat
    BY I2CAssumption DEF I2CInv, I2CTypeOK
  <2> QED BY <1>1, <2>1 DEF BusInv
<1>3. Done' = Done
  BY <1>1 DEF Done, Total
<1>4. \A i : /\ WritesAt(i)' <=> WritesAt(i)
             /\ Leads(i)' <=> Leads(i)
             /\ Sound(i)' <=> Sound(i)
  BY <1>1 DEF WritesAt, Leads, IsByte, Sound
<1>5. ASSUME NEW i \in 1..Len(fmt), NEW r
      PROVE  Writes(i, r)' <=> Writes(i, r)
  <2>1. i = 1 => ~(WritesAt(i) /\ Sound(i))
    BY <1>2 DEF WritesAt
  <2>2. i # 1 => Target(i)' = Target(i)
    BY <1>1 DEF Target
  <2> QED BY <1>1, <1>4, <2>1, <2>2 DEF Writes
<1>6. BusInv'
  <2>1. Opened => Opened'
    BY <1>1, <1>2, <1>4 DEF Opened
  <2>2. ASSUME NEW a, Pointed(a) PROVE Pointed(a)'
    BY <1>1, <1>2, <1>4, <2>2 DEF Pointed, IsByte
  <2> QED BY <1>1, <1>2, <1>3, <1>4, <2>1, <2>2 DEF BusInv, IsByte
<1>7. LandInv'
  <2>1. \A r : Due(r)' = Due(r)
    BY <1>1, <1>3 DEF Due
  <2> QED BY <1>1, <1>4, <1>5, <2>1 DEF LandInv
<1>8. AgeInv'
  BY <1>1 DEF AgeInv
<1> QED BY <1>6, <1>7, <1>8

\* Steps of the driver that write no entry.
LEMMA BusKept ==
    ASSUME BusInv, UNCHANGED <<fmt, addressed, fetching, pointer, whole>>,
           \/ pc' # "format"
           \/ Done' = 0
           \/ pc = "format" /\ UNCHANGED <<request, transfer, entries>>
    PROVE  BusInv'
<1>1. \A i : /\ WritesAt(i)' <=> WritesAt(i)
             /\ Leads(i)' <=> Leads(i)
             /\ Sound(i)' <=> Sound(i)
  BY DEF WritesAt, Leads, IsByte, Sound
<1>2. /\ \A i, j \in 1..Len(fmt') : j = i + 1 /\ IsByte(fmt'[j]) /\ Sound(j)' => Leads(i)'
      /\ fmt' # <<>> /\ fetching'.left > 0 => ~(IsByte(fmt'[1]) /\ Sound(1)')
  BY <1>1 DEF BusInv, IsByte
<1>3. CASE pc = "format" /\ UNCHANGED <<request, transfer, entries>>
  <2>1. Done' = Done
    BY <1>3 DEF Done, Total
  <2>2. Opened => Opened'
    BY <1>1 DEF Opened
  <2>3. ASSUME NEW a, Pointed(a) PROVE Pointed(a)'
    BY <1>1, <2>3 DEF Pointed, IsByte
  <2> QED BY <1>2, <1>3, <2>1, <2>2, <2>3 DEF BusInv, IsByte
<1> QED BY <1>2, <1>3 DEF BusInv, IsByte

LEMMA AgeKept ==
    ASSUME I2CInv, AgeInv, UNCHANGED <<fmt, written, whole>>, transfer' \in Nat,
           transfer <= transfer'
    PROVE  AgeInv'
BY EntriesTyped DEF AgeInv

LEMMA LandKept ==
    ASSUME LandInv, UNCHANGED <<fmt, addressed, pointer, memory, whole>>,
           \A r \in Registers : Due(r)' = Due(r)
    PROVE  LandInv'
<1>1. \A i, r : (Writes(i, r)' <=> Writes(i, r)) /\ (Sound(i)' <=> Sound(i))
  BY DEF Writes, WritesAt, Target, IsByte, Sound
<1> QED BY <1>1 DEF LandInv

----------------------------------------------------------------------------
(* What the driver adds to it *)

LEMMA WriteByteStep ==
    ASSUME I2CInv, ShapeInv, i2c_write_byte
    PROVE  /\ pc = "format" /\ entries[1] \in Entries
           /\ Len(entries) \in 1..Total /\ Total \in {3, 4}
           /\ Len(entries') = Len(entries) - 1 /\ Done' = Done + 1 /\ Done \in 0..3
           /\ \A i \in 1..Len(entries') : /\ i + 1 \in 1..Len(entries)
                                          /\ entries'[i] = entries[i + 1]
           /\ Len(fmt) \in Nat
           /\ \A i \in 1..Len(fmt) : fmt'[i] = fmt[i]
           /\ Len(fmt) < FmtDepth =>
                  /\ Len(fmt') = Len(fmt) + 1 /\ fmt' # <<>>
                  /\ fmt'[Len(fmt) + 1] = entries[1]
                  /\ whole' = whole
           /\ ~(Len(fmt) < FmtDepth) => fmt' = fmt /\ whole' = transfer + 1
           /\ pc' = IF Len(entries) > 1 THEN "format"
                    ELSE IF request.write THEN "idle" ELSE "drain"
           /\ written' = IF pc' = "idle" THEN [written EXCEPT ![request.address] = transfer]
                         ELSE written
           /\ UNCHANGED <<request, transfer, data, rx, addressed, pointer, fetching, memory>>
<1> DEFINE e == Head(entries)
<1>1. /\ pc = "format" /\ Put /\ entries' = Tail(entries)
      /\ pc' = IF entries' # <<>> THEN "format" ELSE IF request.write THEN "idle" ELSE "drain"
      /\ written' = IF pc' = "idle" THEN [written EXCEPT ![request.address] = transfer]
                    ELSE written
      /\ UNCHANGED <<request, transfer, data, rx, addressed, pointer, fetching, memory>>
  BY DEF i2c_write_byte
<1>2. /\ fmt \in Seq(Entries) /\ entries \in Seq(Entries) /\ entries # <<>>
      /\ transfer \in 1..MaxTransfers
  BY <1>1, I2CAssumption DEF I2CInv, I2CTypeOK, FormatInv
<1>3. /\ e \in Entries /\ e = entries[1]
      /\ entries' \in Seq(Entries) /\ Len(entries) \in Nat /\ Len(entries) > 0
      /\ Len(entries') = Len(entries) - 1
      /\ \A i \in 1..(Len(entries) - 1) : entries'[i] = entries[i + 1]
  <2>1. /\ Tail(entries) \in Seq(Entries) /\ e \in Entries /\ e = entries[1]
        /\ Len(entries) \in Nat /\ Len(entries) > 0 /\ Len(Tail(entries)) = Len(entries) - 1
        /\ \A i \in 1..(Len(entries) - 1) : Tail(entries)[i] = entries[i + 1]
    BY <1>2, QueueTail
  <2> QED BY <1>1, <2>1, Zenon
<1>4. /\ fmt' \in Seq(Entries) /\ Len(fmt) \in Nat
      /\ \A i \in 1..Len(fmt) : fmt'[i] = fmt[i]
      /\ Len(fmt) < FmtDepth =>
             /\ Len(fmt') = Len(fmt) + 1 /\ fmt'[Len(fmt) + 1] = e
             /\ whole' = whole
      /\ ~(Len(fmt) < FmtDepth) => fmt' = fmt /\ whole' = transfer + 1
  <2>1. PICK x : x = e
    OBVIOUS
  <2>2. x = Head(entries) /\ Head(entries) \in Entries
    BY <1>3, <2>1
  <2> HIDE DEF e
  <2> QED BY <1>1, <1>2, <2>1, <2>2, PutStep
<1> HIDE DEF e
<1>5. Len(entries) \in 1..Total /\ Total \in {3, 4}
  BY <1>1 DEF ShapeInv, Total
<1>6. Done' = Done + 1 /\ Done \in 0..3
  <2>1. Total' = Total
    BY <1>1 DEF Total
  <2> QED BY <1>3, <1>5, <2>1 DEF Done
<1>7. (Len(fmt) < FmtDepth => fmt' # <<>>) /\ (entries' # <<>> <=> Len(entries) > 1)
  BY <1>3, <1>4
<1>8. \A i \in 1..Len(entries') : i + 1 \in 1..Len(entries) /\ entries'[i] = entries[i + 1]
  BY <1>3
<1>9. pc' = IF Len(entries) > 1 THEN "format" ELSE IF request.write THEN "idle" ELSE "drain"
  BY <1>1, <1>7
<1> QED BY <1>1, <1>3, <1>4, <1>5, <1>6, <1>7, <1>8, <1>9

\* The entry written is the next one of the transfer.
LEMMA EntryWritten ==
    ASSUME I2CInv, ShapeInv, pc = "format"
    PROVE  /\ Done = 0 => entries[1].format = "START"
           /\ Done = 1 => IsByte(entries[1]) /\ entries[1].byte = request.address
           /\ Done = 2 /\ request.write => IsByte(entries[1])
           /\ Done = 2 /\ ~request.write =>
                  IsRead(entries[1]) /\ entries[1].byte = request.count
           /\ Done = 3 => request.write /\ IsRead(entries[1])
           /\ entries[1].transfer = transfer
<1>1. /\ Len(entries) \in 1..Total
      /\ Total = IF request.write THEN 4 ELSE 3
      /\ Done = Total - Len(entries)
  BY DEF ShapeInv, Total, Done
<1>2. 1 \in 1..Len(entries) /\ Total \in {3, 4}
  BY <1>1
<1>3. /\ Done + 1 = 1 => entries[1].format = "START"
      /\ 1 < Done + 1 /\ Done + 1 < Total => IsByte(entries[1])
      /\ Done + 1 = 2 => entries[1].byte = request.address
      /\ Done + 1 = Total /\ ~request.write => entries[1].byte = request.count
  BY <1>2 DEF ShapeInv
<1>4. (IsRead(entries[1]) <=> 1 = Len(entries)) /\ entries[1].transfer = transfer
  BY <1>2 DEF I2CInv, FormatInv
<1>5. CASE request.write
  <2>0. PICK k \in 1..4 : Total = 4 /\ Len(entries) = k /\ Done = 4 - k
    BY <1>1, <1>5
  <2>1. /\ Total = 4
        /\ \/ Len(entries) = 4 /\ Done = 0
           \/ Len(entries) = 3 /\ Done = 1
           \/ Len(entries) = 2 /\ Done = 2
           \/ Len(entries) = 1 /\ Done = 3
    BY <2>0
  <2> QED BY <1>3, <1>4, <1>5, <2>1
<1>6. CASE ~request.write
  <2>0. PICK k \in 1..3 : Total = 3 /\ Len(entries) = k /\ Done = 3 - k
    BY <1>1, <1>6
  <2>1. /\ Total = 3
        /\ \/ Len(entries) = 3 /\ Done = 0
           \/ Len(entries) = 2 /\ Done = 1
           \/ Len(entries) = 1 /\ Done = 2
    BY <2>0
  <2> QED BY <1>3, <1>4, <1>6, <2>1
<1> QED BY <1>5, <1>6

LEMMA WriteByteKeepsShape ==
    ASSUME I2CInv, ShapeInv, i2c_write_byte
    PROVE  ShapeInv'
<1> SUFFICES ASSUME pc' = "format"
             PROVE  /\ Len(entries') \in 1..Total'
                    /\ \A i \in 1..Len(entries') :
                           /\ Done' + i = 1 => entries'[i].format = "START"
                           /\ 1 < Done' + i /\ Done' + i < Total' => IsByte(entries'[i])
                           /\ Done' + i = 2 => entries'[i].byte = request'.address
                           /\ Done' + i = Total' /\ ~request'.write =>
                                  entries'[i].byte = request'.count
  BY DEF ShapeInv, IsByte
<1>1. /\ pc = "format" /\ Len(entries) \in 1..Total /\ Total \in {3, 4}
      /\ Len(entries') = Len(entries) - 1 /\ Done' = Done + 1 /\ Done \in 0..3
      /\ \A i \in 1..Len(entries') : i + 1 \in 1..Len(entries) /\ entries'[i] = entries[i + 1]
      /\ UNCHANGED request
      /\ pc' = IF Len(entries) > 1 THEN "format"
               ELSE IF request.write THEN "idle" ELSE "drain"
  BY WriteByteStep
<1>2. Total' = Total
  BY <1>1 DEF Total
<1>3. Len(entries') \in 1..Total'
  <2>1. Len(entries) > 1
    BY <1>1
  <2> QED BY <1>1, <1>2, <2>1
<1>4. ASSUME NEW i \in 1..Len(entries')
      PROVE  /\ Done' + i = 1 => entries'[i].format = "START"
             /\ 1 < Done' + i /\ Done' + i < Total' => IsByte(entries'[i])
             /\ Done' + i = 2 => entries'[i].byte = request'.address
             /\ Done' + i = Total' /\ ~request'.write => entries'[i].byte = request'.count
  <2>1. i + 1 \in 1..Len(entries) /\ entries'[i] = entries[i + 1] /\ Done + (i + 1) = Done' + i
    BY <1>1
  <2>2. /\ Done + (i + 1) = 1 => entries[i + 1].format = "START"
        /\ 1 < Done + (i + 1) /\ Done + (i + 1) < Total => IsByte(entries[i + 1])
        /\ Done + (i + 1) = 2 => entries[i + 1].byte = request.address
        /\ Done + (i + 1) = Total /\ ~request.write => entries[i + 1].byte = request.count
    BY <1>1, <2>1 DEF ShapeInv
  <2> QED BY <1>1, <1>2, <2>1, <2>2
<1> QED BY <1>3, <1>4

\* The entries in the FIFO keep their meaning, and the new one writes the
\* register of the request or none.
LEMMA AppendMeaning ==
    ASSUME I2CInv, ShapeInv, BusInv, i2c_write_byte, Len(fmt) < FmtDepth,
           whole <= transfer, NEW n, n = Len(fmt)
    PROVE  /\ \A i \in 1..n : /\ WritesAt(i)' <=> WritesAt(i)
                              /\ Target(i)' = Target(i)
                              /\ Leads(i)' <=> Leads(i)
                              /\ Sound(i)' <=> Sound(i)
           /\ Sound(n + 1)'
           /\ WritesAt(n + 1)' <=> (Done = 2 /\ request.write)
           /\ WritesAt(n + 1)' => Target(n + 1)' = request.address
<1>1. /\ pc = "format"
      /\ Len(fmt) \in Nat /\ Len(fmt') = Len(fmt) + 1
      /\ \A i \in 1..Len(fmt) : fmt'[i] = fmt[i]
      /\ fmt'[Len(fmt) + 1] = entries[1]
      /\ UNCHANGED <<request, transfer, addressed, pointer, fetching, whole>>
      /\ Done \in 0..3
  BY WriteByteStep
<1>2. ASSUME NEW i \in 1..Len(fmt)
      PROVE  /\ WritesAt(i)' <=> WritesAt(i)
             /\ Target(i)' = Target(i)
             /\ Leads(i)' <=> Leads(i)
             /\ Sound(i)' <=> Sound(i)
  <2>1. fmt'[i] = fmt[i] /\ (i # 1 => fmt'[i - 1] = fmt[i - 1])
    BY <1>1
  <2>2. (WritesAt(i)' <=> WritesAt(i)) /\ Target(i)' = Target(i)
    BY <1>1, <2>1 DEF WritesAt, Target, IsByte
  <2> QED BY <1>1, <2>1, <2>2 DEF Leads, IsByte, Sound
<1>3. n = Len(fmt)
  OBVIOUS
<1>4. /\ fmt = <<>> <=> n = 0
      /\ n \in Nat /\ fmt'[n + 1] = entries[1] /\ (n # 0 => fmt'[n] = fmt[n])
  <2>1. fmt \in Seq(Entries)
    BY DEF I2CInv, I2CTypeOK
  <2> QED BY <1>1, <1>3, <2>1
<1>5. /\ WritesAt(n + 1)' <=> (IsByte(entries[1]) /\ IF n = 0 THEN addressed ELSE IsByte(fmt[n]))
      /\ Target(n + 1)' = IF n = 0 THEN pointer ELSE fmt[n].byte
  <2>1. (n + 1 = 1 <=> n = 0) /\ (n + 1) - 1 = n
    BY <1>4
  <2> QED BY <1>1, <1>4, <2>1 DEF WritesAt, Target, IsByte
<1>10. Sound(n + 1)'
  <2>1. entries[1].transfer = transfer
    BY <1>1, EntryWritten
  <2> QED BY <1>1, <1>4, <2>1, EntriesTyped DEF Sound
<1>6. CASE Done = 0
  <2>1. ~IsByte(entries[1])
    BY <1>1, <1>6, EntryWritten DEF IsByte
  <2> QED BY <1>2, <1>3, <1>5, <1>10, <1>6, <2>1
<1>7. CASE Done = 1
  <2>1. IF n = 0 THEN ~addressed ELSE ~IsByte(fmt[n])
    BY <1>1, <1>3, <1>4, <1>7 DEF BusInv, Opened, IsByte
  <2> QED BY <1>2, <1>3, <1>5, <1>10, <1>7, <2>1
<1>8. CASE Done = 2
  <2>1. IF n = 0 THEN addressed /\ pointer = request.address
        ELSE IsByte(fmt[n]) /\ fmt[n].byte = request.address
    BY <1>1, <1>3, <1>4, <1>8 DEF BusInv, Pointed
  <2>2. IsByte(entries[1]) <=> request.write
    BY <1>1, <1>8, EntryWritten DEF IsByte, IsRead
  <2> QED BY <1>2, <1>3, <1>5, <1>10, <1>8, <2>1, <2>2
<1>9. CASE Done = 3
  <2>1. ~IsByte(entries[1])
    BY <1>1, <1>9, EntryWritten DEF IsByte, IsRead
  <2> QED BY <1>2, <1>3, <1>5, <1>10, <1>9, <2>1
<1> QED BY <1>1, <1>6, <1>7, <1>8, <1>9

LEMMA WriteByteKeepsBus ==
    ASSUME I2CInv, ShapeInv, BusInv, i2c_write_byte, Len(fmt) < FmtDepth, whole <= transfer
    PROVE  BusInv'
<1>1. /\ pc = "format"
      /\ Len(fmt) \in Nat /\ Len(fmt') = Len(fmt) + 1 /\ fmt' # <<>>
      /\ \A i \in 1..Len(fmt) : fmt'[i] = fmt[i]
      /\ fmt'[Len(fmt) + 1] = entries[1]
      /\ UNCHANGED <<request, transfer, addressed, pointer, fetching, whole>>
      /\ Done \in 0..3 /\ Done' = Done + 1
  BY WriteByteStep
<1>2. fmt = <<>> <=> Len(fmt) = 0
  <2>1. fmt \in Seq(Entries)
    BY DEF I2CInv, I2CTypeOK
  <2> QED BY <2>1
\* A byte is written only behind a START or the address.
<1>3. ASSUME IsByte(entries[1])
      PROVE  IF fmt = <<>> THEN fetching.left = 0 ELSE Leads(Len(fmt))
  <2>1. Done = 1 \/ Done = 2
    BY <1>1, <1>3, EntryWritten DEF IsByte, IsRead
  <2>2. CASE Done = 1
    BY <1>1, <2>2 DEF BusInv, Opened, Leads
  <2>3. CASE Done = 2
    BY <1>1, <2>3 DEF BusInv, Pointed, Leads
  <2> QED BY <2>1, <2>2, <2>3
<1>4. ASSUME NEW i \in 1..Len(fmt'), NEW j \in 1..Len(fmt'), j = i + 1, IsByte(fmt'[j]),
             Sound(j)'
      PROVE  Leads(i)'
  <2>1. i \in 1..Len(fmt)
    BY <1>1, <1>4
  <2>2. Leads(i)
    <3>1. CASE j \in 1..Len(fmt)
      <4>1. IsByte(fmt[j]) /\ Sound(j)
        BY <1>1, <1>4, <3>1 DEF IsByte, Sound
      <4> QED BY <1>4, <2>1, <3>1, <4>1 DEF BusInv
    <3>2. CASE j = Len(fmt) + 1
      <4>1. i = Len(fmt) /\ fmt # <<>>
        BY <1>1, <1>2, <1>4, <2>1, <3>2
      <4>2. IsByte(entries[1])
        BY <1>1, <1>4, <3>2 DEF IsByte
      <4> QED BY <1>3, <4>1, <4>2
    <3> QED BY <1>1, <3>1, <3>2
  <2>3. PICK n : n = Len(fmt)
    OBVIOUS
  <2> QED BY <2>1, <2>2, <2>3, AppendMeaning
<1>5. ASSUME fetching'.left > 0 PROVE ~(IsByte(fmt'[1]) /\ Sound(1)')
  <2>1. CASE fmt = <<>>
    <3>1. fmt'[1] = entries[1]
      BY <1>1, <1>2, <2>1
    <3> QED BY <1>1, <1>3, <1>5, <2>1, <3>1 DEF IsByte
  <2>2. CASE fmt # <<>>
    <3>1. 1 \in 1..Len(fmt)
      BY <1>1, <1>2, <2>2
    <3> QED BY <1>1, <1>5, <2>2, <3>1 DEF BusInv, IsByte, Sound
  <2> QED BY <2>1, <2>2
<1>6. fmt'[Len(fmt')] = entries[1] /\ Sound(Len(fmt))'
  <2>1. PICK n : n = Len(fmt)
    OBVIOUS
  <2>2. Sound(n + 1)'
    BY <2>1, AppendMeaning
  <2>3. fmt'[n + 1].transfer >= whole'
    BY <2>2 DEF Sound
  <2>4. n + 1 = Len(fmt')
    BY <1>1, <2>1
  <2> QED BY <1>1, <2>1, <2>3, <2>4 DEF Sound
<1>7. Done' = 1 => Opened'
  <2>1. Done' = 1 => entries[1].format = "START"
    BY <1>1, EntryWritten
  <2> QED BY <1>1, <1>6, <2>1 DEF Opened
<1>8. Done' = 2 => Pointed(request.address)'
  <2> SUFFICES ASSUME Done' = 2 PROVE Pointed(request.address)'
    OBVIOUS
  <2>1. Done = 1
    BY <1>1
  <2>2. IsByte(entries[1]) /\ entries[1].byte = request.address
    BY <1>1, <2>1, EntryWritten
  <2>3. PICK n : n = Len(fmt)
    OBVIOUS
  <2>4. n + 1 = Len(fmt')
    BY <1>1, <2>3
  <2>5. ~WritesAt(n + 1)'
    BY <2>1, <2>3, AppendMeaning
  <2> QED BY <1>1, <1>6, <2>2, <2>4, <2>5 DEF Pointed, IsByte
<1> QED BY <1>4, <1>5, <1>7, <1>8 DEF BusInv, IsByte

LEMMA WriteByteKeepsLand ==
    ASSUME I2CInv, ShapeInv, BusInv, LandInv, i2c_write_byte, Len(fmt) < FmtDepth,
           whole <= transfer
    PROVE  LandInv'
<1> SUFFICES ASSUME NEW r \in Registers, Due(r)' >= whole'
             PROVE  /\ (\A i \in 1..Len(fmt') : ~Writes(i, r)') =>
                           /\ memory'[r] = Due(r)'
                           /\ \A i \in 1..Len(fmt') : Sound(i)'
                    /\ \A i \in 1..Len(fmt') :
                           Writes(i, r)' /\ (\A j \in 1..Len(fmt') : Writes(j, r)' => j <= i)
                               => fmt'[i].transfer = Due(r)'
  BY DEF LandInv
<1>0. PICK n : n = Len(fmt)
  OBVIOUS
<1>1. /\ pc = "format"
      /\ Len(fmt) \in Nat /\ Len(fmt') = Len(fmt) + 1
      /\ \A i \in 1..Len(fmt) : fmt'[i] = fmt[i]
      /\ fmt'[Len(fmt) + 1] = entries[1]
      /\ UNCHANGED <<request, transfer, memory, whole>>
      /\ Done \in 0..3 /\ Done' = Done + 1
      /\ Len(entries) \in 1..Total
      /\ pc' = IF Len(entries) > 1 THEN "format"
               ELSE IF request.write THEN "idle" ELSE "drain"
      /\ written' = IF pc' = "idle" THEN [written EXCEPT ![request.address] = transfer]
                    ELSE written
  BY WriteByteStep
<1>2. ASSUME NEW i \in 1..Len(fmt)
      PROVE  /\ Writes(i, r)' <=> Writes(i, r)
             /\ Sound(i)' <=> Sound(i)
             /\ i \in 1..Len(fmt')
  BY <1>0, <1>1, AppendMeaning DEF Writes
<1>3. Writes(n + 1, r)' <=> (Done = 2 /\ request.write /\ request.address = r)
  <2>1. n + 1 \in 1..Len(fmt')
    BY <1>0, <1>1
  <2> QED BY <1>0, <2>1, AppendMeaning DEF Writes
<1>4. Due(r)' = IF Done = 2 /\ request.write /\ request.address = r THEN transfer
                ELSE Due(r)
  <2>1. request.write => Total = 4
    BY DEF Total
  <2>2. CASE request.write /\ request.address = r
    <3>1. Total = 4 /\ Len(entries) = 4 - Done
      BY <1>1, <2>1, <2>2 DEF Done
    <3>2. CASE Done = 3
      <4>1. pc' = "idle"
        BY <1>1, <2>2, <3>1, <3>2
      <4>2. written'[r] = transfer
        BY <1>1, <2>2, <4>1 DEF I2CInv, I2CTypeOK
      <4> QED BY <1>1, <2>2, <3>2, <4>1, <4>2 DEF Due
    <3>3. CASE Done # 3
      <4>1. pc' = "format" /\ written' = written
        BY <1>1, <3>1, <3>3
      <4>2. Done' = 3 <=> Done = 2
        BY <1>1
      <4> QED BY <1>1, <2>2, <3>3, <4>1, <4>2 DEF Due
    <3> QED BY <3>2, <3>3
  <2>3. CASE ~(request.write /\ request.address = r)
    <3>1. written'[r] = written[r]
      <4>1. CASE pc' = "idle"
        <5>1. request.write
          BY <1>1, <4>1
        <5>2. request.address # r
          BY <2>3, <5>1
        <5> QED BY <1>1, <4>1, <5>2 DEF I2CInv, I2CTypeOK
      <4>2. CASE pc' # "idle"
        BY <1>1, <4>2
      <4> QED BY <4>1, <4>2
    <3> QED BY <1>1, <2>3, <3>1 DEF Due
  <2> QED BY <2>2, <2>3
<1>5. CASE Done = 2 /\ request.write /\ request.address = r
  <2>1. n + 1 \in 1..Len(fmt') /\ Writes(n + 1, r)'
    BY <1>0, <1>1, <1>3, <1>5
  <2>2. ASSUME NEW i \in 1..Len(fmt'), \A j \in 1..Len(fmt') : Writes(j, r)' => j <= i
        PROVE  i = n + 1
    <3>1. n + 1 <= i
      BY <2>1, <2>2
    <3>2. Len(fmt') = n + 1 /\ n \in Nat
      BY <1>0, <1>1
    <3> QED BY <3>1, <3>2
  <2>3. entries[1].transfer = transfer
    BY <1>1, EntryWritten
  <2>4. fmt'[n + 1].transfer = Due(r)'
    BY <1>0, <1>1, <1>4, <1>5, <2>3
  <2> QED BY <2>1, <2>2, <2>4
<1>6. CASE ~(Done = 2 /\ request.write /\ request.address = r)
  <2>1. \A i \in 1..Len(fmt') : Writes(i, r)' => i \in 1..Len(fmt)
    BY <1>0, <1>1, <1>3, <1>6
  <2>2. ASSUME \A i \in 1..Len(fmt') : ~Writes(i, r)'
        PROVE  memory'[r] = Due(r)' /\ \A i \in 1..Len(fmt') : Sound(i)'
    <3>1. Due(r)' = Due(r) /\ Due(r) >= whole
      BY <1>1, <1>4, <1>6
    <3>2. memory[r] = Due(r) /\ \A i \in 1..Len(fmt) : Sound(i)
      BY <1>2, <2>2, <3>1 DEF LandInv
    <3>3. Sound(n + 1)'
      BY <1>0, AppendMeaning
    <3>4. ASSUME NEW i \in 1..Len(fmt') PROVE Sound(i)'
      <4>1. i \in 1..Len(fmt) \/ i = n + 1
        BY <1>0, <1>1
      <4> QED BY <1>2, <3>2, <3>3, <4>1
    <3> QED BY <1>1, <3>1, <3>2, <3>4
  <2>3. ASSUME NEW i \in 1..Len(fmt'), Writes(i, r)',
               \A j \in 1..Len(fmt') : Writes(j, r)' => j <= i
        PROVE  fmt'[i].transfer = Due(r)'
    <3>1. i \in 1..Len(fmt) /\ Writes(i, r) /\ fmt'[i] = fmt[i]
      BY <1>1, <1>2, <2>1, <2>3
    <3>2. \A j \in 1..Len(fmt) : Writes(j, r) => j <= i
      BY <1>2, <2>3
    <3>3. Due(r)' = Due(r) /\ Due(r) >= whole
      BY <1>1, <1>4, <1>6
    <3> QED BY <3>1, <3>2, <3>3 DEF LandInv
  <2> QED BY <2>2, <2>3
<1> QED BY <1>5, <1>6

LEMMA WriteByteKeepsAge ==
    ASSUME I2CInv, ShapeInv, AgeInv, i2c_write_byte
    PROVE  AgeInv'
<1>1. /\ pc = "format" /\ Len(fmt) \in Nat
      /\ \A i \in 1..Len(fmt) : fmt'[i] = fmt[i]
      /\ Len(fmt) < FmtDepth =>
             /\ Len(fmt') = Len(fmt) + 1 /\ fmt'[Len(fmt) + 1] = entries[1]
             /\ whole' = whole
      /\ ~(Len(fmt) < FmtDepth) => fmt' = fmt /\ whole' = transfer + 1
      /\ written' = IF pc' = "idle" THEN [written EXCEPT ![request.address] = transfer]
                    ELSE written
      /\ UNCHANGED transfer
  BY WriteByteStep
<1>2. /\ transfer \in Nat /\ whole \in Nat /\ written \in [Registers -> 0..MaxTransfers]
      /\ \A r \in Registers : written[r] \in Nat
  BY EntriesTyped DEF I2CInv, I2CTypeOK
<1>3. \A r \in Registers : written'[r] <= transfer'
  BY <1>1, <1>2 DEF AgeInv
<1>4. whole' <= transfer' + 1
  BY <1>1, <1>2 DEF AgeInv
<1>5. entries[1].transfer = transfer
  BY <1>1, EntryWritten
<1>6. ASSUME NEW i \in 1..Len(fmt') PROVE fmt'[i].transfer <= transfer'
  BY <1>1, <1>2, <1>5 DEF AgeInv
<1>7. ASSUME NEW i \in 1..Len(fmt'), NEW j \in 1..Len(fmt'), i < j
      PROVE  fmt'[i].transfer <= fmt'[j].transfer
  <2>1. i \in 1..Len(fmt) /\ fmt'[i] = fmt[i]
    BY <1>1, <1>7
  <2>2. CASE j \in 1..Len(fmt)
    BY <1>1, <1>7, <2>1, <2>2 DEF AgeInv
  <2>3. CASE j \notin 1..Len(fmt)
    <3>1. fmt'[j] = entries[1]
      BY <1>1, <2>3
    <3> QED BY <1>5, <2>1, <3>1 DEF AgeInv
  <2> QED BY <2>2, <2>3
<1> QED BY <1>3, <1>4, <1>6, <1>7 DEF AgeInv

\* In a transfer that has lost an entry, nothing is sound and nothing due from
\* the transfers that are.
LEMMA LossKeeps ==
    ASSUME I2CInv', AgeInv', whole' > transfer'
    PROVE  BusInv' /\ LandInv'
<1>1. /\ whole' \in Nat /\ transfer' \in Nat
      /\ \A r \in Registers : written'[r] \in Nat
      /\ fmt' \in Seq(Entries) /\ Entries' = Entries
  BY I2CAssumption DEF I2CInv, I2CTypeOK, Entries
<1>2. ASSUME NEW i \in 1..Len(fmt') PROVE ~Sound(i)'
  <2>1. fmt'[i] \in Entries
    BY <1>1
  <2>2. fmt'[i].transfer \in Nat
    BY <2>1, I2CAssumption DEF Entries
  <2> QED BY <1>1, <2>2 DEF AgeInv, Sound
<1>3. ASSUME NEW r \in Registers PROVE ~(Due(r)' >= whole')
  BY <1>1 DEF AgeInv, Due
<1>4. fmt' # <<>> => 1 \in 1..Len(fmt')
  BY <1>1
<1>5. BusInv'
  BY <1>1, <1>2, <1>4 DEF BusInv
<1>6. LandInv'
  BY <1>3 DEF LandInv
<1> QED BY <1>5, <1>6

----------------------------------------------------------------------------
(* The other steps of the driver *)

LEMMA ReadEntriesShape ==
    ASSUME NEW a \in Registers, NEW n \in 1..MaxCount, transfer' \in 1..MaxTransfers,
           NEW q, q = ReadEntries(a, n)
    PROVE  /\ Len(q) = 3 /\ q[1].format = "START"
           /\ IsByte(q[2]) /\ q[2].byte = a /\ q[3].byte = n
<1>1. a \in Nat /\ n \in Nat
  BY I2CAssumption
<1>2. PICK x, y, z : x = Entry("START", 0) /\ y = Entry("TX", a) /\ z = Entry("RX_STOP", n)
  OBVIOUS
<1>3. x.format = "START" /\ y.format = "TX" /\ y.byte = a /\ z.byte = n
  BY <1>1, <1>2, EntryType
<1>4. q = <<x, y, z>>
  BY <1>2, Zenon DEF ReadEntries
<1> QED BY <1>3, <1>4 DEF IsByte

LEMMA WriteEntriesShape ==
    ASSUME NEW a \in Registers, transfer' \in 1..MaxTransfers,
           NEW q, q = WriteEntries(a)
    PROVE  /\ Len(q) = 4 /\ q[1].format = "START"
           /\ IsByte(q[2]) /\ q[2].byte = a /\ IsByte(q[3])
<1>1. a \in Nat
  BY I2CAssumption
<1>2. PICK x, y, w, z : /\ x = Entry("START", 0) /\ y = Entry("TX", a)
                        /\ w = Entry("TX", 0) /\ z = Entry("RX_STOP", 1)
  OBVIOUS
<1>3. x.format = "START" /\ y.format = "TX" /\ y.byte = a /\ w.format = "TX"
  BY <1>1, <1>2, EntryType
<1>4. q = <<x, y, w, z>>
  BY <1>2, Zenon DEF WriteEntries
<1> QED BY <1>3, <1>4 DEF IsByte

LEMMA ShapeBegins ==
    ASSUME Len(entries') = Total', entries'[1].format = "START",
           IsByte(entries'[2]), entries'[2].byte = request'.address,
           request'.write => IsByte(entries'[3]),
           ~request'.write => entries'[3].byte = request'.count
    PROVE  ShapeInv' /\ Done' = 0
<1>1. Total' = (IF request'.write THEN 4 ELSE 3) /\ Total' \in {3, 4}
  BY DEF Total
<1>2. Done' = 0
  BY <1>1 DEF Done
<1>3. ASSUME NEW i \in 1..Len(entries')
      PROVE  /\ i = 1 => entries'[i].format = "START"
             /\ 1 < i /\ i < Total' => IsByte(entries'[i])
             /\ i = 2 => entries'[i].byte = request'.address
             /\ i = Total' /\ ~request'.write => entries'[i].byte = request'.count
  <2>1. i \in 1..4 /\ (~request'.write => Total' = 3)
    BY <1>1
  <2>2. 1 < i /\ i < Total' => i = 2 \/ (i = 3 /\ request'.write)
    BY <1>1, <2>1
  <2> QED BY <1>1, <2>1, <2>2
<1>4. \A i \in 1..Len(entries') : Done' + i = i
  BY <1>2
<1>5. Len(entries') \in 1..Total'
  BY <1>1
<1> QED BY <1>2, <1>3, <1>4, <1>5 DEF ShapeInv, IsByte

LEMMA BeginKeepsTransfer ==
    ASSUME TransferInv, I2CInv', pc = "idle", Begin, data' = <<>>, pc' = "format",
           UNCHANGED <<controller, written, whole>>, ShapeInv', Done' = 0
    PROVE  TransferInv'
<1>1. UNCHANGED <<fmt, rx, addressed, pointer, fetching, memory, written, whole>>
  BY DEF controller
<1>5. AgeInv' /\ whole <= transfer'
  <2>1. transfer' = transfer + 1 /\ transfer \in Nat
    BY I2CAssumption DEF Begin, TransferInv, I2CInv, I2CTypeOK
  <2> QED BY <1>1, <2>1, AgeKept DEF TransferInv, AgeInv
<1>2. BusInv'
  BY <1>1, BusKept DEF TransferInv
<1>3. LandInv'
  <2>1. \A r : Due(r)' = Due(r)
    BY <1>1 DEF Due
  <2> QED BY <1>1, <2>1, LandKept DEF TransferInv
<1>4. KeptInv'
  <2> SUFFICES ASSUME keptUp'
               PROVE  /\ Len(fmt') <= 1 /\ fetching'.left = 0 /\ rx' = <<>> /\ fmt' = <<>>
                      /\ whole' <= transfer'
                      /\ \A i \in 1..Len(fmt') : ~IsRead(fmt'[i])
    BY DEF KeptInv, IsRead
  <2>1. fmt' = <<>> /\ fetching'.left = 0 /\ rx' = <<>>
    BY <1>1 DEF Begin, ControllerIdle
  <2>2. Len(fmt') = 0
    BY <2>1, EmptyQueue, Zenon
  <2> QED BY <1>1, <1>5, <2>1, <2>2
<1> QED BY <1>2, <1>3, <1>4, <1>5 DEF TransferInv

LEMMA ReadTransfer ==
    ASSUME NEW a \in Registers, NEW n \in 1..MaxCount,
           TransferInv, I2CInv', i2c_read_target_registers(a, n)
    PROVE  TransferInv'
<1>1. /\ pc = "idle" /\ transfer < MaxTransfers /\ Begin /\ data' = <<>> /\ pc' = "format"
      /\ request' = [write |-> FALSE, address |-> a, count |-> n]
      /\ UNCHANGED <<controller, written, whole>>
  BY DEF i2c_read_target_registers
<1>2. transfer' \in 1..MaxTransfers
  BY <1>1, I2CAssumption DEF Begin, TransferInv, I2CInv, I2CTypeOK
<1>3. PICK q : q = ReadEntries(a, n) /\ entries' = q
  BY DEF i2c_read_target_registers
<1>4. /\ Len(q) = 3 /\ q[1].format = "START"
      /\ IsByte(q[2]) /\ q[2].byte = a /\ q[3].byte = n
  BY <1>2, <1>3, ReadEntriesShape
<1>5. ~request'.write /\ request'.address = a /\ request'.count = n
  BY <1>1
<1>6. Total' = 3
  BY <1>5 DEF Total
<1>7. ShapeInv' /\ Done' = 0
  BY <1>3, <1>4, <1>5, <1>6, ShapeBegins
<1> QED BY <1>1, <1>7, BeginKeepsTransfer

LEMMA WriteTransfer ==
    ASSUME NEW a \in Registers,
           TransferInv, I2CInv', i2c_write_target_register(a)
    PROVE  TransferInv'
<1>1. /\ pc = "idle" /\ transfer < MaxTransfers /\ Begin /\ data' = <<>> /\ pc' = "format"
      /\ request' = [write |-> TRUE, address |-> a, count |-> 1]
      /\ UNCHANGED <<controller, written, whole>>
  BY DEF i2c_write_target_register
<1>2. transfer' \in 1..MaxTransfers
  BY <1>1, I2CAssumption DEF Begin, TransferInv, I2CInv, I2CTypeOK
<1>3. PICK q : q = WriteEntries(a) /\ entries' = q
  BY DEF i2c_write_target_register
<1>4. /\ Len(q) = 4 /\ q[1].format = "START"
      /\ IsByte(q[2]) /\ q[2].byte = a /\ IsByte(q[3])
  BY <1>2, <1>3, WriteEntriesShape
<1>5. request'.write /\ request'.address = a
  BY <1>1
<1>6. Total' = 4
  BY <1>5 DEF Total
<1>7. ShapeInv' /\ Done' = 0
  BY <1>3, <1>4, <1>5, <1>6, ShapeBegins
<1> QED BY <1>1, <1>7, BeginKeepsTransfer

\* Taking bytes out of the receive FIFO disturbs nothing that is under way.
LEMMA DrainKeeps ==
    ASSUME I2CInv, ShapeInv, AgeInv, BusInv, LandInv, pc = "drain",
           pc' \in {"drain", "idle"},
           UNCHANGED <<transfer, fmt, addressed, pointer, fetching, memory, written, whole>>
    PROVE  ShapeInv' /\ AgeInv' /\ BusInv' /\ LandInv'
<1>1. ShapeInv'
  BY DEF ShapeInv
<1>2. BusInv'
  BY BusKept
<1>3. \A r : Due(r)' = Due(r)
  BY DEF Due
<1>4. transfer \in Nat
  BY DEF I2CInv, I2CTypeOK
<1> QED BY <1>1, <1>2, <1>3, <1>4, LandKept, AgeKept

LEMMA TransferStutters ==
    ASSUME TransferInv, UNCHANGED vars
    PROVE  TransferInv'
<1>1. UNCHANGED <<pc, request, transfer, entries, data, fmt, rx, addressed, pointer,
                  fetching, memory, written, whole, keptUp>>
  BY DEF vars
<1>2. I2CInv'
  BY I2CStutters DEF TransferInv
<1>3. Done' = Done /\ Total' = Total
  BY <1>1 DEF Done, Total
<1>4. ShapeInv'
  BY <1>1, <1>3 DEF TransferInv, ShapeInv, IsByte
<1>5. BusInv'
  <2>1. pc' # "format" \/ (pc = "format" /\ UNCHANGED <<request, transfer, entries>>)
    BY <1>1
  <2> QED BY <1>1, <2>1, BusKept DEF TransferInv
<1>6. LandInv'
  <2>1. \A r : Due(r)' = Due(r)
    BY <1>1, <1>3 DEF Due
  <2> QED BY <1>1, <2>1, LandKept DEF TransferInv
<1>7. KeptInv'
  <2>1. \A i : Wanted(i)' = Wanted(i)
    BY <1>1 DEF Wanted
  <2>2. Reading' <=> Reading
    BY <1>1, <2>1 DEF Reading, IsRead
  <2> QED BY <1>1, <1>3, <2>1, <2>2 DEF TransferInv, KeptInv, ControllerIdle, IsRead
<1>8. AgeInv'
  <2>1. transfer \in Nat
    BY DEF TransferInv, I2CInv, I2CTypeOK
  <2> QED BY <1>1, <2>1, AgeKept DEF TransferInv
<1> QED BY <1>2, <1>4, <1>5, <1>6, <1>7, <1>8 DEF TransferInv

----------------------------------------------------------------------------
(* A controller that keeps up *)

LEMMA RequestTyped ==
    ASSUME I2CInv
    PROVE  /\ request.count \in Nat \ {0} /\ request.count <= MaxCount
           /\ request.address \in Nat /\ request.address \in Registers
           /\ request.write \in BOOLEAN
<1>1. request \in Requests /\ MaxCount \in Nat /\ Registers \subseteq Nat
  BY I2CAssumption DEF I2CInv, I2CTypeOK
<1>2. /\ request.count \in 1..MaxCount /\ request.address \in Registers
      /\ request.write \in BOOLEAN
  BY <1>1 DEF Requests
<1>3. request.count \in Nat \ {0} /\ request.count <= MaxCount
  BY <1>1, <1>2
<1> QED BY <1>1, <1>2, <1>3

LEMMA ExecuteKeepsKept ==
    ASSUME TransferInv, Execute
    PROVE  KeptInv'
<1>1. /\ fetching.left = 0 /\ fmt # <<>>
      /\ UNCHANGED <<pc, request, transfer, entries, data, rx, written, whole, keptUp>>
      /\ Len(fmt) \in Nat \ {0} /\ Len(fmt') = Len(fmt) - 1
      /\ fmt' = <<>> <=> Len(fmt) = 1
  BY ExecuteStep DEF TransferInv
<1> SUFFICES ASSUME keptUp
             PROVE  /\ pc = "format" => /\ Len(fmt') <= 1 /\ fetching'.left = 0
                                        /\ data = <<>> /\ rx = <<>> /\ whole <= transfer
                                        /\ \A i \in 1..Len(fmt') : ~IsRead(fmt'[i])
                                        /\ Done = 0 => fmt' = <<>>
                    /\ pc = "drain" => Reading'
                    /\ ~(pc = "idle" /\ ~request.write)
  <2>1. Done' = Done
    BY <1>1 DEF Done, Total
  <2> QED BY <1>1, <2>1 DEF KeptInv, IsRead
<1>2. ASSUME pc = "format"
      PROVE  /\ Len(fmt') <= 1 /\ fetching'.left = 0 /\ data = <<>> /\ rx = <<>>
             /\ whole <= transfer
             /\ \A i \in 1..Len(fmt') : ~IsRead(fmt'[i])
             /\ Done = 0 => fmt' = <<>>
  <2>1. /\ Len(fmt) <= 1 /\ data = <<>> /\ rx = <<>> /\ whole <= transfer
        /\ \A i \in 1..Len(fmt) : ~IsRead(fmt[i])
    BY <1>2 DEF TransferInv, KeptInv
  <2>2. Len(fmt) = 1 /\ Len(fmt') = 0
    BY <1>1, <2>1
  <2>3. fetching' = fetching
    <3>1. ~IsRead(fmt[1])
      BY <2>1, <2>2
    <3> QED BY <3>1, ExecuteCases DEF TransferInv
  <2> QED BY <1>1, <2>1, <2>2, <2>3
<1>3. ASSUME pc = "drain" PROVE Reading'
  <2>1. /\ Len(fmt) = 1 /\ IsRead(fmt[1])
        /\ fmt[1].byte = request.count /\ fmt[1].transfer = transfer
        /\ pointer = request.address /\ data = <<>> /\ rx = <<>>
    BY <1>1, <1>3 DEF TransferInv, KeptInv, Reading
  <2>2. fetching' = [left |-> request.count, transfer |-> transfer] /\ pointer' = pointer
    BY <2>1, ExecuteCases DEF TransferInv, IsByte, IsRead
  <2>3. fetching'.left = request.count /\ fetching'.transfer = transfer
    BY <2>2
  <2>4. request.count \in Nat /\ request.address \in Nat
    BY RequestTyped DEF TransferInv
  <2>5. Len(data') = 0 /\ Len(rx') = 0
    BY <1>1, <2>1
  <2> QED BY <1>1, <2>1, <2>2, <2>3, <2>4, <2>5 DEF Reading
<1>4. ~(pc = "idle" /\ ~request.write)
  BY <1>1 DEF TransferInv, KeptInv, ControllerIdle
<1> QED BY <1>2, <1>3, <1>4

LEMMA FetchKeepsKept ==
    ASSUME TransferInv, Fetch
    PROVE  KeptInv'
<1> DEFINE b == [register |-> pointer, transfer |-> fetching.transfer]
<1>1. /\ fetching.left > 0 /\ fetching' = [fetching EXCEPT !.left = fetching.left - 1]
      /\ pointer' = pointer + 1
      /\ rx' = IF Len(rx) = RxDepth THEN rx ELSE Append(rx, b)
      /\ UNCHANGED <<pc, request, transfer, entries, data, keptUp, fmt>>
  BY DEF Fetch, driver
<1>2. /\ fetching \in [left : 0..MaxCount, transfer : 0..MaxTransfers]
      /\ rx \in Seq(Bytes) /\ data \in Seq(Bytes) /\ Len(rx) \in Nat /\ Len(data) \in Nat
      /\ MaxCount \in Nat /\ RxDepth \in Nat /\ MaxCount <= RxDepth
  BY I2CAssumption, Adxl345Assumption DEF TransferInv, I2CInv, I2CTypeOK
<1>3. fetching.left \in Nat /\ fetching.left # 0
      /\ fetching'.left = fetching.left - 1 /\ fetching'.transfer = fetching.transfer
  BY <1>1, <1>2
<1> HIDE DEF b
<1>4. ASSUME keptUp, pc = "drain" PROVE Reading'
  <2>1. /\ fmt = <<>> /\ fetching.transfer = transfer
        /\ fetching.left <= request.count
        /\ pointer = request.address + (request.count - fetching.left)
        /\ Len(data) + Len(rx) = request.count - fetching.left
        /\ \A i \in 1..Len(data) : data[i] = Wanted(i)
        /\ \A i \in 1..Len(rx) : rx[i] = Wanted(Len(data) + i)
    BY <1>3, <1>4 DEF TransferInv, KeptInv, Reading
  <2>2. /\ request.count \in Nat \ {0} /\ request.count <= MaxCount
        /\ request.address \in Nat
    BY RequestTyped DEF TransferInv
  <2>3. Len(rx) # RxDepth
    BY <1>2, <1>3, <2>1, <2>2
  <2>4. b \in Bytes
    <3>1. fetching.transfer \in 1..MaxTransfers /\ pointer \in Nat
      BY <1>1, <1>2 DEF TransferInv, I2CInv, I2CTypeOK, FormatInv
    <3> QED BY <3>1 DEF b, Bytes
  <2>5. /\ Len(rx') = Len(rx) + 1
        /\ \A i \in 1..Len(rx) : rx'[i] = rx[i]
        /\ rx'[Len(rx) + 1] = b
    <3>1. /\ Len(Append(rx, b)) = Len(rx) + 1
          /\ \A i \in 1..Len(rx) : Append(rx, b)[i] = rx[i]
          /\ Append(rx, b)[Len(rx) + 1] = b
      BY <1>2, <2>4, QueueAppend
    <3> QED BY <1>1, <2>3, <3>1, Zenon
  <2>6. b = Wanted(Len(data) + Len(rx) + 1)
    <3>1. pointer = request.address + (Len(data) + Len(rx) + 1) - 1
      BY <1>2, <1>3, <2>1, <2>2
    <3> QED BY <2>1, <3>1, Zenon DEF b, Wanted
  <2>7. \A i : Wanted(i)' = Wanted(i)
    BY <1>1 DEF Wanted
  <2>8. \A i \in 1..Len(rx') : rx'[i] = Wanted(Len(data) + i)
    <3> SUFFICES ASSUME NEW i \in 1..Len(rx') PROVE rx'[i] = Wanted(Len(data) + i)
      OBVIOUS
    <3>1. CASE i \in 1..Len(rx)
      BY <2>1, <2>5, <3>1
    <3>2. CASE i = Len(rx) + 1
      <4>1. Len(data) + i = Len(data) + Len(rx) + 1
        BY <1>2, <3>2
      <4> QED BY <2>5, <2>6, <3>2, <4>1
    <3> QED BY <1>2, <2>5, <3>1, <3>2
  <2>9. /\ fetching'.left <= request.count
        /\ pointer' = request.address + (request.count - fetching'.left)
        /\ Len(data) + Len(rx') = request.count - fetching'.left
    <3>1. PICK l, c, a, d, r : /\ l = fetching.left /\ c = request.count
                               /\ a = request.address /\ d = Len(data) /\ r = Len(rx)
      OBVIOUS
    <3>2. /\ l \in Nat /\ l # 0 /\ c \in Nat /\ a \in Nat /\ d \in Nat /\ r \in Nat
          /\ l <= c /\ d + r = c - l
          /\ fetching'.left = l - 1 /\ pointer' = a + (c - l) + 1 /\ Len(rx') = r + 1
      BY <1>1, <1>2, <1>3, <2>1, <2>2, <2>5, <3>1
    <3>3. l - 1 <= c /\ a + (c - l) + 1 = a + (c - (l - 1)) /\ d + (r + 1) = c - (l - 1)
      BY <3>2
    <3> QED BY <3>1, <3>2, <3>3, Zenon
  <2>10. data' = data /\ request' = request /\ transfer' = transfer /\ fmt' = fmt
    BY <1>1
  <2> QED BY <1>3, <2>1, <2>7, <2>8, <2>9, <2>10, Zenon DEF Reading
<1>5. ASSUME keptUp PROVE pc # "format" /\ ~(pc = "idle" /\ ~request.write)
  BY <1>3, <1>5 DEF TransferInv, KeptInv, ControllerIdle
<1> QED BY <1>1, <1>4, <1>5 DEF KeptInv

LEMMA WriteByteKeepsKept ==
    ASSUME TransferInv, i2c_write_byte
    PROVE  KeptInv'
<1>1. /\ pc = "format" /\ Len(entries) \in 1..Total
      /\ Done' = Done + 1 /\ Done \in 0..3
      /\ Len(fmt) < FmtDepth =>
             /\ Len(fmt') = Len(fmt) + 1 /\ fmt'[Len(fmt) + 1] = entries[1]
             /\ whole' = whole
      /\ pc' = IF Len(entries) > 1 THEN "format"
               ELSE IF request.write THEN "idle" ELSE "drain"
      /\ UNCHANGED <<request, transfer, data, rx, addressed, pointer, fetching, memory>>
  BY WriteByteStep DEF TransferInv
<1> SUFFICES ASSUME keptUp'
             PROVE  /\ pc' = "format" => /\ Len(fmt') <= 1 /\ fetching'.left = 0
                                         /\ data' = <<>> /\ rx' = <<>>
                                         /\ whole' <= transfer'
                                         /\ \A i \in 1..Len(fmt') : ~IsRead(fmt'[i])
                    /\ pc' = "drain" => Reading'
                    /\ ~(pc' = "idle" /\ ~request'.write)
  <2>1. Done' # 0
    BY <1>1
  <2> QED BY <2>1 DEF KeptInv, IsRead
<1>2. /\ fmt = <<>> /\ fetching.left = 0
      /\ data = <<>> /\ rx = <<>> /\ whole <= transfer
  BY <1>1 DEF i2c_write_byte, Access, ControllerIdle, TransferInv, KeptInv
<1>3. Len(fmt') = 1 /\ fmt'[1] = entries[1] /\ whole' = whole
  <2>1. Len(fmt) = 0
    BY <1>2, EmptyQueue, Zenon
  <2>2. Len(fmt) < FmtDepth
    BY <2>1, I2CAssumption
  <2> QED BY <1>1, <2>1, <2>2
<1>4. IsRead(entries[1]) <=> Len(entries) = 1
  <2>1. 1 \in 1..Len(entries)
    BY <1>1 DEF Total
  <2> QED BY <1>1, <2>1 DEF TransferInv, I2CInv, FormatInv
<1>5. pc' = "format" => \A i \in 1..Len(fmt') : ~IsRead(fmt'[i])
  <2> SUFFICES ASSUME pc' = "format", NEW i \in 1..Len(fmt') PROVE ~IsRead(fmt'[i])
    OBVIOUS
  <2>1. i = 1
    BY <1>3
  <2>2. Len(entries) > 1
    BY <1>1
  <2>3. ~IsRead(entries[1])
    <3>1. Len(entries) \in Nat
      BY DEF TransferInv, I2CInv, I2CTypeOK
    <3>2. \A k \in Nat : k > 1 => k # 1
      OBVIOUS
    <3>3. Len(entries) # 1
      BY <2>2, <3>1, <3>2, Zenon
    <3> QED BY <1>4, <3>3
  <2> QED BY <1>3, <2>1, <2>3
<1>6. ASSUME pc' = "drain" PROVE Reading'
  <2>1. ~request.write /\ Len(entries) <= 1
    BY <1>1, <1>6
  <2>2. Total = 3 /\ Len(entries) \in 1..Total
    BY <1>1, <2>1 DEF Total
  <2>5. Len(entries) = 1
    BY <2>1, <2>2
  <2>6. Done = 2
    BY <2>2, <2>5 DEF Done
  <2>3. pointer = request.address
    BY <1>1, <1>2, <2>6 DEF TransferInv, BusInv, Pointed
  <2>4. /\ IsRead(entries[1]) /\ entries[1].byte = request.count
        /\ entries[1].transfer = transfer
    BY <1>1, <2>1, <2>6, EntryWritten DEF TransferInv
  <2> QED BY <1>1, <1>2, <1>3, <2>3, <2>4 DEF Reading, IsRead
<1>7. Len(fmt') <= 1
  BY <1>3
<1> QED BY <1>1, <1>2, <1>3, <1>5, <1>6, <1>7

LEMMA ReadByteKeepsKept ==
    ASSUME TransferInv, i2c_read_byte
    PROVE  KeptInv'
<1> DEFINE b == Head(rx)
<1>1. /\ pc = "drain" /\ rx # <<>>
      /\ data' = Append(data, b) /\ rx' = Tail(rx)
      /\ keptUp' = (keptUp /\ ControllerIdle)
      /\ UNCHANGED <<pc, request, transfer, entries, fmt, addressed, pointer, fetching,
                     memory, written, whole>>
  BY DEF i2c_read_byte, Access
<1>2. rx \in Seq(Bytes) /\ data \in Seq(Bytes)
  BY DEF TransferInv, I2CInv, I2CTypeOK
<1>3. /\ b \in Bytes /\ b = rx[1]
      /\ Len(rx) \in Nat /\ Len(rx) > 0 /\ Len(rx') = Len(rx) - 1
      /\ \A i \in 1..(Len(rx) - 1) : rx'[i] = rx[i + 1]
  <2>1. /\ b \in Bytes /\ b = rx[1]
        /\ Len(rx) \in Nat /\ Len(rx) > 0 /\ Len(Tail(rx)) = Len(rx) - 1
        /\ \A i \in 1..(Len(rx) - 1) : Tail(rx)[i] = rx[i + 1]
    BY <1>1, <1>2, QueueTail
  <2> QED BY <1>1, <2>1, Zenon
<1>4. /\ Len(data) \in Nat /\ Len(data') = Len(data) + 1
      /\ \A i \in 1..Len(data) : data'[i] = data[i]
      /\ data'[Len(data) + 1] = b
  <2>1. /\ Len(data) \in Nat
        /\ Len(Append(data, b)) = Len(data) + 1
        /\ \A i \in 1..Len(data) : Append(data, b)[i] = data[i]
        /\ Append(data, b)[Len(data) + 1] = b
    BY <1>2, <1>3, QueueAppend
  <2> HIDE DEF b
  <2> QED BY <1>1, <2>1, Zenon
<1> HIDE DEF b
<1> SUFFICES ASSUME keptUp' PROVE Reading'
  BY <1>1 DEF KeptInv
<1>5. /\ fmt = <<>> /\ fetching.transfer = transfer
      /\ fetching.left <= request.count
      /\ pointer = request.address + (request.count - fetching.left)
      /\ Len(data) + Len(rx) = request.count - fetching.left
      /\ \A i \in 1..Len(data) : data[i] = Wanted(i)
      /\ \A i \in 1..Len(rx) : rx[i] = Wanted(Len(data) + i)
  BY <1>1 DEF TransferInv, KeptInv, Reading
<1>6. \A i : Wanted(i)' = Wanted(i)
  BY <1>1 DEF Wanted
<1>7. ASSUME NEW i \in 1..Len(data') PROVE data'[i] = Wanted(i)
  <2>1. CASE i \in 1..Len(data)
    BY <1>4, <1>5, <2>1
  <2>2. CASE i = Len(data) + 1
    <3>1. rx[1] = Wanted(Len(data) + 1)
      BY <1>3, <1>5
    <3> QED BY <1>3, <1>4, <2>2, <3>1
  <2> QED BY <1>4, <2>1, <2>2
<1>8. ASSUME NEW i \in 1..Len(rx') PROVE rx'[i] = Wanted(Len(data') + i)
  <2>1. i + 1 \in 1..Len(rx) /\ rx'[i] = rx[i + 1] /\ Len(data) + (i + 1) = Len(data') + i
    BY <1>3, <1>4
  <2>2. rx[i + 1] = Wanted(Len(data) + (i + 1))
    BY <1>5, <2>1
  <2> QED BY <2>1, <2>2
<1>9. Len(data') + Len(rx') = Len(data) + Len(rx)
  BY <1>3, <1>4
<1> QED BY <1>1, <1>5, <1>6, <1>7, <1>8, <1>9, Zenon DEF Reading

LEMMA ReturnKeepsKept ==
    ASSUME TransferInv, ReturnData
    PROVE  KeptInv'
<1>1. /\ pc = "drain" /\ pc' = "idle"
      /\ rx = <<>> \/ Len(data) >= request.count
      /\ keptUp' = (keptUp /\ ControllerIdle)
      /\ UNCHANGED <<request, transfer, entries, data, fmt, rx, addressed, pointer,
                     fetching, memory, written, whole>>
  BY DEF ReturnData, Access, controller
<1> SUFFICES ASSUME keptUp'
             PROVE  /\ fmt = <<>> /\ fetching.left = 0 /\ rx = <<>>
                    /\ Len(data) = request.count
                    /\ \A i \in 1..Len(data) : data[i] = Wanted(i)
  BY <1>1 DEF KeptInv, ControllerIdle, Wanted
<1>2. /\ fmt = <<>> /\ fetching.left = 0
      /\ Len(data) + Len(rx) = request.count - fetching.left
      /\ \A i \in 1..Len(data) : data[i] = Wanted(i)
  <2>1. keptUp /\ fmt = <<>> /\ fetching.left = 0
    BY <1>1 DEF ControllerIdle
  <2>2. Reading
    BY <1>1, <2>1 DEF TransferInv, KeptInv
  <2>3. Len(fmt) # 1
    BY <2>1
  <2> QED BY <2>1, <2>2, <2>3 DEF Reading
<1>3. request.count \in Nat /\ rx \in Seq(Bytes) /\ Len(rx) \in Nat /\ Len(data) \in Nat
  BY RequestTyped DEF TransferInv, I2CInv, I2CTypeOK
<1>4. Len(rx) = 0
  <2>1. CASE rx = <<>>
    BY <2>1
  <2>2. CASE Len(data) >= request.count
    BY <1>2, <1>3, <2>2
  <2> QED BY <1>1, <2>1, <2>2
<1>5. rx = <<>>
  BY <1>3, <1>4
<1>6. Len(data) = request.count
  BY <1>2, <1>3, <1>4
<1> QED BY <1>2, <1>5, <1>6

----------------------------------------------------------------------------
(* The transfers, put together *)

LEMMA TransferStarts == Init => TransferInv
<1> SUFFICES ASSUME Init PROVE TransferInv
  OBVIOUS
<1>1. /\ pc = "idle" /\ transfer = 0 /\ fmt = <<>> /\ rx = <<>>
      /\ memory = [r \in Registers |-> 0] /\ written = [r \in Registers |-> 0]
      /\ fetching.left = 0 /\ whole = 0
  BY DEF Init
<1>2. Len(fmt) = 0
  BY <1>1, EmptyQueue, Zenon
<1>3. ShapeInv
  BY <1>1 DEF ShapeInv
<1>4. BusInv
  BY <1>1, <1>2 DEF BusInv
<1>5. LandInv
  <2>1. ~\E i : i \in 1..Len(fmt)
    BY <1>2
  <2>2. \A r \in Registers : memory[r] = 0 /\ Due(r) = 0
    BY <1>1 DEF Due
  <2> QED BY <2>1, <2>2, Zenon DEF LandInv
<1>6. KeptInv
  BY <1>1 DEF KeptInv, ControllerIdle
<1>7. AgeInv
  BY <1>1, <1>2 DEF AgeInv
<1> QED BY <1>3, <1>4, <1>5, <1>6, <1>7, I2CStarts DEF TransferInv

LEMMA DriverKeeps == TransferInv /\ I2CInv' /\ Driver => TransferInv'
<1> SUFFICES ASSUME TransferInv, I2CInv', Driver PROVE TransferInv'
  OBVIOUS
<1>1. CASE i2c_write_byte
  <2>1. ShapeInv' /\ AgeInv' /\ KeptInv'
    BY <1>1, WriteByteKeepsShape, WriteByteKeepsAge, WriteByteKeepsKept DEF TransferInv
  <2>2. BusInv' /\ LandInv'
    <3>1. CASE Len(fmt) < FmtDepth /\ whole <= transfer
      BY <1>1, <3>1, WriteByteKeepsBus, WriteByteKeepsLand DEF TransferInv
    <3>2. CASE ~(Len(fmt) < FmtDepth /\ whole <= transfer)
      <4>1. /\ Len(fmt) < FmtDepth => whole' = whole
            /\ ~(Len(fmt) < FmtDepth) => whole' = transfer + 1
            /\ transfer' = transfer
        BY <1>1, WriteByteStep DEF TransferInv
      <4>2. transfer \in Nat /\ whole \in Nat
        BY DEF TransferInv, I2CInv, I2CTypeOK
      <4>3. whole' > transfer'
        BY <3>2, <4>1, <4>2
      <4> QED BY <2>1, <4>3, LossKeeps
    <3> QED BY <3>1, <3>2
  <2> QED BY <2>1, <2>2 DEF TransferInv
<1>2. CASE i2c_read_byte
  <2>1. /\ pc = "drain" /\ pc' = "drain"
        /\ UNCHANGED <<transfer, fmt, addressed, pointer, fetching, memory, written, whole>>
    BY <1>2 DEF i2c_read_byte
  <2> QED BY <1>2, <2>1, DrainKeeps, ReadByteKeepsKept DEF TransferInv
<1>3. CASE ReturnData
  <2>1. /\ pc = "drain" /\ pc' = "idle"
        /\ UNCHANGED <<transfer, fmt, addressed, pointer, fetching, memory, written, whole>>
    BY <1>3 DEF ReturnData, controller
  <2> QED BY <1>3, <2>1, DrainKeeps, ReturnKeepsKept DEF TransferInv
<1> QED BY <1>1, <1>2, <1>3 DEF Driver

LEMMA ControllerKeeps == TransferInv /\ I2CInv' /\ Controller => TransferInv'
<1> SUFFICES ASSUME TransferInv, I2CInv', Controller PROVE TransferInv'
  OBVIOUS
<1>1. UNCHANGED <<pc, request, entries>>
  BY DEF Controller, Execute, Fetch, driver
<1>2. ShapeInv'
  <2>1. Done' = Done /\ Total' = Total
    BY <1>1 DEF Done, Total
  <2> QED BY <1>1, <2>1 DEF TransferInv, ShapeInv, IsByte
<1>3. CASE Execute
  BY <1>2, <1>3, ExecuteKeepsAge, ExecuteKeepsBus, ExecuteKeepsLand, ExecuteKeepsKept
     DEF TransferInv
<1>4. CASE Fetch
  BY <1>2, <1>4, FetchKeepsBus, FetchKeepsKept DEF TransferInv
<1> QED BY <1>3, <1>4 DEF Controller

LEMMA StepKeepsTransfer == TransferInv /\ Step => TransferInv'
<1> SUFFICES ASSUME TransferInv, Step PROVE TransferInv'
  OBVIOUS
<1>0. I2CInv'
  BY StepKeeps DEF TransferInv
<1>1. CASE sensor_get_device_id
  <2>1. 0 \in Registers /\ 1 \in 1..MaxCount
    BY I2CAssumption, Adxl345Assumption
  <2> QED BY <1>0, <1>1, <2>1, ReadTransfer DEF sensor_get_device_id
<1>2. CASE sensor_init
  BY <1>2, TransferStutters DEF sensor_init, vars
<1>3. CASE adxl345_read_data
  BY <1>0, <1>3, Adxl345Assumption, ReadTransfer DEF adxl345_read_data
<1>4. CASE ReturnSample
  BY <1>4, TransferStutters DEF ReturnSample
<1>5. CASE Other
  BY <1>0, <1>5, ReadTransfer, WriteTransfer DEF Other
<1>6. CASE Driver
  BY <1>0, <1>6, DriverKeeps
<1>7. CASE Controller
  BY <1>0, <1>7, ControllerKeeps
<1> QED BY <1>1, <1>2, <1>3, <1>4, <1>5, <1>6, <1>7 DEF Step

\* A read that was kept up with returned what the caller asked for.
LEMMA KeptIsRead == TransferInv => ReadsIfKeptUp
<1> SUFFICES ASSUME TransferInv, keptUp, pc = "idle", transfer > 0, ~request.write
             PROVE  data = [i \in 1..request.count |->
                               [register |-> request.address + i - 1, transfer |-> transfer]]
  BY DEF ReadsIfKeptUp, ReadsRegisters
<1>1. Len(data) = request.count /\ \A i \in 1..Len(data) : data[i] = Wanted(i)
  BY DEF TransferInv, KeptInv
<1>2. data \in Seq(Bytes)
  BY DEF TransferInv, I2CInv, I2CTypeOK
<1>3. data = [i \in 1..Len(data) |-> data[i]]
  BY <1>2
<1> QED BY <1>1, <1>3 DEF Wanted

\* Nothing waits for a controller that has caught up.
LEMMA QuietIsWritten == TransferInv => WritesLand
<1> SUFFICES ASSUME TransferInv, pc = "idle", ControllerIdle,
                    NEW r \in Registers, written[r] >= whole
             PROVE  memory[r] = written[r]
  BY DEF WritesLand
<1>1. Len(fmt) = 0
  <2>1. fmt = <<>>
    BY DEF ControllerIdle
  <2> QED BY <2>1, EmptyQueue, Zenon
<1>2. Due(r) = written[r]
  BY DEF Due
<1>3. \A i \in 1..Len(fmt) : ~Writes(i, r)
  BY <1>1
<1> QED BY <1>2, <1>3 DEF TransferInv, LandInv

LEMMA TransferInductive ==
    /\ AccelInit => TransferInv
    /\ TransferInv /\ [AccelNext]_accelVars => TransferInv'
<1>1. AccelInit => TransferInv
  BY TransferStarts DEF AccelInit
<1>2. ASSUME TransferInv, AccelNext PROVE TransferInv'
  BY <1>2, StepKeepsTransfer DEF AccelNext
<1>3. ASSUME TransferInv, UNCHANGED accelVars PROVE TransferInv'
  BY <1>3, TransferStutters DEF accelVars
<1> QED BY <1>1, <1>2, <1>3

----------------------------------------------------------------------------
(* Samples *)

\* What holds of the accelerometer itself while nothing has lagged.
ClientInv ==
    /\ wrote \/ ~request.write
    /\ client \in {"identify", "sampling"} => transfer > 0
    /\ client = "identify" => request.address = 0 /\ request.count = 1
    /\ client = "sampling" =>
           request.address = ADXL345_DATA_X0 /\ request.count = DataSize
    /\ lagged \/ wrote \/ keptUp
    /\ SampleWhole

\* Every step of the driver is an access or begins a transfer.
LEMMA KeptUpStep ==
    ASSUME TransferInv, ClientInv, AccelNext, ~lagged', ~wrote'
    PROVE  keptUp' /\ keptUp /\ ~request.write /\ ~lagged /\ ~wrote
<1>1. /\ Step /\ lagged' = (lagged \/ (driver' # driver /\ ~ControllerIdle))
      /\ wrote' = (wrote \/ request'.write)
  BY DEF AccelNext
<1>2. ~lagged /\ ~wrote /\ (driver' = driver \/ ControllerIdle)
  BY <1>1
<1>3. keptUp /\ ~request.write
  BY <1>2 DEF ClientInv
<1>4. CASE driver' = driver
  BY <1>2, <1>3, <1>4 DEF driver
<1>5. CASE ControllerIdle
  <2>1. CASE Begin /\ pc = "idle"
    <3>1. rx = <<>>
      BY <1>3, <2>1 DEF TransferInv, KeptInv
    <3> QED BY <1>2, <1>3, <1>5, <2>1, <3>1 DEF Begin
  <2>2. CASE Access
    BY <1>2, <1>3, <1>5, <2>2 DEF Access
  <2>3. CASE UNCHANGED vars \/ UNCHANGED driver
    BY <1>2, <1>3, <2>3 DEF vars, driver
  <2>4. (Begin /\ pc = "idle") \/ Access \/ UNCHANGED vars \/ UNCHANGED driver
    BY <1>1 DEF Step, sensor_get_device_id, sensor_init, adxl345_read_data, ReturnSample,
       Other, Driver, Controller, i2c_read_target_registers, i2c_write_target_register,
       i2c_write_byte, i2c_read_byte, ReturnData, Execute, Fetch
  <2> QED BY <2>1, <2>2, <2>3, <2>4
<1> QED BY <1>2, <1>4, <1>5

LEMMA ClientStep ==
    ASSUME TransferInv, TransferInv', ClientInv, AccelNext
    PROVE  ClientInv'
<1>1. /\ Step /\ lagged' = (lagged \/ (driver' # driver /\ ~ControllerIdle))
      /\ wrote' = (wrote \/ request'.write)
  BY DEF AccelNext
<1>2. transfer \in Nat /\ transfer' \in Nat /\ transfer <= transfer'
  <2>1. transfer \in Nat /\ transfer' \in Nat
    BY I2CAssumption DEF TransferInv, I2CInv, I2CTypeOK
  <2>2. transfer' = transfer \/ transfer' = transfer + 1
    BY <1>1 DEF Step, sensor_get_device_id, sensor_init, adxl345_read_data, ReturnSample,
       Other, Driver, Controller, i2c_read_target_registers, i2c_write_target_register,
       i2c_write_byte, i2c_read_byte, ReturnData, Execute, Fetch, Begin, vars, driver
  <2> QED BY <2>1, <2>2
<1>3. wrote' \/ ~request'.write
  BY <1>1
<1>4. lagged' \/ wrote' \/ keptUp'
  BY KeptUpStep
\* The request of the transfer of a client that waits for one.
<1>5. /\ client' \in {"identify", "sampling"} => transfer' > 0
      /\ client' = "identify" => request'.address = 0 /\ request'.count = 1
      /\ client' = "sampling" =>
             request'.address = ADXL345_DATA_X0 /\ request'.count = DataSize
  <2>1. CASE sensor_get_device_id
    <3>1. /\ client' = "identify" /\ transfer' = transfer + 1
          /\ request' = [write |-> FALSE, address |-> 0, count |-> 1]
      BY <2>1 DEF sensor_get_device_id, i2c_read_target_registers, Begin
    <3> QED BY <1>2, <3>1
  <2>2. CASE adxl345_read_data
    <3>1. /\ client' = "sampling" /\ transfer' = transfer + 1
          /\ request' = [write |-> FALSE, address |-> ADXL345_DATA_X0, count |-> DataSize]
      BY <2>2 DEF adxl345_read_data, i2c_read_target_registers, Begin
    <3> QED BY <1>2, <3>1
  <2>3. CASE sensor_init \/ ReturnSample \/ Other
    <3>1. client' \notin {"identify", "sampling"}
      BY <2>3 DEF sensor_init, ReturnSample, Other
    <3> QED BY <3>1
  <2>4. CASE (Driver \/ Controller) /\ UNCHANGED <<client, sample>>
    <3>1. request' = request /\ transfer' = transfer
      BY <2>4 DEF Driver, Controller, i2c_write_byte, i2c_read_byte, ReturnData,
         Execute, Fetch, driver
    <3> QED BY <2>4, <3>1 DEF ClientInv
  <2> QED BY <1>1, <2>1, <2>2, <2>3, <2>4 DEF Step
\* What a read returned that was kept up with.
<1>6. ASSUME keptUp, ~request.write, pc = "idle", transfer > 0
      PROVE  /\ Len(data) = request.count
             /\ \A i \in 1..Len(data) : data[i] = Wanted(i)
  BY <1>6 DEF TransferInv, KeptInv
<1>7. ASSUME ~lagged', ~wrote'
      PROVE  /\ client' # "failed"
             /\ sample' # <<>> =>
                    \E t \in 1..transfer' :
                        sample' = [i \in 1..DataSize |->
                                      [register |-> ADXL345_DATA_X0 + i - 1, transfer |-> t]]
  <2>1. keptUp /\ ~request.write /\ ~lagged /\ ~wrote
    BY <1>7, KeptUpStep
  <2>2. /\ client # "failed"
        /\ sample # <<>> =>
               \E t \in 1..transfer :
                   sample = [i \in 1..DataSize |->
                                [register |-> ADXL345_DATA_X0 + i - 1, transfer |-> t]]
    BY <2>1 DEF ClientInv, SampleWhole
  <2>3. CASE UNCHANGED sample /\ client' # "failed"
    <3> SUFFICES ASSUME sample # <<>>
                 PROVE  \E t \in 1..transfer' :
                            sample = [i \in 1..DataSize |->
                                [register |-> ADXL345_DATA_X0 + i - 1, transfer |-> t]]
      BY <2>3
    <3>1. PICK t \in 1..transfer :
                   sample = [i \in 1..DataSize |->
                                [register |-> ADXL345_DATA_X0 + i - 1, transfer |-> t]]
      BY <2>2
    <3>2. t \in 1..transfer'
      BY <1>2
    <3> QED BY <3>1, <3>2
  <2>4. CASE sensor_init
    <3>1. /\ client = "identify" /\ pc = "idle" /\ sample' = sample
          /\ client' = IF Identified THEN "ready" ELSE "failed"
      BY <2>4 DEF sensor_init
    <3>2. transfer > 0 /\ request.address = 0 /\ request.count = 1
      BY <3>1 DEF ClientInv
    <3>3. Len(data) = 1 /\ \A i \in 1..Len(data) : data[i] = Wanted(i)
      BY <1>6, <2>1, <3>1, <3>2
    <3>4. data # <<>> /\ data[1] = Wanted(1)
      BY <3>3
    <3>5. Wanted(1).register = 0
      BY <3>2 DEF Wanted
    <3>6. Identified
      BY <3>4, <3>5 DEF Identified
    <3> QED BY <2>3, <3>1, <3>6
  <2>5. CASE ReturnSample
    <3>1. /\ client = "sampling" /\ pc = "idle" /\ client' = "ready"
          /\ sample' = [i \in 1..DataSize |-> IF i <= Len(data) THEN data[i]
                                              ELSE Uninitialised]
      BY <2>5 DEF ReturnSample
    <3>2. transfer > 0 /\ request.address = ADXL345_DATA_X0 /\ request.count = DataSize
      BY <3>1 DEF ClientInv
    <3>3. Len(data) = DataSize /\ \A i \in 1..Len(data) : data[i] = Wanted(i)
      BY <1>6, <2>1, <3>1, <3>2
    <3>4. DataSize \in Nat
      BY I2CAssumption, Adxl345Assumption
    <3>5. \A i \in 1..DataSize :
              (IF i <= Len(data) THEN data[i] ELSE Uninitialised)
                  = [register |-> ADXL345_DATA_X0 + i - 1, transfer |-> transfer]
      BY <3>2, <3>3, <3>4 DEF Wanted
    <3>6. sample' = [i \in 1..DataSize |->
                        [register |-> ADXL345_DATA_X0 + i - 1, transfer |-> transfer]]
      BY <3>1, <3>5
    <3>7. transfer \in 1..transfer'
      BY <1>2, <3>2
    <3> QED BY <3>1, <3>6, <3>7
  <2>6. (UNCHANGED sample /\ client' # "failed") \/ sensor_init \/ ReturnSample
    BY <1>1, <2>2 DEF Step, sensor_get_device_id, adxl345_read_data, Other
  <2> QED BY <2>3, <2>4, <2>5, <2>6
<1>8. SampleWhole'
  BY <1>7 DEF SampleWhole
<1> QED BY <1>3, <1>4, <1>5, <1>8 DEF ClientInv

LEMMA ClientInductive ==
    /\ AccelInit => ClientInv
    /\ TransferInv /\ TransferInv' /\ ClientInv /\ [AccelNext]_accelVars => ClientInv'
<1>1. ASSUME AccelInit PROVE ClientInv
  <2>1. /\ keptUp /\ ~request.write /\ client = "off" /\ sample = <<>>
    BY <1>1 DEF AccelInit, Init
  <2> QED BY <2>1 DEF ClientInv, SampleWhole
<1>2. ASSUME TransferInv, TransferInv', ClientInv, AccelNext PROVE ClientInv'
  BY <1>2, ClientStep
<1>3. ASSUME ClientInv, UNCHANGED accelVars PROVE ClientInv'
  <2>1. UNCHANGED <<request, transfer, keptUp, client, sample, lagged, wrote>>
    BY <1>3 DEF accelVars, vars
  <2> QED BY <1>3, <2>1 DEF ClientInv, SampleWhole
<1> QED BY <1>1, <1>2, <1>3

----------------------------------------------------------------------------

(***************************************************************************)
(* Once the controller has caught up with i2c_write_target_register and    *)
(* i2c_read_target_registers (i2c.c), each register last written in a      *)
(* transfer that began behind the latest one to lose an entry (the format  *)
(* FIFO was full and i2c.c:205 does not look) holds what was written,      *)
(* however far the controller lagged behind, whatever was read in between  *)
(* and whatever half of a transfer the loss left on the bus.  Where the    *)
(* FIFO never overflows, that is every register.                           *)
(***************************************************************************)
THEOREM WritesReachRegisters == AccelSpec => []WritesLand
<1> QED BY QuietIsWritten, TransferInductive, PTL DEF AccelSpec

(***************************************************************************)
(* i2c_read_target_registers (i2c.c), which never waits for the            *)
(* controller, returns exactly the registers it was asked for if the       *)
(* controller was done whenever the driver looked during this transfer and *)
(* nothing was left in the receive FIFO before it, whatever went before.   *)
(***************************************************************************)
THEOREM ReadsWhenKeptUp == AccelSpec => []ReadsIfKeptUp
<1> QED BY KeptIsRead, TransferInductive, PTL DEF AccelSpec

(***************************************************************************)
(* While the controller keeps up and no register is written, sensor_init   *)
(* accepts the accelerometer and a sample of adxl345_read_data is the      *)
(* registers of the axes, all of one reading.                              *)
(***************************************************************************)
THEOREM WholeSample == AccelSpec => []SampleWhole
<1>1. ClientInv => SampleWhole
  BY DEF ClientInv
<1> QED BY <1>1, TransferInductive, ClientInductive, PTL DEF AccelSpec

=============================================================================
