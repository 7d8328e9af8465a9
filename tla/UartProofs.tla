----------------------------- MODULE UartProofs -----------------------------
(***************************************************************************)
(* Theorems about Uart, for every timer, timeout, step time and depth of   *)
(* the FIFOs.                                                              *)
(***************************************************************************)
EXTENDS Uart, TLAPS

\* The statements of uart_read, where the age counts.
Reading == pc \in {"getchar", "errors", "judge"}

\* How old start_timer can be at each statement: a round of the loop begins
\* within the timeout and takes three steps.
TimerInv ==
    /\ pc = "getchar" => age <= Timeout + MaxStep
    /\ pc = "errors"  => age <= Timeout + 2 * MaxStep
    /\ pc = "judge"   => age <= Timeout + 3 * MaxStep
    /\ Reading => time = (start_timer + age) % TimerModulus

\* What is left to do, and what uart_write may still write.
CountInv ==
    /\ pc # "returned" => data_length > 0
    /\ Reading => data_length <= MaxLength
    /\ pc = "putchar" => written + data_length <= MaxWritten
    /\ wire <= written

\* A byte has left the FIFO that is neither delivered nor refused yet.
InHand == pc = "errors" \/ (pc = "judge" /\ status = "OK")

\* A receive error is about to be reported.
Doomed ==
    \/ pc = "errors" /\ overrun
    \/ pc = "judge" /\ status = "RECV_ERROR"

\* Behind the byte delivered last the FIFO holds all the host has sent, unless
\* the overrun flag stands; it can only stand over a full FIFO, and is looked at
\* before a byte can get in behind the gap.
LineInv ==
    ~reported =>
        /\ ~skipped
        /\ InHand => c.byte = delivered + 1
        /\ overrun /\ pc # "errors" => Len(fifo) = FifoDepth
        /\ ~Doomed =>
               LET last == delivered + (IF InHand THEN 1 ELSE 0)
               IN  /\ \A i \in 1..Len(fifo) : fifo[i].byte = last + i
                   /\ ~overrun => sent = last + Len(fifo)

UartInv == UartTypeOK /\ TimerInv /\ CountInv /\ LineInv /\ WrittenGoesOut

----------------------------------------------------------------------------
(* The wrapping timer *)

LEMMA TimerInRange ==
    ASSUME NEW M \in Nat \ {0}, NEW t \in Int
    PROVE  t % M \in 0..(M - 1)
  BY SMT

\* The difference of two readings is the time between them, if it is less than
\* a turn of the timer.
LEMMA Difference ==
    ASSUME NEW M \in Nat \ {0}, NEW s \in 0..(M - 1), NEW a \in 0..(M - 1)
    PROVE  (((s + a) % M) - s) % M = a
<1>1. CASE s + a < M
  <2>1. (s + a) % M = s + a
    BY <1>1
  <2> QED BY <2>1
<1>2. CASE s + a >= M
  <2>1. (s + a) % M = s + a - M
    BY <1>2
  <2> QED BY <2>1, <1>2
<1> QED BY <1>1, <1>2

\* A step of the clock, seen from a reading less than a turn ago.
LEMMA ClockStep ==
    ASSUME NEW M \in Nat \ {0}, NEW s \in 0..(M - 1), NEW a \in Nat, NEW d \in Nat,
           a + d < M
    PROVE  (((s + a) % M) + d) % M = (s + a + d) % M
<1>1. CASE s + a < M
  <2>1. (s + a) % M = s + a
    BY <1>1
  <2> QED BY <2>1
<1>2. CASE s + a >= M
  <2>1. (s + a) % M = s + a - M /\ (s + a + d) % M = s + a + d - M
    BY <1>2
  <2>2. (s + a - M + d) % M = s + a - M + d
    BY <1>2
  <2> QED BY <2>1, <2>2
<1> QED BY <1>1, <1>2

----------------------------------------------------------------------------
(* Types and counts *)

LEMMA QueueTypes ==
    ASSUME NEW S, NEW q \in Seq(S)
    PROVE  /\ Len(q) \in Nat
           /\ \A e \in S : Append(q, e) \in Seq(S) /\ Len(Append(q, e)) = Len(q) + 1
           /\ q # <<>> => /\ Head(q) \in S /\ Tail(q) \in Seq(S)
                          /\ Len(q) > 0 /\ Len(Tail(q)) = Len(q) - 1
  BY SMT

LEMMA ClockType ==
    ASSUME UartTypeOK, NEW d \in 0..MaxStep
    PROVE  (time + d) % TimerModulus \in 0..(TimerModulus - 1) /\ age + d \in Nat /\ d \in Nat
<1>1. time + d \in Int /\ TimerModulus \in Nat \ {0} /\ age + d \in Nat /\ d \in Nat
  BY UartAssumption DEF UartTypeOK
<1> QED BY <1>1, TimerInRange

LEMMA InitHolds == Init => UartInv
<1> SUFFICES ASSUME Init PROVE UartInv
  OBVIOUS
<1>1. UartTypeOK
  <2>1. <<>> \in Seq(Received) /\ <<>> \in Seq(1..MaxWritten) /\ Len(<<>>) = 0
    OBVIOUS
  <2>2. fifo \in Seq(Received) /\ tx \in Seq(1..MaxWritten) /\ Len(fifo) = 0 /\ Len(tx) = 0
    BY <2>1, Zenon DEF Init
  <2>3. c \in Received
    BY UartAssumption DEF Init, Received
  <2>4. time \in 0..(TimerModulus - 1) /\ start_timer \in 0..(TimerModulus - 1)
        /\ sent \in 0..MaxBytes /\ delivered \in 0..MaxBytes
        /\ wire \in 0..MaxWritten /\ written \in 0..MaxWritten
        /\ data_length \in 0..(MaxLength + MaxWritten) /\ age \in Nat
    BY UartAssumption DEF Init
  <2>5. pc = "returned" /\ status = "OK"
        /\ overrun \in BOOLEAN /\ skipped \in BOOLEAN /\ reported \in BOOLEAN
    BY DEF Init
  <2>6. Len(fifo) <= FifoDepth /\ Len(tx) <= TxDepth
    BY <2>2, UartAssumption
  <2> QED BY <2>2, <2>3, <2>4, <2>5, <2>6 DEF UartTypeOK
<1> USE UartAssumption DEF Init
<1>2. TimerInv /\ CountInv /\ LineInv
  BY DEF TimerInv, Reading, CountInv, InHand, Doomed, LineInv
<1>3. WrittenGoesOut
  BY DEF WrittenGoesOut
<1> QED BY <1>1, <1>2, <1>3 DEF UartInv

\* The oldest byte in the transmit FIFO is the next one on the wire.
LEMMA NextOut ==
    ASSUME UartTypeOK, WrittenGoesOut, tx # <<>>
    PROVE  Head(tx) = wire + 1 /\ wire + 1 <= written
<1>1. Len(tx) > 0 /\ wire \in Nat /\ written \in Nat
  BY QueueTypes DEF UartTypeOK
<1>2. Len(tx) = written - wire
  BY <1>1 DEF WrittenGoesOut
<1> QED BY <1>1, <1>2 DEF WrittenGoesOut

LEMMA TypesKept ==
    ASSUME UartTypeOK, CountInv, WrittenGoesOut, [Next]_vars
    PROVE  UartTypeOK' /\ CountInv'
<1> USE UartAssumption DEF UartTypeOK, CountInv, Reading, hardware, sending
<1>1. ASSUME NEW bad \in BOOLEAN, Arrive(bad)
      PROVE  UartTypeOK' /\ CountInv'
  <2>1. sent' \in 0..MaxBytes /\ [byte |-> sent', bad |-> bad] \in Received
    BY <1>1 DEF Arrive, Received
  <2>2. Append(fifo, [byte |-> sent', bad |-> bad]) \in Seq(Received)
        /\ Len(Append(fifo, [byte |-> sent', bad |-> bad])) = Len(fifo) + 1
        /\ Len(fifo) \in Nat
    BY <2>1, QueueTypes
  <2>3. fifo' \in Seq(Received) /\ Len(fifo') <= FifoDepth
    <3>1. CASE Len(fifo) < FifoDepth
      <4>1. fifo' = Append(fifo, [byte |-> sent', bad |-> bad])
        BY <1>1, <3>1 DEF Arrive
      <4>2. fifo' \in Seq(Received) /\ Len(fifo') = Len(fifo) + 1 /\ Len(fifo) \in Nat
        BY <4>1, <2>2, Zenon
      <4> QED BY <4>2, <3>1
    <3>2. CASE ~(Len(fifo) < FifoDepth)
      BY <1>1, <3>2 DEF Arrive
    <3> QED BY <3>1, <3>2
  <2> QED BY <1>1, <2>1, <2>3 DEF Arrive
<1>2. CASE Transmit
  <2>1. tx' \in Seq(1..MaxWritten) /\ Len(tx') <= TxDepth
    BY <1>2, QueueTypes DEF Transmit
  <2>2. wire' \in 0..MaxWritten /\ wire' <= written
    BY <1>2, NextOut DEF Transmit
  <2> QED BY <1>2, <2>1, <2>2 DEF Transmit
<1>3. ASSUME NEW n \in 0..MaxLength, Call(n)
      PROVE  UartTypeOK' /\ CountInv'
  BY <1>3, ClockType DEF Call, ReadStartTimer, Takes
<1>4. CASE uart_getchar
  <2>1. time' \in 0..(TimerModulus - 1) /\ age' \in Nat
    BY <1>4, ClockType DEF uart_getchar, Elapse, Takes
  <2>2. fifo' \in Seq(Received) /\ Len(fifo') <= FifoDepth /\ c' \in Received
    <3>1. CASE fifo = <<>>
      BY <1>4, <3>1 DEF uart_getchar
    <3>2. CASE fifo # <<>>
      <4>1. Head(fifo) \in Received /\ Tail(fifo) \in Seq(Received)
            /\ Len(fifo) \in Nat /\ Len(Tail(fifo)) = Len(fifo) - 1
        BY <3>2, QueueTypes
      <4>2. fifo' = Tail(fifo) /\ c' = Head(fifo)
        BY <1>4, <3>2 DEF uart_getchar
      <4>3. fifo' \in Seq(Received) /\ c' \in Received
            /\ Len(fifo) \in Nat /\ Len(fifo') = Len(fifo) - 1
        BY <4>1, <4>2, Zenon
      <4> QED BY <4>3
    <3> QED BY <3>1, <3>2
  <2> QED BY <1>4, <2>1, <2>2 DEF uart_getchar
<1>5. CASE ReadErrors
  BY <1>5, ClockType DEF ReadErrors, Elapse, Takes
<1>6. CASE Store
  <2>1. time' \in 0..(TimerModulus - 1) /\ age' \in Nat /\ start_timer' = time
    BY <1>6, ClockType DEF Store, ReadStartTimer, Takes
  <2>2. c.byte \in 0..MaxBytes
    BY DEF Received
  <2> QED BY <1>6, <2>1, <2>2 DEF Store
<1>7. CASE ReturnError
  BY <1>7 DEF ReturnError
<1>8. CASE ReturnTimeout
  BY <1>8 DEF ReturnTimeout
<1>9. CASE PollAgain
  BY <1>9, ClockType DEF PollAgain, Takes
<1>10. ASSUME NEW n \in 0..MaxWritten, CallWrite(n)
       PROVE  UartTypeOK' /\ CountInv'
  BY <1>10 DEF CallWrite
<1>11. CASE uart_putchar
  <2>1. written + 1 \in 1..MaxWritten
    BY <1>11 DEF uart_putchar
  <2>2. tx' \in Seq(1..MaxWritten) /\ Len(tx') <= TxDepth
    BY <1>11, <2>1, QueueTypes DEF uart_putchar
  <2> QED BY <1>11, <2>1, <2>2 DEF uart_putchar
<1>12. CASE UNCHANGED vars
  BY <1>12 DEF vars
<1> QED
  BY <1>1, <1>2, <1>3, <1>4, <1>5, <1>6, <1>7, <1>8, <1>9, <1>10, <1>11, <1>12
     DEF Next, uart_read

----------------------------------------------------------------------------
(* The timeout *)

\* What uart_read computes is the time that really passed.
LEMMA WaitedIsAge ==
    ASSUME UartTypeOK, TimerInv, pc = "judge"
    PROVE  Waited = age
<1>1. TimerModulus \in Nat \ {0} /\ start_timer \in 0..(TimerModulus - 1)
      /\ age \in 0..(TimerModulus - 1)
  BY UartAssumption DEF UartTypeOK, TimerInv
<1>2. time = (start_timer + age) % TimerModulus
  BY DEF TimerInv, Reading
<1> QED BY <1>1, <1>2, Difference DEF Waited

\* A statement of uart_read that begins early enough keeps the timer readable.
LEMMA ElapseKeepsTime ==
    ASSUME UartTypeOK, TimerInv, Reading, age <= Timeout + 2 * MaxStep,
           NEW d \in 0..MaxStep, Takes(d), age' = age + d, UNCHANGED start_timer
    PROVE  /\ time' = (start_timer' + age') % TimerModulus
           /\ age' <= age + MaxStep /\ age' \in Nat
<1>1. /\ TimerModulus \in Nat \ {0} /\ start_timer \in 0..(TimerModulus - 1)
      /\ age \in Nat /\ d \in Nat /\ age + d < TimerModulus
  BY UartAssumption DEF UartTypeOK
<1>2. time' = (((start_timer + age) % TimerModulus) + d) % TimerModulus
  BY DEF Takes, TimerInv
<1>3. time' = (start_timer + age + d) % TimerModulus
  BY <1>1, <1>2, ClockStep
<1>4. start_timer' + age' = start_timer + age + d
  BY <1>1
<1> QED BY <1>1, <1>3, <1>4, UartAssumption

\* Reading start_timer begins a round.
LEMMA ReadStartTimerKeepsTime ==
    ASSUME UartTypeOK, ReadStartTimer
    PROVE  /\ time' = (start_timer' + age') % TimerModulus
           /\ age' <= Timeout + MaxStep /\ age' \in Nat
  BY UartAssumption DEF UartTypeOK, ReadStartTimer, Takes

LEMMA TimerKept ==
    ASSUME UartTypeOK, TimerInv, [Next]_vars
    PROVE  TimerInv'
<1> USE DEF TimerInv, Reading
<1>1. ASSUME NEW bad \in BOOLEAN, Arrive(bad) PROVE TimerInv'
  BY <1>1 DEF Arrive
<1>2. CASE Transmit
  BY <1>2 DEF Transmit
<1>3. ASSUME NEW n \in 0..MaxLength, Call(n) PROVE TimerInv'
  <2>1. pc' \in {"returned", "getchar"} /\ ReadStartTimer
    BY <1>3 DEF Call
  <2> QED BY <2>1, ReadStartTimerKeepsTime
<1>4. CASE uart_getchar
  <2>1. pc' \in {"judge", "errors"} /\ Elapse /\ UNCHANGED start_timer
        /\ age <= Timeout + MaxStep /\ age \in Nat
    BY <1>4 DEF uart_getchar, UartTypeOK
  <2>2. PICK d \in 0..MaxStep : Takes(d) /\ age' = age + d
    BY <2>1 DEF Elapse
  <2>3. time' = (start_timer' + age') % TimerModulus
        /\ age' <= age + MaxStep /\ age' \in Nat
    BY <1>4, <2>1, <2>2, ElapseKeepsTime, UartAssumption DEF uart_getchar
  <2> QED BY <2>1, <2>3, UartAssumption
<1>5. CASE ReadErrors
  <2>1. pc' = "judge" /\ Elapse /\ UNCHANGED start_timer
        /\ age <= Timeout + 2 * MaxStep /\ age \in Nat
    BY <1>5 DEF ReadErrors, UartTypeOK
  <2>2. PICK d \in 0..MaxStep : Takes(d) /\ age' = age + d
    BY <2>1 DEF Elapse
  <2>3. time' = (start_timer' + age') % TimerModulus
        /\ age' <= age + MaxStep /\ age' \in Nat
    BY <1>5, <2>1, <2>2, ElapseKeepsTime DEF ReadErrors
  <2> QED BY <2>1, <2>3, UartAssumption
<1>6. CASE Store
  <2>1. pc' \in {"returned", "getchar"} /\ ReadStartTimer
    BY <1>6 DEF Store
  <2> QED BY <2>1, ReadStartTimerKeepsTime
<1>7. CASE ReturnError
  BY <1>7 DEF ReturnError
<1>8. CASE ReturnTimeout
  BY <1>8 DEF ReturnTimeout
<1>9. CASE PollAgain
  <2>1. pc = "judge" /\ pc' = "getchar" /\ UNCHANGED start_timer /\ age \in Nat
    BY <1>9 DEF PollAgain, UartTypeOK
  <2>2. age <= Timeout
    BY <1>9, <2>1, WaitedIsAge DEF PollAgain
  <2>3. PICK d \in 1..MaxStep : Takes(d) /\ age' = age + d
    BY <1>9 DEF PollAgain
  <2>4. d \in 0..MaxStep /\ age <= Timeout + 2 * MaxStep
    BY <2>1, <2>2, UartAssumption
  <2>5. time' = (start_timer' + age') % TimerModulus
        /\ age' <= age + MaxStep /\ age' \in Nat
    BY <2>1, <2>3, <2>4, ElapseKeepsTime
  <2> QED BY <2>1, <2>2, <2>5, UartAssumption
<1>10. ASSUME NEW n \in 0..MaxWritten, CallWrite(n) PROVE TimerInv'
  BY <1>10 DEF CallWrite
<1>11. CASE uart_putchar
  BY <1>11 DEF uart_putchar
<1>12. CASE UNCHANGED vars
  BY <1>12 DEF vars
<1> QED
  BY <1>1, <1>2, <1>3, <1>4, <1>5, <1>6, <1>7, <1>8, <1>9, <1>10, <1>11, <1>12
     DEF Next, uart_read

----------------------------------------------------------------------------
(* The transmit side *)

\* What Append and Tail do to a queue that counts on from n.
LEMMA CountingQueue ==
    ASSUME NEW n \in Nat, NEW k \in Nat
    PROVE  LET q == [i \in 1..k |-> n + i]
           IN  /\ Append(q, n + k + 1) = [i \in 1..(k + 1) |-> n + i]
               /\ k > 0 => Tail(q) = [i \in 1..(k - 1) |-> (n + 1) + i]
<1> DEFINE q == [i \in 1..k |-> n + i]
<1>1. q \in Seq(Int) /\ Len(q) = k
  OBVIOUS
<1>2. Append(q, n + k + 1) = [i \in 1..(k + 1) |-> n + i]
  <2>1. Append(q, n + k + 1) \in Seq(Int) /\ Len(Append(q, n + k + 1)) = k + 1
    BY <1>1
  <2>2. \A i \in 1..(k + 1) : Append(q, n + k + 1)[i] = n + i
    BY <1>1
  <2> HIDE DEF q
  <2> QED BY <2>1, <2>2
<1>3. ASSUME k > 0 PROVE Tail(q) = [i \in 1..(k - 1) |-> (n + 1) + i]
  <2>1. Tail(q) \in Seq(Int) /\ Len(Tail(q)) = k - 1
    BY <1>1, <1>3
  <2>2. \A i \in 1..(k - 1) : Tail(q)[i] = (n + 1) + i
    BY <1>1, <1>3
  <2>3. PICK t : t = Tail(q)
    OBVIOUS
  <2>4. t \in Seq(Int) /\ Len(t) = k - 1 /\ \A i \in 1..(k - 1) : t[i] = (n + 1) + i
    BY <2>1, <2>2, <2>3, Zenon
  <2>5. t = [i \in 1..(k - 1) |-> (n + 1) + i]
    BY <2>4
  <2> QED BY <2>3, <2>5, Zenon
<1> QED BY <1>2, <1>3

LEMMA WrittenKept ==
    ASSUME UartTypeOK, CountInv, WrittenGoesOut, [Next]_vars
    PROVE  WrittenGoesOut'
<1> DEFINE k == written - wire
<1>1. wire \in Nat /\ written \in Nat /\ k \in Nat /\ tx = [i \in 1..k |-> wire + i]
  BY DEF UartTypeOK, CountInv, WrittenGoesOut
<1>2. CASE Transmit
  <2>1. tx # <<>> /\ tx' = Tail(tx) /\ wire' = wire + 1 /\ written' = written
    BY <1>2, NextOut DEF Transmit
  <2>2. k > 0
    <3>1. wire + 1 <= written
      BY <2>1, NextOut
    <3> QED BY <3>1, <1>1
  <2>3. Tail([i \in 1..k |-> wire + i]) = [i \in 1..(k - 1) |-> (wire + 1) + i]
    BY <1>1, <2>2, CountingQueue
  <2>4. tx' = [i \in 1..(k - 1) |-> (wire + 1) + i]
    BY <1>1, <2>1, <2>3, Zenon
  <2>5. k - 1 = written' - wire'
    BY <1>1, <2>1
  <2> QED BY <2>1, <2>4, <2>5, Zenon DEF WrittenGoesOut
<1>3. CASE uart_putchar
  <2>1. tx' = Append(tx, written + 1) /\ wire' = wire /\ written' = written + 1
    BY <1>3 DEF uart_putchar
  <2>2. Append([i \in 1..k |-> wire + i], wire + k + 1) = [i \in 1..(k + 1) |-> wire + i]
    BY <1>1, CountingQueue
  <2>3. written + 1 = wire + k + 1 /\ k + 1 = written' - wire'
    BY <1>1, <2>1
  <2>4. tx' = [i \in 1..(k + 1) |-> wire + i]
    BY <1>1, <2>1, <2>2, <2>3, Zenon
  <2> QED BY <2>1, <2>3, <2>4, Zenon DEF WrittenGoesOut
<1>4. CASE UNCHANGED <<tx, wire, written>>
  BY <1>4, Zenon DEF WrittenGoesOut
<1>5. Transmit \/ uart_putchar \/ UNCHANGED <<tx, wire, written>>
  BY DEF Next, vars, sending, uart_read, Arrive, Call, uart_getchar, ReadErrors, Store,
         ReturnError, ReturnTimeout, PollAgain, CallWrite
<1> QED BY <1>2, <1>3, <1>4, <1>5

----------------------------------------------------------------------------
(* The receive side *)

\* What is in a queue behind an Append or a Tail.
LEMMA QueueElements ==
    ASSUME NEW S, NEW q \in Seq(S), NEW e \in S
    PROVE  /\ \A i \in 1..Len(q) : Append(q, e)[i] = q[i]
           /\ Append(q, e)[Len(q) + 1] = e
           /\ q # <<>> => /\ Head(q) = q[1]
                          /\ \A i \in 1..(Len(q) - 1) : Tail(q)[i] = q[i + 1]
  BY SMT

\* Steps that leave the receiver alone, between two statements of which none has
\* a byte in hand.
LEMMA QuietStep ==
    ASSUME LineInv, pc # "errors", pc' # "errors", ~InHand, ~InHand', ~Doomed, ~Doomed',
           UNCHANGED <<fifo, overrun, sent, delivered, skipped, reported>>
    PROVE  LineInv'
  BY DEF LineInv

LEMMA ArriveKeepsLine ==
    ASSUME UartTypeOK, LineInv, NEW bad \in BOOLEAN, Arrive(bad)
    PROVE  LineInv'
<1> DEFINE e == [byte |-> sent', bad |-> bad]
           last == delivered + (IF InHand THEN 1 ELSE 0)
<1>1. /\ UNCHANGED <<pc, status, c, delivered, skipped, reported>>
      /\ sent' = sent + 1
      /\ sent \in Nat /\ delivered \in Nat /\ Len(fifo) \in Nat /\ Len(fifo) <= FifoDepth
  BY QueueTypes DEF Arrive, UartTypeOK
<1>2. InHand' = InHand
  BY <1>1 DEF InHand
<1>3. CASE reported
  BY <1>1, <1>3 DEF LineInv
<1>4. CASE ~reported /\ Len(fifo) < FifoDepth
  <2>1. fifo' = Append(fifo, e) /\ overrun' = overrun
    BY <1>4 DEF Arrive
  <2>2. overrun => pc = "errors"
    BY <1>1, <1>4 DEF LineInv
  <2>3. e \in Received /\ fifo \in Seq(Received)
    <3>1. sent' \in 0..MaxBytes
      BY <1>1, UartAssumption DEF UartTypeOK, Arrive
    <3>2. e \in Received
      BY <3>1 DEF Received
    <3> QED BY <3>2 DEF UartTypeOK
  <2>4. Len(Append(fifo, e)) = Len(fifo) + 1
        /\ (\A i \in 1..Len(fifo) : Append(fifo, e)[i] = fifo[i])
        /\ Append(fifo, e)[Len(fifo) + 1] = e
    BY <2>3, QueueTypes, QueueElements
  <2>5. Len(fifo') = Len(fifo) + 1
        /\ (\A i \in 1..Len(fifo) : fifo'[i] = fifo[i])
        /\ fifo'[Len(fifo) + 1] = e
    BY <2>1, <2>4, Zenon
  <2>6. Doomed' = Doomed
    BY <1>1, <2>1 DEF Doomed
  <2>7. ASSUME ~Doomed
        PROVE  /\ \A i \in 1..Len(fifo') : fifo'[i].byte = last + i
               /\ sent' = last + Len(fifo')
    <3>1. sent = last + Len(fifo) /\ \A i \in 1..Len(fifo) : fifo[i].byte = last + i
      BY <1>4, <2>2, <2>7 DEF LineInv, Doomed
    <3>2. e.byte = last + Len(fifo) + 1
      BY <1>1, <3>1
    <3>3. ASSUME NEW i \in 1..Len(fifo') PROVE fifo'[i].byte = last + i
      <4>1. CASE i \in 1..Len(fifo)
        BY <2>5, <3>1, <4>1
      <4>2. CASE i = Len(fifo) + 1
        BY <2>5, <3>2, <4>2, <1>1
      <4> QED BY <1>1, <2>5, <4>1, <4>2
    <3>4. last \in Nat
      BY <1>1
    <3> HIDE DEF last
    <3>5. sent' = last + Len(fifo')
      BY <1>1, <2>5, <3>1, <3>4
    <3> QED BY <3>3, <3>5
  <2> QED BY <1>1, <1>2, <1>4, <2>1, <2>2, <2>6, <2>7 DEF LineInv
<1>5. CASE ~reported /\ ~(Len(fifo) < FifoDepth)
  <2>1. fifo' = fifo /\ overrun' = TRUE /\ Len(fifo) = FifoDepth
    BY <1>1, <1>5, UartAssumption DEF Arrive
  <2>2. ~Doomed' => ~Doomed
    BY <1>1, <2>1 DEF Doomed
  <2> QED BY <1>1, <1>2, <1>5, <2>1, <2>2 DEF LineInv
<1> QED BY <1>3, <1>4, <1>5

LEMMA getcharKeepsLine ==
    ASSUME UartTypeOK, LineInv, uart_getchar
    PROVE  LineInv'
<1>1. /\ pc = "getchar" /\ ~InHand /\ ~Doomed
      /\ UNCHANGED <<overrun, sent, delivered, skipped, reported>>
      /\ sent \in Nat /\ delivered \in Nat /\ Len(fifo) \in Nat
  BY QueueTypes DEF uart_getchar, UartTypeOK, InHand, Doomed
<1>2. CASE fifo = <<>>
  <2>1. pc' = "judge" /\ status' = "NO_DATA" /\ UNCHANGED fifo
    BY <1>2 DEF uart_getchar
  <2> QED BY <1>1, <2>1, QuietStep DEF InHand, Doomed
<1>3. CASE reported
  BY <1>1, <1>3 DEF LineInv
<1>4. CASE fifo # <<>> /\ ~reported
  <2>1. pc' = "errors" /\ fifo' = Tail(fifo) /\ c' = Head(fifo)
    BY <1>4 DEF uart_getchar
  <2>2. fifo \in Seq(Received)
    BY DEF UartTypeOK
  <2>3. /\ Head(fifo) = fifo[1] /\ Len(fifo) > 0 /\ Len(Tail(fifo)) = Len(fifo) - 1
        /\ \A i \in 1..(Len(fifo) - 1) : Tail(fifo)[i] = fifo[i + 1]
    BY <1>4, <2>2, QueueTypes, QueueElements DEF UartTypeOK
  <2>4. /\ c' = fifo[1] /\ Len(fifo') = Len(fifo) - 1
        /\ \A i \in 1..(Len(fifo) - 1) : fifo'[i] = fifo[i + 1]
    BY <2>1, <2>3, Zenon
  <2>5. /\ \A i \in 1..Len(fifo) : fifo[i].byte = delivered + i
        /\ ~overrun => sent = delivered + Len(fifo)
        /\ ~skipped
    BY <1>1, <1>4 DEF LineInv
  <2>6. c'.byte = delivered + 1
    BY <1>1, <2>3, <2>4, <2>5
  <2>7. ASSUME NEW i \in 1..(Len(fifo) - 1) PROVE fifo'[i].byte = (delivered + 1) + i
    <3>1. i + 1 \in 1..Len(fifo) /\ fifo'[i] = fifo[i + 1]
      BY <1>1, <2>4
    <3> QED BY <1>1, <2>5, <3>1
  <2>8. InHand' /\ (Doomed' <=> overrun)
    BY <1>1, <2>1 DEF InHand, Doomed
  <2>9. \A i \in 1..Len(fifo') : fifo'[i].byte = (delivered' + 1) + i
    BY <1>1, <2>4, <2>7
  <2>10. ~overrun => sent' = (delivered' + 1) + Len(fifo')
    BY <1>1, <2>4, <2>5
  <2>11. c'.byte = delivered' + 1 /\ ~skipped'
    BY <1>1, <2>5, <2>6
  <2> HIDE <2>4, <2>7
  <2> QED BY <1>1, <2>1, <2>8, <2>9, <2>10, <2>11 DEF LineInv
<1> QED BY <1>2, <1>3, <1>4

LEMMA LineKept ==
    ASSUME UartTypeOK, LineInv, [Next]_vars
    PROVE  LineInv'
<1>1. ASSUME NEW bad \in BOOLEAN, Arrive(bad) PROVE LineInv'
  BY <1>1, ArriveKeepsLine
<1>2. CASE uart_getchar
  BY <1>2, getcharKeepsLine
<1>3. CASE ReadErrors
  <2>1. /\ pc = "errors" /\ pc' = "judge" /\ overrun' = FALSE
        /\ status' = (IF c.bad \/ overrun THEN "RECV_ERROR" ELSE "OK")
        /\ UNCHANGED <<fifo, sent, c, delivered, skipped, reported>>
    BY <1>3 DEF ReadErrors
  <2>2. CASE c.bad \/ overrun
    BY <2>1, <2>2 DEF LineInv, InHand, Doomed
  <2>3. CASE ~(c.bad \/ overrun)
    BY <2>1, <2>3 DEF LineInv, InHand, Doomed
  <2> QED BY <2>2, <2>3
<1>4. CASE Store
  <2>1. /\ pc = "judge" /\ status = "OK" /\ pc' \in {"returned", "getchar"}
        /\ skipped' = (skipped \/ c.byte # delivered + 1) /\ delivered' = c.byte
        /\ UNCHANGED <<fifo, overrun, sent, reported>>
    BY <1>4 DEF Store, hardware
  <2>2. InHand /\ ~Doomed /\ ~InHand' /\ ~Doomed'
    BY <2>1 DEF InHand, Doomed
  <2>3. ASSUME ~reported
        PROVE  /\ ~skipped' /\ delivered' = delivered + 1
               /\ overrun => Len(fifo) = FifoDepth
               /\ \A i \in 1..Len(fifo) : fifo[i].byte = (delivered + 1) + i
               /\ ~overrun => sent = (delivered + 1) + Len(fifo)
    BY <2>1, <2>2, <2>3 DEF LineInv
  <2>4. delivered \in Nat
    BY DEF UartTypeOK
  <2>5. ASSUME ~reported
        PROVE  /\ \A i \in 1..Len(fifo') : fifo'[i].byte = (delivered' + 0) + i
               /\ ~overrun' => sent' = (delivered' + 0) + Len(fifo')
    BY <2>1, <2>3, <2>4, <2>5
  <2> QED BY <2>1, <2>2, <2>3, <2>5 DEF LineInv
<1>5. CASE ReturnError
  BY <1>5 DEF ReturnError, LineInv
<1>6. CASE ReturnTimeout \/ PollAgain
  BY <1>6, QuietStep DEF ReturnTimeout, PollAgain, hardware, InHand, Doomed
<1>7. ASSUME NEW n \in 0..MaxLength, Call(n) PROVE LineInv'
  BY <1>7, QuietStep DEF Call, hardware, InHand, Doomed
<1>8. ASSUME NEW n \in 0..MaxWritten, CallWrite(n) PROVE LineInv'
  BY <1>8, QuietStep DEF CallWrite, hardware, InHand, Doomed
<1>9. CASE uart_putchar
  BY <1>9, QuietStep DEF uart_putchar, hardware, InHand, Doomed
<1>10. CASE Transmit
  BY <1>10 DEF Transmit, hardware, LineInv, InHand, Doomed
<1>11. CASE UNCHANGED vars
  BY <1>11 DEF vars, LineInv, InHand, Doomed
<1> QED
  BY <1>1, <1>2, <1>3, <1>4, <1>5, <1>6, <1>7, <1>8, <1>9, <1>10, <1>11
     DEF Next, uart_read

----------------------------------------------------------------------------
(* Theorems *)

\* The inductive invariant of the driver.
THEOREM Inductive == Spec => []UartInv
<1>1. Init => UartInv
  BY InitHolds
<1>2. UartInv /\ [Next]_vars => UartInv'
  BY TypesKept, TimerKept, LineKept, WrittenKept DEF UartInv
<1> QED BY <1>1, <1>2, PTL DEF Spec

\* The FIFOs never hold more than the hardware has room for, and the loop counter
\* of uart_read and uart_write never runs below zero.
THEOREM TypeCorrect == Spec => []UartTypeOK
<1>1. UartInv => UartTypeOK
  BY DEF UartInv
<1> QED BY <1>1, Inductive, PTL

\* uart_read waits for a byte at most the timeout and the time of four statements.
THEOREM Prompt == Spec => []TimeoutIsPrompt
<1>1. UartInv => TimeoutIsPrompt
  BY UartAssumption DEF UartInv, UartTypeOK, TimerInv, Reading, TimeoutIsPrompt
<1> QED BY <1>1, Inductive, PTL

\* uart_read delivers no byte behind a lost or damaged one unless an error was told.
THEOREM LossIsTold == Spec => []NoSilentLoss
<1>1. UartInv => NoSilentLoss
  BY DEF UartInv, LineInv, NoSilentLoss
<1> QED BY <1>1, Inductive, PTL

\* What uart_write is given goes out whole and in order.
THEOREM WritesGoOut == Spec => []WrittenGoesOut
<1>1. UartInv => WrittenGoesOut
  BY DEF UartInv
<1> QED BY <1>1, Inductive, PTL

\* A timeout is never reported early, wherever the timer wraps.
THEOREM GenuineTimeout == Spec => TimeoutIsGenuine
<1> DEFINE Genuine == pc = "judge" /\ pc' = "returned" /\ status' = "TIMEOUT" => age > Timeout
<1>1. UartInv /\ [Next]_vars => [Genuine]_vars
  <2> SUFFICES ASSUME UartInv, Next, pc = "judge", pc' = "returned", status' = "TIMEOUT"
               PROVE  age > Timeout
    BY DEF Genuine
  <2>1. ReturnTimeout
    BY DEF Next, uart_read, Arrive, Transmit, Call, uart_getchar, ReadErrors, Store,
           ReturnError, PollAgain, CallWrite, uart_putchar
  <2>2. Waited = age
    BY WaitedIsAge DEF UartInv
  <2> QED BY <2>1, <2>2 DEF ReturnTimeout
<1> QED BY <1>1, Inductive, PTL DEF Spec, TimeoutIsGenuine

=============================================================================
