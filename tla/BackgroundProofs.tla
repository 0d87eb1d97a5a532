--------------------------- MODULE BackgroundProofs ---------------------------
(***************************************************************************)
(* What is proved about Background, for every length of a second, every    *)
(* timeout, interval and lag, every width of the clocks, and however the   *)
(* wall clock is set.                                                      *)
(***************************************************************************)
EXTENDS Background, TLAPS

-----------------------------------------------------------------------------
(* Arithmetic                                                              *)

\* The quotient and the remainder of a division, as products and sums.
LEMMA Division ==
  ASSUME NEW n \in Int, NEW m \in Nat \ {0}
  PROVE  /\ n \div m \in Int
         /\ n % m \in 0..m - 1
         /\ n = m * (n \div m) + (n % m)
BY Z3

\* A product grows with its factor.
LEMMA ProductGrows ==
  ASSUME NEW x \in Int, NEW y \in Int, x <= y, NEW m \in Nat
  PROVE  m * x <= m * y
<1>1. m * (y - x) >= 0
  BY Z3
<1>2. QED
  BY <1>1, Z3

\* The remainder of a number that is not negative is at most the number.
LEMMA RemainderBelow ==
  ASSUME NEW n \in Nat, NEW m \in Nat \ {0}
  PROVE  n % m <= n
<1> DEFINE q == n \div m
<1>1. q \in Int /\ n % m \in 0..m - 1 /\ n = m * q + (n % m)
  BY Division
<1> HIDE DEF q
<1>2. CASE q >= 0
  <2>1. m * 0 <= m * q
    BY <1>1, <1>2, ProductGrows
  <2>2. QED
    BY <2>1, <1>1, Z3
<1>3. CASE q <= -1
  <2>1. m * q <= m * (-1)
    BY <1>1, <1>3, ProductGrows
  <2>2. QED
    BY <2>1, <1>1, Z3
<1>4. QED
  BY <1>1, <1>2, <1>3, Z3

\* A number below m, and any multiple of m, have that number as remainder.
LEMMA RemainderUnique ==
  ASSUME NEW m \in Nat \ {0}, NEW k \in Int, NEW d \in 0..m - 1
  PROVE  (d + m * k) % m = d
<1> DEFINE n == d + m * k
           q == n \div m
           r == n % m
<1>1. n \in Int
  BY Z3
<1>2. q \in Int /\ r \in 0..m - 1 /\ n = m * q + r
  BY <1>1, Division
<1> HIDE DEF q, r
<1>3. d - r = m * (q - k)
  BY <1>2, Z3
<1>4. CASE q - k >= 1
  <2>1. m * 1 <= m * (q - k)
    BY <1>2, <1>4, ProductGrows
  <2>2. QED
    BY <2>1, <1>2, <1>3, Z3
<1>5. CASE q - k <= -1
  <2>1. m * (q - k) <= m * (-1)
    BY <1>2, <1>5, ProductGrows
  <2>2. QED
    BY <2>1, <1>2, <1>3, Z3
<1>6. CASE q - k = 0
  BY <1>2, <1>3, <1>6, Z3 DEF r
<1>7. QED
  BY <1>2, <1>4, <1>5, <1>6, Z3

\* Times that are at most k whole seconds apart are less than k + 1 seconds apart.
LEMMA SecondsBound ==
  ASSUME NEW a \in Nat, NEW b \in Nat, NEW s \in Nat \ {0}, NEW k \in Int,
         a \div s - b \div s <= k
  PROVE  a - b < (k + 1) * s
<1> DEFINE p == a \div s
           q == b \div s
<1>1. /\ p \in Int /\ a % s \in 0..s - 1 /\ a = s * p + (a % s)
      /\ q \in Int /\ b % s \in 0..s - 1 /\ b = s * q + (b % s)
  BY Division
<1>2. p - q <= k
  OBVIOUS
<1> HIDE DEF p, q
<1>3. s * (p - q) <= s * k
  BY <1>1, <1>2, ProductGrows
<1>4. QED
  BY <1>1, <1>3, Z3

\* Times that are more than k whole seconds apart are more than k seconds apart, less
\* the part of a second nobody sees.
LEMMA SecondsAtLeast ==
  ASSUME NEW a \in Nat, NEW b \in Nat, NEW s \in Nat \ {0}, NEW k \in Int,
         a \div s - b \div s > k
  PROVE  a - b > k * s
<1> DEFINE p == a \div s
           q == b \div s
<1>1. /\ p \in Int /\ a % s \in 0..s - 1 /\ a = s * p + (a % s)
      /\ q \in Int /\ b % s \in 0..s - 1 /\ b = s * q + (b % s)
  BY Division
<1>2. k + 1 <= p - q
  BY <1>1
<1> HIDE DEF p, q
<1>3. s * (k + 1) <= s * (p - q)
  BY <1>1, <1>2, ProductGrows
<1>4. QED
  BY <1>1, <1>3, Z3

\* Whole seconds since the start are not negative.
LEMMA QuotientNat ==
  ASSUME NEW n \in Nat, NEW m \in Nat \ {0}
  PROVE  n \div m \in Nat
<1> DEFINE q == n \div m
<1>1. q \in Int /\ n % m \in 0..m - 1 /\ n = m * q + (n % m)
  BY Division
<1> HIDE DEF q
<1>2. CASE q <= -1
  <2>1. m * q <= m * (-1)
    BY <1>1, <1>2, ProductGrows
  <2>2. QED
    BY <2>1, <1>1, Z3
<1>3. q \in Nat
  BY <1>1, <1>2
<1>4. QED
  BY <1>3 DEF q

-----------------------------------------------------------------------------
(* The widths of the clocks                                                *)

\* A long holds every value AsLong returns, none of them is above the time it is
\* made of, and a time that fits is itself.
LEMMA AsLongHolds ==
  ASSUME longMod \in LongMods, NEW n \in Nat
  PROVE  /\ AsLong(n) \in -(longMod \div 2)..(longMod \div 2 - 1)
         /\ AsLong(n) <= n
         /\ n <= LongMax => AsLong(n) = n
<1> DEFINE low == n % longMod
           half == longMod \div 2
<1>1. longMod \in Nat \ {0} /\ longMod % 2 = 0
  BY BackgroundAssumption
<1>2. half \in Nat /\ longMod = 2 * half
  BY <1>1
<1>3. low \in 0..longMod - 1 /\ low <= n
  <2>1. n \in Int
    OBVIOUS
  <2>2. n % longMod \in 0..longMod - 1
    BY <1>1, <2>1, Division
  <2>3. n % longMod <= n
    BY <1>1, RemainderBelow
  <2>4. QED
    BY <2>2, <2>3
<1>4. n <= half - 1 => low = n
  <2>1. SUFFICES ASSUME n <= half - 1
                 PROVE  low = n
    OBVIOUS
  <2>2. n \in 0..longMod - 1
    BY <2>1, <1>2
  <2>3. (n + longMod * 0) % longMod = n
    BY <1>1, <2>2, RemainderUnique
  <2>4. n + longMod * 0 = n
    BY <1>1
  <2>5. QED
    BY <2>3, <2>4
<1>5. /\ AsLong(n) = IF low < half THEN low ELSE low - longMod
      /\ LongMax = half - 1
  BY DEF AsLong, LongMax
<1> HIDE DEF low, half
<1>6. /\ AsLong(n) \in -half..half - 1
      /\ AsLong(n) <= n
      /\ n <= LongMax => AsLong(n) = n
  BY <1>1, <1>2, <1>3, <1>4, <1>5
<1>7. QED
  BY <1>6 DEF half

\* Background sleeps as long as ikcp asks for, or less, for every value of clock().
LEMMA SleepsInterval ==
  ASSUME longMod \in LongMods, NEW current \in ClockValues, NEW wait \in 0..Interval
  PROVE  SleepFor((current + wait) % TickMod, current) \in 0..Interval
<1> DEFINE ts == (current + wait) % TickMod
           q == (current + wait) \div TickMod
<1>1. /\ TickMod \in Nat \ {0} /\ Interval \in Nat /\ Interval < TickMod
      /\ longMod \in Nat
  BY BackgroundAssumption
<1>2. wait \in Nat /\ wait <= Interval
  BY <1>1
<1>3. LongMax \in Int
  BY <1>1 DEF LongMax
<1>4. current \in Int /\ (longMod # TickMod => current \in Nat)
  BY <1>3 DEF ClockValues
<1>5. current + wait \in Int
  BY <1>2, <1>4
<1>6. q \in Int /\ ts \in 0..TickMod - 1 /\ current + wait = TickMod * q + ts
  BY <1>1, <1>5, Division
<1>7. CASE longMod = TickMod
  <2>1. wait \in 0..TickMod - 1
    BY <1>1, <1>2
  <2>2. -q \in Int
    BY <1>6
  <2>3. (wait + TickMod * (-q)) % TickMod = wait
    BY <1>1, <2>1, <2>2, RemainderUnique
  <2> HIDE DEF q, ts
  <2>4. ts - current = wait + TickMod * (-q)
    BY <1>1, <1>2, <1>4, <1>6, Z3
  <2>5. SleepFor(ts, current) = wait
    BY <1>7, <2>3, <2>4 DEF SleepFor
  <2>6. QED
    BY <2>5 DEF ts
<1>8. CASE longMod # TickMod
  <2>1. current + wait \in Nat
    BY <1>2, <1>4, <1>8
  <2>2. ts <= current + wait
    BY <1>1, <2>1, RemainderBelow
  <2> HIDE DEF q, ts
  <2>3. SleepFor(ts, current) = IF ts < current THEN 0 ELSE ts - current
    BY <1>8 DEF SleepFor
  <2>4. SleepFor(ts, current) \in 0..Interval
    BY <1>1, <1>2, <1>4, <1>6, <2>2, <2>3
  <2>5. QED
    BY <2>4 DEF ts
<1>9. QED
  BY <1>7, <1>8

-----------------------------------------------------------------------------
(* The invariant                                                           *)

\* The silence the timeout leaves a session, in ticks.
Budget == TicksPerSecond * (Timeout + 1 + heardOffset - lowest)

\* lastPacketTime is the time the session was heard at, cut off to a long.
KeepsTime == lastPacketTime = AsLong(heard \div TicksPerSecond + heardOffset)

\* How long the session has been silent, by where Background is: a look leaves it
\* Budget, a sleep adds what of it is over, and lag what else went by.
OnTime ==
  /\ pc = "look" => now - heard < Budget + Interval + lag
  /\ pc = "update" => now - heard < Budget + lag
  /\ pc = "sleep" => now - heard < Budget + (Interval - sleep) + lag

IInv == TypeOK /\ lowest <= offset /\ KeepsTime /\ OnTime

\* What the types of the constants and of the variables say of the numbers.
LEMMA Numbers ==
  ASSUME TypeOK
  PROVE  /\ TicksPerSecond \in Nat \ {0}
         /\ {Timeout, Interval, MaxLag, MaxAhead, MaxNow} \subseteq Nat
         /\ {now, offset, sleep, lag, heard, heardOffset, lowest} \subseteq Nat
         /\ now <= MaxNow /\ heard <= now /\ sleep <= Interval /\ lag <= MaxLag
         /\ heardOffset <= MaxAhead /\ offset <= MaxAhead /\ lowest <= heardOffset
         /\ lastPacketTime \in Int
         /\ WallTime \in Nat
         /\ heard \div TicksPerSecond \in Nat
         /\ Budget \in Int
<1>1. /\ TicksPerSecond \in Nat \ {0}
      /\ {Timeout, Interval, MaxLag, MaxAhead, MaxNow} \subseteq Nat
      /\ longMod \in Nat
  BY BackgroundAssumption DEF TypeOK
<1>2. /\ {now, offset, sleep, lag, heard, heardOffset, lowest} \subseteq Nat
      /\ now <= MaxNow /\ heard <= now /\ sleep <= Interval /\ lag <= MaxLag
      /\ heardOffset <= MaxAhead /\ offset <= MaxAhead /\ lowest <= heardOffset
      /\ lastPacketTime \in Int
  BY <1>1 DEF TypeOK
<1>3. now \div TicksPerSecond \in Nat /\ heard \div TicksPerSecond \in Nat
  BY <1>1, <1>2, QuotientNat
<1>4. WallTime \in Nat
  BY <1>2, <1>3 DEF WallTime
<1>5. Budget \in Int
  BY <1>1, <1>2 DEF Budget
<1>6. QED
  BY <1>1, <1>2, <1>3, <1>4, <1>5

\* The handshake that opens the session sets both times.
LEMMA InitInv ==
  ASSUME Init
  PROVE  IInv
<1>1. /\ TicksPerSecond \in Nat \ {0}
      /\ {Timeout, Interval, MaxLag, MaxAhead, MaxNow} \subseteq Nat
  BY BackgroundAssumption
<1>2. /\ now = 0 /\ heard = 0 /\ lag = 0 /\ sleep = 0 /\ pc = "look"
      /\ offset \in Nat /\ offset <= MaxAhead
      /\ heardOffset = offset /\ lowest = offset
  BY <1>1 DEF Init
<1>3. WallTime \in Nat
  <2>1. now \div TicksPerSecond \in Nat
    BY <1>1, <1>2, QuotientNat
  <2>2. QED
    BY <1>2, <2>1 DEF WallTime
<1>4. lastPacketTime \in -(longMod \div 2)..(longMod \div 2 - 1)
  <2>1. AsLong(WallTime) \in -(longMod \div 2)..(longMod \div 2 - 1)
    BY <1>3, AsLongHolds DEF Init
  <2>2. QED
    BY <2>1 DEF Init
<1>5. TypeOK
  BY <1>1, <1>2, <1>4 DEF Init, TypeOK, Pc
<1>6. KeepsTime
  BY <1>2 DEF Init, KeepsTime, WallTime
<1>7. OnTime
  <2>1. Budget > 0
    <3>1. Timeout + 1 + heardOffset - lowest >= 1
      BY <1>1, <1>2
    <3>2. TicksPerSecond * 1 <= Budget
      BY <1>1, <1>2, <3>1, ProductGrows DEF Budget
    <3>3. QED
      BY <1>1, <1>2, <3>2 DEF Budget
  <2>2. Budget \in Int
    BY <1>1, <1>2 DEF Budget
  <2>3. QED
    BY <1>1, <1>2, <2>1, <2>2 DEF OnTime
<1>8. QED
  BY <1>2, <1>5, <1>6, <1>7 DEF IInv

\* Real time passes: the silence grows, and with it the lag, or what is over of
\* the sleep.
LEMMA TickInv ==
  ASSUME IInv, Tick
  PROVE  IInv'
<1>1. TypeOK'
  BY Numbers DEF IInv, TypeOK, Tick, Ready, heardAt
<1>2. KeepsTime' /\ (lowest <= offset)'
  BY DEF IInv, KeepsTime, AsLong, Tick, heardAt
<1>3. OnTime'
  <2>1. Budget' = Budget
    BY DEF Tick, heardAt, Budget
  <2>2. /\ now' = now + 1 /\ heard' = heard /\ pc' = pc
        /\ \/ pc \in {"look", "update"} /\ lag' = lag + 1 /\ sleep' = sleep
           \/ pc = "sleep" /\ lag' = lag + 1 /\ sleep' = sleep
           \/ pc = "sleep" /\ lag' = lag /\ sleep' = sleep - 1
           \/ pc = "condemned"
    BY DEF Tick, heardAt, Ready
  <2> HIDE DEF Budget
  <2>3. QED
    BY <2>1, <2>2, Numbers DEF IInv, OnTime
<1>4. QED
  BY <1>1, <1>2, <1>3 DEF IInv

\* The wall clock is set: Budget becomes larger where it is put back.
LEMMA SetClockInv ==
  ASSUME IInv, NEW ahead \in 0..MaxAhead, SetClock(ahead)
  PROVE  IInv'
<1>1. /\ TypeOK /\ lowest <= offset
      /\ ahead \in Nat /\ offset' = ahead
      /\ UNCHANGED <<longMod, now, lastPacketTime, pc, sleep, lag, heard, heardOffset>>
  BY Numbers DEF IInv, SetClock, heardAt
<1>2. lowest' \in Nat /\ lowest' <= lowest /\ lowest' <= ahead
  BY <1>1, Numbers DEF SetClock
<1>3. TypeOK'
  BY <1>1, <1>2, Numbers DEF TypeOK
<1>4. KeepsTime'
  BY <1>1 DEF IInv, KeepsTime, AsLong
<1>5. Budget <= Budget' /\ Budget' \in Int
  <2>1. Timeout + 1 + heardOffset - lowest <= Timeout + 1 + heardOffset - lowest'
    BY <1>1, <1>2, Numbers
  <2>2. /\ Timeout + 1 + heardOffset - lowest \in Int
        /\ Timeout + 1 + heardOffset - lowest' \in Int
        /\ TicksPerSecond \in Nat
    BY <1>1, <1>2, Numbers
  <2>3. TicksPerSecond * (Timeout + 1 + heardOffset - lowest)
          <= TicksPerSecond * (Timeout + 1 + heardOffset - lowest')
    BY <2>1, <2>2, ProductGrows
  <2>4. QED
    BY <1>1, <2>2, <2>3 DEF Budget
<1>6. OnTime'
  BY <1>1, <1>5, Numbers DEF IInv, OnTime
<1>7. QED
  BY <1>1, <1>2, <1>3, <1>4, <1>6 DEF IInv

\* The session is heard: it has all of its timeout again.
LEMMA InputInv ==
  ASSUME IInv, Input
  PROVE  IInv'
<1>1. /\ TypeOK
      /\ lastPacketTime' = AsLong(WallTime)
      /\ heard' = now /\ heardOffset' = offset /\ lowest' = offset
      /\ UNCHANGED <<longMod, now, offset, pc, sleep, lag>>
  BY DEF IInv, Input, clocks
<1>2. TypeOK'
  <2>1. AsLong(WallTime) \in -(longMod \div 2)..(longMod \div 2 - 1)
    BY <1>1, Numbers, AsLongHolds DEF TypeOK
  <2>2. QED
    BY <1>1, <2>1, Numbers DEF TypeOK
<1>3. KeepsTime'
  BY <1>1 DEF KeepsTime, AsLong, WallTime
<1>4. Budget' > 0 /\ Budget' \in Int
  <2>1. Budget' = TicksPerSecond * (Timeout + 1)
    BY <1>1, Numbers DEF Budget
  <2>2. TicksPerSecond * 1 <= TicksPerSecond * (Timeout + 1)
    BY <1>1, Numbers, ProductGrows
  <2>3. QED
    BY <1>1, <2>1, <2>2, Numbers
<1>5. OnTime'
  BY <1>1, <1>4, Numbers DEF OnTime
<1>6. QED
  BY <1>1, <1>2, <1>3, <1>5, Numbers DEF IInv

\* A look that does not condemn the session shows that it was silent for less than
\* Budget: as seconds of the wall clock, cut off to a long or not.
LEMMA LookInv ==
  ASSUME IInv, Look
  PROVE  IInv'
<1>1. /\ TypeOK /\ lowest <= offset /\ KeepsTime
      /\ UNCHANGED <<longMod, now, offset, lastPacketTime, sleep, heard, heardOffset, lowest>>
      /\ pc' = IF Silent THEN "condemned" ELSE "update"
      /\ lag' = 0
  BY DEF IInv, Look, clocks, heardAt
<1>2. TypeOK'
  BY <1>1, Numbers DEF TypeOK, Pc
<1>3. KeepsTime'
  BY <1>1 DEF KeepsTime, AsLong
<1>4. ASSUME ~Silent
      PROVE  now - heard < Budget
  <2> DEFINE p == now \div TicksPerSecond
             q == heard \div TicksPerSecond
             k == Timeout + heardOffset - lowest
  <2>1. q + heardOffset \in Nat /\ q \in Nat /\ p \in Nat /\ WallTime = p + offset
    BY <1>1, Numbers, QuotientNat DEF WallTime
  <2>2. lastPacketTime <= q + heardOffset
    BY <1>1, <2>1, AsLongHolds DEF KeepsTime, TypeOK
  <2>3. WallTime - lastPacketTime <= Timeout
    BY <1>1, <1>4, Numbers DEF Silent
  <2> HIDE DEF p, q
  <2>4. k \in Int /\ p - q <= k
    BY <1>1, <2>1, <2>2, <2>3, Numbers
  <2>5. now - heard < (k + 1) * TicksPerSecond
    <3> HIDE DEF k
    <3>1. now \div TicksPerSecond - heard \div TicksPerSecond <= k
      BY <2>4 DEF p, q
    <3>2. now \in Nat /\ heard \in Nat /\ TicksPerSecond \in Nat \ {0}
      BY <1>1, Numbers
    <3>3. QED
      BY <2>4, <3>1, <3>2, SecondsBound
  <2>6. (k + 1) * TicksPerSecond = Budget
    <3>1. k + 1 = Timeout + 1 + heardOffset - lowest
      BY <1>1, Numbers
    <3>2. k + 1 \in Int /\ TicksPerSecond \in Int
      BY <2>4, <1>1, Numbers
    <3> HIDE DEF k
    <3>3. (k + 1) * TicksPerSecond = TicksPerSecond * (k + 1)
      BY <3>2
    <3>4. QED
      BY <3>1, <3>3 DEF Budget
  <2>7. QED
    BY <2>5, <2>6
<1>5. OnTime'
  <2>1. Budget' = Budget
    BY <1>1 DEF Budget
  <2>2. CASE Silent
    BY <1>1, <2>2 DEF OnTime
  <2>3. CASE ~Silent
    BY <1>1, <1>4, <2>1, <2>3, Numbers DEF OnTime
  <2>4. QED
    BY <2>2, <2>3
<1>6. QED
  BY <1>1, <1>2, <1>3, <1>5 DEF IInv

\* The sleep an update asks for is an interval at most.
LEMMA UpdateInv ==
  ASSUME IInv, Update
  PROVE  IInv'
<1>1. /\ TypeOK /\ lowest <= offset /\ KeepsTime /\ pc = "update" /\ pc' = "sleep"
      /\ UNCHANGED <<longMod, now, offset, lastPacketTime, lag, heard, heardOffset, lowest>>
  BY DEF IInv, Update, clocks, heardAt, history
<1>2. sleep' \in 0..Interval
  <2>1. PICK current \in ClockValues, wait \in 0..Interval :
          sleep' = SleepFor((current + wait) % TickMod, current)
    BY DEF Update
  <2>2. QED
    BY <1>1, <2>1, SleepsInterval DEF TypeOK
<1>3. TypeOK'
  BY <1>1, <1>2, Numbers DEF TypeOK, Pc
<1>4. KeepsTime'
  BY <1>1 DEF KeepsTime, AsLong
<1>5. OnTime'
  <2>1. Budget' = Budget
    BY <1>1 DEF Budget
  <2>2. sleep' \in Nat /\ sleep' <= Interval
    BY <1>1, <1>2, Numbers
  <2>3. QED
    BY <1>1, <2>1, <2>2, Numbers DEF IInv, OnTime
<1>6. QED
  BY <1>1, <1>3, <1>4, <1>5 DEF IInv

\* After the sleep all of it has gone by.
LEMMA WakeInv ==
  ASSUME IInv, Wake
  PROVE  IInv'
<1>1. /\ TypeOK /\ lowest <= offset /\ KeepsTime
      /\ pc = "sleep" /\ sleep = 0 /\ pc' = "look"
      /\ UNCHANGED <<longMod, now, offset, lastPacketTime, sleep, lag, heard,
                     heardOffset, lowest>>
  BY DEF IInv, Wake, clocks, heardAt, history
<1>2. TypeOK'
  BY <1>1, Numbers DEF TypeOK, Pc
<1>3. KeepsTime'
  BY <1>1 DEF KeepsTime, AsLong
<1>4. OnTime'
  <2>1. Budget' = Budget
    BY <1>1 DEF Budget
  <2>2. QED
    BY <1>1, <2>1, Numbers DEF IInv, OnTime
<1>5. QED
  BY <1>1, <1>2, <1>3, <1>4 DEF IInv

\* Steps of others leave the invariant alone.
LEMMA StutterInv ==
  ASSUME IInv, UNCHANGED vars
  PROVE  IInv'
<1>1. UNCHANGED <<longMod, now, offset, lastPacketTime, pc, sleep, lag, heard,
                  heardOffset, lowest>>
  BY DEF vars, clocks, heardAt, history
<1>2. TypeOK'
  BY <1>1 DEF IInv, TypeOK
<1>3. QED
  BY <1>1, <1>2 DEF IInv, KeepsTime, AsLong, OnTime, Budget

\* The invariant holds in every state.
THEOREM Invariance == Spec => []IInv
<1>1. IInv /\ [Next]_vars => IInv'
  <2>1. SUFFICES ASSUME IInv, [Next]_vars
                 PROVE  IInv'
    OBVIOUS
  <2>2. CASE Tick
    BY <2>1, <2>2, TickInv
  <2>3. ASSUME NEW ahead \in 0..MaxAhead, SetClock(ahead)
        PROVE  IInv'
    BY <2>1, <2>3, SetClockInv
  <2>4. CASE Input
    BY <2>1, <2>4, InputInv
  <2>5. CASE Look
    BY <2>1, <2>5, LookInv
  <2>6. CASE Update
    BY <2>1, <2>6, UpdateInv
  <2>7. CASE Wake
    BY <2>1, <2>7, WakeInv
  <2>8. CASE UNCHANGED vars
    BY <2>1, <2>8, StutterInv
  <2>9. QED
    BY <2>1, <2>2, <2>3, <2>4, <2>5, <2>6, <2>7, <2>8 DEF Next
<1>2. QED
  BY <1>1, InitInv, PTL DEF Spec

-----------------------------------------------------------------------------
(* The theorems                                                            *)

\* The clocks, the sleep and the lag have their types, lastPacketTime among them,
\* which is a long after every conversion of a time_t to it.
THEOREM TypeCorrect == Spec => []TypeOK
<1>1. IInv => TypeOK
  BY DEF IInv
<1>2. QED
  BY <1>1, Invariance, PTL

\* Background finds a silent session in time, whatever clock() returns.
THEOREM CondemnsInTime == Spec => []NotTooLate
<1>1. IInv => NotTooLate
  <2>1. SUFFICES ASSUME IInv, pc # "condemned"
                 PROVE  now - heard < (Timeout + 1 + heardOffset - lowest) * TicksPerSecond
                                        + Interval + MaxLag
    BY DEF NotTooLate
  <2>2. TypeOK /\ pc \in Pc
    BY <2>1 DEF IInv, TypeOK
  <2>3. now - heard < Budget + Interval + MaxLag
    BY <2>1, <2>2, Numbers DEF IInv, OnTime, Pc
  <2>4. Budget = (Timeout + 1 + heardOffset - lowest) * TicksPerSecond
    <3>1. TicksPerSecond \in Int /\ Timeout + 1 + heardOffset - lowest \in Int
      BY <2>2, Numbers
    <3>2. QED
      BY <3>1 DEF Budget
  <2>5. QED
    BY <2>3, <2>4
<1>2. QED
  BY <1>1, Invariance, PTL

\* Background condemns no session that was not silent for its timeout, as long as the
\* time it was heard at fits into a long.
THEOREM CondemnsNoneEarly == Spec => NotTooSoon
<1>1. IInv /\ [Next]_vars
        => [ pc' = "condemned" /\ heard \div TicksPerSecond + heardOffset <= LongMax
               => now - heard > (Timeout - (offset - heardOffset)) * TicksPerSecond ]_pc
  <2>1. SUFFICES ASSUME IInv, [Next]_vars, pc' # pc, pc' = "condemned",
                        heard \div TicksPerSecond + heardOffset <= LongMax
                 PROVE  now - heard > (Timeout - (offset - heardOffset)) * TicksPerSecond
    OBVIOUS
  <2>2. TypeOK /\ KeepsTime
    BY <2>1 DEF IInv
  <2>3. Look
    BY <2>1 DEF Next, vars, Tick, SetClock, Input, Update, Wake
  <2>4. Silent
    BY <2>1, <2>3 DEF Look
  <2> DEFINE p == now \div TicksPerSecond
             q == heard \div TicksPerSecond
             k == Timeout - (offset - heardOffset)
  <2>5. q + heardOffset \in Nat /\ q \in Nat /\ p \in Nat /\ WallTime = p + offset
    BY <2>2, Numbers, QuotientNat DEF WallTime
  <2>6. lastPacketTime = q + heardOffset
    BY <2>1, <2>2, <2>5, AsLongHolds DEF KeepsTime, TypeOK
  <2>7. WallTime - lastPacketTime > Timeout
    BY <2>4 DEF Silent
  <2> HIDE DEF p, q
  <2>8. k \in Int /\ p - q > k
    BY <2>2, <2>5, <2>6, <2>7, Numbers
  <2> HIDE DEF k
  <2>9. now \div TicksPerSecond - heard \div TicksPerSecond > k
    BY <2>8 DEF p, q
  <2>10. now \in Nat /\ heard \in Nat /\ TicksPerSecond \in Nat \ {0}
    BY <2>2, Numbers
  <2>11. now - heard > k * TicksPerSecond
    BY <2>8, <2>9, <2>10, SecondsAtLeast
  <2>12. QED
    BY <2>11 DEF k
<1>2. QED
  BY <1>1, Invariance, PTL DEF Spec, NotTooSoon
=============================================================================
