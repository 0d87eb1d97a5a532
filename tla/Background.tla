----------------------------- MODULE Background -----------------------------
(***************************************************************************)
(* When Kcp::Background notices that its session is silent: the clocks it  *)
(* reads, their widths, and the time it sleeps.                            *)
(*                                                                         *)
(* It knows three clocks.  time(0) is the wall clock in whole seconds,     *)
(* which an administrator or NTP may step while sessions live, and Input   *)
(* keeps it in lastPacketTime, a long.  clock() is a clock_t, also as wide *)
(* as a long, of which ikcp takes and returns 32 bits.  The last is how    *)
(* long it really sleeps.  A long has 32 bits on Windows and 64 elsewhere, *)
(* and the subtractions of the code mean different things there.           *)
(*                                                                         *)
(* GameServer takes the silence of a session as given and has Background   *)
(* look at it at any moment, and Handshake takes it that a silent session  *)
(* is condemned before another second is over.  This module is about what  *)
(* that rests on.                                                          *)
(*                                                                         *)
(* External: ikcp_check, which asks for the next update after Interval     *)
(* ticks or sooner; the clocks; the scheduler.                             *)
(***************************************************************************)
EXTENDS Integers

CONSTANTS
  TicksPerSecond,  \* ticks of real time and of sleep_for in a second (1000)
  Timeout,         \* seconds of silence a session survives (20)
  Interval,        \* ticks between two updates ikcp asks for, at most (10)
  TickMod,         \* values of the 32 bits of a time of ikcp
  LongMods,        \* values a long may have, platform by platform
  MaxLag,          \* bound: ticks Background is kept from running, look to look
  MaxAhead,        \* bound: seconds the wall clock is put ahead of real time
  MaxNow           \* bound: ticks in a behaviour

ASSUME BackgroundAssumption ==
  /\ {TicksPerSecond, TickMod} \subseteq Nat \ {0}
  /\ {Timeout, Interval, MaxLag, MaxAhead, MaxNow} \subseteq Nat
  /\ Interval < TickMod
  /\ \A n \in LongMods : n \in Nat /\ n >= TickMod /\ n % 2 = 0

VARIABLES
  longMod,         \* how many values a long has in this build
  now,             \* real time
  offset,          \* seconds the wall clock is ahead of it
  lastPacketTime,
  pc,              \* where Background is
  sleep,           \* ticks it still sleeps
  \* history
  lag,             \* ticks it was ready to run and did not, since it last looked
  heard,           \* when Input was last called
  heardOffset,     \* what the offset was then
  lowest           \* the lowest offset since

clocks == <<now, offset>>
heardAt == <<heard, heardOffset>>
history == <<lag, heardAt, lowest>>
vars == <<longMod, clocks, lastPacketTime, pc, sleep, history>>

Pc == {"look", "update", "sleep", "condemned"}

TypeOK ==
  /\ longMod \in LongMods
  /\ now \in 0..MaxNow
  /\ offset \in 0..MaxAhead
  /\ lastPacketTime \in -(longMod \div 2)..(longMod \div 2 - 1)
  /\ pc \in Pc
  /\ sleep \in 0..Interval
  /\ lag \in 0..MaxLag
  /\ heard \in 0..now
  /\ heardOffset \in 0..MaxAhead
  /\ lowest \in 0..heardOffset

\* time(0), of which time_t holds all the bits
WallTime == now \div TicksPerSecond + offset

\* A time_t as a long: where a long has 32 bits, the others are cut off.
AsLong(n) ==
  LET low == n % longMod IN IF low < longMod \div 2 THEN low ELSE low - longMod

LongMax == longMod \div 2 - 1

\* The values of clock(): a long that does not grow any further where it has too
\* few bits is minus one from then on.
ClockValues == 0..LongMax \cup (IF longMod = TickMod THEN {-1} ELSE {})

\* Input of the handshake, which calls Initialize, which starts Background.
Init ==
  /\ longMod \in LongMods
  /\ now = 0
  /\ offset \in 0..MaxAhead
  /\ lastPacketTime = AsLong(WallTime)
  /\ pc = "look"
  /\ sleep = 0
  /\ lag = 0
  /\ heard = 0 /\ heardOffset = offset
  /\ lowest = offset

-----------------------------------------------------------------------------
(* The clocks                                                              *)

\* Background is ready to run.
Ready == pc \in {"look", "update"} \/ (pc = "sleep" /\ sleep = 0)

Tick ==
  /\ now < MaxNow
  /\ now' = now + 1
  /\ \/ Ready /\ lag < MaxLag /\ lag' = lag + 1 /\ UNCHANGED sleep
     \/ pc = "sleep" /\ sleep > 0 /\ sleep' = sleep - 1 /\ UNCHANGED lag
     \/ pc = "condemned" /\ UNCHANGED <<sleep, lag>>
  /\ UNCHANGED <<longMod, offset, lastPacketTime, pc, heardAt, lowest>>

\* Somebody sets the wall clock.
SetClock(ahead) ==
  /\ offset' = ahead
  /\ lowest' = IF ahead < lowest THEN ahead ELSE lowest
  /\ UNCHANGED <<longMod, now, lastPacketTime, pc, sleep, lag, heardAt>>

-----------------------------------------------------------------------------
(* The session                                                             *)

\* Kcp::Input of any datagram, at any time, in the coroutine.
Input ==
  /\ lastPacketTime' = AsLong(WallTime)
  /\ heard' = now
  /\ heardOffset' = offset
  /\ lowest' = offset
  /\ UNCHANGED <<longMod, clocks, pc, sleep, lag>>

\* time(0) - lastPacketTime > 20, of a 64 bit time_t.
SilentEarly == WallTime - lastPacketTime >= Timeout
SilentLate == WallTime - lastPacketTime > Timeout + 1
Silent == WallTime - lastPacketTime > Timeout

\* The head of the loop.
Look ==
  /\ pc = "look"
  /\ pc' = IF Silent THEN "condemned" ELSE "update"
  /\ lag' = 0
  /\ UNCHANGED <<longMod, clocks, lastPacketTime, sleep, heardAt, lowest>>

\* milliseconds(ts - current): unsigned where long has no more bits than ts, and
\* signed where it has; of a negative time sleep_for returns at once.
SleepFor(ts, current) ==
  IF longMod = TickMod THEN (ts - current) % TickMod
  ELSE IF ts < current THEN 0
  ELSE ts - current

\* clock(), ikcp_update and ikcp_check, which are given its low bits.
UpdateReadsClockAgain ==
  /\ pc = "update"
  /\ \E current, later \in ClockValues, wait \in 0..Interval :
       /\ later \in {current, current + 1}
       /\ sleep' = SleepFor((current + wait) % TickMod, later)
  /\ pc' = "sleep"
  /\ UNCHANGED <<longMod, clocks, lastPacketTime, history>>

Update ==
  /\ pc = "update"
  /\ \E current \in ClockValues, wait \in 0..Interval :
       sleep' = SleepFor((current + wait) % TickMod, current)
  /\ pc' = "sleep"
  /\ UNCHANGED <<longMod, clocks, lastPacketTime, history>>

Wake ==
  /\ pc = "sleep"
  /\ sleep = 0
  /\ pc' = "look"
  /\ UNCHANGED <<longMod, clocks, lastPacketTime, sleep, history>>

-----------------------------------------------------------------------------
Next ==
  \/ Tick
  \/ \E ahead \in 0..MaxAhead : SetClock(ahead)
  \/ Input
  \/ Look \/ Update \/ Wake

Spec == Init /\ [][Next]_vars

-----------------------------------------------------------------------------
(* Safety                                                                  *)

\* A session is condemned only after more than Timeout seconds of silence, less what
\* the wall clock was put forward since it was heard, as long as the last time it
\* was heard fits into a long.  Afterwards every session of such a build is condemned
\* at the next look.
NotTooSoon ==
  [][ pc' = "condemned" /\ heard \div TicksPerSecond + heardOffset <= LongMax
        => now - heard > (Timeout - (offset - heardOffset)) * TicksPerSecond ]_pc

\* A session that is not condemned was heard within Timeout seconds, give or take
\* the part of a second time(0) does not show, one sleep of Background, the time it
\* was kept from running, and what the wall clock was put back: whatever clock()
\* returns, wherever it wraps, and whether or not a long can hold the time.
NotTooLate ==
  pc # "condemned" =>
    now - heard < (Timeout + 1 + heardOffset - lowest) * TicksPerSecond + Interval + MaxLag
=============================================================================
