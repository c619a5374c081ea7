-------------------------- MODULE MarketFeedProofs -------------------------
(***************************************************************************)
(* Proofs about the market-data feed and its gate, for every staleness      *)
(* window, message gap and backoff.  The argument: an "ok" carries its age, *)
(* and what it says of the last message is still true, that much later,     *)
(* whoever reads it; and the watchdog's poll in a unit without faults puts  *)
(* the truth in the key, so a unit later no reader can be misled.           *)
(***************************************************************************)
EXTENDS MarketFeed, TLAPS

(* The smaller and the larger of two numbers.                               *)
LEMMA MinOfTwo == ASSUME NEW a \in Int, NEW b \in Int PROVE Min({a, b}) = IF a <= b THEN a ELSE b
<1>1. \E x \in {a, b} : \A y \in {a, b} : x <= y
  OBVIOUS
<1> QED BY <1>1 DEF Min

LEMMA MaxOfTwo == ASSUME NEW a \in Int, NEW b \in Int PROVE Max({a, b}) = IF a >= b THEN a ELSE b
<1>1. \E x \in {a, b} : \A y \in {a, b} : x >= y
  OBVIOUS
<1> QED BY <1>1 DEF Max

(* A saturating counter.                                                    *)
LEMMA BoundedCount ==
  ASSUME NEW n \in Nat, NEW b \in Nat
  PROVE  Bounded(n, b) \in 0 .. b /\ Bounded(n, b) = IF n <= b THEN n ELSE b
BY MinOfTwo DEF Bounded

(* The window is positive, and spans two gaps when only bars are subscribed.*)
LEMMA WindowFacts ==
  ASSUME FeedAssumption
  PROVE  /\ Window \in Nat /\ Window >= 1
         /\ TTL \in Nat /\ TTL = 2 * Window
         /\ LongAgo \in Nat /\ LongAgo = 2 * Window + 2
         /\ Gap \in Nat /\ Gap >= 1 /\ Base \in Nat /\ Base >= 1 /\ Cap \in Nat /\ Base <= Cap
         /\ ~Continuous \/ Requested >= 2 * Gap => 2 * Gap <= Window
<1>0. Base \in Nat /\ Base >= 1 /\ Cap \in Nat /\ Base <= Cap
  BY DEF FeedAssumption
<1>1. /\ Requested \in Int /\ MinWindow \in Nat /\ MinWindow >= 1
      /\ Gap \in Nat /\ Gap >= 1 /\ Continuous \in BOOLEAN
  BY DEF FeedAssumption
<1>2. \A n \in Int : Max({Requested, n}) = IF Requested >= n THEN Requested ELSE n
  BY <1>1, MaxOfTwo
<1>3. Window = IF Continuous THEN Max({Requested, MinWindow}) ELSE Max({Requested, 2 * Gap})
  BY DEF Window, staleness_floor
<1>4. /\ Window \in Nat /\ Window >= 1
      /\ ~Continuous \/ Requested >= 2 * Gap => 2 * Gap <= Window
  BY <1>1, <1>2, <1>3
<1> QED BY <1>0, <1>1, <1>4 DEF TTL, LongAgo

(* What the health key may hold.                                            *)
KeyValue == {Absent} \cup [status : {"ok", "stale"}, age : 0 .. TTL - 1]

(* A key that says anything has an age.                                     *)
LEMMA KeyHasAge ==
  ASSUME NEW k \in KeyValue, k # Absent \/ k.status = "ok"
  PROVE  k \in [status : {"ok", "stale"}, age : 0 .. TTL - 1] /\ k.age \in 0 .. TTL - 1
BY DEF KeyValue, Absent

(* The type invariant in two parts, the flags and the rest, in a state and  *)
(* in the next.                                                             *)
Flags ==
  /\ seen \in BOOLEAN /\ flagged \in BOOLEAN /\ marking \in BOOLEAN /\ landed \in BOOLEAN
  /\ stale \in BOOLEAN /\ polled \in BOOLEAN /\ flowing \in BOOLEAN

Values ==
  /\ link \in {"up", "sleep", "off"} /\ wait \in 0 .. Cap /\ backoff \in Base .. Cap
  /\ silence \in 0 .. Window + 2 /\ watch \in {"due", "publishing", "done"}
  /\ key \in KeyValue /\ redis \in {"up", "readonly", "down"}
  /\ pause \in 0 .. Gap /\ heard \in 0 .. LongAgo /\ calm \in 0 .. Settled /\ fresh \in 0 .. Settled
  /\ flagged => silence >= Window

LEMMA TypeParts == (TypeOK <=> Flags /\ Values) /\ (TypeOK' <=> Flags' /\ Values')
BY DEF TypeOK, Flags, Values, KeyValue

(* A write of the key: lands when Redis takes it, or leaves all as it was.  *)
LEMMA WriteLands ==
  ASSUME FeedAssumption, Flags, Values, NEW s \in {"ok", "stale"}, NEW forced \in BOOLEAN,
         write_feed_health(s, forced)
  PROVE  /\ key' \in KeyValue /\ landed' \in BOOLEAN
         /\ (key' = key /\ landed' = landed) \/ (key' = [status |-> s, age |-> 0] /\ landed' = TRUE)
         /\ redis = "up" /\ (forced \/ ~landed) => key' = [status |-> s, age |-> 0]
<1>1. [status |-> s, age |-> 0] \in KeyValue
  BY WindowFacts DEF KeyValue
<1>2. key' \in KeyValue
  BY <1>1 DEF write_feed_health, Values
<1>3. landed' \in BOOLEAN
  BY DEF write_feed_health, Flags
<1>4. (key' = key /\ landed' = landed) \/ (key' = [status |-> s, age |-> 0] /\ landed' = TRUE)
  BY DEF write_feed_health
<1>5. redis = "up" /\ (forced \/ ~landed) => key' = [status |-> s, age |-> 0]
  BY DEF write_feed_health
<1> QED BY <1>2, <1>3, <1>4, <1>5

-----------------------------------------------------------------------------
(* The steps.                                                               *)

Parts == Flags /\ Values /\ ClocksAgree /\ OkIsBacked /\ SilenceIsTold /\ ClosesInAWindow

LEMMA InvParts == (IInv <=> Parts) /\ (IInv' <=> Parts')
BY TypeParts DEF IInv, Parts

(* A message resets the clocks; what it writes is a fresh "ok".             *)
LEMMA MessageStep ==
  ASSUME FeedAssumption, Parts, Message
  PROVE  Parts'
<1> USE DEF Parts
<1>1. /\ Window \in Nat /\ Window >= 1 /\ TTL = 2 * Window /\ LongAgo = 2 * Window + 2
      /\ Gap \in Nat /\ Gap >= 1 /\ Base \in Nat /\ Base >= 1 /\ Cap \in Nat /\ Base <= Cap
  BY WindowFacts
<1>2. /\ key' \in KeyValue /\ landed' \in BOOLEAN
      /\ key' = key \/ key' = [status |-> "ok", age |-> 0]
  BY WriteLands DEF Message, Flags, Values
<1>3. Flags'
  BY <1>2 DEF Message, Flags
<1>4. Values'
  BY <1>1, <1>2 DEF Message, Values
<1>5. ClocksAgree'
  BY DEF Message, ClocksAgree
<1>6. OkIsBacked'
  <2>1. key'.status = "ok" => key'.age \in Nat
    BY <1>1, <1>2, KeyHasAge
  <2> QED BY <1>1, <2>1 DEF Message, OkIsBacked
<1>7. SilenceIsTold' /\ ClosesInAWindow'
  BY <1>1 DEF Message, SilenceIsTold, ClosesInAWindow
<1> QED BY <1>3, <1>4, <1>5, <1>6, <1>7

(* The "ok" of a message that ended an outage: still in its unit.           *)
LEMMA MarkWrittenStep ==
  ASSUME FeedAssumption, Parts, MarkWritten
  PROVE  Parts'
<1> USE DEF Parts
<1>1. /\ Window \in Nat /\ Window >= 1 /\ TTL = 2 * Window /\ LongAgo = 2 * Window + 2
      /\ Gap \in Nat /\ Gap >= 1 /\ Base \in Nat /\ Base >= 1 /\ Cap \in Nat /\ Base <= Cap
  BY WindowFacts
<1>2. /\ key' \in KeyValue /\ landed' \in BOOLEAN
      /\ key' = key \/ key' = [status |-> "ok", age |-> 0]
  BY WriteLands DEF MarkWritten
<1>3. seen /\ silence = 0 /\ heard = 0
  BY DEF MarkWritten, ClocksAgree
<1>4. Flags'
  BY <1>2 DEF MarkWritten, Flags, vendor
<1>5. Values'
  BY <1>2 DEF MarkWritten, Values, vendor, past
<1>6. ClocksAgree'
  BY DEF MarkWritten, ClocksAgree, past
<1>7. OkIsBacked'
  BY <1>1, <1>2, <1>3 DEF MarkWritten, OkIsBacked, past
<1>8. SilenceIsTold' /\ ClosesInAWindow'
  BY <1>1, <1>3 DEF MarkWritten, SilenceIsTold, ClosesInAWindow, past
<1> QED BY <1>4, <1>5, <1>6, <1>7, <1>8

(* The watchdog vouches for a feed it has heard within a window, and tells  *)
(* of one it has not.                                                       *)
LEMMA WatchdogStep ==
  ASSUME FeedAssumption, Parts, Watchdog
  PROVE  Parts'
<1> USE DEF Parts
<1>1. /\ Window \in Nat /\ Window >= 1 /\ TTL = 2 * Window /\ LongAgo = 2 * Window + 2
      /\ Gap \in Nat /\ Gap >= 1 /\ Base \in Nat /\ Base >= 1 /\ Cap \in Nat /\ Base <= Cap
  BY WindowFacts
<1>2. CASE silence >= Window
  <2>1. /\ flagged' = TRUE
        /\ watch' = IF flagged THEN "done" ELSE "publishing"
        /\ key' \in KeyValue /\ landed' \in BOOLEAN
        /\ key' = key \/ key' = [status |-> "stale", age |-> 0]
    BY <1>2, WriteLands DEF Watchdog, stale_told_again, Flags, Values
  <2>2. flagged /\ redis = "up" /\ ~landed => key' = [status |-> "stale", age |-> 0]
    BY <1>2, WriteLands DEF Watchdog, stale_told_again
  <2>3. Flags'
    BY <2>1 DEF Watchdog, Flags, vendor
  <2>4. Values'
    BY <1>2, <2>1 DEF Watchdog, Values, vendor, past
  <2>5. ClocksAgree'
    BY DEF Watchdog, ClocksAgree, past
  <2>6. OkIsBacked'
    BY <2>1 DEF Watchdog, OkIsBacked, past
  <2>7. SilenceIsTold'
    BY <1>1, <1>2, <2>1, <2>2 DEF Watchdog, SilenceIsTold, past, Flags
  <2>8. ClosesInAWindow'
    BY DEF Watchdog, ClosesInAWindow, past
  <2> QED BY <2>3, <2>4, <2>5, <2>6, <2>7, <2>8
<1>3. CASE ~(silence >= Window)
  <2>1. /\ flagged' = flagged /\ watch' = "done"
        /\ key' \in KeyValue /\ landed' \in BOOLEAN
        /\ key' = key \/ (seen /\ key' = [status |-> "ok", age |-> 0])
    BY <1>3, WriteLands DEF Watchdog, vouches, Flags, Values
  <2>2. Flags'
    BY <2>1 DEF Watchdog, Flags, vendor
  <2>3. Values'
    BY <2>1 DEF Watchdog, Values, vendor, past
  <2>4. ClocksAgree'
    BY DEF Watchdog, ClocksAgree, past
  <2>5. OkIsBacked'
    <3>1. seen => heard < Window
      BY <1>1, <1>3 DEF ClocksAgree, Values
    <3> QED BY <1>1, <2>1, <3>1 DEF Watchdog, OkIsBacked, past, Values
  <2>6. SilenceIsTold'
    BY <1>1, <1>3, <2>1 DEF Watchdog, SilenceIsTold, past, Values
  <2>7. ClosesInAWindow'
    BY DEF Watchdog, ClosesInAWindow, past
  <2> QED BY <2>2, <2>3, <2>4, <2>5, <2>6, <2>7
<1> QED BY <1>2, <1>3

(* The forced "stale" of a new outage.                                      *)
LEMMA WatchdogWrittenStep ==
  ASSUME FeedAssumption, Parts, WatchdogWritten
  PROVE  Parts'
<1> USE DEF Parts
<1>1. /\ Window \in Nat /\ Window >= 1 /\ TTL = 2 * Window /\ LongAgo = 2 * Window + 2
      /\ Gap \in Nat /\ Gap >= 1 /\ Base \in Nat /\ Base >= 1 /\ Cap \in Nat /\ Base <= Cap
  BY WindowFacts
<1>2. /\ key' \in KeyValue /\ landed' \in BOOLEAN
      /\ key' = key \/ key' = [status |-> "stale", age |-> 0]
      /\ redis = "up" => key' = [status |-> "stale", age |-> 0]
  BY WriteLands DEF WatchdogWritten
<1>3. Flags'
  BY <1>2 DEF WatchdogWritten, Flags, vendor
<1>4. Values'
  BY <1>2 DEF WatchdogWritten, Values, vendor, past
<1>5. ClocksAgree' /\ OkIsBacked'
  BY <1>2 DEF WatchdogWritten, ClocksAgree, OkIsBacked, past
<1>6. SilenceIsTold' /\ ClosesInAWindow'
  BY <1>2 DEF WatchdogWritten, SilenceIsTold, ClosesInAWindow, past
<1> QED BY <1>3, <1>4, <1>5, <1>6

(* The supervisor's steps leave the key and the gate alone.                 *)
LEMMA SupervisorStep ==
  ASSUME FeedAssumption, Parts, Disconnect \/ Reconnect \/ StreamCannotBeBuilt
  PROVE  Parts'
<1> USE DEF Parts
<1>1. /\ Window \in Nat /\ Window >= 1 /\ TTL = 2 * Window /\ LongAgo = 2 * Window + 2
      /\ Gap \in Nat /\ Gap >= 1 /\ Base \in Nat /\ Base >= 1 /\ Cap \in Nat /\ Base <= Cap
  BY WindowFacts
<1>2. CASE Disconnect
  <2>1. Flags'
    BY <1>2 DEF Disconnect, Flags, vendor
  <2>2. Values'
    BY <1>1, <1>2 DEF Disconnect, Values, vendor, past
  <2>3. ClocksAgree' /\ OkIsBacked' /\ SilenceIsTold' /\ ClosesInAWindow'
    BY <1>2 DEF Disconnect, ClocksAgree, OkIsBacked, SilenceIsTold, ClosesInAWindow, past
  <2> QED BY <2>1, <2>2, <2>3
<1>3. CASE Reconnect
  <2>1. Flags'
    BY <1>3 DEF Reconnect, Flags, vendor
  <2>2. backoff' \in Base .. Cap
    BY <1>1, <1>3, MinOfTwo DEF Reconnect, Values, backoff_doubled
  <2>3. Values'
    BY <1>1, <1>3, <2>2 DEF Reconnect, Values, past
  <2>4. ClocksAgree' /\ OkIsBacked' /\ SilenceIsTold' /\ ClosesInAWindow'
    BY <1>3 DEF Reconnect, ClocksAgree, OkIsBacked, SilenceIsTold, ClosesInAWindow, past
  <2> QED BY <2>1, <2>3, <2>4
<1>4. CASE StreamCannotBeBuilt
  <2>1. Flags'
    BY <1>4 DEF StreamCannotBeBuilt, Flags, vendor
  <2>2. Values'
    BY <1>1, <1>4 DEF StreamCannotBeBuilt, Values, vendor, Settled
  <2>3. ClocksAgree' /\ OkIsBacked'
    BY <1>4 DEF StreamCannotBeBuilt, ClocksAgree, OkIsBacked
  <2>4. SilenceIsTold' /\ ClosesInAWindow'
    BY <1>4 DEF StreamCannotBeBuilt, SilenceIsTold, ClosesInAWindow, Settled
  <2> QED BY <2>1, <2>2, <2>3, <2>4
<1> QED BY <1>2, <1>3, <1>4

(* A new process has heard nothing and its gate is closed.                  *)
LEMMA RestartStep ==
  ASSUME FeedAssumption, Parts, Restart
  PROVE  Parts'
<1> USE DEF Parts
<1>1. /\ Window \in Nat /\ Window >= 1 /\ TTL = 2 * Window /\ LongAgo = 2 * Window + 2
      /\ Gap \in Nat /\ Gap >= 1 /\ Base \in Nat /\ Base >= 1 /\ Cap \in Nat /\ Base <= Cap
  BY WindowFacts
<1>2. Flags'
  BY DEF Restart, Flags
<1>3. Values'
  BY <1>1 DEF Restart, Values, Settled
<1>4. ClocksAgree' /\ OkIsBacked'
  BY DEF Restart, ClocksAgree, OkIsBacked
<1>5. SilenceIsTold' /\ ClosesInAWindow'
  BY DEF Restart, SilenceIsTold, ClosesInAWindow, Settled
<1> QED BY <1>2, <1>3, <1>4, <1>5

(* The poller believes an "ok" for a window.                                *)
LEMMA PollStep ==
  ASSUME FeedAssumption, Parts, Poll
  PROVE  Parts'
<1> USE DEF Parts
<1>1. /\ Window \in Nat /\ Window >= 1 /\ TTL = 2 * Window /\ LongAgo = 2 * Window + 2
      /\ Gap \in Nat /\ Gap >= 1 /\ Base \in Nat /\ Base >= 1 /\ Cap \in Nat /\ Base <= Cap
  BY WindowFacts
<1>2. Flags'
  BY DEF Poll, Flags, consumer, vendor
<1>3. Values'
  BY DEF Poll, Values, consumer, vendor, past
<1>4. ClocksAgree' /\ SilenceIsTold'
  BY DEF Poll, ClocksAgree, SilenceIsTold, consumer, past
<1>5. ~stale' => key.status = "ok" /\ key.age <= Window
  <2>1. key.status = "ok" => key.age \in Nat
    BY <1>1, KeyHasAge DEF Values
  <2>2. ~stale' => ~read_level
    BY DEF Poll
  <2>3. ~read_level => key.status = "ok" /\ ~(key.age > Window)
    BY DEF read_level
  <2> QED BY <1>1, <2>1, <2>2, <2>3
<1>6. OkIsBacked'
  <2>1. key.status = "ok" => key.age \in Nat
    BY <1>1, KeyHasAge DEF Values
  <2> QED BY <1>1, <1>5, <2>1 DEF Poll, OkIsBacked, past, Values
<1>7. ClosesInAWindow'
  BY <1>1, <1>5 DEF Poll, SilenceIsTold, ClosesInAWindow, consumer, past, Values
<1> QED BY <1>2, <1>3, <1>4, <1>6, <1>7

(* A unit of time: every clock moves by one, and the unit that ends has had *)
(* its poll and its watchdog.                                               *)
LEMMA TickStep ==
  ASSUME FeedAssumption, Parts, Tick
  PROVE  Parts'
<1> USE DEF Parts
<1>1. /\ Window \in Nat /\ Window >= 1 /\ TTL = 2 * Window /\ LongAgo = 2 * Window + 2
      /\ Gap \in Nat /\ Gap >= 1 /\ Base \in Nat /\ Base >= 1 /\ Cap \in Nat /\ Base <= Cap
  BY WindowFacts
<1>2. Flags'
  BY DEF Tick, Flags
<1>3. /\ silence' \in 0 .. Window + 2
      /\ silence' = IF silence + 1 <= Window + 2 THEN silence + 1 ELSE Window + 2
      /\ heard' \in 0 .. LongAgo
      /\ heard' = IF heard + 1 <= LongAgo THEN heard + 1 ELSE LongAgo
      /\ pause' \in 0 .. Gap
  <2>1. /\ silence + 1 \in Nat /\ Window + 2 \in Nat /\ heard + 1 \in Nat /\ LongAgo \in Nat
        /\ pause + 1 \in Nat /\ Gap \in Nat
    BY <1>1 DEF Values
  <2>2. /\ silence' = Bounded(silence + 1, Window + 2) /\ heard' = Bounded(heard + 1, LongAgo)
        /\ pause' = Bounded(pause + 1, Gap)
    BY DEF Tick
  <2> QED BY <2>1, <2>2, BoundedCount
<1>4. calm' \in 0 .. Settled /\ fresh' \in 0 .. Settled
      /\ calm' = IF redis = "up" /\ link # "off" THEN (IF calm + 1 <= Settled THEN calm + 1 ELSE Settled) ELSE 0
  <2>1. calm + 1 \in Nat /\ fresh + 1 \in Nat /\ Settled \in Nat
    BY DEF Values, Settled
  <2>2. /\ calm' = IF redis = "up" /\ link # "off" THEN Bounded(calm + 1, Settled) ELSE 0
        /\ fresh' = 0 \/ fresh' = Bounded(fresh + 1, Settled)
    BY DEF Tick
  <2>3. \A n \in Nat : /\ Bounded(n, Settled) \in 0 .. Settled
                      /\ Bounded(n, Settled) = IF n <= Settled THEN n ELSE Settled
    BY <2>1, BoundedCount
  <2>4. 0 \in 0 .. Settled
    BY DEF Settled
  <2> QED BY <2>1, <2>2, <2>3, <2>4
<1>5. wait' \in 0 .. Cap
  <2>1. wait' = Max({wait - 1, 0}) /\ wait \in 0 .. Cap
    BY DEF Tick, Values
  <2> QED BY <1>1, <2>1, MaxOfTwo
<1>6. key' \in KeyValue /\ (key' # Absent => key # Absent /\ key'.status = key.status /\ key'.age = key.age + 1)
  <2>1. CASE key = Absent \/ key.age + 1 >= TTL
    BY <2>1 DEF Tick, KeyValue
  <2>2. CASE ~(key = Absent \/ key.age + 1 >= TTL)
    <3>1. key \in [status : {"ok", "stale"}, age : 0 .. TTL - 1] /\ key.age \in 0 .. TTL - 1
      BY <2>2, KeyHasAge DEF Values
    <3>2. key' = [key EXCEPT !.age = @ + 1]
      BY <2>2 DEF Tick
    <3> QED BY <1>1, <2>2, <3>1, <3>2 DEF KeyValue
  <2> QED BY <2>1, <2>2
<1>7. key'.status = "ok" => key.status = "ok" /\ key.age \in Nat /\ key'.age = key.age + 1
  <2>1. key'.status = "ok" => key' # Absent
    BY DEF Absent
  <2> QED BY <1>1, <1>6, <2>1, KeyHasAge DEF Values
<1>8. Values'
  BY <1>1, <1>3, <1>4, <1>5, <1>6 DEF Tick, Values
<1>9. ClocksAgree'
  BY <1>1, <1>3 DEF Tick, ClocksAgree, Values
<1>10. OkIsBacked'
  BY <1>1, <1>3, <1>7 DEF Tick, OkIsBacked, Values
<1>11. SilenceIsTold'
  <2>1. calm' > 0 => redis' = "up" /\ link' # "off" /\ watch' = "due" /\ watch = "done"
    BY <1>4 DEF Tick
  <2>2. calm' = Settled /\ silence' > Window => key'.status # "ok"
    <3> SUFFICES ASSUME calm' = Settled, silence' > Window PROVE key.status # "ok"
      BY <1>7
    <3>1. calm > 0 /\ silence >= Window
      BY <1>1, <1>3, <1>4 DEF Values, Settled
    <3> QED BY <2>1, <3>1 DEF SilenceIsTold, Settled
  <2> QED BY <2>1, <2>2 DEF Tick, SilenceIsTold
<1>12. ClosesInAWindow'
  BY DEF Tick, ClosesInAWindow
<1> QED BY <1>2, <1>8, <1>9, <1>10, <1>11, <1>12

(* Redis and the vendor: nobody writes the key, and calm is over.           *)
LEMMA WorldStep ==
  ASSUME FeedAssumption, Parts, (\E m \in {"up", "readonly", "down"} : RedisTurns(m)) \/ RedisLosesKeys \/ VendorTurns
  PROVE  Parts'
<1> USE DEF Parts
<1>1. /\ Window \in Nat /\ Window >= 1 /\ TTL = 2 * Window /\ LongAgo = 2 * Window + 2
      /\ Gap \in Nat /\ Gap >= 1 /\ Base \in Nat /\ Base >= 1 /\ Cap \in Nat /\ Base <= Cap
  BY WindowFacts
<1>2. ASSUME NEW m \in {"up", "readonly", "down"}, RedisTurns(m) PROVE Parts'
  <2>1. Flags'
    BY <1>2 DEF RedisTurns, Flags, consumer, vendor
  <2>2. Values'
    BY <1>2 DEF RedisTurns, Values, consumer, vendor, Settled
  <2>3. ClocksAgree' /\ OkIsBacked'
    BY <1>2 DEF RedisTurns, ClocksAgree, OkIsBacked, consumer
  <2>4. SilenceIsTold' /\ ClosesInAWindow'
    BY <1>2 DEF RedisTurns, SilenceIsTold, ClosesInAWindow, consumer, Settled
  <2> QED BY <2>1, <2>2, <2>3, <2>4
<1>3. CASE RedisLosesKeys
  <2>1. Flags'
    BY <1>3 DEF RedisLosesKeys, Flags, consumer, vendor
  <2>2. Values'
    BY <1>3 DEF RedisLosesKeys, Values, consumer, vendor, Settled, KeyValue
  <2>3. ClocksAgree' /\ OkIsBacked'
    BY <1>3 DEF RedisLosesKeys, ClocksAgree, OkIsBacked, consumer, Absent
  <2>4. SilenceIsTold' /\ ClosesInAWindow'
    BY <1>3 DEF RedisLosesKeys, SilenceIsTold, ClosesInAWindow, consumer, Settled
  <2> QED BY <2>1, <2>2, <2>3, <2>4
<1>4. CASE VendorTurns
  <2>1. Flags'
    BY <1>4 DEF VendorTurns, Flags, consumer
  <2>2. Values'
    BY <1>1, <1>4 DEF VendorTurns, Values, consumer, past
  <2>3. ClocksAgree' /\ OkIsBacked' /\ SilenceIsTold' /\ ClosesInAWindow'
    BY <1>4 DEF VendorTurns, ClocksAgree, OkIsBacked, SilenceIsTold, ClosesInAWindow, consumer, past
  <2> QED BY <2>1, <2>2, <2>3
<1> QED BY <1>2, <1>3, <1>4

-----------------------------------------------------------------------------
(* While nothing fails and messages come within two gaps, every unit writes *)
(* an "ok": none of its writers writes anything else.                       *)
LEMMA RenewStep ==
  ASSUME FeedAssumption, 2 * Gap <= Window, Parts, OkIsRenewed, Next
  PROVE  OkIsRenewed'
<1> USE DEF Parts
<1>1. Window \in Nat /\ TTL = 2 * Window /\ TTL \in Nat /\ Gap \in Nat /\ Gap >= 1 /\ Window >= 1
  BY WindowFacts
<1> DEFINE Renewed == key.status = "ok" /\ key.age = 0
<1>2. [status |-> "ok", age |-> 0].status = "ok" /\ [status |-> "ok", age |-> 0].age = 0
  OBVIOUS
<1>3. /\ silence \in Nat /\ fresh \in 0 .. 2 /\ calm \in 0 .. 2
      /\ calm > 0 => redis = "up" /\ link # "off"
  BY <1>1 DEF Values, Settled, SilenceIsTold
<1>4. CASE Message
  <2>1. fresh > 0 => ~flagged
    BY <1>1, <1>4, <1>3 DEF OkIsRenewed, Values
  <2>2. /\ silence' = 0 /\ seen' = TRUE /\ watch' = watch /\ fresh' = fresh /\ calm' = calm
    BY <1>4 DEF Message
  <2>3. fresh > 0 =>
          /\ redis = "up" /\ ~landed => key' = [status |-> "ok", age |-> 0]
          /\ (key' = key /\ landed' = landed) \/ key' = [status |-> "ok", age |-> 0]
    BY <1>4, <2>1, WriteLands DEF Message
  <2>4. fresh > 0 /\ calm > 0 => Renewed'
    BY <1>3, <2>3, <1>2 DEF OkIsRenewed
  <2> QED BY <1>1, <1>2, <2>2, <2>3, <2>4 DEF OkIsRenewed, Settled
<1>5. CASE MarkWritten
  <2>1. redis = "up" => key' = [status |-> "ok", age |-> 0]
    BY <1>5, WriteLands DEF MarkWritten
  <2>2. UNCHANGED <<silence, seen, watch, fresh, calm>>
    BY <1>5 DEF MarkWritten, past
  <2> QED BY <1>2, <1>3, <2>1, <2>2 DEF OkIsRenewed, Settled
<1>6. CASE Watchdog
  <2>1. UNCHANGED <<silence, seen, fresh, calm>>
    BY <1>6 DEF Watchdog, past
  <2>2. fresh > 0 => ~(silence >= Window)
    BY <1>1, <1>3 DEF OkIsRenewed
  <2>3. fresh > 0 => watch' = "done" /\ (vouches => write_feed_health("ok", FALSE))
    BY <1>6, <2>2 DEF Watchdog
  <2>4. fresh > 0 /\ calm > 0 => seen
    BY DEF OkIsRenewed
  <2>5. fresh > 0 /\ calm > 0 => write_feed_health("ok", FALSE)
    BY <2>3, <2>4 DEF vouches
  <2>6. fresh > 0 /\ calm > 0 => Renewed'
    <3> SUFFICES ASSUME fresh > 0, calm > 0 PROVE Renewed'
      OBVIOUS
    <3>1. CASE landed
      BY <1>2, <2>5, <3>1, WriteLands DEF OkIsRenewed
    <3>2. CASE ~landed
      BY <1>2, <1>3, <2>5, <3>2, WriteLands
    <3> QED BY <3>1, <3>2
  <2>7. fresh > 0 /\ calm > 0 => seen' /\ watch' # "publishing"
    BY <2>1, <2>3, <2>4
  <2>8. fresh' > 0 => silence' < 2 * Gap
    BY <2>1 DEF OkIsRenewed
  <2>9. fresh' = Settled /\ calm' = Settled => key'.status = "ok" /\ key'.age <= 1
    BY <2>1, <2>6 DEF Settled
  <2> QED BY <2>1, <2>6, <2>7, <2>8, <2>9 DEF OkIsRenewed
<1>7. CASE WatchdogWritten
  BY <1>3, <1>7 DEF WatchdogWritten, OkIsRenewed, past, Settled
<1>8. CASE Disconnect \/ Reconnect \/ Poll \/ VendorTurns
  <2>1. UNCHANGED <<silence, seen, watch, landed, key, fresh, calm>>
    BY <1>8 DEF Disconnect, Reconnect, Poll, VendorTurns, consumer, past
  <2> QED BY <2>1 DEF OkIsRenewed
<1>9. CASE StreamCannotBeBuilt \/ Restart \/ RedisLosesKeys \/ \E m \in {"up", "readonly", "down"} : RedisTurns(m)
  <2>1. calm' = 0 /\ fresh' = fresh /\ (silence' = silence \/ silence' = 0)
    BY <1>9 DEF StreamCannotBeBuilt, Restart, RedisLosesKeys, RedisTurns, consumer
  <2> QED BY <1>1, <2>1 DEF OkIsRenewed, Settled
<1>10. CASE Tick
  <2>1. fresh' > 0 => silence + 1 < 2 * Gap /\ seen
    BY <1>10 DEF Tick
  <2>2. fresh' > 0 => silence' = silence + 1
    <3>1. silence + 1 \in Nat /\ Window + 2 \in Nat
      BY <1>1, <1>3
    <3> QED BY <1>1, <1>10, <2>1, <3>1, BoundedCount DEF Tick
  <2>3. calm' > 0 => link # "off"
    BY <1>10 DEF Tick
  <2>4. seen' = seen /\ landed' = FALSE /\ (calm' > 0 => watch' = "due" /\ watch = "done")
    BY <1>10, <2>3 DEF Tick
  <2>5. (fresh' = 2 => fresh > 0) /\ (calm' = 2 => calm > 0)
    <3>1. /\ Bounded(fresh + 1, Settled) = IF fresh + 1 <= 2 THEN fresh + 1 ELSE 2
          /\ Bounded(calm + 1, Settled) = IF calm + 1 <= 2 THEN calm + 1 ELSE 2
      <4>1. fresh + 1 \in Nat /\ calm + 1 \in Nat /\ Settled \in Nat /\ Settled = 2
        BY <1>3 DEF Settled
      <4> QED BY <4>1, BoundedCount
    <3> QED BY <1>3, <1>10, <3>1 DEF Tick
  <2>6. fresh' = 2 /\ calm' = 2 => key'.status = "ok" /\ key'.age <= 1
    <3> SUFFICES ASSUME fresh' = 2, calm' = 2 PROVE key'.status = "ok" /\ key'.age <= 1
      OBVIOUS
    <3>1. Renewed
      BY <2>4, <2>5 DEF OkIsRenewed
    <3>2. key \in [status : {"ok", "stale"}, age : 0 .. TTL - 1] /\ key # Absent
      BY <3>1, KeyHasAge DEF Values, Absent
    <3>3. key' = [key EXCEPT !.age = key.age + 1]
      BY <1>1, <1>10, <3>1, <3>2 DEF Tick
    <3> QED BY <3>1, <3>2, <3>3
  <2> QED BY <2>1, <2>2, <2>4, <2>6 DEF OkIsRenewed, Settled
<1> QED BY <1>4, <1>5, <1>6, <1>7, <1>8, <1>9, <1>10 DEF Next, Work, Faults

(* The initial state: nothing heard, nothing advertised, the gate closed.   *)
LEMMA InitParts == FeedAssumption /\ Init => Parts /\ OkIsRenewed
<1> SUFFICES ASSUME FeedAssumption, Init PROVE Parts /\ OkIsRenewed
  OBVIOUS
<1>1. /\ Window \in Nat /\ Window >= 1 /\ TTL = 2 * Window /\ LongAgo = 2 * Window + 2
      /\ Gap \in Nat /\ Gap >= 1 /\ Base \in Nat /\ Base >= 1 /\ Cap \in Nat /\ Base <= Cap
  BY WindowFacts
<1>2. Flags
  BY DEF Init, Flags
<1>3. Values
  BY <1>1 DEF Init, Values, KeyValue, Settled
<1>4. ClocksAgree /\ OkIsBacked /\ SilenceIsTold /\ ClosesInAWindow
  BY <1>1 DEF Init, ClocksAgree, OkIsBacked, SilenceIsTold, ClosesInAWindow, Absent, Settled
<1>5. OkIsRenewed
  BY <1>1 DEF Init, OkIsRenewed, Settled
<1> QED BY <1>2, <1>3, <1>4, <1>5 DEF Parts

LEMMA NextParts == FeedAssumption /\ Parts /\ [Next]_vars => Parts'
<1> SUFFICES ASSUME FeedAssumption, Parts, [Next]_vars PROVE Parts'
  OBVIOUS
<1>1. CASE Next
  BY <1>1, MessageStep, MarkWrittenStep, WatchdogStep, WatchdogWrittenStep, SupervisorStep,
     RestartStep, PollStep, TickStep, WorldStep DEF Next, Work, Faults
<1>2. CASE UNCHANGED vars
  BY <1>2 DEF vars, consumer, vendor, past, Parts, Flags, Values, ClocksAgree, OkIsBacked,
              SilenceIsTold, ClosesInAWindow
<1> QED BY <1>1, <1>2

(* The inductive invariant holds in every reachable state.                  *)
THEOREM Invariance == Spec => []IInv
<1>1. Init => IInv
  BY FeedAssumption, InitParts, InvParts
<1>2. IInv /\ [Next]_vars => IInv'
  BY FeedAssumption, NextParts, InvParts
<1> QED BY <1>1, <1>2, PTL DEF Spec

(* However the feed, Redis or the process fails, entries stay open at most  *)
(* two windows beyond the last message.                                     *)
THEOREM GateFailsClosed == Spec => []FailsClosed
<1>1. IInv => FailsClosed
  <2> SUFFICES ASSUME IInv, ~stale PROVE heard <= TTL
    BY DEF FailsClosed, IInv
  <2>1. TTL \in Nat /\ heard \in Nat
    BY FeedAssumption, WindowFacts DEF IInv, TypeOK
  <2> QED BY <2>1 DEF IInv, OkIsBacked
<1> QED BY <1>1, Invariance, PTL

(* And while nothing fails, no poll leaves them open after one window.      *)
THEOREM GateCloses == Spec => []ClosesInAWindow
<1>1. IInv => ClosesInAWindow
  BY DEF IInv
<1> QED BY <1>1, Invariance, PTL

(* Nobody vouches for a feed this process has not heard within the window.  *)
THEOREM OkIsEarned == Spec => HealthIsEarned
<1> DEFINE Earned == key' # Absent /\ key' # key /\ key'.status = "ok" /\ key'.age = 0
                       => seen' /\ heard' < Window
<1>1. IInv /\ [Next]_vars => [Earned]_vars
  <2> SUFFICES ASSUME IInv, Next, key' # Absent, key' # key, key'.status = "ok", key'.age = 0
               PROVE  seen' /\ heard' < Window
    OBVIOUS
  <2>1. Parts
    BY InvParts
  <2>2. Window \in Nat /\ Window >= 1 /\ TTL = 2 * Window
    BY FeedAssumption, WindowFacts
  <2>3. CASE Message
    BY <2>2, <2>3 DEF Message
  <2>4. CASE MarkWritten
    <3>1. seen /\ heard = 0 /\ seen' = seen /\ heard' = heard
      BY <2>1, <2>4 DEF Parts, ClocksAgree, MarkWritten, past
    <3> QED BY <2>2, <3>1
  <2>5. CASE Watchdog
    <3>1. CASE silence >= Window
      BY <2>5, <3>1 DEF Watchdog, stale_told_again, write_feed_health
    <3>2. CASE ~(silence >= Window)
      <4>1. seen /\ seen' = seen /\ heard' = heard
        BY <2>5, <3>2 DEF Watchdog, vouches, past
      <4>2. heard < Window
        BY <2>1, <2>2, <3>2, <4>1 DEF Parts, Values, ClocksAgree
      <4> QED BY <4>1, <4>2
    <3> QED BY <3>1, <3>2
  <2>6. CASE WatchdogWritten
    BY <2>6 DEF WatchdogWritten, write_feed_health
  <2>7. CASE Tick
    <3>1. key # Absent /\ key' = [key EXCEPT !.age = key.age + 1]
      BY <2>7 DEF Tick
    <3>2. key \in [status : {"ok", "stale"}, age : 0 .. TTL - 1] /\ key.age \in 0 .. TTL - 1
      BY <2>1, <3>1, KeyHasAge DEF Parts, Values
    <3> QED BY <2>2, <3>1, <3>2
  <2>8. CASE RedisLosesKeys
    BY <2>8 DEF RedisLosesKeys
  <2> QED BY <2>3, <2>4, <2>5, <2>6, <2>7, <2>8
          DEF Next, Work, Faults, Disconnect, Reconnect, StreamCannotBeBuilt, Restart, Poll,
              RedisTurns, VendorTurns
<1> QED BY <1>1, Invariance, PTL DEF Spec, HealthIsEarned

(* When the window spans two gaps, as the staleness floor makes it for a    *)
(* feed of bars only, one missed message never closes the gate.             *)
THEOREM OneMissIsNoOutage ==
  ASSUME ~Continuous \/ Requested >= 2 * Gap
  PROVE  Spec => NeverFlaps
<1> DEFINE Both == IInv /\ OkIsRenewed
           Steady == ~stale /\ stale' => calm' < Settled \/ fresh < Settled
<1>1. 2 * Gap <= Window
  BY FeedAssumption, WindowFacts
<1>2. Init => Both
  BY FeedAssumption, InitParts, InvParts
<1>3. Both /\ [Next]_vars => Both'
  <2> SUFFICES ASSUME Both, [Next]_vars PROVE Both'
    OBVIOUS
  <2>1. Parts /\ Parts'
    BY FeedAssumption, InvParts, NextParts
  <2>2. IInv'
    BY <2>1, InvParts
  <2>3. CASE Next
    BY <1>1, <2>1, <2>2, <2>3, FeedAssumption, RenewStep
  <2>4. CASE UNCHANGED vars
    BY <2>2, <2>4 DEF vars, consumer, past, OkIsRenewed
  <2> QED BY <2>3, <2>4
<1>4. Both /\ [Next]_vars => [Steady]_vars
  <2> SUFFICES ASSUME Both, Next, ~stale, stale' PROVE calm' < Settled \/ fresh < Settled
    OBVIOUS
  <2>1. /\ calm \in 0 .. 2 /\ fresh \in 0 .. 2 /\ Settled = 2
        /\ Window \in Nat /\ Window >= 1
    BY FeedAssumption, WindowFacts, InvParts DEF Parts, Values, Settled
  <2>2. CASE Poll
    <3> SUFFICES ASSUME calm = 2, fresh = 2 PROVE FALSE
      BY <2>1, <2>2 DEF Poll, past
    <3>1. redis = "up" /\ key.status = "ok" /\ key.age <= 1
      BY <2>1 DEF OkIsRenewed, IInv, SilenceIsTold
    <3>2. key \in KeyValue
      BY InvParts DEF Parts, Values
    <3>3. key.age \in Nat
      BY <3>1, <3>2, <2>1, FeedAssumption, WindowFacts, KeyHasAge
    <3>4. ~read_level
      BY <2>1, <3>1, <3>3 DEF read_level
    <3> QED BY <2>2, <3>1, <3>4 DEF Poll
  <2>3. CASE Restart
    BY <2>1, <2>3 DEF Restart
  <2>4. stale' = stale => FALSE
    OBVIOUS
  <2> QED BY <2>2, <2>3, <2>4
          DEF Next, Work, Faults, Message, MarkWritten, Watchdog, WatchdogWritten, Reconnect, Tick,
              Disconnect, StreamCannotBeBuilt, RedisTurns, RedisLosesKeys, VendorTurns
<1> QED BY <1>2, <1>3, <1>4, PTL DEF Spec, NeverFlaps
=============================================================================
