----------------------------- MODULE MarketFeed ----------------------------
(***************************************************************************)
(* The market-data feed and the gate it holds over entries: the supervised  *)
(* websocket consumer with its backoff, the staleness watchdog, the health  *)
(* key in Redis with its TTL, and the engine's poller, which reads the key  *)
(* and fails closed.                                                        *)
(*                                                                         *)
(* Time advances in watchdog polls: in one unit the watchdog and the poller *)
(* each run once, in either order, and any number of messages arrive.  The  *)
(* one-second throttle of the key is shorter than a unit: a second unforced *)
(* write in a unit may land or be skipped.                                  *)
(*                                                                         *)
(* The vendor may fall silent, the stream may drop, Redis may refuse writes *)
(* or everything, or lose its keys, the consumer's task may die of a stream *)
(* that cannot be built, and the engine may restart at any moment.          *)
(***************************************************************************)
EXTENDS Integers, FiniteSetsExt

CONSTANTS
  Gap,         \* the longest time between two messages of a live feed
  Requested,   \* staleness_seconds, as configured
  MinWindow,   \* the absolute floor, _MIN_STALENESS_SECONDS
  Continuous,  \* are quotes or trades subscribed?
  Base, Cap    \* of the reconnect backoff

ASSUME FeedAssumption ==
  /\ {Gap, MinWindow, Base, Cap} \subseteq Nat \ {0} /\ Requested \in Int
  /\ Continuous \in BOOLEAN /\ Base <= Cap

VARIABLES
  link,     \* the consumer's stream: "up", "sleep" (backing off), "off" (task dead)
  wait,     \* what is left of the backoff sleep
  backoff,  \* _backoff
  silence,  \* now - _last_msg_at
  seen,     \* _seen_data
  flagged,  \* _feed_stale
  marking,  \* _mark_alive has cleared the flag and has still to write the key
  watch,    \* the watchdog in this unit: "due", "publishing", "done"
  landed,   \* has a write of the key landed in this unit?
  key,      \* engine:feed_health
  redis,    \* "up", "readonly", "down"
  stale,    \* FeedHealth._stale
  polled,   \* has the poller run in this unit?
  flowing,  \* is the vendor sending?
  pause,    \* since the last message, or the connection
  (* history, for the properties only *)
  heard,    \* since the last message of any process
  calm,     \* since Redis or a process last failed
  fresh     \* since two gaps last passed without a message

consumer == <<link, wait, backoff, silence, seen, flagged, marking, watch>>
vendor == <<flowing, pause>>
past == <<heard, calm, fresh>>
vars == <<consumer, landed, key, redis, stale, polled, vendor, past>>

Absent == [status |-> "absent"]

-----------------------------------------------------------------------------
(* Mutant: the configured number, whatever is subscribed.                   *)
requested_window == Requested

(* A window the subscribed channels can satisfy: one missed bar is no       *)
(* outage; continuous channels may ask for less than two bars, but not for  *)
(* nothing.                                                                 *)
staleness_floor == Max({Requested, IF Continuous THEN MinWindow ELSE 2 * Gap})

Window == staleness_floor
TTL == 2 * Window

Bounded(n, bound) == Min({n, bound})

(* The caps of the counters lie beyond every comparison made with them.     *)
Settled == 2
LongAgo == TTL + 2

Init ==
  /\ link = "up" /\ wait = 0 /\ backoff = Base
  /\ silence = 0 /\ seen = FALSE /\ flagged = FALSE /\ marking = FALSE
  /\ watch = "done" /\ landed = FALSE /\ key = Absent
  /\ redis = "up" /\ stale = TRUE /\ polled = FALSE
  /\ flowing = TRUE /\ pause = 0
  /\ heard = LongAgo /\ calm = 0 /\ fresh = 0

-----------------------------------------------------------------------------
(* _write_feed_health: a failure is swallowed and does not advance the      *)
(* throttle.                                                                *)

write_feed_health(status, forced) ==
  \/ redis = "up" /\ key' = [status |-> status, age |-> 0] /\ landed' = TRUE
  \/ (redis # "up" \/ (landed /\ ~forced)) /\ UNCHANGED <<key, landed>>

(* A message: _mark_alive clears the flag, tells the channel and forces the *)
(* key; the telemetry is awaited in between.                                *)
Message ==
  /\ link = "up" /\ flowing /\ ~marking
  /\ silence' = 0 /\ seen' = TRUE /\ backoff' = Base /\ flagged' = FALSE
  /\ marking' = flagged
  /\ IF flagged THEN UNCHANGED <<key, landed>> ELSE write_feed_health("ok", FALSE)
  /\ pause' = 0 /\ heard' = 0
  /\ UNCHANGED <<link, wait, watch, redis, stale, polled, flowing, calm, fresh>>

MarkWritten ==
  /\ marking
  /\ marking' = FALSE
  /\ write_feed_health("ok", TRUE)
  /\ UNCHANGED <<link, wait, backoff, silence, seen, flagged, watch, redis, stale, polled, vendor, past>>

(* Mutant: the watchdog vouches for a feed it has never heard.              *)
vouches_from_boot == TRUE

vouches == seen

(* Mutant: the key follows transitions only.                                *)
stale_told_once == UNCHANGED <<key, landed>>

stale_told_again == write_feed_health("stale", FALSE)

(* _watchdog_loop, once a poll: the transition to stale is published first; *)
(* the key is refreshed on every poll, stale or not, once data was seen.    *)
Watchdog ==
  /\ link # "off" /\ watch = "due"
  /\ IF silence >= Window
     THEN /\ flagged' = TRUE
          /\ IF flagged THEN watch' = "done" /\ stale_told_again
                        ELSE watch' = "publishing" /\ UNCHANGED <<key, landed>>
     ELSE /\ watch' = "done"
          /\ IF vouches THEN write_feed_health("ok", FALSE) ELSE UNCHANGED <<key, landed>>
          /\ UNCHANGED flagged
  /\ UNCHANGED <<link, wait, backoff, silence, seen, marking, redis, stale, polled, vendor, past>>

WatchdogWritten ==
  /\ watch = "publishing"
  /\ watch' = "done"
  /\ write_feed_health("stale", TRUE)
  /\ UNCHANGED <<link, wait, backoff, silence, seen, flagged, marking, redis, stale, polled, vendor, past>>

-----------------------------------------------------------------------------
(* The supervisor: an exception or an unexpected return of the stream is a  *)
(* disconnect; it sleeps the backoff, doubles it and builds a new stream.   *)

backoff_doubled == Min({2 * backoff, Cap})

Disconnect ==
  /\ link = "up" /\ ~marking
  /\ link' = "sleep" /\ wait' = backoff
  /\ UNCHANGED <<backoff, silence, seen, flagged, marking, watch, landed, key, redis, stale, polled,
                 vendor, past>>

Reconnect ==
  /\ link = "sleep" /\ wait = 0
  /\ link' = "up" /\ backoff' = backoff_doubled
  /\ pause' = 0
  /\ UNCHANGED <<wait, silence, seen, flagged, marking, watch, landed, key, redis, stale, polled,
                 flowing, past>>

(* _make_stream is called outside the try: its exception ends the task, and *)
(* the watchdog is cancelled with it.                                       *)
StreamCannotBeBuilt ==
  /\ link = "sleep" /\ wait = 0
  /\ link' = "off" /\ watch' = "done" /\ calm' = 0
  /\ UNCHANGED <<wait, backoff, silence, seen, flagged, marking, landed, key, redis, stale, polled,
                 vendor, heard, fresh>>

(* A new process: nothing is advertised, the gate starts closed, the key of *)
(* the process before is still there.                                       *)
Restart ==
  /\ link' = "up" /\ wait' = 0 /\ backoff' = Base
  /\ silence' = 0 /\ seen' = FALSE /\ flagged' = FALSE /\ marking' = FALSE
  /\ watch' = "done" /\ landed' = FALSE
  /\ stale' = TRUE /\ polled' = FALSE
  /\ pause' = 0 /\ calm' = 0
  /\ UNCHANGED <<key, redis, flowing, heard, fresh>>

-----------------------------------------------------------------------------
(* FeedHealth: absent, not "ok", or too old by the writer's own window is   *)
(* stale, and so is a Redis that does not answer.                           *)

(* Mutant: presence is health.                                              *)
read_presence == key.status # "ok"

(* Mutant: an "ok" lasts as long as a poll.                                 *)
read_impatient == key.status # "ok" \/ key.age >= 1

read_level == key.status # "ok" \/ key.age > Window

Poll ==
  /\ ~polled
  /\ polled' = TRUE
  /\ stale' = (redis = "down" \/ read_level)
  /\ UNCHANGED <<consumer, landed, key, redis, vendor, past>>

(* One unit of time.  A live feed sends within its gap.                     *)
Tick ==
  /\ polled /\ ~marking /\ (link = "off" \/ watch = "done")
  /\ ~(link = "sleep" /\ wait = 0)
  /\ link = "up" /\ flowing => pause < Gap
  /\ silence' = Bounded(silence + 1, Window + 2)
  /\ wait' = Max({wait - 1, 0})
  /\ watch' = IF link = "off" THEN "done" ELSE "due"
  /\ landed' = FALSE /\ polled' = FALSE
  /\ key' = IF key = Absent \/ key.age + 1 >= TTL THEN Absent ELSE [key EXCEPT !.age = @ + 1]
  /\ pause' = Bounded(pause + 1, Gap)
  /\ heard' = Bounded(heard + 1, LongAgo)
  /\ calm' = IF redis = "up" /\ link # "off" THEN Bounded(calm + 1, Settled) ELSE 0
  /\ fresh' = IF silence + 1 < 2 * Gap /\ seen THEN Bounded(fresh + 1, Settled) ELSE 0
  /\ UNCHANGED <<link, backoff, seen, flagged, marking, redis, stale, flowing>>

(* Redis and the vendor.                                                    *)
RedisTurns(mode) ==
  /\ mode # redis /\ redis' = mode /\ calm' = 0
  /\ UNCHANGED <<consumer, landed, key, stale, polled, vendor, heard, fresh>>

RedisLosesKeys ==
  /\ key # Absent /\ key' = Absent /\ calm' = 0
  /\ UNCHANGED <<consumer, landed, redis, stale, polled, vendor, heard, fresh>>

VendorTurns ==
  /\ flowing' = ~flowing /\ pause' = 0
  /\ UNCHANGED <<consumer, landed, key, redis, stale, polled, past>>

-----------------------------------------------------------------------------
Work == Message \/ MarkWritten \/ Watchdog \/ WatchdogWritten \/ Reconnect \/ Poll \/ Tick

Faults ==
  \/ Disconnect \/ StreamCannotBeBuilt \/ Restart
  \/ \E m \in {"up", "readonly", "down"} : RedisTurns(m)
  \/ RedisLosesKeys \/ VendorTurns

Next == Work \/ Faults

Spec == Init /\ [][Next]_vars

(* The event loop runs what is due, the clock does not stop, a live feed    *)
(* sends.                                                                   *)
FairSpec ==
  Spec /\ WF_vars(Message) /\ WF_vars(MarkWritten) /\ WF_vars(Watchdog) /\ WF_vars(WatchdogWritten)
       /\ WF_vars(Reconnect) /\ WF_vars(Poll) /\ WF_vars(Tick)

-----------------------------------------------------------------------------
(* PROPERTIES                                                               *)

(* The whole state has its type; the flag is only up after a whole window   *)
(* of silence and the backoff never passes its cap.                         *)
TypeOK ==
  /\ link \in {"up", "sleep", "off"} /\ wait \in 0 .. Cap /\ backoff \in Base .. Cap
  /\ silence \in 0 .. Window + 2 /\ seen \in BOOLEAN /\ flagged \in BOOLEAN /\ marking \in BOOLEAN
  /\ watch \in {"due", "publishing", "done"} /\ landed \in BOOLEAN
  /\ key \in {Absent} \cup [status : {"ok", "stale"}, age : 0 .. TTL - 1]
  /\ redis \in {"up", "readonly", "down"} /\ stale \in BOOLEAN /\ polled \in BOOLEAN
  /\ flowing \in BOOLEAN /\ pause \in 0 .. Gap
  /\ heard \in 0 .. LongAgo /\ calm \in 0 .. Settled /\ fresh \in 0 .. Settled
  /\ flagged => silence >= Window

(* Whatever dies - the vendor, the stream, the watchdog, Redis or the       *)
(* engine - entries stay open at most two windows beyond the last message,  *)
(* the wait for the next poll included: an "ok" was stamped within a window *)
(* of data and is believed for one more.  (And the whole state has its      *)
(* type.)                                                                   *)
FailsClosed == TypeOK /\ (~stale => heard <= TTL)

(* While Redis takes writes and the consumer runs, no poll leaves the gate  *)
(* open beyond one window of silence.                                       *)
ClosesInAWindow == ~stale /\ polled /\ calm = Settled => silence <= Window

(* A feed that misses one message never closes the gate: no transition to   *)
(* stale without a fault, or two gaps of silence, just before.              *)
NeverFlaps == [][~stale /\ stale' => calm' < Settled \/ fresh < Settled]_vars

(* Health is earned: nobody writes "ok" before this process has had a       *)
(* message of its own, or more than a window after it.                      *)
HealthIsEarned == [][key' # Absent /\ key' # key /\ key'.status = "ok" /\ key'.age = 0
                       => seen' /\ heard' < Window]_vars

(* Once faults are over and the feed is live, the gate opens for good; a    *)
(* dead task needs a restart, a lost "stale" or "ok" write heals by itself. *)
Reopens ==
  <>[](redis = "up" /\ flowing /\ link # "off") /\ <>[][~(Disconnect \/ Restart \/ RedisLosesKeys)]_vars
    => <>[]~stale

-----------------------------------------------------------------------------
(* The inductive invariant.                                                 *)

(* A process that has heard something measures its silence from the last    *)
(* message there was, and a message on its way to the key is of this unit.  *)
ClocksAgree ==
  /\ seen /\ silence < Window + 2 => heard = silence
  /\ marking => seen /\ silence = 0 /\ heard = 0

(* An "ok" was stamped within a window of the last message, and the gate is *)
(* open on one it has read at most a window after that.                     *)
OkIsBacked ==
  /\ key.status = "ok" => heard < Window + key.age
  /\ ~stale => heard < (IF polled THEN TTL ELSE TTL + 1)

(* While nothing fails, the watchdog's poll after a window of silence has   *)
(* replaced the "ok", and no later unit sees it again.                      *)
SilenceIsTold ==
  /\ calm > 0 => redis = "up" /\ link # "off"
  /\ landed /\ watch = "due" => silence = 0
  /\ calm > 0 /\ watch = "done" /\ silence >= Window => key.status # "ok"
  /\ calm = Settled /\ silence > Window => key.status # "ok"

IInv == TypeOK /\ ClocksAgree /\ OkIsBacked /\ SilenceIsTold /\ ClosesInAWindow

(* While nothing fails and messages come, an "ok" is written in every unit, *)
(* so the next one finds it at most a unit old.                             *)
OkIsRenewed ==
  /\ fresh > 0 => silence < 2 * Gap
  /\ fresh > 0 /\ calm > 0 =>
       /\ seen /\ watch # "publishing"
       /\ landed \/ watch = "done" => key.status = "ok" /\ key.age = 0
  /\ fresh = Settled /\ calm = Settled => key.status = "ok" /\ key.age <= 1
=============================================================================
