-------------------------- MODULE ScheduledTrigger --------------------------
(***************************************************************************)
(* http_api::run_scheduled_trigger: a task that looks at the clock every   *)
(* 30 s and runs the daily summary in the trigger minutes, with a latch    *)
(* that remembers the hour and minute it fired in last.  It reads the clock *)
(* twice: for the latch, then for the triggers.  It awaits the run in its  *)
(* loop, and it is restarted with its process.                             *)
(***************************************************************************)
EXTENDS Integers

CONSTANTS
  Triggers,   (* minutes of the day: 00:00, 08:30, 12:30, 16:30             *)
  DAY,        (* minutes in a day                                           *)
  MINUTE,     (* units of time in a minute                                  *)
  POLL,       (* the interval of the ticker                                 *)
  MaxLate,    (* how late the runtime may poll the task                     *)
  MaxGap,     (* how long it may be between the two readings of the clock   *)
  MaxRun,     (* how long a summary may take                                *)
  MaxStarts,  (* bound: starts of the process                               *)
  LastMinute  (* bound: the clock stops at its end                          *)

ASSUME TriggerAssumption ==
  /\ DAY \in Nat \ {0} /\ Triggers \subseteq 0..(DAY - 1)
  /\ {MINUTE, POLL} \subseteq Nat \ {0}
  /\ {MaxLate, MaxGap, MaxRun, MaxStarts, LastMinute} \subseteq Nat
  /\ POLL + MaxLate + MaxGap <= MINUTE /\ MaxGap <= POLL

\* A summary is over before the end of one other trigger minute of the day that
\* follows: of the code's triggers one is always more than 15 hours away.
ASSUME TriggersAreApart ==
  \A m \in 0..LastMinute : m % DAY \in Triggers =>
    \E other \in (m + 1)..(m + DAY - 1) :
      other % DAY \in Triggers /\ (other - m) * MINUTE >= MaxRun + 2 * MaxGap

VARIABLES
  minute,     (* since the first midnight                                   *)
  second,     (* units since the minute began                               *)
  loop,       (* down, idle in its select, looking, or in handle_scheduled  *)
  seen,       (* the minute of the first reading                            *)
  latch,      (* last_fired_minute                                          *)
  due,        (* units until the next tick of the interval; negative: late  *)
  remaining,  (* units the look or the run will still take                  *)
  starts,
  up_since,   (* history: the minute of its last start                      *)
  ended,      (* history: a run has ended in this minute                    *)
  fired       (* history: the summaries, by the minute of the first reading *)

trigger_vars == <<minute, second, loop, seen, latch, due, remaining, starts, up_since, ended, fired>>

-----------------------------------------------------------------------------
Minutes == 0..LastMinute
NoMinute == -1
TimeOfDay == minute % DAY
Key == seen % DAY

TriggerTypeOK ==
  /\ minute \in Minutes /\ second \in 0..(MINUTE - 1)
  /\ loop \in {"down", "idle", "looking", "busy"}
  /\ seen \in Minutes \cup {NoMinute} /\ (loop = "looking" <=> seen # NoMinute)
  /\ latch \in 0..(DAY - 1) \cup {NoMinute}
  /\ due \in Int /\ due <= POLL
  /\ remaining \in 0..(MaxGap + MaxRun)
  /\ starts \in 0..MaxStarts
  /\ up_since \in Minutes /\ ended \in BOOLEAN
  /\ fired \in [Minutes -> Nat]

TriggerInit ==
  /\ minute = 0 /\ second \in 0..(MINUTE - 1)
  /\ loop = "down" /\ seen = NoMinute /\ latch = NoMinute /\ due = 0 /\ remaining = 0
  /\ starts = 0 /\ up_since = 0 /\ ended = FALSE
  /\ fired = [m \in Minutes |-> 0]

-----------------------------------------------------------------------------
\* A timer that is due is served within MaxLate; a look and a run end in their time.
Pass ==
  /\ loop = "idle" => due > -MaxLate
  /\ loop \in {"looking", "busy"} => remaining > 0
  /\ IF second < MINUTE - 1 THEN second' = second + 1 /\ UNCHANGED <<minute, ended>>
     ELSE second' = 0 /\ minute < LastMinute /\ minute' = minute + 1 /\ ended' = FALSE
  /\ due' = IF loop = "down" THEN due ELSE due - 1
  /\ remaining' = IF loop \in {"looking", "busy"} THEN remaining - 1 ELSE remaining
  /\ UNCHANGED <<loop, seen, latch, starts, up_since, fired>>

\* Faulty variant: a latch that is not seeded.
StartUnseeded ==
  /\ loop = "down" /\ starts < MaxStarts
  /\ loop' = "idle" /\ starts' = starts + 1
  /\ latch' = NoMinute
  /\ due' = POLL /\ up_since' = minute
  /\ UNCHANGED <<minute, second, seen, remaining, ended, fired>>

\* The latch is seeded with the minute of the start; the first tick, which is due at
\* once, is thrown away.
Start ==
  /\ loop = "down" /\ starts < MaxStarts
  /\ loop' = "idle" /\ starts' = starts + 1
  /\ latch' = TimeOfDay
  /\ due' = POLL /\ up_since' = minute
  /\ UNCHANGED <<minute, second, seen, remaining, ended, fired>>

\* The process stops or crashes; the signal itself is seen between two ticks only.
Stop ==
  /\ loop # "down" /\ loop' = "down" /\ seen' = NoMinute
  /\ due' = 0 /\ remaining' = 0
  /\ UNCHANGED <<minute, second, latch, starts, up_since, ended, fired>>

\* Faulty variant: a look at the clock every minute.
NextTickAMinuteLater == due + 2 * POLL

\* tokio::time::interval: the ticks keep their schedule, those that were missed come
\* in a burst.
NextTick == due + POLL

\* The clock is read for the key of the latch.
Tick ==
  /\ loop = "idle" /\ due <= 0
  /\ due' = NextTick
  /\ loop' = "looking" /\ seen' = minute /\ remaining' \in 0..MaxGap
  /\ UNCHANGED <<minute, second, latch, starts, up_since, ended, fired>>

\* should_trigger_analysis_now reads it again, maybe in the next minute.
Fires == TimeOfDay \in Triggers /\ latch # Key

Decide ==
  /\ loop = "looking" /\ seen' = NoMinute
  /\ IF Fires
     THEN /\ latch' = Key
          /\ loop' = "busy" /\ remaining' \in 0..MaxRun
          /\ fired' = [fired EXCEPT ![seen] = @ + 1]
     ELSE loop' = "idle" /\ remaining' = 0 /\ UNCHANGED <<latch, fired>>
  /\ UNCHANGED <<minute, second, due, starts, up_since, ended>>

\* handle_scheduled is over, well or not.
RunEnds ==
  /\ loop = "busy" /\ remaining = 0
  /\ loop' = "idle" /\ ended' = TRUE
  /\ UNCHANGED <<minute, second, seen, latch, due, remaining, starts, up_since, fired>>

-----------------------------------------------------------------------------
TriggerNext == Pass \/ Start \/ Stop \/ Tick \/ Decide \/ RunEnds

TriggerSpec == TriggerInit /\ [][TriggerNext]_trigger_vars

-----------------------------------------------------------------------------
(* Properties                                                              *)

\* One summary per minute, although the task looks at the clock twice in it and more
\* often after a long run, and although the process may be restarted in that very
\* minute; and none away from the triggers.  A trigger minute may still see two: the
\* other belongs to a look that began in the minute before, whose two readings lie on
\* either side of the turn of the minute.
OncePerTrigger ==
  \A m \in Minutes :
    /\ fired[m] <= 1
    /\ fired[m] > 0 => m % DAY \in Triggers \/ (m + 1) % DAY \in Triggers

\* No trigger minute that found the task up ends without its summary on a task that is
\* idle, or that is looking and had no run in that minute: at any phase of the ticker,
\* wherever the readings of the clock fall, and also on the day after, when the latch
\* would still hold the same time of day if no other trigger had moved it in between.
NoTriggerIsMissed ==
  [][/\ minute' # minute /\ up_since < minute /\ TimeOfDay \in Triggers
     /\ loop = "idle" \/ (loop = "looking" /\ ~ended)
     => fired[minute] = 1]_trigger_vars
=============================================================================
