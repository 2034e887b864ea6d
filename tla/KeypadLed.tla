----------------------------- MODULE KeypadLed -----------------------------
(***************************************************************************)
(* The keypad light of KeypadDeviceImplLib: a poll that finds a key down   *)
(* switches it on and starts a timer that switches it off again.           *)
(*                                                                         *)
(* Timers are the DXE core's: an armed timer is looked at by the timer     *)
(* tick; when it expires its notification is queued at TPL_CALLBACK, and   *)
(* TimerCancel stops an armed timer but leaves a queued notification.      *)
(* Polls run at TPL_NOTIFY, so a poll may come between the expiry and the  *)
(* notification.                                                           *)
(***************************************************************************)
EXTENDS Naturals

CONSTANTS Hold,       \* ticks in the five seconds the light stays on
          MaxTimers   \* bound: timers that expire together, notifications waiting

ASSUME HoldAssumption == Hold \in Nat \ {0}
ASSUME MaxTimersAssumption == MaxTimers \in Nat \ {0}

VARIABLES led,           \* HTCLEO_GPIO_KP_LED
          timerRunning,  \* the flag of that name
          armed,         \* how many armed timers have that many ticks left
          current,       \* ticks left of m_CallbackTimer, 0 when it is not armed
          queued,        \* notifications of DisableKeyPadLed not yet dispatched
          booted,        \* ExitBootServices was signalled
          since          \* history: ticks since a key was last seen down

ledVars == <<led, timerRunning, armed, current, queued, booted, since>>

LedInit ==
  /\ led = FALSE /\ timerRunning = FALSE
  /\ armed = [t \in 1 .. Hold |-> 0] /\ current = 0
  /\ queued = 0 /\ booted = FALSE
  /\ since = Hold + 1

\* gBS->SetTimer(m_CallbackTimer, TimerCancel, 0)
AfterCancel ==
  IF timerRunning /\ current > 0 THEN [armed EXCEPT ![current] = @ - 1] ELSE armed

LedTime == Hold

\* Mutant: the new timer is not armed while one was running.
EnableWithoutTimer ==
  /\ ~booted
  /\ led' = TRUE /\ timerRunning' = TRUE
  /\ armed' = IF timerRunning THEN AfterCancel
              ELSE [AfterCancel EXCEPT ![LedTime] = @ + 1]
  /\ current' = IF timerRunning THEN 0 ELSE LedTime
  /\ \A t \in 1 .. Hold : armed'[t] <= MaxTimers
  /\ since' = 0
  /\ UNCHANGED <<queued, booted>>

\* EnableKeypadLedWithTimer, from a poll that finds a key down that is not a
\* volume key.  The event of the last call is given up, not closed.
EnableKeypadLedWithTimer ==
  /\ ~booted
  /\ led' = TRUE /\ timerRunning' = TRUE
  /\ armed' = [AfterCancel EXCEPT ![LedTime] = @ + 1]
  /\ current' = LedTime
  /\ \A t \in 1 .. Hold : armed'[t] <= MaxTimers
  /\ since' = 0
  /\ UNCHANGED <<queued, booted>>

\* Mutant: the light is left on.
DisableLeavesLight ==
  /\ queued > 0
  /\ queued' = queued - 1
  /\ timerRunning' = FALSE
  /\ UNCHANGED <<led, armed, current, booted, since>>

DisableKeyPadLed ==
  /\ queued > 0
  /\ queued' = queued - 1
  /\ led' = FALSE /\ timerRunning' = FALSE
  /\ UNCHANGED <<armed, current, booted, since>>

\* One tick of the DXE core's timer.  Ticks stop at ExitBootServices.
CoreTimerTick ==
  /\ ~booted
  /\ queued + armed[1] <= MaxTimers
  /\ queued' = queued + armed[1]
  /\ armed' = [t \in 1 .. Hold |-> IF t = Hold THEN 0 ELSE armed[t + 1]]
  /\ current' = IF current = 0 THEN 0 ELSE current - 1
  /\ since' = IF since > Hold THEN since ELSE since + 1
  /\ UNCHANGED <<led, timerRunning, booted>>

\* ExitBootServicesEvent; the system gets there from TPL_APPLICATION.
ExitBootServices ==
  /\ ~booted /\ queued = 0
  /\ booted' = TRUE /\ led' = FALSE
  /\ UNCHANGED <<timerRunning, armed, current, queued, since>>

LedNext ==
  \/ EnableKeypadLedWithTimer \/ DisableKeyPadLed
  \/ CoreTimerTick \/ ExitBootServices

LedSpec == LedInit /\ [][LedNext]_ledVars

\* Ticks keep coming, and a queued notification runs before long.
LedFairSpec == LedSpec /\ WF_ledVars(CoreTimerTick) /\ WF_ledVars(DisableKeyPadLed)
-----------------------------------------------------------------------------
LedTypeOK ==
  /\ led \in BOOLEAN /\ timerRunning \in BOOLEAN /\ booted \in BOOLEAN
  /\ armed \in [1 .. Hold -> 0 .. MaxTimers] /\ current \in 0 .. Hold
  /\ queued \in 0 .. MaxTimers
  /\ since \in 0 .. Hold + 1

\* Five seconds after the last key was seen down the light is out, unless the
\* notification that puts it out is just about to run.
DarkWhenIdle == led /\ since >= Hold => queued > 0

\* Whatever timers were abandoned, a lit light is always on the way out: the
\* timer of the last press is armed, or a notification is queued.
LightHasTimer == led => queued > 0 \/ (current > 0 /\ timerRunning)

\* When no key is pressed any more the light goes out for good.
LightGoesOut == <>[](since > 0) => <>[]~led

\* "Cancel the running timer" (KeypadDeviceImplLib.c:230): a press restarts the
\* time, so only the timer of the last press puts the light out.
LitForHold == [][led /\ ~led' /\ ~booted' => since >= Hold]_ledVars
=============================================================================
