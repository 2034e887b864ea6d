--------------------------- MODULE MCKeypadDevice ---------------------------
(* Small instances of the key queue, of the keys and of the keypad's light: *)
(* a behaviour is of one, its part.  Two keystrokes in a ring of four slots; *)
(* keys and poll distances, in ms; the light's five seconds are Hold ticks, *)
(* and a press may come in any of them.                                     *)
EXTENDS EfiKeyQueue, KeypadDevice, KeypadLed

VARIABLE part
everything == <<part, queueVars, vars, ledVars>>

\* From two to nine polls to a long press: late polls are the ones TPL_NOTIFY
\* or above held off.
UnevenPolls == {60, 190, 300}

\* A poll right after another one, as ReadKeyStroke makes them, or a late one:
\* a key may now be let go within ReleaseTime of its last repeat.
BurstPolls == {8, 250}

Presses(keys, polls) == [presses |-> keys, deltas |-> polls]

\* Combinations of Dial with the volume keys, two soft keys and a scan-code
\* key, and quick polls.
ManyUsers ==
  {Presses({"VolUp", "VolDown", "Dial"}, UnevenPolls),
   Presses({"Home", "Windows", "Dial"}, UnevenPolls),
   Presses({"Home", "Windows"}, BurstPolls)}

KeypadInit ==
  /\ part \in {"queue", "keys", "light"} /\ QueueInit /\ Init /\ LedInit
  /\ part # "queue" => Buffer = [i \in Slots |-> CHOOSE k \in Keys : TRUE]
  /\ part # "keys" => user.deltas = BurstPolls

KeypadNext ==
  \/ part = "queue" /\ QueueNext /\ UNCHANGED <<part, vars, ledVars>>
  \/ part = "keys" /\ Next /\ UNCHANGED <<part, queueVars, ledVars>>
  \/ part = "light" /\ LedNext /\ UNCHANGED <<part, queueVars, vars>>

\* Polls and ticks keep coming, and a queued notification runs before long.
KeypadFairSpec ==
  /\ KeypadInit /\ [][KeypadNext]_everything
  /\ WF_vars(part = "keys" /\ Poll /\ UNCHANGED <<queueVars, ledVars>>)
  /\ WF_ledVars(part = "light" /\ CoreTimerTick /\ UNCHANGED <<queueVars, vars>>)
  /\ WF_ledVars(part = "light" /\ DisableKeyPadLed /\ UNCHANGED <<queueVars, vars>>)
=============================================================================
