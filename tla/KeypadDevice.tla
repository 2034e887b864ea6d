---------------------------- MODULE KeypadDevice ----------------------------
(***************************************************************************)
(* The seven keys of the phone: KeypadDeviceImplLib polls them one by one  *)
(* (GetKeys) and KeypadDeviceHelperLib turns the polled levels into short  *)
(* presses, long presses, repeats and the Dial + volume combinations.      *)
(*                                                                         *)
(* A poll is a loop at TPL_NOTIFY; its iterations are the steps here, and  *)
(* the level of a key is read when its turn comes.  Times are milliseconds *)
(* and only their comparisons matter: a Time stops growing at the largest  *)
(* threshold, and stays 0 in the two states in which the code sets it to 0 *)
(* before it reads it again.                                               *)
(***************************************************************************)
EXTENDS Naturals, Sequences

CONSTANT Users  \* which keys are pressed, and the ms between two polls

VARIABLES user,       \* what happens in this behaviour: one of Users
          ctx,        \* KEY_CONTEXT of every key
          scanBits,   \* gBitmapScanCodes, as the set of its one bits
          charBits,   \* gBitmapUnicodeChars, as the set of its one bits
          ix,         \* Index + 1 of the key whose turn it is, 0 between polls
          delta,      \* Delta of this poll
          report,     \* the key handed to PushEfikeyBufTail by this step
          held,       \* history: the level read last for each key
          told,       \* history: this press of the key was reported
          gap,        \* history: ms since the key went down or last reported
          alone       \* history: no soft key was seen down during this press

device == <<ctx, scanBits, charBits, ix, delta>>
history == <<held, told, gap, alone>>
vars == <<user, device, report, history>>

\* KeyList, in the order GetKeys visits it, and the codes Reset gives the keys.
KeyList == <<"Power", "VolUp", "VolDown", "Back", "Windows", "Home", "Dial">>

Key == {"Power", "VolUp", "VolDown", "Back", "Windows", "Home", "Dial"}

ASSUME UsersAssumption ==
  \A u \in Users : /\ DOMAIN u = {"presses", "deltas"}
                    /\ u.presses \subseteq Key
                    /\ u.deltas \subseteq Nat \ {0} /\ u.deltas # {}

ScanCode == [k \in Key |-> CASE k = "Power" -> 23 [] k = "VolUp" -> 1
               [] k = "VolDown" -> 2 [] k = "Home" -> 5 [] OTHER -> 0]

UnicodeChar == [k \in Key |-> CASE k = "Back" -> 8 [] k = "Windows" -> 9
                  [] k = "Dial" -> 13 [] OTHER -> 0]

MaxScanCode == 24
MaxUnicodeChar == 127
CarriageReturn == 13
ScanUp == 1
ScanDown == 2

RepeatTime == 200
LongpressTime == 500
ReleaseTime == 10

None == "none"
ResetDone == "reset"
\* 's', 'e' and the space bar: what a long press of Dial reports.
Combos == {"PowerDown", "PowerUp", "PowerLongpress"}

Released == [State |-> "RELEASED", Time |-> 0,
             Repeat |-> FALSE, Longpress |-> FALSE]

ScanCounts(k) == ScanCode[k] # 0 /\ ScanCode[k] < MaxScanCode
CharCounts(k) == UnicodeChar[k] # 0 /\ UnicodeChar[k] < MaxUnicodeChar

\* KeySetState: both bitmaps are indexed with the scan code.
WithBit(bits, i, v) == IF v THEN bits \cup {i} ELSE bits \ {i}

KeySetState(k, v) ==
  /\ scanBits' = IF ScanCounts(k) THEN WithBit(scanBits, ScanCode[k], v)
                                  ELSE scanBits
  /\ charBits' = IF CharCounts(k) THEN WithBit(charBits, ScanCode[k], v)
                                  ELSE charBits

\* KeyGetState(SCAN_x, 0), and KeyGetState(0, CHAR_CARRIAGE_RETURN), as they
\* answer after this step's KeySetState.
ScanIsDown(scan) == scan \in scanBits'
CharIsDown == 0 \in charBits'

Elapsed(k) == LET t == ctx[k].Time + delta
              IN  IF t < LongpressTime THEN t ELSE LongpressTime

\* What the switch of LibKeyUpdateKeyStatus takes for a key that is down.
RepeatDue(k) == ctx[k].Repeat /\ Elapsed(k) >= RepeatTime

\* Mutant: a long press is taken again and again.
LongpressDueAgain(k) == ~RepeatDue(k) /\ Elapsed(k) >= LongpressTime

LongpressDue(k) ==
  ~RepeatDue(k) /\ ~ctx[k].Longpress /\ Elapsed(k) >= LongpressTime

\* The first report of a long press: Dial looks for a volume key, any other
\* key reports itself unless it takes part in a combination.
LongpressReport(k) ==
  IF UnicodeChar[k] = CarriageReturn
    THEN CASE ScanIsDown(ScanDown) -> "PowerDown"
           [] ScanIsDown(ScanUp) /\ ~ScanIsDown(ScanDown) -> "PowerUp"
           [] OTHER -> "PowerLongpress"
    ELSE IF CharIsDown THEN None ELSE k

\* Mutant: Repeat is never set.
StartsRepeatNever(k) == FALSE

StartsRepeat(k) == UnicodeChar[k] # CarriageReturn /\ ~CharIsDown

\* case KEYSTATE_RELEASED
UpdateReleased(k, down) ==
  /\ ctx[k].State = "RELEASED"
  /\ ctx' = [ctx EXCEPT ![k] =
               IF down THEN [@ EXCEPT !.Time = 0, !.State = "PRESSED"] ELSE @]
  /\ report' = None

\* case KEYSTATE_PRESSED, the key is still down
UpdateHeld(k, down) ==
  /\ ctx[k].State = "PRESSED" /\ down
  /\ \/ /\ RepeatDue(k)
        /\ ctx' = [ctx EXCEPT ![k].Time = 0]
        /\ report' = k
     \/ /\ LongpressDue(k)
        /\ ctx' = [ctx EXCEPT ![k] =
                     [@ EXCEPT !.Time = IF StartsRepeat(k) THEN 0 ELSE Elapsed(k),
                               !.Repeat = ctx[k].Repeat \/ StartsRepeat(k),
                               !.Longpress = TRUE]]
        /\ report' = LongpressReport(k)
     \/ /\ ~RepeatDue(k) /\ ~LongpressDue(k)
        /\ ctx' = [ctx EXCEPT ![k].Time = Elapsed(k)]
        /\ report' = None

\* Mutant: the flags of a long press survive its release.
UpdateLetGoKeepsFlags(k, down) ==
  /\ ctx[k].State = "PRESSED" /\ ~down
  /\ \/ /\ ~ctx[k].Longpress
        /\ ctx' = [ctx EXCEPT ![k] =
                     [@ EXCEPT !.Time = 0, !.State = "LONGPRESS_RELEASE"]]
        /\ report' = k
     \/ /\ ctx[k].Longpress
        /\ ctx' = [ctx EXCEPT ![k].State = "RELEASED"]
        /\ report' = None

\* case KEYSTATE_PRESSED, the key came up: a short press is reported only now
UpdateLetGo(k, down) ==
  /\ ctx[k].State = "PRESSED" /\ ~down
  /\ \/ /\ ~ctx[k].Longpress
        /\ ctx' = [ctx EXCEPT ![k] =
                     [@ EXCEPT !.Time = 0, !.State = "LONGPRESS_RELEASE"]]
        /\ report' = k
     \/ /\ ctx[k].Longpress
        /\ ctx' = [ctx EXCEPT ![k] =
                     IF Elapsed(k) >= ReleaseTime
                       THEN Released ELSE [@ EXCEPT !.Time = Elapsed(k)]]
        /\ report' = None

\* case KEYSTATE_LONGPRESS_RELEASE, whatever the level is
UpdateReleasing(k) ==
  /\ ctx[k].State = "LONGPRESS_RELEASE"
  /\ ctx' = [ctx EXCEPT ![k] = Released]
  /\ report' = None

----------------------------------------------------------------------------
SoftKeys == {k \in Key : CharCounts(k)}

AtMost(n, m) == IF n < m THEN n ELSE m

NoSoftKey(levels) == \A s \in SoftKeys : ~levels[s]

Watch(k, down) ==
  /\ held' = [held EXCEPT ![k] = down]
  /\ told' = [told EXCEPT ![k] = /\ ctx'[k].State # "RELEASED"
                                 /\ @ \/ report' # None]
  /\ gap' = [gap EXCEPT ![k] =
               IF ctx'[k].State # "PRESSED" \/ ctx[k].State # "PRESSED"
                    \/ report' # None
                 THEN 0 ELSE AtMost(@ + delta, LongpressTime)]
  /\ alone' = [j \in Key |-> ctx'[j].State = "PRESSED"
                               => alone[j] /\ NoSoftKey(held')]

Init ==
  /\ ctx = [k \in Key |-> Released]
  /\ scanBits = {} /\ charBits = {}
  /\ ix = 0
  /\ user \in Users /\ delta \in user.deltas
  /\ report = None
  /\ held = [k \in Key |-> FALSE]
  /\ told = [k \in Key |-> FALSE]
  /\ gap = [k \in Key |-> 0]
  /\ alone = [k \in Key |-> TRUE]

\* KeypadTimerHandler calls GetKeys with the time since the last poll.
BeginPoll(d) ==
  /\ ix = 0
  /\ ix' = 1
  /\ delta' = d
  /\ report' = None
  /\ UNCHANGED <<user, ctx, scanBits, charBits, history>>

\* One iteration of the loop in GetKeys.
ScanKey(k, down) ==
  /\ ix # 0 /\ k = KeyList[ix]
  /\ down => k \in user.presses
  /\ ix' = IF ix = Len(KeyList) THEN 0 ELSE ix + 1
  /\ KeySetState(k, down)
  /\ \/ UpdateReleased(k, down)
     \/ UpdateHeld(k, down)
     \/ UpdateLetGo(k, down)
     \/ UpdateReleasing(k)
  /\ UNCHANGED <<user, delta>>
  /\ Watch(k, down)

\* KeypadDeviceImplReset: fresh contexts, but the bitmaps keep their bits.
Reset ==
  /\ ix = 0
  /\ ctx' = [k \in Key |-> Released]
  /\ report' = ResetDone
  /\ told' = [k \in Key |-> FALSE]
  /\ gap' = [k \in Key |-> 0]
  /\ alone' = [k \in Key |-> \A s \in SoftKeys : ~held[s]]
  /\ UNCHANGED <<user, scanBits, charBits, ix, delta, held>>

Poll ==
  \/ \E d \in user.deltas : BeginPoll(d)
  \/ \E k \in Key, down \in BOOLEAN : ScanKey(k, down)

Next == Poll \/ Reset

Spec == Init /\ [][Next]_vars

\* The periodic timer of KeypadDxe never stops polling.
FairSpec == Spec /\ WF_vars(Poll)
-----------------------------------------------------------------------------
Context == [State : {"RELEASED", "PRESSED", "LONGPRESS_RELEASE"},
            Time : 0 .. LongpressTime, Repeat : BOOLEAN, Longpress : BOOLEAN]

TypeOK ==
  /\ ctx \in [Key -> Context]
  /\ scanBits \subseteq 1 .. MaxScanCode - 1
  /\ charBits \subseteq {0}
  /\ ix \in 0 .. Len(KeyList)
  /\ user \in Users /\ delta \in user.deltas
  /\ report \in Key \cup Combos \cup {None, ResetDone}
  /\ held \in [Key -> BOOLEAN]
  /\ told \in [Key -> BOOLEAN]
  /\ gap \in [Key -> 0 .. LongpressTime]
  /\ alone \in [Key -> BOOLEAN]

\* The flags of a key context agree with its state: nothing repeats without
\* having been held long enough, and no flag of one press leaks into the next
\* (LibKeyUpdateKeyStatus never clears the flags on the way down).
FlagsMatchState ==
  \A k \in Key :
    /\ ctx[k].Repeat => ctx[k].Longpress
    /\ ctx[k].Longpress => ctx[k].State = "PRESSED"
    /\ ctx[k].Longpress /\ ~ctx[k].Repeat => ctx[k].Time = LongpressTime

\* A press of Dial reports exactly one key, whatever is pressed along with it
\* and however long it lasts: nothing before half a second or the release, and
\* never a combination and then a carriage return as well.
DialReportsOnce ==
  [][/\ report' \in Combos \cup {"Dial"} => ~told["Dial"]
     /\ ctx["Dial"].State # "RELEASED" /\ ctx'["Dial"].State = "RELEASED"
          => told["Dial"] \/ report' = ResetDone]_vars

\* A press of a scan-code key can only stay silent because a soft key was down
\* at some time during it.
SilentPressHadCompany ==
  \A k \in Key \ SoftKeys :
    ctx[k].Longpress /\ ~told[k] => ~alone[k]

\* A combination is what the levels say: 's' needs volume down, 'e' volume up
\* alone, and the space bar neither, on the levels the same poll has just read.
ComboMatchesKeys ==
  [][/\ report' = "PowerDown" => held'["VolDown"]
     /\ report' = "PowerUp" => held'["VolUp"] /\ ~held'["VolDown"]
     /\ report' = "PowerLongpress" => ~held'["VolUp"] /\ ~held'["VolDown"]]_vars

\* One press never reports twice within the repeat time: a long press is not
\* reported again at its release, and repeats keep their distance.
RepeatsKeepDistance ==
  [][\A k \in Key : report' = k /\ told[k] => gap[k] + delta >= RepeatTime]_vars

\* A volume key that is held down and saw no soft key down with it repeats for
\* ever.  (One that did take part in a combination stays silent afterwards.)
HeldKeyRepeats ==
  <>[](held["VolUp"] /\ alone["VolUp"] /\ report # ResetDone)
    => []<>(report = "VolUp")

\* "we reported another key already": the comment on the branch that ends a
\* long press (KeypadDeviceHelperLib.h:158).
ReportedAnotherKeyAlready ==
  [][\A k \in Key : ctx[k].State = "PRESSED" /\ ctx'[k].State = "RELEASED"
                      /\ report' # ResetDone
                      => \E j \in Key : told[j]]_vars

\* What the keys remember of their presses is consistent: the flags agree with
\* the state of each press, and a long press is silent only if it had company.
KeysConsistent == TypeOK /\ FlagsMatchState /\ SilentPressHadCompany

\* What is reported was pressed: one report of a press of Dial, the combination
\* that the levels say, and no repeat before its time.
ReportsMeanPresses == DialReportsOnce /\ ComboMatchesKeys /\ RepeatsKeepDistance
=============================================================================
