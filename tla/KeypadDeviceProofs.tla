------------------------- MODULE KeypadDeviceProofs -------------------------
(***************************************************************************)
(* What the keys remember of their presses is consistent, and what they    *)
(* report was pressed, for every set of pressed keys and every distance    *)
(* between two polls.  The keypad's light always has a timer, or is out,   *)
(* for every hold time.                                                     *)
(***************************************************************************)
EXTENDS KeypadDevice, KeypadLed, TLAPS

\* The bits that KeyGetState looks at are the levels that were read last; a soft
\* key writes the one bit of all soft keys.
BitsMatchLevels ==
  /\ ScanUp \in scanBits <=> held["VolUp"]
  /\ ScanDown \in scanBits <=> held["VolDown"]
  /\ 0 \in charBits => \E s \in SoftKeys : held[s]

\* A press that was reported is a long one or has just ended; Dial reports every
\* such press, and it never repeats.
ToldMatchesState ==
  /\ \A k \in Key : told[k] => ctx[k].Longpress \/ ctx[k].State = "LONGPRESS_RELEASE"
  /\ ctx["Dial"].Longpress \/ ctx["Dial"].State = "LONGPRESS_RELEASE" => told["Dial"]
  /\ ~ctx["Dial"].Repeat

\* A repeating key counts from its last report.
RepeatsCount == \A k \in Key : ctx[k].Repeat => gap[k] = ctx[k].Time

DeviceInv ==
  /\ TypeOK /\ FlagsMatchState /\ SilentPressHadCompany
  /\ BitsMatchLevels /\ ToldMatchesState /\ RepeatsCount

-----------------------------------------------------------------------------
\* The codes of the keys, and what KeySetState and LibKeyUpdateKeyStatus ask of
\* them.
LEMMA KeyCodes ==
  /\ "VolUp" \in Key /\ "VolDown" \in Key /\ "Dial" \in Key
  /\ SoftKeys = {"Back", "Windows", "Dial"}
  /\ \A k \in Key : CharCounts(k) <=> k \in SoftKeys
  /\ \A k \in Key : ScanCounts(k) <=> k \notin SoftKeys
  /\ \A k \in Key : k \notin SoftKeys => ScanCode[k] \in 1 .. MaxScanCode - 1
  /\ \A k \in Key : k \in SoftKeys => ScanCode[k] = 0
  /\ \A k \in Key : k \notin SoftKeys =>
       /\ ScanCode[k] = ScanUp <=> k = "VolUp"
       /\ ScanCode[k] = ScanDown <=> k = "VolDown"
  /\ \A k \in Key : UnicodeChar[k] = CarriageReturn <=> k = "Dial"
<1>1. /\ ScanCode["Power"] = 23 /\ ScanCode["VolUp"] = 1 /\ ScanCode["VolDown"] = 2
      /\ ScanCode["Home"] = 5 /\ ScanCode["Back"] = 0 /\ ScanCode["Windows"] = 0
      /\ ScanCode["Dial"] = 0
  BY DEF ScanCode, Key
<1>2. /\ UnicodeChar["Power"] = 0 /\ UnicodeChar["VolUp"] = 0 /\ UnicodeChar["VolDown"] = 0
      /\ UnicodeChar["Home"] = 0 /\ UnicodeChar["Back"] = 8 /\ UnicodeChar["Windows"] = 9
      /\ UnicodeChar["Dial"] = 13
  BY DEF UnicodeChar, Key
<1>3. \A k \in Key : CharCounts(k) <=> k \in {"Back", "Windows", "Dial"}
  BY <1>2 DEF CharCounts, MaxUnicodeChar, Key
<1>4. SoftKeys = {"Back", "Windows", "Dial"}
  BY <1>3 DEF SoftKeys, Key
<1>5. \A k \in Key : ScanCounts(k) <=> k \notin SoftKeys
  BY <1>1, <1>4 DEF ScanCounts, MaxScanCode, Key
<1>6. /\ \A k \in Key : k \notin SoftKeys => ScanCode[k] \in 1 .. MaxScanCode - 1
      /\ \A k \in Key : k \in SoftKeys => ScanCode[k] = 0
      /\ \A k \in Key : k \notin SoftKeys =>
           /\ ScanCode[k] = ScanUp <=> k = "VolUp"
           /\ ScanCode[k] = ScanDown <=> k = "VolDown"
  BY <1>1, <1>4 DEF MaxScanCode, ScanUp, ScanDown, Key
<1>7. \A k \in Key : UnicodeChar[k] = CarriageReturn <=> k = "Dial"
  BY <1>2 DEF CarriageReturn, Key
<1> QED BY <1>3, <1>4, <1>5, <1>6, <1>7 DEF Key

\* The bitmaps after the level of a key was noted.
LEMMA BitsStep ==
  ASSUME DeviceInv, NEW k \in Key, NEW down \in BOOLEAN, KeySetState(k, down),
         held' = [held EXCEPT ![k] = down]
  PROVE  /\ scanBits' \subseteq 1 .. MaxScanCode - 1 /\ charBits' \subseteq {0}
         /\ held' \in [Key -> BOOLEAN]
         /\ BitsMatchLevels'
<1>1. held \in [Key -> BOOLEAN] /\ scanBits \subseteq 1 .. MaxScanCode - 1 /\ charBits \subseteq {0}
  BY DEF DeviceInv, TypeOK
<1>2. held' \in [Key -> BOOLEAN] /\ held'[k] = down /\ (\A j \in Key : j # k => held'[j] = held[j])
  BY <1>1
<1>3. CASE k \in SoftKeys
  <2>1. scanBits' = scanBits /\ charBits' = IF down THEN charBits \cup {0} ELSE charBits \ {0}
    BY <1>3, KeyCodes DEF KeySetState, WithBit
  <2>2. held'["VolUp"] = held["VolUp"] /\ held'["VolDown"] = held["VolDown"]
    BY <1>2, <1>3, KeyCodes
  <2>3. 0 \in charBits' => held'[k]
    BY <1>2, <2>1
  <2> QED BY <1>1, <1>2, <1>3, <2>1, <2>2, <2>3 DEF DeviceInv, BitsMatchLevels
<1>4. CASE k \notin SoftKeys
  <2>1. /\ charBits' = charBits
        /\ scanBits' = IF down THEN scanBits \cup {ScanCode[k]} ELSE scanBits \ {ScanCode[k]}
    BY <1>4, KeyCodes DEF KeySetState, WithBit
  <2>2. scanBits' \subseteq 1 .. MaxScanCode - 1
    BY <1>1, <1>4, <2>1, KeyCodes
  <2>3. \A s \in SoftKeys : held'[s] = held[s]
    BY <1>2, <1>4, KeyCodes DEF Key
  <2>4. ScanUp \in scanBits' <=> held'["VolUp"]
    BY <1>2, <1>4, <2>1, KeyCodes DEF DeviceInv, BitsMatchLevels
  <2>5. ScanDown \in scanBits' <=> held'["VolDown"]
    BY <1>2, <1>4, <2>1, KeyCodes DEF DeviceInv, BitsMatchLevels
  <2> QED BY <1>1, <1>2, <2>1, <2>2, <2>3, <2>4, <2>5 DEF DeviceInv, BitsMatchLevels
<1> QED BY <1>3, <1>4

\* A combination is reported as the bits say.
ComboFits(r) ==
  /\ r = "PowerDown" => ScanIsDown(ScanDown)
  /\ r = "PowerUp" => ScanIsDown(ScanUp) /\ ~ScanIsDown(ScanDown)
  /\ r = "PowerLongpress" => ~ScanIsDown(ScanUp) /\ ~ScanIsDown(ScanDown)

\* What a long press reports.
LEMMA LongpressReports ==
  ASSUME NEW k \in Key
  PROVE  /\ k = "Dial" => LongpressReport(k) \in Combos /\ ComboFits(LongpressReport(k))
         /\ k # "Dial" => LongpressReport(k) = IF CharIsDown THEN None ELSE k
<1>1. CASE k = "Dial"
  <2>1. UnicodeChar[k] = CarriageReturn
    BY <1>1, KeyCodes
  <2>2. CASE ScanIsDown(ScanDown)
    <3>1. LongpressReport(k) = "PowerDown"
      BY <2>1, <2>2 DEF LongpressReport
    <3> QED BY <1>1, <2>2, <3>1 DEF Combos, ComboFits
  <2>3. CASE ScanIsDown(ScanUp) /\ ~ScanIsDown(ScanDown)
    <3>1. LongpressReport(k) = "PowerUp"
      BY <2>1, <2>3 DEF LongpressReport
    <3> QED BY <1>1, <2>3, <3>1 DEF Combos, ComboFits
  <2>4. CASE ~ScanIsDown(ScanUp) /\ ~ScanIsDown(ScanDown)
    <3>1. LongpressReport(k) = "PowerLongpress"
      BY <2>1, <2>4 DEF LongpressReport
    <3> QED BY <1>1, <2>4, <3>1 DEF Combos, ComboFits
  <2> QED BY <2>2, <2>3, <2>4
<1>2. CASE k # "Dial"
  BY <1>2, KeyCodes DEF LongpressReport
<1> QED BY <1>1, <1>2

\* The updates that the switch makes of a context.
LEMMA ContextUpdates ==
  ASSUME NEW c \in Context, NEW t \in 0 .. LongpressTime, NEW b \in BOOLEAN,
         NEW s \in {"PRESSED", "LONGPRESS_RELEASE"}
  PROVE  /\ [c EXCEPT !.Time = t] \in Context
         /\ [c EXCEPT !.Time = t, !.State = s] \in Context
         /\ [c EXCEPT !.Time = t, !.Repeat = b, !.Longpress = TRUE] \in Context
<1>1. /\ c = [State |-> c.State, Time |-> c.Time, Repeat |-> c.Repeat, Longpress |-> c.Longpress]
      /\ c.State \in {"RELEASED", "PRESSED", "LONGPRESS_RELEASE"}
      /\ c.Repeat \in BOOLEAN /\ c.Longpress \in BOOLEAN
  BY DEF Context
<1> DEFINE withTime == [c EXCEPT !.Time = t]
<1>2. withTime \in Context
  BY <1>1 DEF Context
<1>3. [withTime EXCEPT !.State = s] \in Context
  BY <1>2 DEF Context
<1>4. [c EXCEPT !.Time = t, !.State = s] = [withTime EXCEPT !.State = s]
  OBVIOUS
<1> DEFINE withRepeat == [withTime EXCEPT !.Repeat = b]
<1>5. withRepeat \in Context
  <2> HIDE DEF withTime
  <2> QED BY <1>2 DEF Context
<1>6. [withRepeat EXCEPT !.Longpress = TRUE] \in Context
  <2> HIDE DEF withRepeat
  <2> QED BY <1>5 DEF Context
<1>7. [c EXCEPT !.Time = t, !.Repeat = b,
      !.Longpress = TRUE] = [withRepeat EXCEPT !.Longpress = TRUE]
  OBVIOUS
<1> QED BY <1>2, <1>3, <1>4, <1>6, <1>7

\* What one look at a key does to its context c, with what it reports: d is the
\* context it leaves behind.  A report ends a short press, begins a long one or
\* repeats it in time.
KeyMoves(k, c, d, r) ==
  /\ d \in Context
  /\ d.Repeat => d.Longpress
  /\ d.Longpress => d.State = "PRESSED"
  /\ d.Longpress /\ ~d.Repeat => d.Time = LongpressTime
  /\ r \in Combos \cup {None, k}
  /\ r \in Combos => k = "Dial" /\ ComboFits(r)
  /\ r # None => /\ c.State = "PRESSED"
                 /\ \/ ~c.Longpress
                    \/ r = k /\ c.Repeat /\ Elapsed(k) >= RepeatTime
                 /\ d.Longpress \/ d.State = "LONGPRESS_RELEASE"
  /\ r = None => /\ d.State # "LONGPRESS_RELEASE"
                 /\ d.Longpress /\ ~c.Longpress => k # "Dial" /\ CharIsDown
                 /\ d.State # "RELEASED" /\ c.Longpress => d.Longpress
  /\ d.Repeat => k # "Dial"
  /\ d.Repeat => \/ r # None /\ d.Time = 0
                 \/ r = None /\ c.Repeat /\ c.State = "PRESSED" /\ d.Time = Elapsed(k)
  /\ c.State = "LONGPRESS_RELEASE" => d.State = "RELEASED"
  /\ c.State = "PRESSED" /\ d.State = "RELEASED" => c.Longpress

\* What a long press does when it is taken.
LEMMA LongpressEffect ==
  ASSUME NEW k \in Key, NEW down, LongpressDue(k), UpdateHeld(k, down)
  PROVE  /\ ctx[k].State = "PRESSED" /\ report' = LongpressReport(k)
         /\ ctx' = [ctx EXCEPT ![k] =
                      [ctx[k] EXCEPT !.Time = IF StartsRepeat(k) THEN 0 ELSE Elapsed(k),
                                     !.Repeat = ctx[k].Repeat \/ StartsRepeat(k),
                                     !.Longpress = TRUE]]
<1>1. ~RepeatDue(k)
  BY DEF LongpressDue
<1> QED BY <1>1, Zenon DEF UpdateHeld

\* The switch of LibKeyUpdateKeyStatus.
LEMMA KeyStep ==
  ASSUME DeviceInv, NEW k \in Key, NEW down \in BOOLEAN,
         \/ UpdateReleased(k, down) \/ UpdateHeld(k, down)
         \/ UpdateLetGo(k, down) \/ UpdateReleasing(k)
  PROVE  /\ KeyMoves(k, ctx[k], ctx'[k], report')
         /\ ctx' \in [Key -> Context]
         /\ \A j \in Key : j # k => ctx'[j] = ctx[j]
<1> DEFINE c == ctx[k]
<1>1. ctx \in [Key -> Context] /\ c \in Context /\ delta \in Nat
  BY UsersAssumption DEF UsersAssumption, DeviceInv, TypeOK
<1>2. /\ c.Repeat => c.Longpress
      /\ c.Longpress => c.State = "PRESSED"
      /\ c.Longpress /\ ~c.Repeat => c.Time = LongpressTime
  BY DEF DeviceInv, FlagsMatchState
<1>3. k = "Dial" => ~c.Repeat
  BY DEF DeviceInv, ToldMatchesState
<1>4. Elapsed(k) \in 0 .. LongpressTime /\ (c.Time = LongpressTime => Elapsed(k) = LongpressTime)
  <2>1. c.Time \in Nat /\ c.Time <= 500 /\ delta \in Nat
    BY <1>1 DEF Context, LongpressTime
  <2>2. Elapsed(k) = IF c.Time + delta < 500 THEN c.Time + delta ELSE 500
    BY DEF Elapsed, LongpressTime
  <2>3. LongpressTime = 500
    BY DEF LongpressTime
  <2> DEFINE t == c.Time
  <2>4. t \in Nat /\ t <= 500 /\ Elapsed(k) = IF t + delta < 500 THEN t + delta ELSE 500
    BY <2>1, <2>2
  <2> HIDE DEF t
  <2>5. Elapsed(k) \in 0 .. 500 /\ (t = 500 => Elapsed(k) = 500)
    BY <2>1, <2>4
  <2> QED BY <2>3, <2>5 DEF t
<1>5. Released \in Context /\ Released.State = "RELEASED" /\ ~Released.Repeat /\ ~Released.Longpress
  BY DEF Released, Context, LongpressTime
<1>6. None \notin Combos /\ None # k /\ k \notin Combos
  BY DEF None, Combos, Key
<1>7. StartsRepeat(k) <=> k # "Dial" /\ ~CharIsDown
  BY KeyCodes DEF StartsRepeat
<1> SUFFICES ASSUME NEW d \in Context, ctx' = [ctx EXCEPT ![k] = d]
             PROVE  KeyMoves(k, c, d, report')
  <2>1. \E d \in Context : ctx' = [ctx EXCEPT ![k] = d]
    <3> DEFINE zero == 0
    <3>0. zero \in 0 .. LongpressTime
      BY DEF LongpressTime
    <3> HIDE DEF zero
    <3>1. CASE UpdateReleased(k, down)
      <4>1. [c EXCEPT !.Time = zero, !.State = "PRESSED"] \in Context
        BY <1>1, <3>0, ContextUpdates
      <4> QED BY <1>1, <3>1, <4>1 DEF UpdateReleased, zero
    <3>2. CASE UpdateHeld(k, down)
      <4>1. /\ [c EXCEPT !.Time = zero] \in Context
            /\ [c EXCEPT !.Time = Elapsed(k)] \in Context
        BY <1>1, <1>4, <3>0, ContextUpdates
      <4> DEFINE time == IF StartsRepeat(k) THEN 0 ELSE Elapsed(k)
                 repeat == c.Repeat \/ StartsRepeat(k)
                 long == [c EXCEPT !.Time = time, !.Repeat = repeat, !.Longpress = TRUE]
      <4>2. time \in 0 .. LongpressTime /\ repeat \in BOOLEAN
        BY <1>4, <3>0 DEF zero
      <4>3. long \in Context
        <5> HIDE DEF time, repeat
        <5> QED BY <1>1, <4>2, ContextUpdates
      <4>4. \/ ctx' = [ctx EXCEPT ![k] = [c EXCEPT !.Time = 0]]
            \/ ctx' = [ctx EXCEPT ![k] = [c EXCEPT !.Time = Elapsed(k)]]
            \/ LongpressDue(k) /\ UpdateHeld(k, down)
        BY <3>2 DEF UpdateHeld
      <4>5. LongpressDue(k) /\ UpdateHeld(k, down) => ctx' = [ctx EXCEPT ![k] = long]
        BY LongpressEffect
      <4> HIDE DEF long
      <4> QED BY <4>1, <4>3, <4>4, <4>5 DEF zero
    <3>3. CASE UpdateLetGo(k, down)
      <4>1. /\ [c EXCEPT !.Time = zero, !.State = "LONGPRESS_RELEASE"] \in Context
            /\ [c EXCEPT !.Time = Elapsed(k)] \in Context
        BY <1>1, <1>4, <3>0, ContextUpdates
      <4> QED BY <1>5, <3>3, <4>1 DEF UpdateLetGo, zero
    <3>4. CASE UpdateReleasing(k)
      BY <1>5, <3>4 DEF UpdateReleasing
    <3> QED BY <3>1, <3>2, <3>3, <3>4
  <2>2. PICK d \in Context : ctx' = [ctx EXCEPT ![k] = d]
    BY <2>1
  <2>3. ctx'[k] = d /\ ctx' \in [Key -> Context] /\ (\A j \in Key : j # k => ctx'[j] = ctx[j])
    BY <1>1, <2>2
  <2> QED BY <2>2, <2>3
<1>8. ctx'[k] = d
  BY <1>1
<1>9. CASE UpdateReleased(k, down)
  <2>1. c.State = "RELEASED" /\ report' = None
        /\ d = IF down THEN [c EXCEPT !.Time = 0, !.State = "PRESSED"] ELSE c
    BY <1>1, <1>8, <1>9 DEF UpdateReleased
  <2>2. /\ d.Repeat = c.Repeat /\ d.Longpress = c.Longpress
        /\ d.State = IF down THEN "PRESSED" ELSE "RELEASED"
    BY <1>1, <2>1 DEF Context
  <2> QED BY <1>2, <1>6, <2>1, <2>2 DEF KeyMoves
<1>10. CASE UpdateHeld(k, down) /\ RepeatDue(k)
  <2>1. c.State = "PRESSED" /\ report' = k /\ d = [c EXCEPT !.Time = 0]
    BY <1>1, <1>8, <1>10 DEF UpdateHeld, LongpressDue
  <2>2. /\ d.Repeat = c.Repeat /\ d.Longpress = c.Longpress /\ d.State = c.State /\ d.Time = 0
    BY <1>1, <2>1 DEF Context
  <2>3. c.Repeat /\ Elapsed(k) >= RepeatTime
    BY <1>10 DEF RepeatDue
  <2> QED BY <1>2, <1>3, <1>6, <2>1, <2>2, <2>3 DEF KeyMoves
<1>11. CASE UpdateHeld(k, down) /\ LongpressDue(k)
  <2>1. /\ c.State = "PRESSED" /\ report' = LongpressReport(k)
        /\ d = [c EXCEPT !.Time = IF StartsRepeat(k) THEN 0 ELSE Elapsed(k),
                         !.Repeat = c.Repeat \/ StartsRepeat(k),
                         !.Longpress = TRUE]
    <3> DEFINE long == [c EXCEPT !.Time = IF StartsRepeat(k) THEN 0 ELSE Elapsed(k),
                                 !.Repeat = c.Repeat \/ StartsRepeat(k),
                                 !.Longpress = TRUE]
    <3>1. c.State = "PRESSED" /\ report' = LongpressReport(k) /\ ctx' = [ctx EXCEPT ![k] = long]
      BY <1>11, LongpressEffect
    <3> HIDE DEF long
    <3>2. ctx'[k] = long
      BY <1>1, <3>1
    <3> QED BY <1>8, <3>1, <3>2 DEF long
  <2>2. ~c.Longpress /\ ~c.Repeat /\ Elapsed(k) = LongpressTime
    BY <1>2, <1>4, <1>11 DEF LongpressDue, RepeatDue, LongpressTime
  <2>3. /\ d.State = "PRESSED" /\ d.Longpress = TRUE
        /\ d.Repeat <=> StartsRepeat(k)
        /\ d.Time = IF StartsRepeat(k) THEN 0 ELSE LongpressTime
    BY <1>1, <2>1, <2>2 DEF Context
  <2>4. /\ k = "Dial" => report' \in Combos /\ ComboFits(report')
        /\ k # "Dial" => report' = IF CharIsDown THEN None ELSE k
    BY <2>1, LongpressReports
  <2> QED BY <1>6, <1>7, <2>1, <2>2, <2>3, <2>4 DEF KeyMoves
<1>12. CASE UpdateHeld(k, down) /\ ~RepeatDue(k) /\ ~LongpressDue(k)
  <2>1. c.State = "PRESSED" /\ report' = None /\ d = [c EXCEPT !.Time = Elapsed(k)]
    BY <1>1, <1>8, <1>12 DEF UpdateHeld
  <2>2. /\ d.Repeat = c.Repeat /\ d.Longpress = c.Longpress /\ d.State = c.State
        /\ d.Time = Elapsed(k)
    BY <1>1, <2>1 DEF Context
  <2> QED BY <1>2, <1>3, <1>4, <1>6, <2>1, <2>2 DEF KeyMoves
<1>13. CASE UpdateLetGo(k, down) /\ ~c.Longpress
  <2>1. /\ c.State = "PRESSED" /\ report' = k
        /\ d = [c EXCEPT !.Time = 0, !.State = "LONGPRESS_RELEASE"]
    BY <1>1, <1>8, <1>13 DEF UpdateLetGo
  <2>2. /\ d.Repeat = c.Repeat /\ d.Longpress = c.Longpress /\ d.State = "LONGPRESS_RELEASE"
        /\ d.Time = 0
    BY <1>1, <2>1 DEF Context
  <2> QED BY <1>2, <1>6, <1>13, <2>1, <2>2 DEF KeyMoves
<1>14. CASE UpdateLetGo(k, down) /\ c.Longpress
  <2>1. /\ c.State = "PRESSED" /\ report' = None
        /\ d = IF Elapsed(k) >= ReleaseTime THEN Released ELSE [c EXCEPT !.Time = Elapsed(k)]
    BY <1>1, <1>8, <1>14 DEF UpdateLetGo
  <2>2. CASE Elapsed(k) >= ReleaseTime
    BY <1>5, <1>6, <1>14, <2>1, <2>2 DEF KeyMoves
  <2>3. CASE ~(Elapsed(k) >= ReleaseTime)
    <3>1. /\ d.Repeat = c.Repeat /\ d.Longpress = c.Longpress /\ d.State = c.State
          /\ d.Time = Elapsed(k)
      BY <1>1, <2>1, <2>3 DEF Context
    <3> QED BY <1>2, <1>3, <1>4, <1>6, <1>14, <2>1, <3>1 DEF KeyMoves
  <2> QED BY <2>2, <2>3
<1>15. CASE UpdateReleasing(k)
  <2>1. c.State = "LONGPRESS_RELEASE" /\ report' = None /\ d = Released
    BY <1>1, <1>8, <1>15 DEF UpdateReleasing
  <2> QED BY <1>5, <1>6, <2>1 DEF KeyMoves
<1>16. UpdateHeld(k, down) => RepeatDue(k) \/ LongpressDue(k) \/ (~RepeatDue(k) /\ ~LongpressDue(k))
  OBVIOUS
<1> QED BY <1>9, <1>10, <1>11, <1>12, <1>13, <1>14, <1>15, <1>16

\* What the histories note of one look at a key.
LEMMA WatchStep ==
  ASSUME DeviceInv, NEW k \in Key, NEW down \in BOOLEAN, Watch(k, down)
  PROVE  /\ held' = [held EXCEPT ![k] = down]
         /\ told' \in [Key -> BOOLEAN] /\ gap' \in [Key -> 0 .. LongpressTime]
         /\ alone' \in [Key -> BOOLEAN]
         /\ told'[k] <=> ctx'[k].State # "RELEASED" /\ (told[k] \/ report' # None)
         /\ gap'[k] = IF ctx'[k].State # "PRESSED" \/ ctx[k].State # "PRESSED" \/ report' # None
                        THEN 0 ELSE AtMost(gap[k] + delta, LongpressTime)
         /\ \A j \in Key : j # k => told'[j] = told[j] /\ gap'[j] = gap[j]
         /\ \A j \in Key : ctx'[j].State = "PRESSED" =>
              (alone'[j] => alone[j] /\ NoSoftKey(held'))
<1>1. /\ told \in [Key -> BOOLEAN] /\ gap \in [Key -> 0 .. LongpressTime]
      /\ delta \in Nat /\ LongpressTime \in Nat
  <2>1. TypeOK
    BY DEF DeviceInv
  <2>2. user.deltas \subseteq Nat
    BY <2>1, UsersAssumption DEF UsersAssumption, TypeOK
  <2>3. told \in [Key -> BOOLEAN] /\ gap \in [Key -> 0 .. LongpressTime] /\ delta \in user.deltas
    BY <2>1 DEF TypeOK
  <2> QED BY <2>2, <2>3 DEF LongpressTime
<1>2. /\ told' \in [Key -> BOOLEAN]
      /\ told'[k] <=> ctx'[k].State # "RELEASED" /\ (told[k] \/ report' # None)
      /\ \A j \in Key : j # k => told'[j] = told[j]
  <2> DEFINE said == ctx'[k].State # "RELEASED" /\ (told[k] \/ report' # None)
  <2>1. said \in BOOLEAN
    OBVIOUS
  <2>2. told' = [told EXCEPT ![k] = said]
    BY Zenon DEF Watch
  <2> HIDE DEF said
  <2>3. /\ told' \in [Key -> BOOLEAN] /\ told'[k] = said
        /\ \A j \in Key : j # k => told'[j] = told[j]
    BY <1>1, <2>1, <2>2
  <2> QED BY <2>3 DEF said
<1>3. /\ gap' \in [Key -> 0 .. LongpressTime]
      /\ gap'[k] = IF ctx'[k].State # "PRESSED" \/ ctx[k].State # "PRESSED" \/ report' # None
                     THEN 0 ELSE AtMost(gap[k] + delta, LongpressTime)
      /\ \A j \in Key : j # k => gap'[j] = gap[j]
  <2> DEFINE sum == gap[k] + delta
             passed == IF ctx'[k].State # "PRESSED" \/ ctx[k].State # "PRESSED" \/ report' # None
                        THEN 0 ELSE AtMost(sum, LongpressTime)
  <2>1. sum \in Nat
    BY <1>1
  <2>2. AtMost(sum, LongpressTime) \in 0 .. LongpressTime /\ 0 \in 0 .. LongpressTime
    <3> HIDE DEF sum
    <3> QED BY <1>1, <2>1 DEF AtMost
  <2>3. passed \in 0 .. LongpressTime
    BY <2>2
  <2>4. gap' = [gap EXCEPT ![k] = passed]
    BY DEF Watch
  <2> HIDE DEF passed
  <2>5. /\ gap' \in [Key -> 0 .. LongpressTime] /\ gap'[k] = passed
        /\ \A j \in Key : j # k => gap'[j] = gap[j]
    BY <1>1, <2>3, <2>4
  <2> QED BY <2>5 DEF passed
<1>4. /\ alone' \in [Key -> BOOLEAN]
      /\ \A j \in Key : ctx'[j].State = "PRESSED" =>
           (alone'[j] => alone[j] /\ NoSoftKey(held'))
  <2>1. alone' = [j \in Key |-> ctx'[j].State = "PRESSED" => alone[j] /\ NoSoftKey(held')]
    BY DEF Watch
  <2>2. alone' \in [Key -> BOOLEAN]
    BY <2>1
  <2>3. \A j \in Key : alone'[j] = (ctx'[j].State = "PRESSED" => alone[j] /\ NoSoftKey(held'))
    BY <2>1, Zenon
  <2>4. ASSUME NEW j \in Key, ctx'[j].State = "PRESSED", alone'[j]
        PROVE  alone[j] /\ NoSoftKey(held')
    BY <2>3, <2>4, Zenon
  <2> QED BY <2>2, <2>4
<1> QED BY <1>2, <1>3, <1>4 DEF Watch

\* One iteration of the loop in GetKeys, in these terms.
LEMMA ScanStep ==
  ASSUME DeviceInv, NEW k \in Key, NEW down \in BOOLEAN, ScanKey(k, down)
  PROVE  /\ KeyMoves(k, ctx[k], ctx'[k], report')
         /\ ctx' \in [Key -> Context]
         /\ \A j \in Key : j # k => ctx'[j] = ctx[j]
         /\ ix' \in 0 .. Len(KeyList)
         /\ user' = user /\ delta' = delta
         /\ scanBits' \subseteq 1 .. MaxScanCode - 1 /\ charBits' \subseteq {0}
         /\ held' \in [Key -> BOOLEAN]
         /\ BitsMatchLevels'
<1>1. KeySetState(k, down) /\ Watch(k, down) /\ user' = user /\ delta' = delta
  BY DEF ScanKey
<1>2. \/ UpdateReleased(k, down) \/ UpdateHeld(k, down)
      \/ UpdateLetGo(k, down) \/ UpdateReleasing(k)
  BY DEF ScanKey
<1>3. held' = [held EXCEPT ![k] = down]
  BY <1>1, WatchStep
<1>4. ix' \in 0 .. Len(KeyList)
  <2>1. Len(KeyList) = 7
    BY DEF KeyList
  <2>2. ix \in 0 .. 7 /\ ix' = IF ix = 7 THEN 0 ELSE ix + 1
    BY <2>1 DEF ScanKey, DeviceInv, TypeOK
  <2> QED BY <2>1, <2>2
<1>5. /\ scanBits' \subseteq 1 .. MaxScanCode - 1 /\ charBits' \subseteq {0}
      /\ held' \in [Key -> BOOLEAN] /\ BitsMatchLevels'
  BY <1>1, <1>3, BitsStep
<1>6. /\ KeyMoves(k, ctx[k], ctx'[k], report') /\ ctx' \in [Key -> Context]
      /\ \A j \in Key : j # k => ctx'[j] = ctx[j]
  BY <1>2, KeyStep
<1> QED BY <1>1, <1>4, <1>5, <1>6

\* One look at a key keeps what the keys remember.
LEMMA ScanInv ==
  ASSUME DeviceInv, NEW k \in Key, NEW down \in BOOLEAN, ScanKey(k, down)
  PROVE  DeviceInv'
<1> DEFINE c == ctx[k]
           d == ctx'[k]
           r == report'
<1>1. /\ KeyMoves(k, c, d, r) /\ ctx' \in [Key -> Context]
      /\ \A j \in Key : j # k => ctx'[j] = ctx[j]
      /\ BitsMatchLevels'
  BY ScanStep
<1>2. /\ told'[k] <=> d.State # "RELEASED" /\ (told[k] \/ r # None)
      /\ gap'[k] = IF d.State # "PRESSED" \/ c.State # "PRESSED" \/ r # None
                     THEN 0 ELSE AtMost(gap[k] + delta, LongpressTime)
      /\ \A j \in Key : j # k => told'[j] = told[j] /\ gap'[j] = gap[j]
      /\ \A j \in Key : ctx'[j].State = "PRESSED" => (alone'[j] => alone[j] /\ NoSoftKey(held'))
      /\ told' \in [Key -> BOOLEAN] /\ gap' \in [Key -> 0 .. LongpressTime]
      /\ alone' \in [Key -> BOOLEAN]
  BY WatchStep DEF ScanKey
<1>3. TypeOK'
  <2>1. r \in Key \cup Combos \cup {None, ResetDone}
    BY <1>1 DEF KeyMoves
  <2> QED BY <1>1, <1>2, <2>1, ScanStep DEF DeviceInv, TypeOK
<1>4. FlagsMatchState'
  <2>1. /\ d.Repeat => d.Longpress
        /\ d.Longpress => d.State = "PRESSED"
        /\ d.Longpress /\ ~d.Repeat => d.Time = LongpressTime
    BY <1>1 DEF KeyMoves
  <2>2. ASSUME NEW j \in Key
        PROVE  /\ ctx'[j].Repeat => ctx'[j].Longpress
               /\ ctx'[j].Longpress => ctx'[j].State = "PRESSED"
               /\ ctx'[j].Longpress /\ ~ctx'[j].Repeat => ctx'[j].Time = LongpressTime
    BY <1>1, <2>1 DEF DeviceInv, FlagsMatchState
  <2> QED BY <2>2 DEF FlagsMatchState
<1>5. SilentPressHadCompany'
  <2> SUFFICES ASSUME NEW j \in Key \ SoftKeys, ctx'[j].Longpress, ~told'[j]
               PROVE  ~alone'[j]
    BY DEF SilentPressHadCompany
  <2>1. ctx'[j].State = "PRESSED"
    BY <1>4 DEF FlagsMatchState
  <2>2. CASE j # k
    BY <1>1, <1>2, <2>1, <2>2 DEF DeviceInv, SilentPressHadCompany
  <2>3. CASE j = k
    <3>1. ~told[k] /\ r = None
      BY <1>2, <2>1, <2>3
    <3>2. CASE c.Longpress
      BY <1>2, <2>1, <2>3, <3>1, <3>2 DEF DeviceInv, SilentPressHadCompany
    <3>3. CASE ~c.Longpress
      <4>1. CharIsDown
        BY <1>1, <2>3, <3>1, <3>3 DEF KeyMoves
      <4>2. \E s \in SoftKeys : held'[s]
        BY <1>1, <4>1 DEF CharIsDown, BitsMatchLevels
      <4>3. ~NoSoftKey(held')
        BY <4>2 DEF NoSoftKey
      <4> QED BY <1>2, <2>1, <2>3, <4>3
    <3> QED BY <3>2, <3>3
  <2> QED BY <2>2, <2>3
<1>6. ToldMatchesState'
  <2>1. ASSUME NEW j \in Key, told'[j]
        PROVE  ctx'[j].Longpress \/ ctx'[j].State = "LONGPRESS_RELEASE"
    <3>1. CASE j # k
      BY <1>1, <1>2, <2>1, <3>1 DEF DeviceInv, ToldMatchesState
    <3>2. CASE j = k /\ r # None
      BY <1>1, <3>2 DEF KeyMoves
    <3>3. CASE j = k /\ r = None
      <4>1. told[k] /\ d.State # "RELEASED"
        BY <1>2, <2>1, <3>3
      <4>2. c.Longpress \/ c.State = "LONGPRESS_RELEASE"
        BY <4>1 DEF DeviceInv, ToldMatchesState
      <4> QED BY <1>1, <3>3, <4>1, <4>2 DEF KeyMoves
    <3> QED BY <3>1, <3>2, <3>3
  <2>2. ASSUME ctx'["Dial"].Longpress \/ ctx'["Dial"].State = "LONGPRESS_RELEASE"
        PROVE  told'["Dial"]
    <3>1. CASE k # "Dial"
      BY <1>1, <1>2, <2>2, <3>1, KeyCodes DEF DeviceInv, ToldMatchesState
    <3>2. CASE k = "Dial" /\ r # None
      <4>1. d.State # "RELEASED"
        BY <1>1, <2>2, <3>2 DEF KeyMoves
      <4> QED BY <1>2, <3>2, <4>1
    <3>3. CASE k = "Dial" /\ r = None
      <4>1. d.Longpress /\ d.State = "PRESSED" /\ c.Longpress
        BY <1>1, <2>2, <3>3 DEF KeyMoves
      <4>2. told["Dial"]
        BY <3>3, <4>1 DEF DeviceInv, ToldMatchesState
      <4> QED BY <1>2, <3>3, <4>1, <4>2
    <3> QED BY <3>1, <3>2, <3>3
  <2>3. ~ctx'["Dial"].Repeat
    <3>1. CASE k # "Dial"
      BY <1>1, <3>1, KeyCodes DEF DeviceInv, ToldMatchesState
    <3>2. CASE k = "Dial"
      BY <1>1, <3>2 DEF KeyMoves
    <3> QED BY <3>1, <3>2
  <2> QED BY <2>1, <2>2, <2>3 DEF ToldMatchesState
<1>7. RepeatsCount'
  <2> SUFFICES ASSUME NEW j \in Key, ctx'[j].Repeat PROVE gap'[j] = ctx'[j].Time
    BY DEF RepeatsCount
  <2>1. CASE j # k
    BY <1>1, <1>2, <2>1 DEF DeviceInv, RepeatsCount
  <2>2. CASE j = k
    <3>1. \/ r # None /\ d.Time = 0
          \/ r = None /\ c.Repeat /\ c.State = "PRESSED" /\ d.Time = Elapsed(k)
      BY <1>1, <2>2 DEF KeyMoves
    <3>2. d.State = "PRESSED"
      BY <1>4, <2>2 DEF FlagsMatchState
    <3>3. CASE r # None
      BY <1>2, <2>2, <3>1, <3>3
    <3>4. CASE r = None
      <4>1. gap[k] = c.Time
        BY <3>1, <3>4 DEF DeviceInv, RepeatsCount
      <4>2. gap'[k] = AtMost(gap[k] + delta, LongpressTime)
        BY <1>2, <3>1, <3>2, <3>4
      <4>3. AtMost(gap[k] + delta, LongpressTime) = Elapsed(k)
        BY <4>1 DEF AtMost, Elapsed
      <4> QED BY <2>2, <3>1, <3>4, <4>2, <4>3
    <3> QED BY <3>3, <3>4
  <2> QED BY <2>1, <2>2
<1> QED BY <1>1, <1>3, <1>4, <1>5, <1>6, <1>7 DEF DeviceInv

\* The keys are all up after Init.
LEMMA InitDevice == Init => DeviceInv
<1> SUFFICES ASSUME Init PROVE DeviceInv
  OBVIOUS
<1>1. Released \in Context /\ ~Released.Repeat /\ ~Released.Longpress /\ Released.State = "RELEASED"
  BY DEF Released, Context, LongpressTime
<1>2. \A k \in Key : ctx[k] = Released /\ ~held[k] /\ ~told[k]
  BY DEF Init
<1>3. TypeOK
  <2>1. 0 \in 0 .. Len(KeyList) /\ 0 \in 0 .. LongpressTime
    BY DEF KeyList, LongpressTime
  <2>2. ctx \in [Key -> Context] /\ gap \in [Key -> 0 .. LongpressTime]
    BY <1>1, <2>1 DEF Init
  <2> QED BY <2>1, <2>2 DEF Init, TypeOK
<1>4. FlagsMatchState /\ SilentPressHadCompany /\ RepeatsCount
  BY <1>1, <1>2 DEF FlagsMatchState, SilentPressHadCompany, RepeatsCount
<1>5. BitsMatchLevels
  BY <1>2, KeyCodes DEF Init, BitsMatchLevels
<1>6. ToldMatchesState
  BY <1>1, <1>2, KeyCodes DEF ToldMatchesState
<1> QED BY <1>3, <1>4, <1>5, <1>6 DEF DeviceInv

\* A reset forgets the presses but not the bits, which still are the levels.
LEMMA ResetInv == DeviceInv /\ Reset => DeviceInv'
<1> SUFFICES ASSUME DeviceInv, Reset PROVE DeviceInv'
  OBVIOUS
<1>1. Released \in Context /\ ~Released.Repeat /\ ~Released.Longpress /\ Released.State = "RELEASED"
  BY DEF Released, Context, LongpressTime
<1>2. /\ \A k \in Key : ctx'[k] = Released /\ ~told'[k]
      /\ ctx' \in [Key -> Context] /\ told' \in [Key -> BOOLEAN]
      /\ scanBits' = scanBits /\ charBits' = charBits /\ held' = held /\ report' = ResetDone
      /\ user' = user /\ delta' = delta /\ ix' = ix
  BY <1>1 DEF Reset
<1>3. gap' \in [Key -> 0 .. LongpressTime] /\ alone' \in [Key -> BOOLEAN]
  BY DEF Reset, LongpressTime
<1>4. TypeOK'
  BY <1>2, <1>3 DEF DeviceInv, TypeOK
<1>5. FlagsMatchState' /\ SilentPressHadCompany' /\ RepeatsCount'
  BY <1>1, <1>2 DEF FlagsMatchState, SilentPressHadCompany, RepeatsCount
<1>6. BitsMatchLevels'
  BY <1>2 DEF DeviceInv, BitsMatchLevels
<1>7. ToldMatchesState'
  BY <1>1, <1>2, KeyCodes DEF ToldMatchesState
<1> QED BY <1>4, <1>5, <1>6, <1>7 DEF DeviceInv

\* Steps that leave the keys alone.
LEMMA DeviceFrame ==
  ASSUME DeviceInv, UNCHANGED <<user, ctx, scanBits, charBits, history>>,
         ix' \in 0 .. Len(KeyList), delta' \in user.deltas,
         report' \in Key \cup Combos \cup {None, ResetDone}
  PROVE  DeviceInv'
<1>1. /\ user' = user /\ ctx' = ctx /\ scanBits' = scanBits /\ charBits' = charBits
      /\ held' = held /\ told' = told /\ gap' = gap /\ alone' = alone
  BY DEF history
<1>2. TypeOK'
  BY <1>1 DEF DeviceInv, TypeOK
<1>3. FlagsMatchState' /\ SilentPressHadCompany' /\ BitsMatchLevels'
  BY <1>1 DEF DeviceInv, FlagsMatchState, SilentPressHadCompany, BitsMatchLevels
<1>4. ToldMatchesState' /\ RepeatsCount'
  BY <1>1 DEF DeviceInv, ToldMatchesState, RepeatsCount
<1> QED BY <1>2, <1>3, <1>4 DEF DeviceInv

\* Every step of the keys keeps the invariant.
LEMMA NextInv == DeviceInv /\ [Next]_vars => DeviceInv'
<1> SUFFICES ASSUME DeviceInv, [Next]_vars PROVE DeviceInv'
  OBVIOUS
<1>1. CASE \E e \in user.deltas : BeginPoll(e)
  <2>1. Len(KeyList) = 7
    BY DEF KeyList
  <2> QED BY <1>1, <2>1, DeviceFrame DEF BeginPoll
<1>2. CASE \E k \in Key, down \in BOOLEAN : ScanKey(k, down)
  BY <1>2, ScanInv
<1>3. CASE Reset
  BY <1>3, ResetInv
<1>4. CASE UNCHANGED vars
  BY <1>4, DeviceFrame DEF vars, device, DeviceInv, TypeOK
<1> QED BY <1>1, <1>2, <1>3, <1>4 DEF Next, Poll

\* What the keys remember, in every behaviour.
LEMMA DeviceInvariance == Spec => []DeviceInv
<1>1. Init => DeviceInv
  BY InitDevice
<1>2. DeviceInv /\ [Next]_vars => DeviceInv'
  BY NextInv
<1> QED BY <1>1, <1>2, PTL DEF Spec

\* LibKeyUpdateKeyStatus keeps each key's flags in step with its state, and a long
\* press of a scan-code key stays silent only if a soft key was down during it,
\* for every set of pressed keys and every distance between polls.
THEOREM KeysAreConsistent == Spec => []KeysConsistent
<1>1. DeviceInv => KeysConsistent
  BY DEF DeviceInv, KeysConsistent
<1> QED BY <1>1, DeviceInvariance, PTL

-----------------------------------------------------------------------------
\* What one look at a key reports was pressed.
LEMMA ScanReports ==
  ASSUME DeviceInv, NEW k \in Key, NEW down \in BOOLEAN, ScanKey(k, down)
  PROVE  /\ report' \in Combos \cup {"Dial"} => ~told["Dial"]
         /\ ctx["Dial"].State # "RELEASED" /\ ctx'["Dial"].State = "RELEASED"
              => told["Dial"]
         /\ report' = "PowerDown" => held'["VolDown"]
         /\ report' = "PowerUp" => held'["VolUp"] /\ ~held'["VolDown"]
         /\ report' = "PowerLongpress" => ~held'["VolUp"] /\ ~held'["VolDown"]
         /\ \A j \in Key : report' = j /\ told[j] => gap[j] + delta >= RepeatTime
<1> DEFINE c == ctx[k]
           d == ctx'[k]
           r == report'
<1>1. /\ KeyMoves(k, c, d, r) /\ BitsMatchLevels' /\ ctx' \in [Key -> Context]
      /\ \A j \in Key : j # k => ctx'[j] = ctx[j]
  BY ScanStep
<1>2. /\ \A j \in Key : told[j] => ctx[j].Longpress \/ ctx[j].State = "LONGPRESS_RELEASE"
      /\ ctx["Dial"].Longpress \/ ctx["Dial"].State = "LONGPRESS_RELEASE" => told["Dial"]
      /\ ~ctx["Dial"].Repeat
      /\ \A j \in Key : ctx[j].Longpress => ctx[j].State = "PRESSED"
      /\ \A j \in Key : ctx[j].Repeat => gap[j] = ctx[j].Time
  BY DEF DeviceInv, ToldMatchesState, FlagsMatchState, RepeatsCount
<1>3. None \notin Combos /\ None \notin Key /\ (\A j \in Key : j \notin Combos)
  BY DEF None, Combos, Key
<1>4. ASSUME r \in Combos \cup {"Dial"} PROVE ~told["Dial"]
  <2>1. k = "Dial" /\ r # None
    BY <1>1, <1>3, <1>4, KeyCodes DEF KeyMoves
  <2>2. c.State = "PRESSED" /\ ~c.Longpress
    BY <1>1, <1>2, <2>1 DEF KeyMoves
  <2> QED BY <1>2, <2>1, <2>2
<1>5. ASSUME ctx["Dial"].State # "RELEASED", ctx'["Dial"].State = "RELEASED" PROVE told["Dial"]
  <2>1. k = "Dial"
    BY <1>1, <1>5, KeyCodes
  <2>2. c.State \in {"PRESSED", "LONGPRESS_RELEASE"}
    BY <1>5, <2>1 DEF DeviceInv, TypeOK, Context
  <2>3. c.Longpress \/ c.State = "LONGPRESS_RELEASE"
    BY <1>1, <1>5, <2>1, <2>2 DEF KeyMoves
  <2> QED BY <1>2, <2>1, <2>3
<1>6. /\ r = "PowerDown" => held'["VolDown"]
      /\ r = "PowerUp" => held'["VolUp"] /\ ~held'["VolDown"]
      /\ r = "PowerLongpress" => ~held'["VolUp"] /\ ~held'["VolDown"]
  <2>1. r \in Combos => ComboFits(r)
    BY <1>1 DEF KeyMoves
  <2>2. /\ ScanIsDown(ScanUp) <=> held'["VolUp"]
        /\ ScanIsDown(ScanDown) <=> held'["VolDown"]
    BY <1>1 DEF BitsMatchLevels, ScanIsDown
  <2> QED BY <2>1, <2>2 DEF ComboFits, Combos
<1>7. ASSUME NEW j \in Key, r = j, told[j] PROVE gap[j] + delta >= RepeatTime
  <2>1. j = k /\ r # None /\ r \notin Combos
    BY <1>1, <1>3, <1>7 DEF KeyMoves
  <2>2. c.State = "PRESSED" /\ c.Longpress
    BY <1>1, <1>2, <1>7, <2>1 DEF KeyMoves
  <2>3. c.Repeat /\ Elapsed(k) >= RepeatTime
    BY <1>1, <2>1, <2>2 DEF KeyMoves
  <2>4. gap[k] = c.Time
    BY <1>2, <2>3
  <2>5. gap[k] \in Nat /\ delta \in Nat
    BY UsersAssumption DEF UsersAssumption, DeviceInv, TypeOK
  <2>6. Elapsed(k) = IF gap[k] + delta < LongpressTime THEN gap[k] + delta ELSE LongpressTime
    BY <2>4 DEF Elapsed
  <2>7. gap[k] + delta >= RepeatTime
    BY <2>3, <2>5, <2>6 DEF RepeatTime, LongpressTime
  <2> QED BY <2>1, <2>7
<1> QED BY <1>4, <1>5, <1>6, <1>7

\* So does every step.
LEMMA StepReports ==
  ASSUME DeviceInv, [Next]_vars
  PROVE  [/\ report' \in Combos \cup {"Dial"} => ~told["Dial"]
          /\ ctx["Dial"].State # "RELEASED" /\ ctx'["Dial"].State = "RELEASED"
               => told["Dial"] \/ report' = ResetDone
          /\ report' = "PowerDown" => held'["VolDown"]
          /\ report' = "PowerUp" => held'["VolUp"] /\ ~held'["VolDown"]
          /\ report' = "PowerLongpress" => ~held'["VolUp"] /\ ~held'["VolDown"]
          /\ \A j \in Key : report' = j /\ told[j] => gap[j] + delta >= RepeatTime]_vars
<1>1. None \notin Combos \cup Key /\ ResetDone \notin Combos \cup Key /\ "Dial" \in Key
  BY DEF None, ResetDone, Combos, Key
<1>2. "PowerDown" \in Combos /\ "PowerUp" \in Combos /\ "PowerLongpress" \in Combos
  BY DEF Combos
<1>3. CASE \E e \in user.deltas : BeginPoll(e)
  <2>1. report' = None /\ ctx' = ctx
    BY <1>3 DEF BeginPoll
  <2> QED BY <1>1, <1>2, <2>1
<1>4. CASE \E k \in Key, down \in BOOLEAN : ScanKey(k, down)
  BY <1>4, ScanReports
<1>5. CASE Reset
  <2>1. report' = ResetDone
    BY <1>5 DEF Reset
  <2> QED BY <1>1, <1>2, <2>1
<1>6. CASE UNCHANGED vars
  BY <1>6
<1> QED BY <1>3, <1>4, <1>5, <1>6 DEF Next, Poll

\* A press of Dial reports one key and never two, a combination is what the
\* levels of its poll say, and no key repeats before its time, for every set of
\* pressed keys and every distance between polls.
THEOREM ReportsArePresses == Spec => ReportsMeanPresses
<1>1. DeviceInv /\ [Next]_vars =>
        [/\ report' \in Combos \cup {"Dial"} => ~told["Dial"]
         /\ ctx["Dial"].State # "RELEASED" /\ ctx'["Dial"].State = "RELEASED"
              => told["Dial"] \/ report' = ResetDone]_vars
  BY StepReports
<1>2. DeviceInv /\ [Next]_vars =>
        [/\ report' = "PowerDown" => held'["VolDown"]
         /\ report' = "PowerUp" => held'["VolUp"] /\ ~held'["VolDown"]
         /\ report' = "PowerLongpress" => ~held'["VolUp"] /\ ~held'["VolDown"]]_vars
  BY StepReports
<1>3. DeviceInv /\ [Next]_vars =>
        [\A k \in Key : report' = k /\ told[k] => gap[k] + delta >= RepeatTime]_vars
  BY StepReports
<1> QED BY <1>1, <1>2, <1>3, DeviceInvariance, PTL
    DEF Spec, ReportsMeanPresses, DialReportsOnce, ComboMatchesKeys, RepeatsKeepDistance

-----------------------------------------------------------------------------
(* The light: it never outlives its timer, however long the time is and     *)
(* however many timers were cancelled too late or given up.                 *)

\* The timer of the last press is among the armed ones, so that cancelling it
\* takes away a timer that is there ...
CurrentIsArmed == current > 0 => armed[current] > 0

\* ... and it was armed when a key was last seen down.
CurrentKeepsTime == current > 0 => since + current = Hold

LightInv == LedTypeOK /\ CurrentIsArmed /\ CurrentKeepsTime /\ LightHasTimer

\* What a cancel leaves is a count of timers again: it takes the timer of the
\* last press away only where CurrentIsArmed finds one.
LEMMA AfterCancelType ==
  ASSUME LightInv PROVE AfterCancel \in [1 .. Hold -> 0 .. MaxTimers]
<1> USE HoldAssumption, MaxTimersAssumption DEF HoldAssumption, MaxTimersAssumption
<1>1. CASE timerRunning /\ current > 0
  <2>1. current \in 1 .. Hold /\ armed[current] \in 1 .. MaxTimers
    BY <1>1 DEF LightInv, LedTypeOK, CurrentIsArmed
  <2>2. armed[current] - 1 \in 0 .. MaxTimers
    BY <2>1
  <2> QED BY <1>1, <2>1, <2>2 DEF LightInv, LedTypeOK, AfterCancel
<1>2. CASE ~(timerRunning /\ current > 0)
  BY <1>2 DEF LightInv, LedTypeOK, AfterCancel
<1> QED BY <1>1, <1>2

\* No light, no timer, no notification: the module's initial state.
LEMMA LightFirst == LedInit => LightInv
<1> SUFFICES ASSUME LedInit PROVE LightInv
  OBVIOUS
<1> USE HoldAssumption, MaxTimersAssumption DEF HoldAssumption, MaxTimersAssumption
<1>1. LedTypeOK
  <2>1. 0 \in 0 .. MaxTimers /\ 0 \in 0 .. Hold /\ Hold + 1 \in 0 .. Hold + 1
    OBVIOUS
  <2>2. armed \in [1 .. Hold -> 0 .. MaxTimers]
    BY <2>1 DEF LedInit
  <2> QED BY <2>1, <2>2 DEF LedInit, LedTypeOK
<1>2. CurrentIsArmed /\ CurrentKeepsTime /\ LightHasTimer
  BY DEF LedInit, CurrentIsArmed, CurrentKeepsTime, LightHasTimer
<1> QED BY <1>1, <1>2 DEF LightInv

\* A press arms a timer for the full time, after cancelling the last one.
LEMMA EnableInv == LightInv /\ EnableKeypadLedWithTimer => LightInv'
<1> SUFFICES ASSUME LightInv, EnableKeypadLedWithTimer PROVE LightInv'
  OBVIOUS
<1> USE HoldAssumption, MaxTimersAssumption DEF HoldAssumption, MaxTimersAssumption
<1>1. AfterCancel \in [1 .. Hold -> 0 .. MaxTimers]
  BY AfterCancelType
<1>2. armed' = [AfterCancel EXCEPT ![Hold] = @ + 1] /\ current' = Hold
  BY DEF EnableKeypadLedWithTimer, LedTime
<1>3. AfterCancel[Hold] \in 0 .. MaxTimers /\ Hold \in 1 .. Hold
  BY <1>1
<1>4. armed' \in [1 .. Hold -> Nat] /\ armed'[Hold] = AfterCancel[Hold] + 1
  BY <1>1, <1>2, <1>3
<1>5. armed' \in [1 .. Hold -> 0 .. MaxTimers]
  BY <1>4 DEF EnableKeypadLedWithTimer
<1>6. LedTypeOK'
  BY <1>2, <1>5 DEF LightInv, LedTypeOK, EnableKeypadLedWithTimer
<1>7. CurrentIsArmed'
  BY <1>2, <1>3, <1>4 DEF CurrentIsArmed
<1>8. CurrentKeepsTime' /\ LightHasTimer'
  BY <1>2 DEF CurrentKeepsTime, LightHasTimer, EnableKeypadLedWithTimer
<1> QED BY <1>6, <1>7, <1>8 DEF LightInv

\* The notification puts the light out and leaves the timers alone.
LEMMA DisableInv == LightInv /\ DisableKeyPadLed => LightInv'
<1> SUFFICES ASSUME LightInv, DisableKeyPadLed PROVE LightInv'
  OBVIOUS
<1> USE HoldAssumption, MaxTimersAssumption DEF HoldAssumption, MaxTimersAssumption
<1>1. LedTypeOK'
  <2>1. queued' \in 0 .. MaxTimers
    BY DEF LightInv, LedTypeOK, DisableKeyPadLed
  <2> QED BY <2>1 DEF LightInv, LedTypeOK, DisableKeyPadLed
<1>2. CurrentIsArmed' /\ CurrentKeepsTime' /\ LightHasTimer'
  BY DEF LightInv, CurrentIsArmed, CurrentKeepsTime, LightHasTimer, DisableKeyPadLed
<1> QED BY <1>1, <1>2 DEF LightInv

\* When the last press's timer expires, its notification is queued.
LEMMA TickInv == LightInv /\ CoreTimerTick => LightInv'
<1> SUFFICES ASSUME LightInv, CoreTimerTick PROVE LightInv'
  OBVIOUS
<1> USE HoldAssumption, MaxTimersAssumption DEF HoldAssumption, MaxTimersAssumption
<1>1. armed[1] \in 0 .. MaxTimers
  BY DEF LightInv, LedTypeOK
<1>2. armed' \in [1 .. Hold -> 0 .. MaxTimers]
  BY DEF LightInv, LedTypeOK, CoreTimerTick
<1>3. LedTypeOK'
  BY <1>1, <1>2 DEF LightInv, LedTypeOK, CoreTimerTick
<1>4. CurrentIsArmed'
  <2> SUFFICES ASSUME current' > 0 PROVE armed'[current'] > 0
    BY DEF CurrentIsArmed
  <2>1. current \in 2 .. Hold /\ current' = current - 1
    BY DEF LightInv, LedTypeOK, CoreTimerTick
  <2>2. armed'[current - 1] = armed[current]
    BY <2>1 DEF CoreTimerTick
  <2> QED BY <2>1, <2>2 DEF LightInv, CurrentIsArmed
<1>5. CurrentKeepsTime'
  BY DEF LightInv, LedTypeOK, CurrentKeepsTime, CoreTimerTick
<1>6. LightHasTimer'
  <2> SUFFICES ASSUME led', ~(queued' > 0) PROVE current' > 0 /\ timerRunning'
    BY DEF LightHasTimer
  <2>1. queued = 0 /\ armed[1] = 0 /\ led
    BY <1>1 DEF LightInv, LedTypeOK, CoreTimerTick
  <2>2. current > 0 /\ timerRunning
    BY <2>1 DEF LightInv, LightHasTimer
  <2>3. current # 1
    BY <2>1, <2>2 DEF LightInv, CurrentIsArmed
  <2> QED BY <2>2, <2>3 DEF LightInv, LedTypeOK, CoreTimerTick
<1> QED BY <1>3, <1>4, <1>5, <1>6 DEF LightInv

\* Leaving the boot services puts the light out.
LEMMA ExitInv == LightInv /\ ExitBootServices => LightInv'
BY HoldAssumption, MaxTimersAssumption
DEF HoldAssumption, MaxTimersAssumption, LightInv, LedTypeOK, CurrentIsArmed, CurrentKeepsTime,
  LightHasTimer, ExitBootServices

\* LightInv is inductive.
LEMMA LightNext == LightInv /\ [LedNext]_ledVars => LightInv'
<1> SUFFICES ASSUME LightInv, [LedNext]_ledVars PROVE LightInv'
  OBVIOUS
<1>1. CASE EnableKeypadLedWithTimer
  BY <1>1, EnableInv
<1>2. CASE DisableKeyPadLed
  BY <1>2, DisableInv
<1>3. CASE CoreTimerTick
  BY <1>3, TickInv
<1>4. CASE ExitBootServices
  BY <1>4, ExitInv
<1>5. CASE UNCHANGED ledVars
  BY <1>5 DEF ledVars, LightInv, LedTypeOK, CurrentIsArmed, CurrentKeepsTime, LightHasTimer
<1> QED BY <1>1, <1>2, <1>3, <1>4, <1>5 DEF LedNext

\* The invariant holds throughout.
LEMMA LightInvariance == LedSpec => []LightInv
BY LightFirst, LightNext, PTL DEF LedSpec

\* The timer that the driver would cancel, the last it armed, is among the armed
\* ones and has what is left of the five seconds since the last press: a cancel
\* never takes away an older timer's count (KeypadDeviceImplLib.c:230-246).
THEOREM LastTimerIsArmed == LedSpec => [](CurrentIsArmed /\ CurrentKeepsTime)
<1>1. LightInv => CurrentIsArmed /\ CurrentKeepsTime
  BY DEF LightInv
<1> QED BY <1>1, LightInvariance, PTL

\* A lit light is always on the way out (KeypadDeviceImplLib.c:219-250).
THEOREM LightIsTimed == LedSpec => []LightHasTimer
<1>1. LightInv => LightHasTimer
  BY DEF LightInv
<1> QED BY <1>1, LightInvariance, PTL

\* Five seconds after the last press the light is out or about to be put out.
THEOREM DarkAfterHold == LedSpec => []DarkWhenIdle
<1>1. LightInv => DarkWhenIdle
  <2> SUFFICES ASSUME LightInv, led, since >= Hold, ~(queued > 0) PROVE FALSE
    BY DEF DarkWhenIdle
  <2>1. current > 0 /\ since + current = Hold
    BY DEF LightInv, LightHasTimer, CurrentKeepsTime
  <2> QED BY <2>1, HoldAssumption DEF HoldAssumption, LightInv, LedTypeOK
<1> QED BY <1>1, LightInvariance, PTL
=============================================================================
